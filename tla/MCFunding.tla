------------------------------ MODULE MCFunding ------------------------------
(* Instances of Funding and of its refinement for TLC.                      *)
EXTENDS FundingRefinement, TLC

MCAdminKeys ==
  {RechargeKey(i) : i \in TxnIds} \cup {WithdrawKey(i) : i \in TxnIds}
  \cup {CommissionKey(e) : e \in Events} \cup {StaffKey(k) : k \in StaffKeys}

\* Customers, rows, references and events are interchangeable.
Symmetry ==
  Permutations(Customers) \cup Permutations(TxnIds) \cup Permutations(Refs)
  \cup Permutations(Events)
=============================================================================
