-------------------------- MODULE FundingRefinement --------------------------
(***************************************************************************)
(* Funding implements CustomerFunds.  The claims of a customer are the     *)
(* balance of the wallet and the withdrawals under review: request_withdraw*)
(* takes the amount out of the balance at once, but the customer does not  *)
(* lose it before staff pay it out.                                        *)
(***************************************************************************)
EXTENDS Funding

claims == [c \in Customers |-> Balance(wallet[c]) + Held(c)]

charged == [c \in Customers |-> Total(RowsOf(c, {"payment"}, {"completed"}))]

earned == [c \in Customers |-> Total(RowsOf(c, {"referral_commission"}, {"completed"}))]

Funds ==
  INSTANCE CustomerFunds WITH
    claims <- claims, charged <- charged, earned <- earned,
    funding <- admin.funding, payouts <- admin.payouts

\* Every step of the funding service is one step of CustomerFunds or leaves
\* all claims alone: a request, its rejection, a retry, a crash between check
\* and insert, a freeze or a movement of staff creates and destroys no money
\* of a customer, and an approval moves both ledgers in one step (funding.py).
ImplementsCustomerFunds == Funds!FundsSpec
=============================================================================
