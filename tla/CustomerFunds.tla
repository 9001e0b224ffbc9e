---------------------------- MODULE CustomerFunds ----------------------------
(***************************************************************************)
(* What the funding service promises, without requests, locks, keys or     *)
(* references: a customer has claims on the platform.  Claims grow by a    *)
(* deposit that the platform wallet receives at the same moment or by      *)
(* commission that it pays, and shrink by a payout that it makes or by a   *)
(* charge.  Asking, holding, rejecting, retrying and freezing are nothing  *)
(* at this level: they may not change what a customer owns.                *)
(***************************************************************************)
EXTENDS Integers

CONSTANTS Customers, Amounts

VARIABLES
  claims,    (* Customer -> balance plus the withdrawals under review.     *)
  charged,   (* Customer -> all that was charged.                          *)
  earned,    (* Customer -> all commission that was credited.              *)
  funding,   (* What the platform wallet received for recharges.           *)
  payouts    (* What the platform wallet paid out for withdrawals.         *)

fundsVars == <<claims, charged, earned, funding, payouts>>

FundsInit ==
  /\ claims = [c \in Customers |-> 0]
  /\ charged = [c \in Customers |-> 0]
  /\ earned = [c \in Customers |-> 0]
  /\ funding = 0
  /\ payouts = 0

Deposit(c, amount) ==
  /\ claims' = [claims EXCEPT ![c] = @ + amount]
  /\ funding' = funding + amount
  /\ UNCHANGED <<charged, earned, payouts>>

Payout(c, amount) ==
  /\ amount <= claims[c]
  /\ claims' = [claims EXCEPT ![c] = @ - amount]
  /\ payouts' = payouts + amount
  /\ UNCHANGED <<charged, earned, funding>>

Charge(c, amount) ==
  /\ amount <= claims[c]
  /\ claims' = [claims EXCEPT ![c] = @ - amount]
  /\ charged' = [charged EXCEPT ![c] = @ + amount]
  /\ UNCHANGED <<earned, funding, payouts>>

Earn(c, amount) ==
  /\ claims' = [claims EXCEPT ![c] = @ + amount]
  /\ earned' = [earned EXCEPT ![c] = @ + amount]
  /\ UNCHANGED <<charged, funding, payouts>>

FundsNext ==
  \E c \in Customers, amount \in Amounts :
    Deposit(c, amount) \/ Payout(c, amount) \/ Charge(c, amount) \/ Earn(c, amount)

FundsSpec == FundsInit /\ [][FundsNext]_fundsVars
=============================================================================
