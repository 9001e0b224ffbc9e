---------------------------- MODULE WalletLedger ----------------------------
(***************************************************************************)
(* The customer wallet row and the pure arithmetic of the wallet ledger    *)
(* (wallet/services/ledger.py).  A wallet holds two buckets: money the     *)
(* customer recharged, which can be withdrawn, and referral commission,    *)
(* which can only be spent on meals and fees.  The stored column `balance` *)
(* is the sum of the two every time the code saves a wallet, so it is the  *)
(* operator Balance here and not a field.                                  *)
(*                                                                         *)
(* Amounts are integers: the code works on decimals with two digits, that  *)
(* is on whole paisa.                                                      *)
(***************************************************************************)
EXTENDS Integers

CONSTANT
  MaxBalance      (* Largest value of a numeric(12,2) balance column.      *)

ASSUME MaxBalanceAssumption == MaxBalance \in Nat

WalletStatuses == {"active", "frozen"}

Wallets == [recharge   : 0..MaxBalance,
            commission : 0..MaxBalance,
            status     : WalletStatuses]

\* What get_or_create_wallet inserts for a customer without a wallet.
NewWallet == [recharge |-> 0, commission |-> 0, status |-> "active"]

Balance(w) == w.recharge + w.commission

\* PostgreSQL refuses to save a value wider than the column: the whole
\* database transaction is then rolled back.
FitsColumn(w) == Balance(w) <= MaxBalance

Buckets == {"recharge", "commission"}

DefaultCreditBucket(type) ==
  IF type = "referral_commission" THEN "commission" ELSE "recharge"

ApplyCredit(w, amount, bucket) ==
  IF bucket = "commission"
  THEN [w EXCEPT !.commission = @ + amount]
  ELSE [w EXCEPT !.recharge = @ + amount]

Strategies == {"recharge_only", "commission_only", "commission_first"}

DefaultDebitStrategy(type) ==
  CASE type = "withdraw"                     -> "recharge_only"
    [] type = "referral_commission_reversal" -> "commission_only"
    [] OTHER                                 -> "commission_first"

\* The money a debit may use: more than this raises InsufficientFundsError.
Spendable(w, strategy) ==
  CASE strategy = "recharge_only"   -> w.recharge
    [] strategy = "commission_only" -> w.commission
    [] OTHER                        -> Balance(w)

\* Mutant: commission first, however much of it there is.
FromCommission_Unbounded(w, amount, strategy) ==
  IF strategy = "recharge_only" THEN 0 ELSE amount

\* The part of a debit that is taken from the commission bucket.
FromCommission(w, amount, strategy) ==
  CASE strategy = "recharge_only"   -> 0
    [] strategy = "commission_only" -> amount
    [] OTHER -> IF w.commission < amount THEN w.commission ELSE amount

ApplyDebit(w, amount, strategy) ==
  LET fromCommission == FromCommission(w, amount, strategy)
  IN  [w EXCEPT !.commission = @ - fromCommission,
                !.recharge   = @ - (amount - fromCommission)]

\* compute_maximum_withdrawable: the reserve is the meal-stop threshold of an
\* active subscriber, and otherwise the finalized meals still to be charged.
MaximumWithdrawable(w, reserve) ==
  IF w.recharge > reserve THEN w.recharge - reserve ELSE 0
=============================================================================
