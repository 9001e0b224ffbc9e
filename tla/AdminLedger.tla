----------------------------- MODULE AdminLedger -----------------------------
(***************************************************************************)
(* The platform ("admin") wallet: one row with its cash balance and the    *)
(* lifetime counters the dashboard reads, and an append-only list of       *)
(* transactions (admin_wallet/services/ledger.py).  Every movement locks   *)
(* the one wallet row before it reads anything, so a movement is one       *)
(* atomic action.                                                          *)
(*                                                                         *)
(* A transaction is identified here by its idempotency key.  The code also *)
(* accepts a movement without a key; since no lookup ever finds such a     *)
(* row, it is a movement with a key nobody uses again.                     *)
(***************************************************************************)
EXTENDS Integers

CONSTANTS
  MaxAdminBalance, (* Largest value of a numeric(14,2) column.             *)
  AdminKeys        (* Idempotency keys of platform transactions.           *)

ASSUME MaxAdminBalanceAssumption == MaxAdminBalance \in Nat

VARIABLES
  admin,           (* The platform wallet row.                             *)
  adminTxns        (* The AdminWalletTransaction rows.                     *)

adminVars == <<admin, adminTxns>>

CreditTypes ==
  {"customer_funding", "manual_deposit", "adjustment",
   "inventory_purchase_reversal", "referral_commission_reversal"}

ExpenseTypes ==
  {"platform_expense", "manual_adjustment", "inventory_purchase",
   "referral_commission"}

DebitTypes == {"withdrawal", "customer_withdraw"} \cup ExpenseTypes

AdminRows == [key    : AdminKeys,
              type   : CreditTypes \cup DebitTypes,
              amount : Nat \ {0}]

AdminTypeOK ==
  /\ admin \in [balance     : 0..MaxAdminBalance,
                received    : Nat,
                manual      : Nat,
                funding     : Nat,
                withdrawn   : Nat,
                payouts     : Nat,
                expenses    : Nat,
                status      : {"active", "frozen"}]
  /\ adminTxns \subseteq AdminRows

AdminInit ==
  /\ admin = [balance |-> 0, received |-> 0, manual |-> 0, funding |-> 0,
              withdrawn |-> 0, payouts |-> 0, expenses |-> 0,
              status |-> "active"]
  /\ adminTxns = {}

AdminRowsWithKey(key) == {r \in adminTxns : r.key = key}

\* _apply_lifetime_counters for a credit.  The reversal of an inventory
\* purchase is not income: it takes the amount out of the expenses, at most
\* down to zero.
CreditCounters(a, type, amount) ==
  IF type = "inventory_purchase_reversal"
  THEN [a EXCEPT !.expenses = IF @ > amount THEN @ - amount ELSE 0]
  ELSE [a EXCEPT
          !.received = @ + amount,
          !.manual   = @ + (IF type = "manual_deposit" THEN amount ELSE 0),
          !.funding  = @ + (IF type = "customer_funding" THEN amount ELSE 0)]

\* _apply_lifetime_counters for a debit.
DebitCounters(a, type, amount) ==
  CASE type = "withdrawal"        -> [a EXCEPT !.withdrawn = @ + amount]
    [] type = "customer_withdraw" -> [a EXCEPT !.payouts = @ + amount]
    [] OTHER                      -> [a EXCEPT !.expenses = @ + amount]

\* _find_idempotent_txn: a key that is already used names the movement that
\* was done, whatever its type; another amount is a conflict, which raises.
Replays(key, amount) ==
  /\ AdminRowsWithKey(key) # {}
  /\ \A r \in AdminRowsWithKey(key) : r.amount = amount

Credited(type, amount) ==
  [CreditCounters(admin, type, amount) EXCEPT !.balance = @ + amount]

Debited(type, amount) ==
  [DebitCounters(admin, type, amount) EXCEPT !.balance = @ - amount]

\* All amounts of the row are numeric(14,2) columns; the lifetime counters
\* only grow, so they reach the limit before the balance does.
FitsAdminColumns(a) ==
  /\ a.balance <= MaxAdminBalance
  /\ a.received <= MaxAdminBalance
  /\ a.withdrawn <= MaxAdminBalance
  /\ a.payouts <= MaxAdminBalance
  /\ a.expenses <= MaxAdminBalance

AppendRow(type, amount, key) ==
  adminTxns' = adminTxns \cup {[key |-> key, type |-> type, amount |-> amount]}

PostCredit(type, amount, key) ==
  /\ AdminRowsWithKey(key) = {}
  /\ FitsAdminColumns(Credited(type, amount))
  /\ admin' = Credited(type, amount)
  /\ AppendRow(type, amount, key)

PostDebit(type, amount, key) ==
  /\ AdminRowsWithKey(key) = {}
  /\ amount <= admin.balance
  /\ FitsAdminColumns(Debited(type, amount))
  /\ admin' = Debited(type, amount)
  /\ AppendRow(type, amount, key)

CreditAdminWallet(type, amount, key) ==
  /\ admin.status = "active"
  /\ \/ Replays(key, amount) /\ UNCHANGED adminVars
     \/ PostCredit(type, amount, key)

DebitAdminWallet(type, amount, key) ==
  /\ admin.status = "active"
  /\ \/ Replays(key, amount) /\ UNCHANGED adminVars
     \/ PostDebit(type, amount, key)

\* Django admin: the only way to freeze the platform wallet or to release it.
SetAdminStatus(status) ==
  /\ admin.status # status
  /\ admin' = [admin EXCEPT !.status = status]
  /\ UNCHANGED adminTxns
=============================================================================
