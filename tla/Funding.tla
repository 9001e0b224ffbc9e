------------------------------- MODULE Funding -------------------------------
(***************************************************************************)
(* Customer funding with manual verification: customers ask to recharge    *)
(* their wallet (money sent through bKash, Nagad or a bank) or to withdraw *)
(* from it, and staff approve or reject every request                      *)
(* (wallet/services/funding.py).  The same wallets are debited for meals   *)
(* and fees and credited with referral commission through                  *)
(* debit_wallet/credit_wallet (wallet/services/ledger.py), and every       *)
(* approved request moves the platform wallet as well                      *)
(* (admin_wallet/services/ingestion.py).                                   *)
(*                                                                         *)
(* A service function is one database transaction that locks the rows it   *)
(* reads and writes (SELECT ... FOR UPDATE), so most of them are one       *)
(* action.  request_recharge is the exception: under the lock of its own   *)
(* wallet it reads the requests of ALL wallets to see whether the          *)
(* provider's reference was used, and only then inserts its row.  Its two  *)
(* halves are two actions, and session[c] says that a worker holds the     *)
(* lock of wallet c in between: every action that needs this lock waits.   *)
(***************************************************************************)
EXTENDS WalletLedger, AdminLedger, FiniteSets

CONSTANTS
  Customers,       (* Customers; each has one wallet.                      *)
  TxnIds,          (* Primary keys of WalletTransaction rows.              *)
  Refs,            (* Payment ids of a provider: (method, external_ref).   *)
  ClientKeys,      (* Idempotency keys that apps send with a request.      *)
  Events,          (* What wallets are charged for: deliveries, fees.      *)
  Amounts,         (* Amounts of requests, charges and platform movements. *)
  MinRecharge,     (* OrderWalletSettings.minimum_recharge_amount.         *)
  Reserves,        (* What a withdrawal must leave: the meal-stop          *)
                   (* threshold or the finalized meal liability.           *)
  StaffKeys,       (* Keys of movements that staff enter by hand.          *)
  NoKey, NoRef, NoCustomer, NoRequest

ASSUME FundingAssumption ==
  /\ Amounts \subseteq Nat \ {0}
  /\ MinRecharge \in Nat
  /\ Reserves \subseteq Nat
  /\ NoRef \notin Refs
  /\ NoCustomer \notin Customers
  /\ NoRequest \notin [amount : Amounts, ref : Refs, key : ClientKeys \cup {NoKey}]

\* The keys that the services build from what they charge or pay for.
MealKey(e)     == <<"meal-delivery", e>>
ReferralKey(e) == <<"referral-commission", e>>

Keys == ClientKeys \cup {MealKey(e) : e \in Events}
                   \cup {ReferralKey(e) : e \in Events} \cup {NoKey}

\* The same for the transactions of the platform wallet.
RechargeKey(i)   == <<"customer-recharge", i>>
WithdrawKey(i)   == <<"customer-withdraw", i>>
CommissionKey(e) == <<"admin-referral-commission", e>>
StaffKey(k)      == <<"staff", k>>

ASSUME AdminKeysAssumption ==
  AdminKeys = {RechargeKey(i) : i \in TxnIds} \cup {WithdrawKey(i) : i \in TxnIds}
              \cup {CommissionKey(e) : e \in Events} \cup {StaffKey(k) : k \in StaffKeys}

VARIABLES
  wallet,          (* The wallet row of every customer.                    *)
  txn,             (* The WalletTransaction row of every primary key.      *)
  session          (* A recharge request between its check and its insert. *)

vars == <<wallet, txn, session, adminVars>>

Requests == [amount : Amounts, ref : Refs, key : ClientKeys \cup {NoKey}]

NoRow == [status |-> "absent", type |-> "none", customer |-> NoCustomer,
          amount |-> 0, ref |-> NoRef, key |-> NoKey]

Rows == [status   : {"pending", "completed", "failed"},
         type     : {"recharge", "withdraw", "payment", "referral_commission"},
         customer : Customers,
         amount   : Amounts,
         ref      : Refs \cup {NoRef},
         key      : Keys]

TypeOK ==
  /\ wallet \in [Customers -> Wallets]
  /\ txn \in [TxnIds -> Rows \cup {NoRow}]
  /\ session \in [Customers -> Requests \cup {NoRequest}]
  /\ AdminTypeOK

Init ==
  /\ wallet = [c \in Customers |-> NewWallet]
  /\ txn = [i \in TxnIds |-> NoRow]
  /\ session = [c \in Customers |-> NoRequest]
  /\ AdminInit

-----------------------------------------------------------------------------
\* Reads and writes of WalletTransaction rows

Stored == {i \in TxnIds : txn[i].status # "absent"}

RowsWithKey(c, key) == {i \in Stored : txn[i].customer = c /\ txn[i].key = key}

\* A new row is wanted: there is no key, or the lookup found no row with it.
FreshKey(c, key) == key = NoKey \/ RowsWithKey(c, key) = {}

\* The live recharges that own a provider reference: rejecting a request
\* gives its reference back.
LiveWithRef(ref) == {i \in Stored : /\ txn[i].type = "recharge"
                                    /\ txn[i].ref = ref
                                    /\ txn[i].status \in {"pending", "completed"}}

\* Mutant: no unique constraint on provider references.
UniqueConstraints_KeyOnly(row) == FreshKey(row.customer, row.key)

\* The two unique constraints of WalletTransaction, checked by the insert.
UniqueConstraints(row) ==
  /\ FreshKey(row.customer, row.key)
  /\ row.ref # NoRef => LiveWithRef(row.ref) = {}

InsertTxn(i, row) ==
  /\ txn[i] = NoRow
  /\ UniqueConstraints(row)
  /\ txn' = [txn EXCEPT ![i] = row]

\* No other worker holds the row lock of the wallet.
Lockable(c) == session[c] = NoRequest

\* Mutant: nobody asks whether the wallet is frozen.
IsActive_Unchecked(c) == TRUE

IsActive(c) == wallet[c].status = "active"

-----------------------------------------------------------------------------
\* Requests of customers

\* request_recharge up to the insert.  A request whose key is already used
\* returns the stored row and changes nothing, so it is not an action.
CheckRecharge(c, amount, ref, key) ==
  /\ Lockable(c)
  /\ amount >= MinRecharge
  /\ FreshKey(c, key)
  /\ IsActive(c)
  /\ LiveWithRef(ref) = {}
  /\ session' = [session EXCEPT ![c] = [amount |-> amount, ref |-> ref, key |-> key]]
  /\ UNCHANGED <<wallet, txn, adminVars>>

\* The insert and the commit; no balance changes.
InsertRecharge(c, i) ==
  /\ session[c] # NoRequest
  /\ InsertTxn(i, [status |-> "pending", type |-> "recharge", customer |-> c,
                   amount |-> session[c].amount, ref |-> session[c].ref,
                   key |-> session[c].key])
  /\ session' = [session EXCEPT ![c] = NoRequest]
  /\ UNCHANGED <<wallet, adminVars>>

\* The constraint refuses the row, or the worker dies: all is rolled back.
AbortRecharge(c) ==
  /\ session[c] # NoRequest
  /\ session' = [session EXCEPT ![c] = NoRequest]
  /\ UNCHANGED <<wallet, txn, adminVars>>

\* Mutant: the whole balance can be withdrawn, commission first.
RequestWithdraw_AnyBucket(c, i, amount, key) ==
  /\ Lockable(c) /\ FreshKey(c, key) /\ IsActive(c)
  /\ \E reserve \in Reserves : amount <= Balance(wallet[c]) - reserve
  /\ InsertTxn(i, [status |-> "pending", type |-> "withdraw", customer |-> c,
                   amount |-> amount, ref |-> NoRef, key |-> key])
  /\ wallet' = [wallet EXCEPT ![c] = ApplyDebit(@, amount, "commission_first")]
  /\ UNCHANGED <<session, adminVars>>

\* request_withdraw: the amount leaves the wallet when it is asked for and is
\* held until staff review the request.  The reserve is read without a lock
\* from the subscriptions and deliveries, which other modules describe.
RequestWithdraw(c, i, amount, key) ==
  /\ Lockable(c)
  /\ FreshKey(c, key)
  /\ IsActive(c)
  /\ \E reserve \in Reserves : amount <= MaximumWithdrawable(wallet[c], reserve)
  /\ InsertTxn(i, [status |-> "pending", type |-> "withdraw", customer |-> c,
                   amount |-> amount, ref |-> NoRef, key |-> key])
  /\ wallet' = [wallet EXCEPT ![c] = ApplyDebit(@, amount, "recharge_only")]
  /\ UNCHANGED <<session, adminVars>>

-----------------------------------------------------------------------------
\* Reviews by staff

\* Mutant: a rejected request can be reviewed again.
Reviewable_FailedToo(i, type) ==
  /\ txn[i].type = type
  /\ txn[i].status \in {"pending", "failed"}
  /\ Lockable(txn[i].customer)

\* The row lock of the request makes its type and status checks current.
Reviewable(i, type) ==
  /\ txn[i].type = type
  /\ txn[i].status = "pending"
  /\ Lockable(txn[i].customer)

SetStatus(i, status) == txn' = [txn EXCEPT ![i].status = status]

CreditRecharge(c, amount) ==
  /\ FitsColumn(ApplyCredit(wallet[c], amount, "recharge"))
  /\ wallet' = [wallet EXCEPT ![c] = ApplyCredit(@, amount, "recharge")]

\* Mutant: the platform wallet is not credited.
ApproveRecharge_NoCustody(i) ==
  /\ Reviewable(i, "recharge")
  /\ CreditRecharge(txn[i].customer, txn[i].amount)
  /\ SetStatus(i, "completed")
  /\ UNCHANGED <<session, adminVars>>

\* A review does not ask whether the wallet is frozen.
ApproveRecharge(i) ==
  /\ Reviewable(i, "recharge")
  /\ CreditRecharge(txn[i].customer, txn[i].amount)
  /\ SetStatus(i, "completed")
  /\ CreditAdminWallet("customer_funding", txn[i].amount, RechargeKey(i))
  /\ UNCHANGED session

RejectRecharge(i) ==
  /\ Reviewable(i, "recharge")
  /\ SetStatus(i, "failed")
  /\ UNCHANGED <<wallet, session, adminVars>>

\* Mutant: a float shortfall is logged and not raised.
ApproveWithdraw_IgnoreShortfall(i) ==
  /\ Reviewable(i, "withdraw")
  /\ SetStatus(i, "completed")
  /\ IF txn[i].amount > admin.balance
     THEN UNCHANGED adminVars
     ELSE DebitAdminWallet("customer_withdraw", txn[i].amount, WithdrawKey(i))
  /\ UNCHANGED <<wallet, session>>

\* A platform balance below the amount raises PlatformFloatError: the whole
\* transaction is rolled back and the request stays pending.
ApproveWithdraw(i) ==
  /\ Reviewable(i, "withdraw")
  /\ SetStatus(i, "completed")
  /\ DebitAdminWallet("customer_withdraw", txn[i].amount, WithdrawKey(i))
  /\ UNCHANGED <<wallet, session>>

\* Mutant: the held amount is not given back.
RejectWithdraw_KeepsHold(i) ==
  /\ Reviewable(i, "withdraw")
  /\ SetStatus(i, "failed")
  /\ UNCHANGED <<wallet, session, adminVars>>

RejectWithdraw(i) ==
  /\ Reviewable(i, "withdraw")
  /\ CreditRecharge(txn[i].customer, txn[i].amount)
  /\ SetStatus(i, "failed")
  /\ UNCHANGED <<session, adminVars>>

-----------------------------------------------------------------------------
\* Charges and commission

Charged(e) == {i \in Stored : txn[i].key = MealKey(e)}

\* charge_delivered_meal and its like: debit_wallet under the lock of the
\* delivery, after the row with the key of the event was looked up.
ChargeWallet(c, i, e, amount) ==
  /\ Charged(e) = {}
  /\ Lockable(c)
  /\ IsActive(c)
  /\ amount <= Spendable(wallet[c], DefaultDebitStrategy("payment"))
  /\ InsertTxn(i, [status |-> "completed", type |-> "payment", customer |-> c,
                   amount |-> amount, ref |-> NoRef, key |-> MealKey(e)])
  /\ wallet' = [wallet EXCEPT
                  ![c] = ApplyDebit(@, amount, DefaultDebitStrategy("payment"))]
  /\ UNCHANGED <<session, adminVars>>

\* _apply_money_movement of the referral service: the platform wallet pays the
\* referrer c for a charged delivery of another customer, both in one
\* transaction.
PayCommission(c, i, e, amount) ==
  /\ \E j \in Charged(e) : txn[j].customer # c /\ amount <= txn[j].amount
  /\ \A j \in Stored : txn[j].key # ReferralKey(e)
  /\ DebitAdminWallet("referral_commission", amount, CommissionKey(e))
  /\ Lockable(c)
  /\ IsActive(c)
  /\ InsertTxn(i, [status |-> "completed", type |-> "referral_commission",
                   customer |-> c, amount |-> amount, ref |-> NoRef,
                   key |-> ReferralKey(e)])
  /\ LET credited == ApplyCredit(wallet[c], amount,
                                 DefaultCreditBucket("referral_commission"))
     IN  FitsColumn(credited) /\ wallet' = [wallet EXCEPT ![c] = credited]
  /\ UNCHANGED session

-----------------------------------------------------------------------------
\* Staff

\* Django admin: the only way a wallet is frozen or released.
SetWalletStatus(c, status) ==
  /\ Lockable(c)
  /\ wallet[c].status # status
  /\ wallet' = [wallet EXCEPT ![c].status = status]
  /\ UNCHANGED <<txn, session, adminVars>>

\* manual_deposit, withdraw, post_expense on the platform wallet.
StaffMovement(k, amount) ==
  /\ \/ CreditAdminWallet("manual_deposit", amount, StaffKey(k))
     \/ DebitAdminWallet("withdrawal", amount, StaffKey(k))
     \/ DebitAdminWallet("platform_expense", amount, StaffKey(k))
  /\ UNCHANGED <<wallet, txn, session>>

FreezePlatform(status) ==
  /\ SetAdminStatus(status)
  /\ UNCHANGED <<wallet, txn, session>>

-----------------------------------------------------------------------------
CustomerStep ==
  \E c \in Customers :
    \/ \E amount \in Amounts, ref \in Refs, key \in ClientKeys \cup {NoKey} :
         CheckRecharge(c, amount, ref, key)
    \/ \E i \in TxnIds : InsertRecharge(c, i)
    \/ AbortRecharge(c)
    \/ \E i \in TxnIds, amount \in Amounts, key \in ClientKeys \cup {NoKey} :
         RequestWithdraw(c, i, amount, key)

ReviewStep ==
  \E i \in TxnIds : \/ ApproveRecharge(i)
                    \/ RejectRecharge(i)
                    \/ ApproveWithdraw(i)
                    \/ RejectWithdraw(i)

LedgerStep ==
  \E c \in Customers, i \in TxnIds, e \in Events, amount \in Amounts :
    \/ ChargeWallet(c, i, e, amount)
    \/ PayCommission(c, i, e, amount)

StaffStep ==
  \/ \E c \in Customers, status \in WalletStatuses : SetWalletStatus(c, status)
  \/ \E k \in StaffKeys, amount \in Amounts : StaffMovement(k, amount)
  \/ \E status \in WalletStatuses : FreezePlatform(status)

Next == CustomerStep \/ ReviewStep \/ LedgerStep \/ StaffStep

Spec == Init /\ [][Next]_vars

-----------------------------------------------------------------------------
\* Properties

RowsOf(c, types, statuses) ==
  {i \in Stored : /\ txn[i].customer = c
                  /\ txn[i].type \in types
                  /\ txn[i].status \in statuses}

\* The amounts of some rows of a table, paisa by paisa, and their sum.
Paisa(table, ids) == UNION {{i} \X (1..table[i].amount) : i \in ids}

Total(ids) == Cardinality(Paisa(txn, ids))

Held(c) == Total(RowsOf(c, {"withdraw"}, {"pending"}))

\* The rows of a wallet explain its balance to the paisa: completed credits
\* less completed charges less the withdrawals that are held or paid out
\* (ledger.py, funding.py; the audit verify_wallet_balance_consistency and
\* the customer's statement rely on it).
LedgerExplainsBalance ==
  \A c \in Customers :
    Balance(wallet[c]) =
      Total(RowsOf(c, {"recharge", "referral_commission"}, {"completed"}))
      - Total(RowsOf(c, {"payment"}, {"completed"}))
      - Total(RowsOf(c, {"withdraw"}, {"pending", "completed"}))

\* Commission can be spent but never withdrawn (help text of
\* Wallet.commission_balance): over the whole life of a wallet, what was held
\* or paid out never exceeds what was recharged, whatever meals were paid.
CommissionNotWithdrawable ==
  \A c \in Customers :
    Total(RowsOf(c, {"withdraw"}, {"pending", "completed"}))
      <= Total(RowsOf(c, {"recharge"}, {"completed"}))

CustodyTypes == {"customer_funding", "customer_withdraw"}

CustodyRow(i) ==
  [key    |-> IF txn[i].type = "recharge" THEN RechargeKey(i) ELSE WithdrawKey(i),
   type   |-> IF txn[i].type = "recharge" THEN "customer_funding" ELSE "customer_withdraw",
   amount |-> txn[i].amount]

Approved == {i \in Stored : /\ txn[i].type \in {"recharge", "withdraw"}
                            /\ txn[i].status = "completed"}

\* The platform wallet holds one custody row of the same amount for every
\* approved request and none for any other: no review order, freeze or float
\* shortfall leaves the two ledgers apart (approve_recharge,
\* approve_withdraw, ingestion.py; audit_wallet_accounting).
CustodyMatchesReviews ==
  {r \in adminTxns : r.type \in CustodyTypes} = {CustodyRow(i) : i \in Approved}

\* A provider's payment id backs at most one live recharge over all wallets,
\* although two customers can pass the check of request_recharge together.
UniqueLiveRef ==
  \A i, j \in Stored :
    /\ txn[i].ref # NoRef
    /\ i \in LiveWithRef(txn[i].ref)
    /\ j \in LiveWithRef(txn[i].ref)
    => i = j

\* The step changes nothing of a stored row but the status of a pending request.
OnlyDecides ==
  \A i \in Stored : /\ [txn'[i] EXCEPT !.status = txn[i].status] = txn[i]
                   /\ txn[i].status # "pending" => txn'[i] = txn[i]

\* A decided request is never decided again, and no request changes what was
\* asked for, whatever two reviewers do at the same time.
ReviewIsFinal == [][OnlyDecides]_vars

\* While a wallet is frozen its money moves only as the outcome of a review
\* that was asked for before: _ensure_active guards everything else.
FrozenOnlyReviews ==
  [][\A c \in Customers :
       wallet[c].status = "frozen" /\ Balance(wallet'[c]) # Balance(wallet[c])
       => \E i \in RowsOf(c, {"recharge", "withdraw"}, {"pending"}) :
            txn'[i].status # "pending"]_vars
=============================================================================
