---------------------------- MODULE FundingProofs ----------------------------
(***************************************************************************)
(* Theorems about Funding, its refinement and the wallet's form, for every *)
(* number of customers, rows, references, keys and amounts.                *)
(***************************************************************************)
EXTENDS BackOffice, FundingRefinement, FiniteSetTheorems, TLAPS

-----------------------------------------------------------------------------
\* The arithmetic of the wallet row

\* A debit within what its strategy may spend leaves both buckets a natural
\* number and takes exactly the amount (_apply_debit).
LEMMA DebitLemma ==
  ASSUME NEW w \in Wallets, NEW amount \in Nat, NEW strategy \in Strategies,
         amount <= Spendable(w, strategy)
  PROVE  /\ ApplyDebit(w, amount, strategy) \in Wallets
         /\ Balance(ApplyDebit(w, amount, strategy)) = Balance(w) - amount
<1> DEFINE f == FromCommission(w, amount, strategy)
           d == ApplyDebit(w, amount, strategy)
<1>1. MaxBalance \in Nat
  BY MaxBalanceAssumption
<1>2. /\ w.recharge \in 0..MaxBalance
      /\ w.commission \in 0..MaxBalance
      /\ w.status \in WalletStatuses
  BY DEF Wallets
<1>3. f \in Int /\ 0 <= f /\ f <= amount /\ f <= w.commission /\ amount - f <= w.recharge
  BY <1>1, <1>2 DEF FromCommission, Spendable, Balance, Strategies
<1>4. d = [w EXCEPT !.commission = @ - f, !.recharge = @ - (amount - f)]
  BY DEF ApplyDebit
<1> HIDE DEF f, d
<1>5. /\ w.commission - f \in 0..MaxBalance
      /\ w.recharge - (amount - f) \in 0..MaxBalance
  BY <1>1, <1>2, <1>3
<1>6. /\ d \in Wallets
      /\ d.recharge = w.recharge - (amount - f)
      /\ d.commission = w.commission - f
  BY <1>4, <1>5 DEF Wallets
<1>7. Balance(d) = Balance(w) - amount
  BY <1>1, <1>2, <1>3, <1>6 DEF Balance
<1>8. QED
  BY <1>6, <1>7 DEF d

\* A credit that fits the column leaves a wallet row and adds exactly the
\* amount (_apply_credit).
LEMMA CreditLemma ==
  ASSUME NEW w \in Wallets, NEW amount \in Nat, NEW bucket \in Buckets,
         FitsColumn(ApplyCredit(w, amount, bucket))
  PROVE  /\ ApplyCredit(w, amount, bucket) \in Wallets
         /\ Balance(ApplyCredit(w, amount, bucket)) = Balance(w) + amount
<1>1. MaxBalance \in Nat
  BY MaxBalanceAssumption
<1>2. CASE bucket = "commission"
  BY <1>1, <1>2 DEF Wallets, ApplyCredit, FitsColumn, Balance
<1>3. CASE bucket = "recharge"
  BY <1>1, <1>3 DEF Wallets, ApplyCredit, FitsColumn, Balance
<1>4. QED
  BY <1>2, <1>3 DEF Buckets

\* What may be withdrawn is part of the recharge bucket, whatever the reserve.
LEMMA WithdrawableLemma ==
  ASSUME NEW w \in Wallets, NEW reserve \in Nat
  PROVE  MaximumWithdrawable(w, reserve) <= Spendable(w, "recharge_only")
BY MaxBalanceAssumption DEF Wallets, MaximumWithdrawable, Spendable

-----------------------------------------------------------------------------
\* Type correctness

\* The platform row before the widths of its columns are looked at.
PlatformRows == [balance : Nat, received : Nat, manual : Nat, funding : Nat,
                 withdrawn : Nat, payouts : Nat, expenses : Nat,
                 status : {"active", "frozen"}]

\* The counters of a credit stay natural numbers: a reversal stops at zero.
LEMMA CreditCountersTypes ==
  ASSUME NEW a \in PlatformRows, NEW type \in CreditTypes, NEW amount \in Nat
  PROVE  CreditCounters(a, type, amount) \in PlatformRows
<1>1. CASE type = "inventory_purchase_reversal"
  BY <1>1 DEF CreditCounters, PlatformRows
<1>2. CASE type # "inventory_purchase_reversal"
  <2> DEFINE m == a.manual + (IF type = "manual_deposit" THEN amount ELSE 0)
             f == a.funding + (IF type = "customer_funding" THEN amount ELSE 0)
             r == a.received + amount
  <2>1. m \in Nat /\ f \in Nat /\ r \in Nat
    BY DEF PlatformRows
  <2>2. CreditCounters(a, type, amount)
          = [a EXCEPT !.received = r, !.manual = m, !.funding = f]
    BY <1>2 DEF CreditCounters
  <2> HIDE DEF m, f, r
  <2>3. QED
    BY <2>1, <2>2 DEF PlatformRows
<1>3. QED
  BY <1>1, <1>2

\* A credit of the platform wallet keeps its row and its transactions typed,
\* replayed or posted (credit_admin_wallet).
LEMMA AdminCreditTypes ==
  ASSUME AdminTypeOK,
         NEW type \in CreditTypes, NEW amount \in Nat \ {0}, NEW key \in AdminKeys,
         CreditAdminWallet(type, amount, key)
  PROVE  AdminTypeOK'
<1>1. CASE UNCHANGED adminVars
  BY <1>1 DEF adminVars, AdminTypeOK
<1>2. CASE PostCredit(type, amount, key)
  <2> DEFINE a == Credited(type, amount)
  <2>1. admin' = a /\ FitsAdminColumns(a)
    BY <1>2 DEF PostCredit
  <2>2. a \in PlatformRows
    <3>1. admin \in PlatformRows /\ amount \in Nat
      BY MaxAdminBalanceAssumption DEF AdminTypeOK, PlatformRows
    <3>2. CreditCounters(admin, type, amount) \in PlatformRows
      BY <3>1, CreditCountersTypes
    <3>3. QED
      BY <3>1, <3>2 DEF Credited, PlatformRows
  <2>3. adminTxns' \subseteq AdminRows
    BY <1>2 DEF PostCredit, AppendRow, AdminTypeOK, AdminRows
  <2> HIDE DEF a
  <2>4. QED
    BY <2>1, <2>2, <2>3, MaxAdminBalanceAssumption
    DEF AdminTypeOK, FitsAdminColumns, PlatformRows
<1>3. QED
  BY <1>1, <1>2 DEF CreditAdminWallet

\* A debit of the platform wallet keeps its row and its transactions typed:
\* the balance stays a natural number (debit_admin_wallet).
LEMMA AdminDebitTypes ==
  ASSUME AdminTypeOK,
         NEW type \in DebitTypes, NEW amount \in Nat \ {0}, NEW key \in AdminKeys,
         DebitAdminWallet(type, amount, key)
  PROVE  AdminTypeOK'
<1>1. CASE UNCHANGED adminVars
  BY <1>1 DEF adminVars, AdminTypeOK
<1>2. CASE PostDebit(type, amount, key)
  <2> DEFINE a == Debited(type, amount)
  <2>1. admin' = a /\ FitsAdminColumns(a) /\ amount <= admin.balance
    BY <1>2 DEF PostDebit
  <2>2. a \in PlatformRows
    <3>1. admin \in PlatformRows /\ amount \in Nat
      BY MaxAdminBalanceAssumption DEF AdminTypeOK, PlatformRows
    <3>2. /\ DebitCounters(admin, type, amount) \in PlatformRows
          /\ DebitCounters(admin, type, amount).balance = admin.balance
      BY <3>1 DEF DebitCounters, PlatformRows
    <3>3. QED
      BY <2>1, <3>1, <3>2 DEF Debited, PlatformRows
  <2>3. adminTxns' \subseteq AdminRows
    BY <1>2 DEF PostDebit, AppendRow, AdminTypeOK, AdminRows
  <2> HIDE DEF a
  <2>4. QED
    BY <2>1, <2>2, <2>3, MaxAdminBalanceAssumption
    DEF AdminTypeOK, FitsAdminColumns, PlatformRows
<1>3. QED
  BY <1>1, <1>2 DEF DebitAdminWallet

\* Amounts are positive integers.
LEMMA AmountLemma == ASSUME NEW amount \in Amounts PROVE amount \in Nat \ {0}
BY FundingAssumption

\* The row of a request or a charge that is stored is a proper row.
LEMMA StoredLemma ==
  ASSUME TypeOK, NEW i \in TxnIds, txn[i].status # "absent"
  PROVE  txn[i] \in Rows
BY DEF TypeOK, NoRow

\* Keys of platform transactions.
LEMMA AdminKeyLemma ==
  /\ \A i \in TxnIds : RechargeKey(i) \in AdminKeys /\ WithdrawKey(i) \in AdminKeys
  /\ \A e \in Events : CommissionKey(e) \in AdminKeys
  /\ \A k \in StaffKeys : StaffKey(k) \in AdminKeys
BY AdminKeysAssumption

\* A wallet row replaced by a wallet row leaves the wallets typed.
LEMMA WalletUpdateLemma ==
  ASSUME TypeOK, NEW c \in Customers, NEW w \in Wallets,
         wallet' = [wallet EXCEPT ![c] = w]
  PROVE  wallet' \in [Customers -> Wallets]
BY DEF TypeOK

\* Inserting a row keeps the table typed.
LEMMA InsertLemma ==
  ASSUME TypeOK, NEW i \in TxnIds, NEW row \in Rows, InsertTxn(i, row)
  PROVE  txn' \in [TxnIds -> Rows \cup {NoRow}]
BY DEF TypeOK, InsertTxn

\* Deciding a request keeps the table typed.
LEMMA SetStatusLemma ==
  ASSUME TypeOK, NEW i \in TxnIds, txn[i].status = "pending",
         NEW status \in {"completed", "failed"}, SetStatus(i, status)
  PROVE  txn' \in [TxnIds -> Rows \cup {NoRow}]
<1>1. txn[i] \in Rows
  BY StoredLemma
<1>2. [txn[i] EXCEPT !.status = status] \in Rows
  BY <1>1 DEF Rows
<1>3. QED
  BY <1>2 DEF SetStatus, TypeOK

\* Crediting the recharge bucket in a review.
LEMMA CreditRechargeLemma ==
  ASSUME TypeOK, NEW c \in Customers, NEW amount \in Amounts, CreditRecharge(c, amount)
  PROVE  wallet' \in [Customers -> Wallets]
<1>1. wallet[c] \in Wallets /\ amount \in Nat /\ "recharge" \in Buckets
  BY AmountLemma DEF TypeOK, Buckets
<1>2. ApplyCredit(wallet[c], amount, "recharge") \in Wallets
  BY <1>1, CreditLemma DEF CreditRecharge
<1>3. QED
  BY <1>2, WalletUpdateLemma DEF CreditRecharge

\* Every step keeps every row in its domain.
LEMMA TypeStep ==
  ASSUME TypeOK, [Next]_vars
  PROVE  TypeOK'
<1>1. ASSUME NEW c \in Customers, NEW amount \in Amounts, NEW ref \in Refs,
             NEW key \in ClientKeys \cup {NoKey}, CheckRecharge(c, amount, ref, key)
      PROVE  TypeOK'
  BY <1>1 DEF CheckRecharge, TypeOK, Requests, AdminTypeOK, adminVars
<1>2. ASSUME NEW c \in Customers, NEW i \in TxnIds, InsertRecharge(c, i)
      PROVE  TypeOK'
  <2> DEFINE row == [status |-> "pending", type |-> "recharge", customer |-> c,
                     amount |-> session[c].amount, ref |-> session[c].ref,
                     key |-> session[c].key]
  <2>1. session[c] \in Requests
    BY <1>2 DEF InsertRecharge, TypeOK
  <2>2. row \in Rows
    BY <2>1 DEF Requests, Rows, Keys
  <2>3. txn' \in [TxnIds -> Rows \cup {NoRow}]
    BY <1>2, <2>2, InsertLemma DEF InsertRecharge
  <2>4. QED
    BY <1>2, <2>3 DEF InsertRecharge, TypeOK, AdminTypeOK, adminVars
<1>3. ASSUME NEW c \in Customers, AbortRecharge(c)
      PROVE  TypeOK'
  BY <1>3 DEF AbortRecharge, TypeOK, AdminTypeOK, adminVars
<1>4. ASSUME NEW c \in Customers, NEW i \in TxnIds, NEW amount \in Amounts,
             NEW key \in ClientKeys \cup {NoKey}, RequestWithdraw(c, i, amount, key)
      PROVE  TypeOK'
  <2> DEFINE row == [status |-> "pending", type |-> "withdraw", customer |-> c,
                     amount |-> amount, ref |-> NoRef, key |-> key]
  <2>1. row \in Rows
    BY DEF Rows, Keys
  <2>2. txn' \in [TxnIds -> Rows \cup {NoRow}]
    BY <1>4, <2>1, InsertLemma DEF RequestWithdraw
  <2>3. wallet[c] \in Wallets /\ amount \in Nat /\ "recharge_only" \in Strategies
    BY AmountLemma DEF TypeOK, Strategies
  <2>4. PICK reserve \in Reserves : amount <= MaximumWithdrawable(wallet[c], reserve)
    BY <1>4 DEF RequestWithdraw
  <2>5. amount <= Spendable(wallet[c], "recharge_only")
    <3>1. reserve \in Nat
      BY FundingAssumption
    <3>2. /\ MaximumWithdrawable(wallet[c], reserve) \in Int
          /\ Spendable(wallet[c], "recharge_only") \in Int
      BY <3>1, <2>3, MaxBalanceAssumption DEF MaximumWithdrawable, Spendable, Wallets
    <3>3. QED
      BY <2>3, <2>4, <3>1, <3>2, WithdrawableLemma
  <2>6. ApplyDebit(wallet[c], amount, "recharge_only") \in Wallets
    BY <2>3, <2>5, DebitLemma
  <2>7. wallet' \in [Customers -> Wallets]
    BY <1>4, <2>6, WalletUpdateLemma DEF RequestWithdraw
  <2>8. QED
    BY <1>4, <2>2, <2>7 DEF RequestWithdraw, TypeOK, AdminTypeOK, adminVars
<1>5. ASSUME NEW i \in TxnIds, ApproveRecharge(i)
      PROVE  TypeOK'
  <2>1. txn[i] \in Rows /\ txn[i].status = "pending"
    BY <1>5, StoredLemma DEF ApproveRecharge, Reviewable
  <2>2. txn' \in [TxnIds -> Rows \cup {NoRow}]
    BY <1>5, <2>1, SetStatusLemma DEF ApproveRecharge
  <2>3. txn[i].customer \in Customers /\ txn[i].amount \in Amounts
    BY <2>1 DEF Rows
  <2>4. wallet' \in [Customers -> Wallets]
    BY <1>5, <2>3, CreditRechargeLemma DEF ApproveRecharge
  <2>5. AdminTypeOK'
    BY <1>5, <2>3, AmountLemma, AdminKeyLemma, AdminCreditTypes
    DEF ApproveRecharge, CreditTypes, TypeOK
  <2>6. QED
    BY <1>5, <2>2, <2>4, <2>5 DEF ApproveRecharge, TypeOK
<1>6. ASSUME NEW i \in TxnIds, RejectRecharge(i)
      PROVE  TypeOK'
  <2>1. txn' \in [TxnIds -> Rows \cup {NoRow}]
    BY <1>6, SetStatusLemma DEF RejectRecharge, Reviewable
  <2>2. QED
    BY <1>6, <2>1 DEF RejectRecharge, TypeOK, AdminTypeOK, adminVars
<1>7. ASSUME NEW i \in TxnIds, ApproveWithdraw(i)
      PROVE  TypeOK'
  <2>1. txn[i] \in Rows /\ txn[i].status = "pending"
    BY <1>7, StoredLemma DEF ApproveWithdraw, Reviewable
  <2>2. txn' \in [TxnIds -> Rows \cup {NoRow}]
    BY <1>7, <2>1, SetStatusLemma DEF ApproveWithdraw
  <2>3. txn[i].amount \in Amounts
    BY <2>1 DEF Rows
  <2>4. AdminTypeOK'
    BY <1>7, <2>3, AmountLemma, AdminKeyLemma, AdminDebitTypes
    DEF ApproveWithdraw, DebitTypes, TypeOK
  <2>5. QED
    BY <1>7, <2>2, <2>4 DEF ApproveWithdraw, TypeOK
<1>8. ASSUME NEW i \in TxnIds, RejectWithdraw(i)
      PROVE  TypeOK'
  <2>1. txn[i] \in Rows /\ txn[i].status = "pending"
    BY <1>8, StoredLemma DEF RejectWithdraw, Reviewable
  <2>2. txn' \in [TxnIds -> Rows \cup {NoRow}]
    BY <1>8, <2>1, SetStatusLemma DEF RejectWithdraw
  <2>3. txn[i].customer \in Customers /\ txn[i].amount \in Amounts
    BY <2>1 DEF Rows
  <2>4. wallet' \in [Customers -> Wallets]
    BY <1>8, <2>3, CreditRechargeLemma DEF RejectWithdraw
  <2>5. QED
    BY <1>8, <2>2, <2>4 DEF RejectWithdraw, TypeOK, AdminTypeOK, adminVars
<1>9. ASSUME NEW c \in Customers, NEW i \in TxnIds, NEW e \in Events,
             NEW amount \in Amounts, ChargeWallet(c, i, e, amount)
      PROVE  TypeOK'
  <2> DEFINE row == [status |-> "completed", type |-> "payment", customer |-> c,
                     amount |-> amount, ref |-> NoRef, key |-> MealKey(e)]
             strategy == DefaultDebitStrategy("payment")
  <2>1. row \in Rows
    BY DEF Rows, Keys
  <2>2. txn' \in [TxnIds -> Rows \cup {NoRow}]
    BY <1>9, <2>1, InsertLemma DEF ChargeWallet
  <2>3. wallet[c] \in Wallets /\ amount \in Nat /\ strategy \in Strategies
    BY AmountLemma DEF TypeOK, Strategies, DefaultDebitStrategy
  <2>4. ApplyDebit(wallet[c], amount, strategy) \in Wallets
    BY <1>9, <2>3, DebitLemma DEF ChargeWallet
  <2>5. wallet' \in [Customers -> Wallets]
    BY <1>9, <2>4, WalletUpdateLemma DEF ChargeWallet
  <2>6. QED
    BY <1>9, <2>2, <2>5 DEF ChargeWallet, TypeOK, AdminTypeOK, adminVars
<1>10. ASSUME NEW c \in Customers, NEW i \in TxnIds, NEW e \in Events,
              NEW amount \in Amounts, PayCommission(c, i, e, amount)
       PROVE  TypeOK'
  <2> DEFINE row == [status |-> "completed", type |-> "referral_commission",
                     customer |-> c, amount |-> amount, ref |-> NoRef,
                     key |-> ReferralKey(e)]
             bucket == DefaultCreditBucket("referral_commission")
  <2>1. row \in Rows
    BY DEF Rows, Keys
  <2>2. txn' \in [TxnIds -> Rows \cup {NoRow}]
    BY <1>10, <2>1, InsertLemma DEF PayCommission
  <2>3. wallet[c] \in Wallets /\ amount \in Nat /\ bucket \in Buckets
    BY AmountLemma DEF TypeOK, Buckets, DefaultCreditBucket
  <2>4. ApplyCredit(wallet[c], amount, bucket) \in Wallets
    BY <1>10, <2>3, CreditLemma DEF PayCommission
  <2>5. wallet' \in [Customers -> Wallets]
    BY <1>10, <2>4, WalletUpdateLemma DEF PayCommission
  <2>6. AdminTypeOK'
    BY <1>10, AmountLemma, AdminKeyLemma, AdminDebitTypes
    DEF PayCommission, DebitTypes, ExpenseTypes, TypeOK
  <2>7. QED
    BY <1>10, <2>2, <2>5, <2>6 DEF PayCommission, TypeOK
<1>11. ASSUME NEW c \in Customers, NEW status \in WalletStatuses,
              SetWalletStatus(c, status)
       PROVE  TypeOK'
  <2>1. wallet' \in [Customers -> Wallets]
    BY <1>11 DEF SetWalletStatus, TypeOK, Wallets
  <2>2. QED
    BY <1>11, <2>1 DEF SetWalletStatus, TypeOK, AdminTypeOK, adminVars
<1>12. ASSUME NEW k \in StaffKeys, NEW amount \in Amounts, StaffMovement(k, amount)
       PROVE  TypeOK'
  <2>1. /\ amount \in Nat \ {0}
        /\ StaffKey(k) \in AdminKeys
        /\ AdminTypeOK
        /\ "manual_deposit" \in CreditTypes
        /\ "withdrawal" \in DebitTypes
        /\ "platform_expense" \in DebitTypes
    BY AmountLemma, AdminKeyLemma DEF CreditTypes, DebitTypes, ExpenseTypes, TypeOK
  <2>2. AdminTypeOK'
    BY <1>12, <2>1, AdminCreditTypes, AdminDebitTypes DEF StaffMovement
  <2>3. QED
    BY <1>12, <2>2 DEF StaffMovement, TypeOK
<1>13. ASSUME NEW status \in WalletStatuses, FreezePlatform(status)
       PROVE  TypeOK'
  BY <1>13 DEF FreezePlatform, SetAdminStatus, TypeOK, AdminTypeOK, WalletStatuses
<1>14. CASE UNCHANGED vars
  BY <1>14 DEF vars, adminVars, TypeOK, AdminTypeOK
<1>15. QED
  BY <1>1, <1>2, <1>3, <1>4, <1>5, <1>6, <1>7, <1>8, <1>9, <1>10, <1>11, <1>12,
     <1>13, <1>14
  DEF Next, CustomerStep, ReviewStep, LedgerStep, StaffStep

\* No row, balance, counter or request ever leaves its domain: in particular
\* no bucket and no platform balance becomes negative or wider than its
\* column, under all interleavings of requests, reviews and charges.
THEOREM TypeCorrect == Spec => []TypeOK
<1>1. Init => TypeOK
  BY MaxBalanceAssumption, MaxAdminBalanceAssumption
  DEF Init, TypeOK, AdminInit, AdminTypeOK, NewWallet, Wallets, WalletStatuses
<1>2. TypeOK /\ [Next]_vars => TypeOK'
  BY TypeStep
<1>3. QED
  BY <1>1, <1>2, PTL DEF Spec

-----------------------------------------------------------------------------
\* One live recharge per provider reference

\* The unique constraint, and not the check before it, keeps references
\* unique: the new row is compared with all rows of that moment.
LEMMA InsertKeepsRefs ==
  ASSUME TypeOK, UniqueLiveRef, NEW i \in TxnIds, NEW row \in Rows, InsertTxn(i, row)
  PROVE  UniqueLiveRef'
<1>1. \A j \in TxnIds : txn'[j] = IF j = i THEN row ELSE txn[j]
  BY DEF InsertTxn, TypeOK
<1>2. row.ref # NoRef => LiveWithRef(row.ref) = {}
  BY DEF InsertTxn, UniqueConstraints
<1>3. SUFFICES ASSUME NEW j \in Stored', NEW k \in Stored', txn'[j].ref # NoRef,
                      j \in LiveWithRef(txn[j].ref)', k \in LiveWithRef(txn[j].ref)'
               PROVE  j = k
  BY DEF UniqueLiveRef
<1>4. j \in TxnIds /\ k \in TxnIds /\ txn'[k].ref = txn'[j].ref
  BY <1>3 DEF Stored, LiveWithRef
<1>5. CASE j # i /\ k # i
  BY <1>1, <1>3, <1>4, <1>5 DEF UniqueLiveRef, Stored, LiveWithRef
<1>6. CASE j = i /\ k # i
  BY <1>1, <1>2, <1>3, <1>4, <1>6 DEF Stored, LiveWithRef
<1>7. CASE j # i /\ k = i
  BY <1>1, <1>2, <1>3, <1>4, <1>7 DEF Stored, LiveWithRef
<1>8. QED
  BY <1>5, <1>6, <1>7

\* A review makes no request live that was not: it only decides pending ones.
LEMMA ReviewKeepsRefs ==
  ASSUME TypeOK, UniqueLiveRef, NEW i \in TxnIds, txn[i].status = "pending",
         NEW status \in {"completed", "failed"}, SetStatus(i, status)
  PROVE  UniqueLiveRef'
<1>1. txn[i] \in Rows
  BY StoredLemma
<1>2. \A j \in TxnIds : /\ txn'[j].ref = txn[j].ref
                        /\ txn'[j].type = txn[j].type
                        /\ j # i => txn'[j].status = txn[j].status
  BY <1>1 DEF SetStatus, TypeOK, Rows
<1>3. Stored' = Stored
  BY <1>1, <1>2 DEF Stored, SetStatus, TypeOK, Rows
<1>4. \A ref : LiveWithRef(ref)' \subseteq LiveWithRef(ref)
  BY <1>2, <1>3 DEF LiveWithRef, Stored
<1>5. QED
  BY <1>2, <1>3, <1>4 DEF UniqueLiveRef, Stored

\* Every step of the service inserts one row, decides one pending request or
\* leaves the table alone.
LEMMA TableSteps ==
  ASSUME TypeOK, [Next]_vars
  PROVE  \/ \E i \in TxnIds, row \in Rows :
               InsertTxn(i, row) /\ (row.type \in {"recharge", "withdraw"} => row.status = "pending")
         \/ \E i \in TxnIds, status \in {"completed", "failed"} :
               txn[i].status = "pending" /\ SetStatus(i, status)
         \/ UNCHANGED txn
<1>1. ASSUME NEW c \in Customers, NEW i \in TxnIds, InsertRecharge(c, i)
      PROVE  \E row \in Rows : InsertTxn(i, row) /\ row.status = "pending"
  <2>1. session[c] \in Requests
    BY <1>1 DEF InsertRecharge, TypeOK
  <2>2. QED
    BY <1>1, <2>1 DEF InsertRecharge, Requests, Rows, Keys
<1>2. ASSUME NEW c \in Customers, NEW i \in TxnIds, NEW amount \in Amounts,
             NEW key \in ClientKeys \cup {NoKey}, RequestWithdraw(c, i, amount, key)
      PROVE  \E row \in Rows : InsertTxn(i, row) /\ row.status = "pending"
  BY <1>2 DEF RequestWithdraw, Rows, Keys
<1>3. ASSUME NEW c \in Customers, NEW i \in TxnIds, NEW e \in Events,
             NEW amount \in Amounts, ChargeWallet(c, i, e, amount)
      PROVE  \E row \in Rows : InsertTxn(i, row) /\ row.type = "payment"
  BY <1>3 DEF ChargeWallet, Rows, Keys
<1>4. ASSUME NEW c \in Customers, NEW i \in TxnIds, NEW e \in Events,
             NEW amount \in Amounts, PayCommission(c, i, e, amount)
      PROVE  \E row \in Rows : InsertTxn(i, row) /\ row.type = "referral_commission"
  BY <1>4 DEF PayCommission, Rows, Keys
<1>5. ASSUME NEW i \in TxnIds,
             ApproveRecharge(i) \/ RejectRecharge(i) \/ ApproveWithdraw(i) \/ RejectWithdraw(i)
      PROVE  \E status \in {"completed", "failed"} :
               txn[i].status = "pending" /\ SetStatus(i, status)
  BY <1>5 DEF ApproveRecharge, RejectRecharge, ApproveWithdraw, RejectWithdraw, Reviewable
<1>6. CASE UNCHANGED txn
  BY <1>6
<1>7. CASE \E c \in Customers : \/ \E amount \in Amounts, ref \in Refs,
                                     key \in ClientKeys \cup {NoKey} :
                                     CheckRecharge(c, amount, ref, key)
                                \/ AbortRecharge(c)
  BY <1>7 DEF CheckRecharge, AbortRecharge
<1>8. CASE StaffStep
  BY <1>8 DEF StaffStep, SetWalletStatus, StaffMovement, FreezePlatform
<1>9. CASE UNCHANGED vars
  BY <1>9 DEF vars
<1>10. QED
  BY <1>1, <1>2, <1>3, <1>4, <1>5, <1>7, <1>8, <1>9
  DEF Next, CustomerStep, ReviewStep, LedgerStep

\* For any number of customers whose workers race: a provider's payment id
\* backs at most one live recharge (request_recharge and the constraint
\* wallet_txn_unique_provider_recharge_ref).
THEOREM LiveRefsUnique == Spec => []UniqueLiveRef
<1>1. Init => UniqueLiveRef
  BY DEF Init, UniqueLiveRef, Stored, NoRow
<1>2. TypeOK /\ UniqueLiveRef /\ [Next]_vars => UniqueLiveRef'
  <2> SUFFICES ASSUME TypeOK, UniqueLiveRef, [Next]_vars PROVE UniqueLiveRef'
    OBVIOUS
  <2>1. CASE UNCHANGED txn
    BY <2>1 DEF UniqueLiveRef, Stored, LiveWithRef
  <2>2. QED
    BY <2>1, TableSteps, InsertKeepsRefs, ReviewKeepsRefs
<1>3. QED
  BY <1>1, <1>2, TypeCorrect, PTL DEF Spec

\* Every step of the service is such a step.
LEMMA StepIsFinal ==
  ASSUME TypeOK, [Next]_vars \/ UNCHANGED txn
  PROVE  OnlyDecides
<1> USE DEF OnlyDecides
<1>0. \A i \in Stored : i \in TxnIds /\ txn[i] \in Rows
  BY StoredLemma DEF Stored
<1>1. CASE UNCHANGED txn
  BY <1>0, <1>1 DEF Rows
<1>2. ASSUME NEW i \in TxnIds, NEW row \in Rows, InsertTxn(i, row)
      PROVE  OnlyDecides
  <2>1. i \notin Stored
    BY <1>2 DEF InsertTxn, Stored, NoRow
  <2>2. \A j \in Stored : txn'[j] = txn[j]
    BY <1>0, <1>2, <2>1 DEF InsertTxn, TypeOK
  <2> QED BY <1>0, <2>2 DEF Rows
<1>3. ASSUME NEW i \in TxnIds, NEW status \in {"completed", "failed"},
             txn[i].status = "pending", SetStatus(i, status)
      PROVE  OnlyDecides
  <2>1. txn[i] \in Rows /\ txn'[i] = [txn[i] EXCEPT !.status = status]
    BY <1>3, StoredLemma DEF SetStatus, TypeOK
  <2>2. \A j \in Stored : j # i => txn'[j] = txn[j]
    BY <1>0, <1>3 DEF SetStatus, TypeOK
  <2> QED BY <1>0, <1>3, <2>1, <2>2 DEF Rows
<1> QED BY <1>1, <1>2, <1>3, TableSteps

\* The only change a stored row ever sees is the decision of a pending
\* request, for every order of reviews.
THEOREM ReviewsAreFinal == Spec => ReviewIsFinal
<1>1. TypeOK /\ [Next]_vars => [OnlyDecides]_vars
  BY StepIsFinal
<1> QED BY <1>1, TypeCorrect, PTL DEF Spec, ReviewIsFinal

-----------------------------------------------------------------------------
\* The custody ledger

\* No movement but the custody of a request ever has the key of one.
OtherKeys ==
  \A r \in adminTxns : r.type \notin CustodyTypes =>
    \A i \in TxnIds : r.key # RechargeKey(i) /\ r.key # WithdrawKey(i)

\* The inductive invariant: without OtherKeys, the key of a request could
\* already name another movement and the approval would be taken for a replay.
CustodyInv == CustodyMatchesReviews /\ OtherKeys

\* The custody rows are the same when the platform wallet gets no custody row
\* and no request is approved.
LEMMA CustodyUnchanged ==
  ASSUME CustodyInv, Approved' = Approved,
         \A i \in Approved : CustodyRow(i)' = CustodyRow(i),
         \A r \in adminTxns' \ adminTxns :
           /\ r.type \notin CustodyTypes
           /\ \A i \in TxnIds : r.key # RechargeKey(i) /\ r.key # WithdrawKey(i),
         adminTxns \subseteq adminTxns'
  PROVE  CustodyInv'
<1>1. {r \in adminTxns' : r.type \in CustodyTypes} = {r \in adminTxns : r.type \in CustodyTypes}
  OBVIOUS
<1>2. {CustodyRow(i) : i \in Approved}' = {CustodyRow(i) : i \in Approved}
  OBVIOUS
<1>3. OtherKeys'
  BY DEF CustodyInv, OtherKeys
<1>4. QED
  BY <1>1, <1>2, <1>3 DEF CustodyInv, CustodyMatchesReviews

\* A row that is no approved request adds nothing to the approved ones.
LEMMA InsertKeepsApproved ==
  ASSUME TypeOK, NEW i \in TxnIds, NEW row \in Rows, InsertTxn(i, row),
         row.type \in {"recharge", "withdraw"} => row.status = "pending"
  PROVE  /\ Approved' = Approved
         /\ \A j \in Approved : CustodyRow(j)' = CustodyRow(j)
<1>1. \A j \in TxnIds : txn'[j] = IF j = i THEN row ELSE txn[j]
  BY DEF InsertTxn, TypeOK
<1>2. i \notin Approved /\ i \notin Approved'
  BY <1>1 DEF InsertTxn, Approved, Stored, NoRow
<1>3. QED
  BY <1>1, <1>2 DEF Approved, Stored, CustodyRow

\* Rejecting adds nothing either.
LEMMA RejectKeepsApproved ==
  ASSUME TypeOK, NEW i \in TxnIds, txn[i].status = "pending", SetStatus(i, "failed")
  PROVE  /\ Approved' = Approved
         /\ \A j \in Approved : CustodyRow(j)' = CustodyRow(j)
<1>1. txn[i] \in Rows
  BY StoredLemma
<1>2. \A j \in TxnIds : j # i => txn'[j] = txn[j]
  BY DEF SetStatus, TypeOK
<1>3. txn'[i].status = "failed"
  BY <1>1 DEF SetStatus, TypeOK, Rows
<1>4. i \notin Approved /\ i \notin Approved'
  BY <1>3 DEF Approved
<1>5. QED
  BY <1>2, <1>4 DEF Approved, Stored, CustodyRow

\* While a request is pending, no movement of the platform wallet has its key:
\* its approval always posts and is never taken for a replay.
LEMMA PendingKeysUnused ==
  ASSUME TypeOK, CustodyInv, NEW i \in TxnIds, txn[i].status = "pending"
  PROVE  /\ AdminRowsWithKey(RechargeKey(i)) = {}
         /\ AdminRowsWithKey(WithdrawKey(i)) = {}
<1>1. SUFFICES ASSUME NEW r \in adminTxns, r.key = RechargeKey(i) \/ r.key = WithdrawKey(i)
               PROVE  FALSE
  BY DEF AdminRowsWithKey
<1>2. r.type \in CustodyTypes
  BY <1>1 DEF CustodyInv, OtherKeys
<1>3. PICK j \in Approved : r = CustodyRow(j)
  BY <1>2 DEF CustodyInv, CustodyMatchesReviews
<1>4. j = i
  BY <1>1, <1>3 DEF CustodyRow, RechargeKey, WithdrawKey
<1>5. QED
  BY <1>3, <1>4 DEF Approved

\* Approving a request adds exactly its own custody row.
LEMMA ApprovalAddsRow ==
  ASSUME TypeOK, CustodyInv, NEW i \in TxnIds, txn[i].status = "pending",
         txn[i].type \in {"recharge", "withdraw"}, SetStatus(i, "completed"),
         adminTxns' = adminTxns \cup {CustodyRow(i)}
  PROVE  CustodyInv'
<1>1. txn[i] \in Rows
  BY StoredLemma
<1>2. \A j \in TxnIds : j # i => txn'[j] = txn[j]
  BY DEF SetStatus, TypeOK
<1>3. /\ txn'[i].status = "completed"
      /\ txn'[i].type = txn[i].type
      /\ txn'[i].amount = txn[i].amount
  BY <1>1 DEF SetStatus, TypeOK, Rows
<1>4. Approved' = Approved \cup {i}
  BY <1>2, <1>3 DEF Approved, Stored
<1>5. \A j \in TxnIds : CustodyRow(j)' = CustodyRow(j)
  BY <1>2, <1>3 DEF CustodyRow
<1>6. CustodyRow(i).type \in CustodyTypes
  BY DEF CustodyRow, CustodyTypes
<1>7. Approved' \subseteq TxnIds
  BY DEF Approved, Stored
<1>8. {CustodyRow(j) : j \in Approved}' = {CustodyRow(j) : j \in Approved} \cup {CustodyRow(i)}
  BY <1>4, <1>5, <1>7
<1>9. {r \in adminTxns' : r.type \in CustodyTypes}
        = {r \in adminTxns : r.type \in CustodyTypes} \cup {CustodyRow(i)}
  BY <1>6
<1>10. OtherKeys'
  BY <1>6 DEF CustodyInv, OtherKeys
<1>11. QED
  BY <1>8, <1>9, <1>10 DEF CustodyInv, CustodyMatchesReviews

\* The inductive invariant of the two ledgers.
THEOREM CustodyInvariant == Spec => []CustodyInv
<1>1. Init => CustodyInv
  BY DEF Init, AdminInit, CustodyInv, CustodyMatchesReviews, OtherKeys, Approved, Stored, NoRow
<1>2. TypeOK /\ CustodyInv /\ [Next]_vars => CustodyInv'
  <2> SUFFICES ASSUME TypeOK, CustodyInv, [Next]_vars PROVE CustodyInv'
    OBVIOUS
  <2>1. ASSUME UNCHANGED txn, adminTxns' = adminTxns
        PROVE  CustodyInv'
    <3>1. /\ Approved' = Approved
          /\ \A j \in Approved : CustodyRow(j)' = CustodyRow(j)
      BY <2>1 DEF Approved, Stored, CustodyRow
    <3>2. QED
      BY <2>1, <3>1, CustodyUnchanged
  <2>2. ASSUME NEW c \in Customers, NEW i \in TxnIds, InsertRecharge(c, i)
        PROVE  CustodyInv'
    <3> DEFINE row == [status |-> "pending", type |-> "recharge", customer |-> c,
                       amount |-> session[c].amount, ref |-> session[c].ref,
                       key |-> session[c].key]
    <3>1. session[c] \in Requests
      BY <2>2 DEF InsertRecharge, TypeOK
    <3>2. row \in Rows
      BY <3>1 DEF Requests, Rows, Keys
    <3>3. QED
      BY <2>2, <3>2, InsertKeepsApproved, CustodyUnchanged DEF InsertRecharge, adminVars
  <2>3. ASSUME NEW c \in Customers, NEW i \in TxnIds, NEW amount \in Amounts,
               NEW key \in ClientKeys \cup {NoKey}, RequestWithdraw(c, i, amount, key)
        PROVE  CustodyInv'
    <3> DEFINE row == [status |-> "pending", type |-> "withdraw", customer |-> c,
                       amount |-> amount, ref |-> NoRef, key |-> key]
    <3>1. row \in Rows
      BY DEF Rows, Keys
    <3>2. QED
      BY <2>3, <3>1, InsertKeepsApproved, CustodyUnchanged DEF RequestWithdraw, adminVars
  <2>4. ASSUME NEW i \in TxnIds, ApproveRecharge(i)
        PROVE  CustodyInv'
    <3>1. txn[i].status = "pending" /\ txn[i].type = "recharge" /\ SetStatus(i, "completed")
      BY <2>4 DEF ApproveRecharge, Reviewable
    <3>2. PostCredit("customer_funding", txn[i].amount, RechargeKey(i))
      BY <2>4, <3>1, PendingKeysUnused DEF ApproveRecharge, CreditAdminWallet, Replays
    <3>3. adminTxns' = adminTxns \cup {CustodyRow(i)}
      BY <3>1, <3>2 DEF PostCredit, AppendRow, CustodyRow
    <3>4. QED
      BY <3>1, <3>3, ApprovalAddsRow
  <2>5. ASSUME NEW i \in TxnIds, ApproveWithdraw(i)
        PROVE  CustodyInv'
    <3>1. txn[i].status = "pending" /\ txn[i].type = "withdraw" /\ SetStatus(i, "completed")
      BY <2>5 DEF ApproveWithdraw, Reviewable
    <3>2. PostDebit("customer_withdraw", txn[i].amount, WithdrawKey(i))
      BY <2>5, <3>1, PendingKeysUnused DEF ApproveWithdraw, DebitAdminWallet, Replays
    <3>3. adminTxns' = adminTxns \cup {CustodyRow(i)}
      BY <3>1, <3>2 DEF PostDebit, AppendRow, CustodyRow
    <3>4. QED
      BY <3>1, <3>3, ApprovalAddsRow
  <2>6. ASSUME NEW i \in TxnIds, RejectRecharge(i) \/ RejectWithdraw(i)
        PROVE  CustodyInv'
    <3>1. txn[i].status = "pending" /\ SetStatus(i, "failed") /\ adminTxns' = adminTxns
      BY <2>6 DEF RejectRecharge, RejectWithdraw, Reviewable, adminVars
    <3>2. QED
      BY <3>1, RejectKeepsApproved, CustodyUnchanged
  <2>7. ASSUME NEW c \in Customers, NEW i \in TxnIds, NEW e \in Events,
               NEW amount \in Amounts, ChargeWallet(c, i, e, amount)
        PROVE  CustodyInv'
    <3> DEFINE row == [status |-> "completed", type |-> "payment", customer |-> c,
                       amount |-> amount, ref |-> NoRef, key |-> MealKey(e)]
    <3>1. row \in Rows
      BY DEF Rows, Keys
    <3>2. QED
      BY <2>7, <3>1, InsertKeepsApproved, CustodyUnchanged DEF ChargeWallet, adminVars
  <2>8. ASSUME NEW c \in Customers, NEW i \in TxnIds, NEW e \in Events,
               NEW amount \in Amounts, PayCommission(c, i, e, amount)
        PROVE  CustodyInv'
    <3> DEFINE row == [status |-> "completed", type |-> "referral_commission",
                       customer |-> c, amount |-> amount, ref |-> NoRef,
                       key |-> ReferralKey(e)]
    <3>1. row \in Rows
      BY DEF Rows, Keys
    <3>2. /\ Approved' = Approved
          /\ \A j \in Approved : CustodyRow(j)' = CustodyRow(j)
      BY <2>8, <3>1, InsertKeepsApproved DEF PayCommission
    <3>3. \/ adminTxns' = adminTxns
          \/ adminTxns' = adminTxns \cup {[key |-> CommissionKey(e),
                                           type |-> "referral_commission", amount |-> amount]}
      BY <2>8 DEF PayCommission, DebitAdminWallet, PostDebit, AppendRow, adminVars
    <3>4. \A i2 \in TxnIds : /\ CommissionKey(e) # RechargeKey(i2)
                             /\ CommissionKey(e) # WithdrawKey(i2)
      BY DEF CommissionKey, RechargeKey, WithdrawKey
    <3>5. QED
      BY <3>2, <3>3, <3>4, CustodyUnchanged DEF CustodyTypes
  <2>9. ASSUME NEW k \in StaffKeys, NEW amount \in Amounts, StaffMovement(k, amount)
        PROVE  CustodyInv'
    <3>1. /\ Approved' = Approved
          /\ \A j \in Approved : CustodyRow(j)' = CustodyRow(j)
      BY <2>9 DEF StaffMovement, Approved, Stored, CustodyRow
    <3>2. \/ adminTxns' = adminTxns
          \/ \E type \in {"manual_deposit", "withdrawal", "platform_expense"} :
               adminTxns' = adminTxns \cup {[key |-> StaffKey(k), type |-> type,
                                            amount |-> amount]}
      BY <2>9 DEF StaffMovement, CreditAdminWallet, DebitAdminWallet, PostCredit,
                  PostDebit, AppendRow, adminVars
    <3>3. \A i \in TxnIds : StaffKey(k) # RechargeKey(i) /\ StaffKey(k) # WithdrawKey(i)
      BY DEF StaffKey, RechargeKey, WithdrawKey
    <3>4. QED
      BY <3>1, <3>2, <3>3, CustodyUnchanged DEF CustodyTypes
  <2>10. CASE \E c \in Customers : \/ \E amount \in Amounts, ref \in Refs,
                                       key \in ClientKeys \cup {NoKey} :
                                       CheckRecharge(c, amount, ref, key)
                                  \/ AbortRecharge(c)
                                  \/ \E status \in WalletStatuses : SetWalletStatus(c, status)
    BY <2>1, <2>10 DEF CheckRecharge, AbortRecharge, SetWalletStatus, adminVars
  <2>11. CASE \E status \in WalletStatuses : FreezePlatform(status)
    BY <2>1, <2>11 DEF FreezePlatform, SetAdminStatus
  <2>12. CASE UNCHANGED vars
    BY <2>1, <2>12 DEF vars, adminVars
  <2>13. QED
    BY <2>2, <2>3, <2>4, <2>5, <2>6, <2>7, <2>8, <2>9, <2>10, <2>11, <2>12
    DEF Next, CustomerStep, ReviewStep, LedgerStep, StaffStep
<1>3. QED
  BY <1>1, <1>2, TypeCorrect, PTL DEF Spec

\* The two ledgers never drift apart: the platform wallet has one custody row
\* of the right amount for every approved request and none for another.
THEOREM CustodyMatches == Spec => []CustodyMatchesReviews
<1>1. CustodyInv => CustodyMatchesReviews
  BY DEF CustodyInv
<1> QED BY <1>1, CustodyInvariant, PTL

-----------------------------------------------------------------------------
\* Sums of rows

\* n paisa of one row.
LEMMA PortionLemma ==
  ASSUME NEW d, NEW n \in Nat
  PROVE  IsFiniteSet({d} \X (1..n)) /\ Cardinality({d} \X (1..n)) = n
<1>1. IsFiniteSet({d}) /\ Cardinality({d}) = 1
  BY FS_Singleton
<1>2. IsFiniteSet(1..n) /\ Cardinality(1..n) = n
  BY FS_Interval
<1>3. /\ IsFiniteSet({d} \X (1..n))
      /\ Cardinality({d} \X (1..n)) = Cardinality({d}) * Cardinality(1..n)
  BY <1>1, <1>2, FS_Product, Zenon
<1> QED BY <1>1, <1>2, <1>3

\* Whose paisa one is.
LEMMA PaisaMember ==
  ASSUME NEW table, NEW ids, NEW x
  PROVE  x \in Paisa(table, ids) <=> \E i \in ids : x \in {i} \X (1..table[i].amount)
BY DEF Paisa

\* Some of the rows have some of the paisa.
LEMMA PaisaSubset ==
  ASSUME NEW table, NEW ids, NEW some \in SUBSET ids, IsFiniteSet(Paisa(table, ids))
  PROVE  /\ IsFiniteSet(Paisa(table, some)) /\ Cardinality(Paisa(table, some)) \in Nat
         /\ Cardinality(Paisa(table, some)) <= Cardinality(Paisa(table, ids))
<1>1. Paisa(table, some) \subseteq Paisa(table, ids)
  BY PaisaMember
<1>2. /\ IsFiniteSet(Paisa(table, some))
      /\ Cardinality(Paisa(table, some)) <= Cardinality(Paisa(table, ids))
  BY <1>1, FS_Subset
<1> QED BY <1>2, FS_CardinalityType

\* Rows with the same amounts have the same paisa.
LEMMA PaisaSame ==
  ASSUME NEW table, NEW other, NEW ids, \A i \in ids : other[i].amount = table[i].amount
  PROVE  Paisa(other, ids) = Paisa(table, ids)
BY DEF Paisa

\* One more row adds its amount.
LEMMA PaisaAdd ==
  ASSUME NEW table, NEW ids, IsFiniteSet(Paisa(table, ids)),
         NEW i, i \notin ids, table[i].amount \in Nat
  PROVE  /\ IsFiniteSet(Paisa(table, ids \cup {i}))
         /\ Cardinality(Paisa(table, ids \cup {i}))
              = Cardinality(Paisa(table, ids)) + table[i].amount
<1> DEFINE S == Paisa(table, ids)
           n == table[i].amount
           P == {i} \X (1..n)
<1>1. Paisa(table, ids \cup {i}) = S \cup P
  BY DEF Paisa
<1>2. S \cap P = {}
  BY DEF Paisa
<1>3. IsFiniteSet(P) /\ Cardinality(P) = n
  BY PortionLemma
<1> HIDE DEF S, P
<1>4. IsFiniteSet(S) /\ Cardinality(S) \in Nat
  BY FS_CardinalityType DEF S
<1>5. IsFiniteSet(S \cup P) /\ Cardinality(S \cup P) = Cardinality(S) + n - Cardinality(S \cap P)
  BY <1>3, <1>4, FS_Union
<1>6. Cardinality(S \cap P) = 0
  BY <1>2, FS_EmptySet
<1> QED BY <1>1, <1>4, <1>5, <1>6 DEF S

\* A row that is left out takes its amount with it.
LEMMA PaisaRemove ==
  ASSUME NEW table, NEW ids, IsFiniteSet(Paisa(table, ids)),
         NEW i \in ids, table[i].amount \in Nat
  PROVE  Cardinality(Paisa(table, ids \ {i}))
           = Cardinality(Paisa(table, ids)) - table[i].amount
<1> DEFINE O == ids \ {i}
<1>1. IsFiniteSet(Paisa(table, O)) /\ Cardinality(Paisa(table, O)) \in Nat
  BY PaisaSubset
<1>2. ids = O \cup {i} /\ i \notin O
  OBVIOUS
<1> HIDE DEF O
<1>3. Cardinality(Paisa(table, O \cup {i})) = Cardinality(Paisa(table, O)) + table[i].amount
  BY <1>1, <1>2, PaisaAdd
<1>4. Cardinality(Paisa(table, ids)) = Cardinality(Paisa(table, O)) + table[i].amount
  BY <1>2, <1>3
<1> QED BY <1>1, <1>4 DEF O

-----------------------------------------------------------------------------
\* What a step does to the sums of a wallet's rows

\* The rows have finitely many paisa, whatever number of primary keys there is.
FiniteLedger == IsFiniteSet(Paisa(txn, Stored))

Types == {"recharge", "withdraw", "payment", "referral_commission"}

Statuses == {"pending", "completed", "failed"}

Weight(status, statuses, amount) == IF status \in statuses THEN amount ELSE 0

\* A row of c and of this type went from one status to another; "absent" is the
\* status of a row before its insert.
Recorded(c, type, old, new, amount) ==
  \A x \in Customers, types \in SUBSET Types, statuses \in SUBSET Statuses :
    Total(RowsOf(x, types, statuses))' =
      Total(RowsOf(x, types, statuses))
        + (IF x = c /\ type \in types
           THEN Weight(new, statuses, amount) - Weight(old, statuses, amount) ELSE 0)

\* No sum changes.
NothingRecorded ==
  \A x \in Customers, types \in SUBSET Types, statuses \in SUBSET Statuses :
    Total(RowsOf(x, types, statuses))' = Total(RowsOf(x, types, statuses))

\* Every sum of rows is a natural number.
LEMMA TotalType ==
  ASSUME FiniteLedger, NEW x, NEW types, NEW statuses
  PROVE  /\ IsFiniteSet(Paisa(txn, RowsOf(x, types, statuses)))
         /\ Total(RowsOf(x, types, statuses)) \in Nat
<1>1. RowsOf(x, types, statuses) \in SUBSET Stored
  BY DEF RowsOf
<1> QED BY <1>1, PaisaSubset DEF FiniteLedger, Total

\* The insert of a row.
LEMMA InsertRecorded ==
  ASSUME TypeOK, FiniteLedger, NEW i \in TxnIds, NEW row \in Rows, InsertTxn(i, row)
  PROVE  FiniteLedger' /\ Recorded(row.customer, row.type, "absent", row.status, row.amount)
<1>1. \A j \in TxnIds : txn'[j] = IF j = i THEN row ELSE txn[j]
  BY DEF InsertTxn, TypeOK
<1>2. i \notin Stored /\ Stored' = Stored \cup {i}
  BY <1>1 DEF InsertTxn, Stored, NoRow, Rows
<1>3. \A j \in Stored : txn'[j] = txn[j]
  BY <1>1, <1>2 DEF Stored
<1>4. txn'[i] = row /\ row.amount \in Nat
  BY <1>1, AmountLemma DEF Rows
<1>5. FiniteLedger'
  <2>1. Paisa(txn', Stored) = Paisa(txn, Stored)
    BY <1>3, PaisaSame
  <2>2. IsFiniteSet(Paisa(txn', Stored \cup {i}))
    BY <1>2, <1>4, <2>1, PaisaAdd DEF FiniteLedger
  <2> QED BY <1>2, <2>2 DEF FiniteLedger
<1>6. ASSUME NEW x \in Customers, NEW types \in SUBSET Types, NEW statuses \in SUBSET Statuses
      PROVE  Total(RowsOf(x, types, statuses))' =
               Total(RowsOf(x, types, statuses))
                 + (IF x = row.customer /\ row.type \in types
                    THEN Weight(row.status, statuses, row.amount)
                         - Weight("absent", statuses, row.amount) ELSE 0)
  <2> DEFINE R == RowsOf(x, types, statuses)
             fits == x = row.customer /\ row.type \in types /\ row.status \in statuses
  <2>1. R \subseteq Stored /\ i \notin R
    BY <1>2 DEF RowsOf
  <2>2. R' = IF fits THEN R \cup {i} ELSE R
    BY <1>2, <1>3, <1>4 DEF RowsOf
  <2>3. Paisa(txn', R) = Paisa(txn, R)
    BY <1>3, <2>1, PaisaSame
  <2>4. IsFiniteSet(Paisa(txn, R)) /\ Total(R) \in Nat
    BY TotalType
  <2>5. "absent" \notin statuses
    BY DEF Statuses
  <2>6. Total(R)' = Cardinality(Paisa(txn', R'))
    BY DEF Total
  <2>7. Total(R) = Cardinality(Paisa(txn, R))
    BY DEF Total
  <2> HIDE DEF R
  <2>8. CASE fits
    <3>1. Cardinality(Paisa(txn', R \cup {i})) = Cardinality(Paisa(txn', R)) + row.amount
      BY <1>4, <2>1, <2>3, <2>4, PaisaAdd
    <3> QED BY <1>4, <2>2, <2>3, <2>4, <2>5, <2>6, <2>7, <2>8, <3>1 DEF Weight, R
  <2>9. CASE ~fits
    BY <1>4, <2>2, <2>3, <2>4, <2>5, <2>6, <2>7, <2>9 DEF Weight, R
  <2> QED BY <2>8, <2>9
<1> QED BY <1>5, <1>6 DEF Recorded

\* The decision of a pending request.
LEMMA StatusRecorded ==
  ASSUME TypeOK, FiniteLedger, NEW i \in TxnIds, txn[i].status = "pending",
         NEW status \in {"completed", "failed"}, SetStatus(i, status)
  PROVE  FiniteLedger' /\ Recorded(txn[i].customer, txn[i].type, "pending", status, txn[i].amount)
<1>1. txn[i] \in Rows /\ txn[i].amount \in Nat
  BY StoredLemma, AmountLemma DEF Rows
<1>2. \A j \in TxnIds : /\ txn'[j].amount = txn[j].amount
                        /\ txn'[j].customer = txn[j].customer
                        /\ txn'[j].type = txn[j].type
                        /\ j # i => txn'[j].status = txn[j].status
  BY <1>1 DEF SetStatus, TypeOK, Rows
<1>3. txn'[i].status = status
  BY <1>1 DEF SetStatus, TypeOK, Rows
<1>4. Stored' = Stored /\ i \in Stored
  BY <1>2, <1>3 DEF Stored
<1>5. \A j \in Stored : txn'[j].amount = txn[j].amount
  BY <1>2 DEF Stored
<1>6. FiniteLedger'
  BY <1>4, <1>5, PaisaSame DEF FiniteLedger
<1>7. ASSUME NEW x \in Customers, NEW types \in SUBSET Types, NEW statuses \in SUBSET Statuses
      PROVE  Total(RowsOf(x, types, statuses))' =
               Total(RowsOf(x, types, statuses))
                 + (IF x = txn[i].customer /\ txn[i].type \in types
                    THEN Weight(status, statuses, txn[i].amount)
                         - Weight("pending", statuses, txn[i].amount) ELSE 0)
  <2> DEFINE R == RowsOf(x, types, statuses)
             fits == x = txn[i].customer /\ txn[i].type \in types
             a == txn[i].amount
             O == R \ {i}
  <2>1. R \subseteq Stored /\ O \subseteq Stored
    BY DEF RowsOf
  <2>2. /\ R = IF fits /\ "pending" \in statuses THEN O \cup {i} ELSE O
        /\ R' = IF fits /\ status \in statuses THEN O \cup {i} ELSE O
    BY <1>2, <1>3, <1>4 DEF RowsOf, Stored
  <2>3. IsFiniteSet(Paisa(txn, O)) /\ Cardinality(Paisa(txn, O)) \in Nat
    BY <2>1, PaisaSubset DEF FiniteLedger
  <2>4. Paisa(txn', O) = Paisa(txn, O)
    BY <1>5, <2>1, PaisaSame
  <2>5. txn'[i].amount = a /\ a \in Nat /\ i \notin O
    BY <1>1, <1>2
  <2>6. Total(R)' = Cardinality(Paisa(txn', R')) /\ Total(R) = Cardinality(Paisa(txn, R))
    BY DEF Total
  <2> HIDE DEF R, O, a
  <2>7. Cardinality(Paisa(txn, O \cup {i})) = Cardinality(Paisa(txn, O)) + a
    BY <2>3, <2>5, PaisaAdd DEF a
  <2>8. Cardinality(Paisa(txn', O \cup {i})) = Cardinality(Paisa(txn, O)) + a
    BY <2>3, <2>4, <2>5, PaisaAdd
  <2>9. Total(R)' = Cardinality(Paisa(txn, O)) + (IF fits THEN Weight(status, statuses, a) ELSE 0)
    BY <2>2, <2>3, <2>4, <2>5, <2>6, <2>8 DEF Weight
  <2>10. Total(R) = Cardinality(Paisa(txn, O)) + (IF fits THEN Weight("pending", statuses, a) ELSE 0)
    BY <2>2, <2>3, <2>5, <2>6, <2>7 DEF Weight
  <2> QED BY <2>3, <2>5, <2>9, <2>10 DEF Weight, R, a
<1> QED BY <1>6, <1>7 DEF Recorded

\* A step that writes no row.
LEMMA QuietRecorded ==
  ASSUME FiniteLedger, UNCHANGED txn
  PROVE  FiniteLedger' /\ NothingRecorded
BY DEF FiniteLedger, NothingRecorded, Stored, RowsOf, Total

-----------------------------------------------------------------------------
\* What every step does to a wallet and to the sums of its rows

\* The balance of one wallet moves, by d, and no other.
BalanceMoves(c, d) ==
  \A x \in Customers : Balance(wallet[x])' = Balance(wallet[x]) + (IF x = c THEN d ELSE 0)

\* The recharge bucket of one wallet moves by d, or by less.
RechargeMoves(c, d) ==
  \A x \in Customers : wallet'[x].recharge <= wallet[x].recharge + (IF x = c THEN d ELSE 0)

BucketsKept ==
  \A x \in Customers : /\ Balance(wallet[x])' = Balance(wallet[x])
                       /\ wallet'[x].recharge = wallet[x].recharge

\* A debit takes from the buckets what it takes from the balance, and at most that
\* from the recharge; of a withdrawal all of it.
LEMMA DebitMoves ==
  ASSUME TypeOK, NEW c \in Customers, NEW amount \in Nat, NEW strategy \in Strategies,
         amount <= Spendable(wallet[c], strategy),
         wallet' = [wallet EXCEPT ![c] = ApplyDebit(@, amount, strategy)]
  PROVE  /\ BalanceMoves(c, -amount)
         /\ RechargeMoves(c, 0)
         /\ strategy = "recharge_only" => RechargeMoves(c, -amount)
<1> DEFINE f == FromCommission(wallet[c], amount, strategy)
<1>1. MaxBalance \in Nat /\ \A x \in Customers : wallet[x] \in Wallets
  BY MaxBalanceAssumption DEF TypeOK
<1>2. \A x \in Customers : wallet[x].recharge \in Nat /\ wallet[x].commission \in Nat
  BY <1>1 DEF Wallets
<1>3. /\ f \in Int /\ 0 <= f /\ f <= amount
      /\ strategy = "recharge_only" => f = 0
  BY <1>1, <1>2 DEF FromCommission, Spendable, Balance, Strategies
<1>4. wallet'[c] = [wallet[c] EXCEPT !.commission = @ - f, !.recharge = @ - (amount - f)]
  BY DEF ApplyDebit, TypeOK
<1>5. \A x \in Customers : x # c => wallet'[x] = wallet[x]
  BY DEF TypeOK
<1> HIDE DEF f
<1>6. /\ wallet'[c].recharge = wallet[c].recharge - (amount - f)
      /\ wallet'[c].commission = wallet[c].commission - f
  BY <1>1, <1>4 DEF Wallets
<1>7. BalanceMoves(c, -amount)
  BY <1>2, <1>3, <1>5, <1>6 DEF BalanceMoves, Balance
<1>8. RechargeMoves(c, 0)
  BY <1>2, <1>3, <1>5, <1>6 DEF RechargeMoves
<1>9. ASSUME strategy = "recharge_only" PROVE RechargeMoves(c, -amount)
  BY <1>2, <1>3, <1>5, <1>6, <1>9 DEF RechargeMoves
<1> QED BY <1>7, <1>8, <1>9

\* A credit adds to one bucket.
LEMMA CreditMoves ==
  ASSUME TypeOK, NEW c \in Customers, NEW amount \in Nat, NEW bucket \in Buckets,
         wallet' = [wallet EXCEPT ![c] = ApplyCredit(@, amount, bucket)]
  PROVE  /\ BalanceMoves(c, amount)
         /\ RechargeMoves(c, IF bucket = "recharge" THEN amount ELSE 0)
<1>1. \A x \in Customers : wallet[x] \in Wallets
  BY DEF TypeOK
<1>2. \A x \in Customers : wallet[x].recharge \in Nat /\ wallet[x].commission \in Nat
  BY <1>1, MaxBalanceAssumption DEF Wallets
<1>3. wallet'[c] = ApplyCredit(wallet[c], amount, bucket)
  BY DEF TypeOK
<1>4. \A x \in Customers : x # c => wallet'[x] = wallet[x]
  BY DEF TypeOK
<1>5. /\ wallet'[c].recharge = wallet[c].recharge + (IF bucket = "recharge" THEN amount ELSE 0)
      /\ wallet'[c].commission = wallet[c].commission + (IF bucket = "recharge" THEN 0 ELSE amount)
  BY <1>1, <1>2, <1>3 DEF Wallets, ApplyCredit, Buckets
<1>6. BalanceMoves(c, amount)
  BY <1>2, <1>4, <1>5 DEF BalanceMoves, Balance
<1> QED BY <1>2, <1>4, <1>5, <1>6 DEF RechargeMoves

\* A recharge asked for moves no money yet; its row is pending.
LEMMA InsertRechargeMoves ==
  ASSUME TypeOK, FiniteLedger, NEW c \in Customers, NEW i \in TxnIds, InsertRecharge(c, i)
  PROVE  /\ FiniteLedger' /\ BucketsKept
         /\ \E amount \in Amounts : Recorded(c, "recharge", "absent", "pending", amount)
<1> DEFINE row == [status |-> "pending", type |-> "recharge", customer |-> c,
                   amount |-> session[c].amount, ref |-> session[c].ref,
                   key |-> session[c].key]
<1>1. session[c] \in Requests
  BY DEF InsertRecharge, TypeOK
<1>2. row \in Rows /\ row.amount \in Amounts
  BY <1>1 DEF Requests, Rows, Keys
<1>3. FiniteLedger' /\ Recorded(row.customer, row.type, "absent", row.status, row.amount)
  BY <1>2, InsertRecorded DEF InsertRecharge
<1> QED BY <1>2, <1>3 DEF InsertRecharge, BucketsKept

\* A withdrawal asked for takes its amount out of the recharge bucket at once.
LEMMA RequestWithdrawMoves ==
  ASSUME TypeOK, FiniteLedger, NEW c \in Customers, NEW i \in TxnIds, NEW amount \in Amounts,
         NEW key \in ClientKeys \cup {NoKey}, RequestWithdraw(c, i, amount, key)
  PROVE  /\ FiniteLedger' /\ BalanceMoves(c, -amount) /\ RechargeMoves(c, -amount)
         /\ Recorded(c, "withdraw", "absent", "pending", amount)
<1> DEFINE row == [status |-> "pending", type |-> "withdraw", customer |-> c,
                   amount |-> amount, ref |-> NoRef, key |-> key]
<1>1. row \in Rows
  BY DEF Rows, Keys
<1>2. FiniteLedger' /\ Recorded(row.customer, row.type, "absent", row.status, row.amount)
  BY <1>1, InsertRecorded DEF RequestWithdraw
<1>3. wallet[c] \in Wallets /\ amount \in Nat /\ "recharge_only" \in Strategies
  BY AmountLemma DEF TypeOK, Strategies
<1>4. PICK reserve \in Reserves : amount <= MaximumWithdrawable(wallet[c], reserve)
  BY DEF RequestWithdraw
<1>5. amount <= Spendable(wallet[c], "recharge_only")
  <2>1. reserve \in Nat
    BY FundingAssumption
  <2>2. /\ MaximumWithdrawable(wallet[c], reserve) \in Int
        /\ Spendable(wallet[c], "recharge_only") \in Int
    BY <2>1, <1>3, MaxBalanceAssumption DEF MaximumWithdrawable, Spendable, Wallets
  <2> QED BY <1>3, <1>4, <2>1, <2>2, WithdrawableLemma
<1> QED BY <1>2, <1>3, <1>5, DebitMoves DEF RequestWithdraw

\* An approved recharge brings its amount into the recharge bucket.
LEMMA ApproveRechargeMoves ==
  ASSUME TypeOK, FiniteLedger, NEW i \in TxnIds, ApproveRecharge(i)
  PROVE  /\ txn[i].customer \in Customers /\ txn[i].amount \in Amounts /\ FiniteLedger'
         /\ BalanceMoves(txn[i].customer, txn[i].amount)
         /\ RechargeMoves(txn[i].customer, txn[i].amount)
         /\ Recorded(txn[i].customer, "recharge", "pending", "completed", txn[i].amount)
<1>1. txn[i] \in Rows /\ txn[i].status = "pending" /\ txn[i].type = "recharge"
  BY StoredLemma DEF ApproveRecharge, Reviewable
<1>2. txn[i].customer \in Customers /\ txn[i].amount \in Amounts /\ txn[i].amount \in Nat
  BY <1>1, AmountLemma DEF Rows
<1>3. FiniteLedger' /\ Recorded(txn[i].customer, "recharge", "pending", "completed", txn[i].amount)
  BY <1>1, StatusRecorded DEF ApproveRecharge
<1> QED BY <1>2, <1>3, CreditMoves DEF ApproveRecharge, CreditRecharge, Buckets

\* A refused withdrawal brings back to the recharge bucket what it took.
LEMMA RejectWithdrawMoves ==
  ASSUME TypeOK, FiniteLedger, NEW i \in TxnIds, RejectWithdraw(i)
  PROVE  /\ txn[i].customer \in Customers /\ txn[i].amount \in Amounts /\ FiniteLedger'
         /\ BalanceMoves(txn[i].customer, txn[i].amount)
         /\ RechargeMoves(txn[i].customer, txn[i].amount)
         /\ Recorded(txn[i].customer, "withdraw", "pending", "failed", txn[i].amount)
<1>1. txn[i] \in Rows /\ txn[i].status = "pending" /\ txn[i].type = "withdraw"
  BY StoredLemma DEF RejectWithdraw, Reviewable
<1>2. txn[i].customer \in Customers /\ txn[i].amount \in Amounts /\ txn[i].amount \in Nat
  BY <1>1, AmountLemma DEF Rows
<1>3. FiniteLedger' /\ Recorded(txn[i].customer, "withdraw", "pending", "failed", txn[i].amount)
  BY <1>1, StatusRecorded DEF RejectWithdraw
<1> QED BY <1>2, <1>3, CreditMoves DEF RejectWithdraw, CreditRecharge, Buckets

\* A refused recharge changes a row and no wallet.
LEMMA RejectRechargeMoves ==
  ASSUME TypeOK, FiniteLedger, NEW i \in TxnIds, RejectRecharge(i)
  PROVE  /\ txn[i].customer \in Customers /\ txn[i].amount \in Amounts /\ FiniteLedger'
         /\ BucketsKept
         /\ Recorded(txn[i].customer, "recharge", "pending", "failed", txn[i].amount)
<1>1. txn[i] \in Rows /\ txn[i].status = "pending" /\ txn[i].type = "recharge"
  BY StoredLemma DEF RejectRecharge, Reviewable
<1>2. FiniteLedger' /\ Recorded(txn[i].customer, "recharge", "pending", "failed", txn[i].amount)
  BY <1>1, StatusRecorded DEF RejectRecharge
<1> QED BY <1>1, <1>2 DEF Rows, RejectRecharge, BucketsKept

\* An approved withdrawal changes a row and no wallet: its money is gone already.
LEMMA ApproveWithdrawMoves ==
  ASSUME TypeOK, FiniteLedger, NEW i \in TxnIds, ApproveWithdraw(i)
  PROVE  /\ txn[i].customer \in Customers /\ txn[i].amount \in Amounts /\ FiniteLedger'
         /\ BucketsKept
         /\ Recorded(txn[i].customer, "withdraw", "pending", "completed", txn[i].amount)
<1>1. txn[i] \in Rows /\ txn[i].status = "pending" /\ txn[i].type = "withdraw"
  BY StoredLemma DEF ApproveWithdraw, Reviewable
<1>2. FiniteLedger' /\ Recorded(txn[i].customer, "withdraw", "pending", "completed", txn[i].amount)
  BY <1>1, StatusRecorded DEF ApproveWithdraw
<1> QED BY <1>1, <1>2 DEF Rows, ApproveWithdraw, BucketsKept

\* A charge takes the price of a meal out of the wallet and writes it down.
LEMMA ChargeMoves ==
  ASSUME TypeOK, FiniteLedger, NEW c \in Customers, NEW i \in TxnIds, NEW e \in Events,
         NEW amount \in Amounts, ChargeWallet(c, i, e, amount)
  PROVE  /\ FiniteLedger' /\ amount <= Balance(wallet[c])
         /\ BalanceMoves(c, -amount) /\ RechargeMoves(c, 0)
         /\ Recorded(c, "payment", "absent", "completed", amount)
<1> DEFINE row == [status |-> "completed", type |-> "payment", customer |-> c,
                   amount |-> amount, ref |-> NoRef, key |-> MealKey(e)]
           strategy == DefaultDebitStrategy("payment")
<1>1. row \in Rows
  BY DEF Rows, Keys
<1>2. FiniteLedger' /\ Recorded(row.customer, row.type, "absent", row.status, row.amount)
  BY <1>1, InsertRecorded DEF ChargeWallet
<1>3. amount \in Nat /\ strategy \in Strategies /\ amount <= Spendable(wallet[c], strategy)
  BY AmountLemma DEF Strategies, DefaultDebitStrategy, ChargeWallet
<1>4. amount <= Balance(wallet[c])
  BY <1>3 DEF DefaultDebitStrategy, Spendable
<1> QED BY <1>2, <1>3, <1>4, DebitMoves DEF ChargeWallet

\* A commission comes into the commission bucket and is written down.
LEMMA CommissionMoves ==
  ASSUME TypeOK, FiniteLedger, NEW c \in Customers, NEW i \in TxnIds, NEW e \in Events,
         NEW amount \in Amounts, PayCommission(c, i, e, amount)
  PROVE  /\ FiniteLedger' /\ BalanceMoves(c, amount) /\ RechargeMoves(c, 0)
         /\ Recorded(c, "referral_commission", "absent", "completed", amount)
<1> DEFINE row == [status |-> "completed", type |-> "referral_commission",
                   customer |-> c, amount |-> amount, ref |-> NoRef,
                   key |-> ReferralKey(e)]
<1>1. row \in Rows
  BY DEF Rows, Keys
<1>2. FiniteLedger' /\ Recorded(row.customer, row.type, "absent", row.status, row.amount)
  BY <1>1, InsertRecorded DEF PayCommission
<1>3. amount \in Nat /\ "commission" \in Buckets
  BY AmountLemma DEF Buckets
<1>4. wallet' = [wallet EXCEPT ![c] = ApplyCredit(wallet[c], amount, "commission")]
  BY DEF PayCommission, DefaultCreditBucket
<1> QED BY <1>2, <1>3, <1>4, CreditMoves

\* All other steps move no money of a customer and write no row.
OtherStep ==
  \/ \E c \in Customers : \/ \E amount \in Amounts, ref \in Refs,
                                key \in ClientKeys \cup {NoKey} :
                                CheckRecharge(c, amount, ref, key)
                          \/ AbortRecharge(c)
  \/ StaffStep
  \/ UNCHANGED vars

\* Checks, aborts, statuses and the staff's movements leave money and rows alone.
LEMMA OtherMoves ==
  ASSUME TypeOK, FiniteLedger, OtherStep
  PROVE  FiniteLedger' /\ NothingRecorded /\ BucketsKept
<1>1. UNCHANGED txn
  BY DEF OtherStep, CheckRecharge, AbortRecharge, StaffStep, SetWalletStatus, StaffMovement,
         FreezePlatform, vars
<1>2. FiniteLedger' /\ NothingRecorded
  BY <1>1, QuietRecorded
<1>3. CASE UNCHANGED wallet
  BY <1>2, <1>3 DEF BucketsKept
<1>4. ASSUME NEW c \in Customers, NEW status \in WalletStatuses, SetWalletStatus(c, status)
      PROVE  BucketsKept
  BY <1>4 DEF SetWalletStatus, BucketsKept, Balance, TypeOK, Wallets
<1> QED
  BY <1>2, <1>3, <1>4
  DEF OtherStep, CheckRecharge, AbortRecharge, StaffStep, StaffMovement, FreezePlatform, vars

\* What a step can be.
LEMMA StepCases ==
  ASSUME [Next]_vars
  PROVE  \/ \E c \in Customers, i \in TxnIds : InsertRecharge(c, i)
         \/ \E c \in Customers, i \in TxnIds, amount \in Amounts, key \in ClientKeys \cup {NoKey} :
              RequestWithdraw(c, i, amount, key)
         \/ ReviewStep \/ LedgerStep \/ OtherStep
BY DEF Next, CustomerStep, OtherStep

-----------------------------------------------------------------------------
\* The rows explain the money

Credits(c) == Total(RowsOf(c, {"recharge", "referral_commission"}, {"completed"}))
Recharged(c) == Total(RowsOf(c, {"recharge"}, {"completed"}))
Earned(c) == Total(RowsOf(c, {"referral_commission"}, {"completed"}))
Eaten(c) == Total(RowsOf(c, {"payment"}, {"completed"}))
Out(c) == Total(RowsOf(c, {"withdraw"}, {"pending", "completed"}))

\* The withdrawals of a wallet and what is left of its recharges come from them.
RechargesCover == \A c \in Customers : wallet[c].recharge + Out(c) <= Recharged(c)

\* The inductive invariant: the bucket of recharged money is what keeps commission
\* from being withdrawn.
LedgerInv == FiniteLedger /\ LedgerExplainsBalance /\ RechargesCover

\* The six sums that the properties speak of.
LEMMA SumsType ==
  ASSUME FiniteLedger, NEW c \in Customers
  PROVE  /\ Credits(c) \in Nat /\ Recharged(c) \in Nat /\ Earned(c) \in Nat
         /\ Eaten(c) \in Nat /\ Out(c) \in Nat /\ Held(c) \in Nat
         /\ Held(c) <= Out(c)
<1>1. /\ Credits(c) \in Nat /\ Recharged(c) \in Nat /\ Earned(c) \in Nat
      /\ Eaten(c) \in Nat /\ Out(c) \in Nat /\ Held(c) \in Nat
  BY TotalType DEF Credits, Recharged, Earned, Eaten, Out, Held
<1>2. RowsOf(c, {"withdraw"}, {"pending"}) \in SUBSET RowsOf(c, {"withdraw"}, {"pending", "completed"})
  BY DEF RowsOf
<1>3. IsFiniteSet(Paisa(txn, RowsOf(c, {"withdraw"}, {"pending", "completed"})))
  BY TotalType
<1>4. Held(c) <= Out(c)
  BY <1>2, <1>3, PaisaSubset DEF Held, Out, Total
<1> QED BY <1>1, <1>4

\* What a recorded row does to the six sums.
LEMMA SumsMove ==
  ASSUME NEW c \in Customers, NEW type, NEW old, NEW new, NEW amount \in Nat,
         Recorded(c, type, old, new, amount), NEW x \in Customers, FiniteLedger
  PROVE  LET w(statuses) == Weight(new, statuses, amount) - Weight(old, statuses, amount)
             mine == x = c
         IN  /\ Credits(x)' = Credits(x) + (IF mine /\ type \in {"recharge", "referral_commission"}
                                            THEN w({"completed"}) ELSE 0)
             /\ Recharged(x)' = Recharged(x) + (IF mine /\ type = "recharge" THEN w({"completed"}) ELSE 0)
             /\ Earned(x)' = Earned(x) + (IF mine /\ type = "referral_commission"
                                          THEN w({"completed"}) ELSE 0)
             /\ Eaten(x)' = Eaten(x) + (IF mine /\ type = "payment" THEN w({"completed"}) ELSE 0)
             /\ Out(x)' = Out(x) + (IF mine /\ type = "withdraw"
                                    THEN w({"pending", "completed"}) ELSE 0)
             /\ Held(x)' = Held(x) + (IF mine /\ type = "withdraw" THEN w({"pending"}) ELSE 0)
<1>1. /\ {"recharge", "referral_commission"} \in SUBSET Types /\ {"recharge"} \in SUBSET Types
      /\ {"referral_commission"} \in SUBSET Types /\ {"payment"} \in SUBSET Types
      /\ {"withdraw"} \in SUBSET Types
      /\ {"completed"} \in SUBSET Statuses /\ {"pending"} \in SUBSET Statuses
      /\ {"pending", "completed"} \in SUBSET Statuses
  BY DEF Types, Statuses
<1>2. \A types \in SUBSET Types, statuses \in SUBSET Statuses :
        Total(RowsOf(x, types, statuses))' =
          Total(RowsOf(x, types, statuses))
            + (IF x = c /\ type \in types
               THEN Weight(new, statuses, amount) - Weight(old, statuses, amount) ELSE 0)
  BY DEF Recorded
<1>3. Credits(x)' = Credits(x) + (IF x = c /\ type \in {"recharge", "referral_commission"}
        THEN Weight(new, {"completed"}, amount) - Weight(old, {"completed"}, amount) ELSE 0)
  BY <1>1, <1>2 DEF Credits
<1>4. Recharged(x)' = Recharged(x) + (IF x = c /\ type \in {"recharge"}
        THEN Weight(new, {"completed"}, amount) - Weight(old, {"completed"}, amount) ELSE 0)
  BY <1>1, <1>2 DEF Recharged
<1>5. Earned(x)' = Earned(x) + (IF x = c /\ type \in {"referral_commission"}
        THEN Weight(new, {"completed"}, amount) - Weight(old, {"completed"}, amount) ELSE 0)
  BY <1>1, <1>2 DEF Earned
<1>6. Eaten(x)' = Eaten(x) + (IF x = c /\ type \in {"payment"}
        THEN Weight(new, {"completed"}, amount) - Weight(old, {"completed"}, amount) ELSE 0)
  BY <1>1, <1>2 DEF Eaten
<1>7. Out(x)' = Out(x) + (IF x = c /\ type \in {"withdraw"}
        THEN Weight(new, {"pending", "completed"}, amount)
             - Weight(old, {"pending", "completed"}, amount) ELSE 0)
  BY <1>1, <1>2 DEF Out
<1>8. Held(x)' = Held(x) + (IF x = c /\ type \in {"withdraw"}
        THEN Weight(new, {"pending"}, amount) - Weight(old, {"pending"}, amount) ELSE 0)
  BY <1>1, <1>2 DEF Held
<1> QED BY <1>3, <1>4, <1>5, <1>6, <1>7, <1>8

\* Nothing recorded, no sum moved.
LEMMA SumsStay ==
  ASSUME NothingRecorded, NEW x \in Customers
  PROVE  /\ Credits(x)' = Credits(x) /\ Recharged(x)' = Recharged(x) /\ Earned(x)' = Earned(x)
         /\ Eaten(x)' = Eaten(x) /\ Out(x)' = Out(x) /\ Held(x)' = Held(x)
<1>1. /\ {"recharge", "referral_commission"} \in SUBSET Types /\ {"recharge"} \in SUBSET Types
      /\ {"referral_commission"} \in SUBSET Types /\ {"payment"} \in SUBSET Types
      /\ {"withdraw"} \in SUBSET Types
      /\ {"completed"} \in SUBSET Statuses /\ {"pending"} \in SUBSET Statuses
      /\ {"pending", "completed"} \in SUBSET Statuses
  BY DEF Types, Statuses
<1> QED BY <1>1 DEF NothingRecorded, Credits, Recharged, Earned, Eaten, Out, Held

\* A row and the money that goes with it: the balance moves by what the row adds to
\* the credits less what it adds to the charges and withdrawals.
LEMMA LedgerMoves ==
  ASSUME TypeOK, TypeOK', LedgerInv, FiniteLedger', NEW c \in Customers, NEW type \in Types,
         NEW old \in {"absent", "pending"}, NEW new \in Statuses, NEW amount \in Nat,
         Recorded(c, type, old, new, amount),
         LET w(statuses) == Weight(new, statuses, amount) - Weight(old, statuses, amount)
             held == IF type = "withdraw" THEN w({"pending", "completed"}) ELSE 0
         IN  /\ BalanceMoves(c, (IF type \in {"recharge", "referral_commission"}
                                 THEN w({"completed"}) ELSE 0)
                                - (IF type = "payment" THEN w({"completed"}) ELSE 0) - held)
             /\ RechargeMoves(c, (IF type = "recharge" THEN w({"completed"}) ELSE 0) - held)
  PROVE  LedgerInv'
<1> DEFINE done == Weight(new, {"completed"}, amount) - Weight(old, {"completed"}, amount)
           taken == Weight(new, {"pending", "completed"}, amount)
                    - Weight(old, {"pending", "completed"}, amount)
<1>1. done \in Int /\ taken \in Int
  BY DEF Weight
<1>2. ASSUME NEW x \in Customers
      PROVE  /\ Balance(wallet[x])' = Credits(x)' - Eaten(x)' - Out(x)'
             /\ wallet'[x].recharge + Out(x)' <= Recharged(x)'
  <2>1. /\ Credits(x) \in Nat /\ Recharged(x) \in Nat /\ Eaten(x) \in Nat /\ Out(x) \in Nat
        /\ wallet[x].recharge \in Int /\ Balance(wallet[x]) \in Int /\ wallet'[x].recharge \in Int
    BY SumsType, MaxBalanceAssumption DEF LedgerInv, TypeOK, Wallets, Balance
  <2>2. /\ Balance(wallet[x]) = Credits(x) - Eaten(x) - Out(x)
        /\ wallet[x].recharge + Out(x) <= Recharged(x)
    BY DEF LedgerInv, LedgerExplainsBalance, RechargesCover, Credits, Eaten, Out
  <2>3. /\ Credits(x)' = Credits(x) + (IF x = c /\ type \in {"recharge", "referral_commission"}
                                       THEN done ELSE 0)
        /\ Recharged(x)' = Recharged(x) + (IF x = c /\ type = "recharge" THEN done ELSE 0)
        /\ Eaten(x)' = Eaten(x) + (IF x = c /\ type = "payment" THEN done ELSE 0)
        /\ Out(x)' = Out(x) + (IF x = c /\ type = "withdraw" THEN taken ELSE 0)
    BY SumsMove DEF LedgerInv
  <2> DEFINE held == IF type = "withdraw" THEN taken ELSE 0
             b == (IF type \in {"recharge", "referral_commission"} THEN done ELSE 0)
                  - (IF type = "payment" THEN done ELSE 0) - held
             r == (IF type = "recharge" THEN done ELSE 0) - held
  <2>4. /\ Balance(wallet[x])' = Balance(wallet[x]) + (IF x = c THEN b ELSE 0)
        /\ wallet'[x].recharge <= wallet[x].recharge + (IF x = c THEN r ELSE 0)
    BY DEF BalanceMoves, RechargeMoves
  <2> HIDE DEF done, taken
  <2>5. CASE x # c
    BY <2>1, <2>2, <2>3, <2>4, <2>5
  <2>6. CASE x = c /\ type = "recharge"
    BY <1>1, <2>1, <2>2, <2>3, <2>4, <2>6
  <2>7. CASE x = c /\ type = "referral_commission"
    BY <1>1, <2>1, <2>2, <2>3, <2>4, <2>7
  <2>8. CASE x = c /\ type = "payment"
    BY <1>1, <2>1, <2>2, <2>3, <2>4, <2>8
  <2>9. CASE x = c /\ type = "withdraw"
    BY <1>1, <2>1, <2>2, <2>3, <2>4, <2>9
  <2> QED BY <2>5, <2>6, <2>7, <2>8, <2>9 DEF Types
<1>3. LedgerExplainsBalance' /\ RechargesCover'
  BY <1>2 DEF LedgerExplainsBalance, RechargesCover, Credits, Eaten, Out
<1> QED BY <1>3 DEF LedgerInv

\* Every step keeps the rows and the money together.
LEMMA LedgerStepKept ==
  ASSUME TypeOK, LedgerInv, [Next]_vars
  PROVE  LedgerInv'
<1>0. TypeOK' /\ FiniteLedger
  BY TypeStep DEF LedgerInv
<1> USE DEF Weight, Types, Statuses
<1>1. ASSUME BucketsKept
      PROVE  \A c \in Customers : BalanceMoves(c, 0) /\ RechargeMoves(c, 0)
  BY <1>0, <1>1, MaxBalanceAssumption DEF BucketsKept, BalanceMoves, RechargeMoves, TypeOK, Wallets, Balance
<1>2. ASSUME NEW c \in Customers, NEW i \in TxnIds, InsertRecharge(c, i)
      PROVE  LedgerInv'
  <2>1. PICK amount \in Amounts : Recorded(c, "recharge", "absent", "pending", amount)
    BY <1>0, <1>2, InsertRechargeMoves
  <2>2. FiniteLedger' /\ BalanceMoves(c, 0) /\ RechargeMoves(c, 0) /\ amount \in Nat
    BY <1>0, <1>1, <1>2, InsertRechargeMoves, AmountLemma
  <2> QED BY <1>0, <2>1, <2>2, LedgerMoves
<1>3. ASSUME NEW c \in Customers, NEW i \in TxnIds, NEW amount \in Amounts,
             NEW key \in ClientKeys \cup {NoKey}, RequestWithdraw(c, i, amount, key)
      PROVE  LedgerInv'
  <2>1. /\ FiniteLedger' /\ BalanceMoves(c, -amount) /\ RechargeMoves(c, -amount)
        /\ Recorded(c, "withdraw", "absent", "pending", amount) /\ amount \in Nat
    BY <1>0, <1>3, RequestWithdrawMoves, AmountLemma
  <2>2. 0 - 0 - (amount - 0) = -amount /\ 0 - (amount - 0) = -amount
    BY <2>1
  <2> QED BY <1>0, <2>1, <2>2, LedgerMoves
<1>4. ASSUME NEW i \in TxnIds, ApproveRecharge(i)
      PROVE  LedgerInv'
  <2> DEFINE c == txn[i].customer
             amount == txn[i].amount
  <2>1. /\ c \in Customers /\ amount \in Nat /\ FiniteLedger'
        /\ BalanceMoves(c, amount) /\ RechargeMoves(c, amount)
        /\ Recorded(c, "recharge", "pending", "completed", amount)
    BY <1>0, <1>4, ApproveRechargeMoves, AmountLemma
  <2>2. amount - 0 - 0 - 0 = amount /\ amount - 0 = amount
    BY <2>1
  <2> HIDE DEF c, amount
  <2> QED BY <1>0, <2>1, <2>2, LedgerMoves
<1>5. ASSUME NEW i \in TxnIds, RejectRecharge(i)
      PROVE  LedgerInv'
  <2> DEFINE c == txn[i].customer
             amount == txn[i].amount
  <2>1. /\ c \in Customers /\ amount \in Nat /\ FiniteLedger'
        /\ BalanceMoves(c, 0) /\ RechargeMoves(c, 0)
        /\ Recorded(c, "recharge", "pending", "failed", amount)
    BY <1>0, <1>1, <1>5, RejectRechargeMoves, AmountLemma
  <2> HIDE DEF c, amount
  <2> QED BY <1>0, <2>1, LedgerMoves
<1>6. ASSUME NEW i \in TxnIds, ApproveWithdraw(i)
      PROVE  LedgerInv'
  <2> DEFINE c == txn[i].customer
             amount == txn[i].amount
  <2>1. /\ c \in Customers /\ amount \in Nat /\ FiniteLedger'
        /\ BalanceMoves(c, 0) /\ RechargeMoves(c, 0)
        /\ Recorded(c, "withdraw", "pending", "completed", amount)
    BY <1>0, <1>1, <1>6, ApproveWithdrawMoves, AmountLemma
  <2>2. amount - amount = 0 /\ 0 - 0 - (amount - amount) = 0 /\ 0 - (amount - amount) = 0
    BY <2>1
  <2> HIDE DEF c, amount
  <2> QED BY <1>0, <2>1, <2>2, LedgerMoves
<1>7. ASSUME NEW i \in TxnIds, RejectWithdraw(i)
      PROVE  LedgerInv'
  <2> DEFINE c == txn[i].customer
             amount == txn[i].amount
  <2>1. /\ c \in Customers /\ amount \in Nat /\ FiniteLedger'
        /\ BalanceMoves(c, amount) /\ RechargeMoves(c, amount)
        /\ Recorded(c, "withdraw", "pending", "failed", amount)
    BY <1>0, <1>7, RejectWithdrawMoves, AmountLemma
  <2>2. 0 - 0 - (0 - amount) = amount /\ 0 - (0 - amount) = amount
    BY <2>1
  <2> HIDE DEF c, amount
  <2> QED BY <1>0, <2>1, <2>2, LedgerMoves
<1>8. ASSUME NEW c \in Customers, NEW i \in TxnIds, NEW e \in Events,
             NEW amount \in Amounts, ChargeWallet(c, i, e, amount)
      PROVE  LedgerInv'
  <2>1. /\ FiniteLedger' /\ BalanceMoves(c, -amount) /\ RechargeMoves(c, 0)
        /\ Recorded(c, "payment", "absent", "completed", amount) /\ amount \in Nat
    BY <1>0, <1>8, ChargeMoves, AmountLemma
  <2>2. 0 - (amount - 0) - 0 = -amount
    BY <2>1
  <2> QED BY <1>0, <2>1, <2>2, LedgerMoves
<1>9. ASSUME NEW c \in Customers, NEW i \in TxnIds, NEW e \in Events,
             NEW amount \in Amounts, PayCommission(c, i, e, amount)
      PROVE  LedgerInv'
  <2>1. /\ FiniteLedger' /\ BalanceMoves(c, amount) /\ RechargeMoves(c, 0)
        /\ Recorded(c, "referral_commission", "absent", "completed", amount) /\ amount \in Nat
    BY <1>0, <1>9, CommissionMoves, AmountLemma
  <2>2. amount - 0 - 0 - 0 = amount
    BY <2>1
  <2> QED BY <1>0, <2>1, <2>2, LedgerMoves
<1>10. CASE OtherStep
  <2>1. FiniteLedger' /\ NothingRecorded /\ BucketsKept
    BY <1>0, <1>10, OtherMoves
  <2>2. \A x \in Customers : /\ Credits(x)' = Credits(x) /\ Recharged(x)' = Recharged(x)
                             /\ Eaten(x)' = Eaten(x) /\ Out(x)' = Out(x)
    BY <2>1, SumsStay
  <2>3. LedgerExplainsBalance' /\ RechargesCover'
    BY <2>1, <2>2
    DEF LedgerInv, LedgerExplainsBalance, RechargesCover, BucketsKept, Credits, Recharged, Eaten, Out
  <2> QED BY <2>1, <2>3 DEF LedgerInv
<1> QED
  BY <1>2, <1>3, <1>4, <1>5, <1>6, <1>7, <1>8, <1>9, <1>10, StepCases DEF ReviewStep, LedgerStep

\* Without a row and without money the ledger explains itself.
LEMMA InitLedger == Init => LedgerInv
<1> SUFFICES ASSUME Init PROVE LedgerInv
  OBVIOUS
<1>1. Stored = {}
  BY DEF Init, Stored, NoRow
<1>2. \A x, types, statuses : RowsOf(x, types, statuses) = {}
  BY <1>1 DEF RowsOf
<1>3. Paisa(txn, {}) = {} /\ IsFiniteSet(Paisa(txn, {})) /\ Total({}) = 0
  BY FS_EmptySet DEF Paisa, Total
<1>4. \A c \in Customers : wallet[c].recharge = 0 /\ Balance(wallet[c]) = 0
  BY DEF Init, NewWallet, Balance
<1>5. FiniteLedger
  BY <1>1, <1>3 DEF FiniteLedger
<1>6. \A c \in Customers : Credits(c) = 0 /\ Recharged(c) = 0 /\ Eaten(c) = 0 /\ Out(c) = 0
  BY <1>2, <1>3, Zenon DEF Credits, Recharged, Eaten, Out
<1>7. LedgerExplainsBalance
  <2> SUFFICES ASSUME NEW c \in Customers
               PROVE  Balance(wallet[c]) = Credits(c) - Eaten(c) - Out(c)
    BY DEF LedgerExplainsBalance, Credits, Eaten, Out
  <2> QED BY <1>4, <1>6
<1>8. RechargesCover
  BY <1>4, <1>6 DEF RechargesCover
<1> QED BY <1>5, <1>7, <1>8 DEF LedgerInv

\* The inductive invariant of the customers' ledger.
THEOREM LedgerInvariant == Spec => []LedgerInv
<1>1. TypeOK /\ LedgerInv /\ [Next]_vars => LedgerInv'
  BY LedgerStepKept
<1> QED BY <1>1, InitLedger, TypeCorrect, PTL DEF Spec

\* For any number of customers, requests and amounts, the rows of a wallet explain
\* its balance to the paisa (verify_wallet_balance_consistency).
THEOREM LedgerExplained == Spec => []LedgerExplainsBalance
<1>1. LedgerInv => LedgerExplainsBalance
  BY DEF LedgerInv
<1> QED BY <1>1, LedgerInvariant, PTL

\* No sequence of commissions, meals, requests and reviews lets a customer withdraw
\* more than was recharged (Wallet.commission_balance).
THEOREM CommissionStays == Spec => []CommissionNotWithdrawable
<1>1. TypeOK /\ LedgerInv => CommissionNotWithdrawable
  <2> SUFFICES ASSUME TypeOK, LedgerInv, NEW c \in Customers PROVE Out(c) <= Recharged(c)
    BY DEF CommissionNotWithdrawable, Out, Recharged
  <2>1. wallet[c].recharge \in Nat /\ Out(c) \in Nat /\ Recharged(c) \in Nat
    BY SumsType, MaxBalanceAssumption DEF LedgerInv, TypeOK, Wallets
  <2> QED BY <2>1 DEF LedgerInv, RechargesCover
<1> QED BY <1>1, LedgerInvariant, TypeCorrect, PTL

-----------------------------------------------------------------------------
\* Funding implements CustomerFunds

\* What a customer has a claim on: the balance and what is held for withdrawals.
Claims(c) == Balance(wallet[c]) + Held(c)

\* The counters of the platform wallet that the customers' deposits and payouts move.
CountersKept == admin'.funding = admin.funding /\ admin'.payouts = admin.payouts

\* A credit that is no deposit of a customer moves neither counter.
LEMMA CreditKeepsCounters ==
  ASSUME AdminTypeOK, NEW type \in CreditTypes \ {"customer_funding"}, NEW amount \in Nat,
         NEW key, CreditAdminWallet(type, amount, key)
  PROVE  CountersKept
<1>1. CASE UNCHANGED adminVars
  BY <1>1 DEF adminVars, CountersKept
<1>2. CASE PostCredit(type, amount, key)
  <2>1. admin' = Credited(type, amount) /\ admin.funding \in Nat
    BY <1>2 DEF PostCredit, AdminTypeOK
  <2>2. /\ CreditCounters(admin, type, amount).funding = admin.funding
        /\ CreditCounters(admin, type, amount).payouts = admin.payouts
    BY <2>1 DEF CreditCounters, AdminTypeOK
  <2>3. /\ Credited(type, amount).funding = CreditCounters(admin, type, amount).funding
        /\ Credited(type, amount).payouts = CreditCounters(admin, type, amount).payouts
    BY DEF Credited, CreditCounters, AdminTypeOK
  <2> QED BY <2>1, <2>2, <2>3 DEF CountersKept
<1> QED BY <1>1, <1>2 DEF CreditAdminWallet

\* Nor does a debit that is no payout.
LEMMA DebitKeepsCounters ==
  ASSUME AdminTypeOK, NEW type \in DebitTypes \ {"customer_withdraw"}, NEW amount \in Nat,
         NEW key, DebitAdminWallet(type, amount, key)
  PROVE  CountersKept
<1>1. CASE UNCHANGED adminVars
  BY <1>1 DEF adminVars, CountersKept
<1>2. CASE PostDebit(type, amount, key)
  BY <1>2 DEF PostDebit, AdminTypeOK, Debited, DebitCounters, CountersKept
<1> QED BY <1>1, <1>2 DEF DebitAdminWallet

\* An approved recharge is a deposit that the platform received.
LEMMA DepositCounters ==
  ASSUME AdminTypeOK, NEW amount \in Nat, NEW key, PostCredit("customer_funding", amount, key)
  PROVE  admin'.funding = admin.funding + amount /\ admin'.payouts = admin.payouts
BY DEF PostCredit, AdminTypeOK, Credited, CreditCounters

\* An approved withdrawal is a payout that the platform made.
LEMMA PayoutCounters ==
  ASSUME AdminTypeOK, NEW amount \in Nat, NEW key, PostDebit("customer_withdraw", amount, key)
  PROVE  admin'.funding = admin.funding /\ admin'.payouts = admin.payouts + amount
BY DEF PostDebit, AdminTypeOK, Debited, DebitCounters

\* How much one customer's claims, charges and earnings move.
FundsMove(c, claim, charge, earning) ==
  \A x \in Customers :
    /\ Claims(x)' = Claims(x) + (IF x = c THEN claim ELSE 0)
    /\ Eaten(x)' = Eaten(x) + (IF x = c THEN charge ELSE 0)
    /\ Earned(x)' = Earned(x) + (IF x = c THEN earning ELSE 0)

FundsStay ==
  \A x \in Customers :
    Claims(x)' = Claims(x) /\ Eaten(x)' = Eaten(x) /\ Earned(x)' = Earned(x)

\* All of these are natural numbers.
LEMMA ClaimsType ==
  ASSUME TypeOK, FiniteLedger, NEW c \in Customers
  PROVE  /\ Claims(c) \in Nat /\ Eaten(c) \in Nat /\ Earned(c) \in Nat
         /\ Held(c) \in Nat /\ Balance(wallet[c]) \in Nat
BY SumsType, MaxBalanceAssumption DEF Claims, TypeOK, Wallets, Balance

\* A step that moves none of them is a stutter of CustomerFunds.
LEMMA StutterMaps ==
  ASSUME FundsStay, CountersKept
  PROVE  UNCHANGED Funds!fundsVars
BY DEF FundsStay, CountersKept, Funds!fundsVars, claims, charged, earned, Claims, Eaten, Earned

\* A record of the row and the balance that goes with it: what happens to the claims.
LEMMA ClaimsMove ==
  ASSUME TypeOK, FiniteLedger, NEW c \in Customers, NEW type \in Types,
         NEW old \in {"absent", "pending"}, NEW new \in Statuses, NEW amount \in Nat,
         Recorded(c, type, old, new, amount), NEW d \in Int, BalanceMoves(c, d)
  PROVE  LET done == Weight(new, {"completed"}, amount) - Weight(old, {"completed"}, amount)
             held == Weight(new, {"pending"}, amount) - Weight(old, {"pending"}, amount)
         IN  FundsMove(c, d + (IF type = "withdraw" THEN held ELSE 0),
                          IF type = "payment" THEN done ELSE 0,
                          IF type = "referral_commission" THEN done ELSE 0)
<1> DEFINE done == Weight(new, {"completed"}, amount) - Weight(old, {"completed"}, amount)
           held == Weight(new, {"pending"}, amount) - Weight(old, {"pending"}, amount)
<1>1. done \in Int /\ held \in Int
  BY DEF Weight
<1> SUFFICES ASSUME NEW x \in Customers
             PROVE  /\ Claims(x)' = Claims(x)
                         + (IF x = c THEN d + (IF type = "withdraw" THEN held ELSE 0) ELSE 0)
                    /\ Eaten(x)' = Eaten(x)
                         + (IF x = c THEN (IF type = "payment" THEN done ELSE 0) ELSE 0)
                    /\ Earned(x)' = Earned(x)
                         + (IF x = c THEN (IF type = "referral_commission" THEN done ELSE 0) ELSE 0)
  BY DEF FundsMove
<1>2. /\ Eaten(x)' = Eaten(x) + (IF x = c /\ type = "payment" THEN done ELSE 0)
      /\ Earned(x)' = Earned(x) + (IF x = c /\ type = "referral_commission" THEN done ELSE 0)
      /\ Held(x)' = Held(x) + (IF x = c /\ type = "withdraw" THEN held ELSE 0)
  BY SumsMove
<1>3. Balance(wallet[x])' = Balance(wallet[x]) + (IF x = c THEN d ELSE 0)
  BY DEF BalanceMoves
<1>4. Claims(x) = Balance(wallet[x]) + Held(x) /\ Claims(x)' = Balance(wallet[x])' + Held(x)'
  BY DEF Claims
<1>5. /\ Balance(wallet[x]) \in Nat /\ Held(x) \in Nat /\ Eaten(x) \in Nat /\ Earned(x) \in Nat
  BY ClaimsType
<1> HIDE DEF done, held
<1>6. CASE x # c
  BY <1>1, <1>2, <1>3, <1>4, <1>5, <1>6
<1>7. CASE x = c /\ type = "withdraw"
  BY <1>1, <1>2, <1>3, <1>4, <1>5, <1>7
<1>8. CASE x = c /\ type # "withdraw"
  BY <1>1, <1>2, <1>3, <1>4, <1>5, <1>8
<1> QED BY <1>6, <1>7, <1>8

\* The four steps of CustomerFunds.
LEMMA FundsSteps ==
  ASSUME TypeOK, FiniteLedger, NEW c \in Customers, NEW amount \in Amounts
  PROVE  /\ /\ FundsMove(c, amount, 0, 0)
            /\ admin'.funding = admin.funding + amount /\ admin'.payouts = admin.payouts
            => Funds!Deposit(c, amount)
         /\ /\ amount <= Claims(c) /\ FundsMove(c, -amount, 0, 0)
            /\ admin'.funding = admin.funding /\ admin'.payouts = admin.payouts + amount
            => Funds!Payout(c, amount)
         /\ amount <= Claims(c) /\ FundsMove(c, -amount, amount, 0) /\ CountersKept
            => Funds!Charge(c, amount)
         /\ FundsMove(c, amount, 0, amount) /\ CountersKept
            => Funds!Earn(c, amount)
<1>1. amount \in Nat
  BY AmountLemma
<1>2. \A x \in Customers : Claims(x) \in Nat /\ Eaten(x) \in Nat /\ Earned(x) \in Nat
  BY ClaimsType
<1>3. /\ claims = [x \in Customers |-> Claims(x)] /\ claims' = [x \in Customers |-> Claims(x)']
      /\ charged = [x \in Customers |-> Eaten(x)] /\ charged' = [x \in Customers |-> Eaten(x)']
      /\ earned = [x \in Customers |-> Earned(x)] /\ earned' = [x \in Customers |-> Earned(x)']
  BY DEF claims, charged, earned, Claims, Eaten, Earned
<1>4. claims[c] = Claims(c) /\ charged[c] = Eaten(c) /\ earned[c] = Earned(c)
  BY <1>3
<1>5. ASSUME NEW d \in Int, \A x \in Customers : Claims(x)' = Claims(x) + (IF x = c THEN d ELSE 0)
      PROVE  claims' = [claims EXCEPT ![c] = claims[c] + d]
  BY <1>2, <1>3, <1>5
<1>6. /\ (\A x \in Customers : Eaten(x)' = Eaten(x) + (IF x = c THEN amount ELSE 0))
         => charged' = [charged EXCEPT ![c] = charged[c] + amount]
      /\ (\A x \in Customers : Eaten(x)' = Eaten(x) + (IF x = c THEN 0 ELSE 0))
         => charged' = charged
  BY <1>1, <1>2, <1>3
<1>7. /\ (\A x \in Customers : Earned(x)' = Earned(x) + (IF x = c THEN amount ELSE 0))
         => earned' = [earned EXCEPT ![c] = earned[c] + amount]
      /\ (\A x \in Customers : Earned(x)' = Earned(x) + (IF x = c THEN 0 ELSE 0))
         => earned' = earned
  BY <1>1, <1>2, <1>3
<1>8. ASSUME FundsMove(c, amount, 0, 0), admin'.funding = admin.funding + amount,
             admin'.payouts = admin.payouts
      PROVE  Funds!Deposit(c, amount)
  BY <1>1, <1>5, <1>6, <1>7, <1>8 DEF Funds!Deposit, FundsMove
<1>9. claims[c] + (-amount) = claims[c] - amount /\ -amount \in Int
  BY <1>1, <1>2, <1>4
<1>10. ASSUME amount <= Claims(c), FundsMove(c, -amount, 0, 0), admin'.funding = admin.funding,
              admin'.payouts = admin.payouts + amount
       PROVE  Funds!Payout(c, amount)
  BY <1>4, <1>5, <1>6, <1>7, <1>9, <1>10 DEF Funds!Payout, FundsMove
<1>11. ASSUME amount <= Claims(c), FundsMove(c, -amount, amount, 0), CountersKept
       PROVE  Funds!Charge(c, amount)
  BY <1>4, <1>5, <1>6, <1>7, <1>9, <1>11 DEF Funds!Charge, FundsMove, CountersKept
<1>12. ASSUME FundsMove(c, amount, 0, amount), CountersKept
       PROVE  Funds!Earn(c, amount)
  BY <1>1, <1>5, <1>6, <1>7, <1>12 DEF Funds!Earn, FundsMove, CountersKept
<1> QED BY <1>8, <1>10, <1>11, <1>12

\* Every step of the service is one step of CustomerFunds, or none.
LEMMA StepMaps ==
  ASSUME TypeOK, LedgerInv, CustodyInv, [Next]_vars
  PROVE  [Funds!FundsNext]_(Funds!fundsVars)
<1>0. FiniteLedger /\ AdminTypeOK
  BY DEF LedgerInv, TypeOK
<1> USE DEF Weight, Types, Statuses
<1>1. ASSUME BucketsKept
      PROVE  \A c \in Customers : BalanceMoves(c, 0)
  BY <1>0, <1>1, MaxBalanceAssumption DEF BucketsKept, BalanceMoves, TypeOK, Wallets, Balance
<1>2. ASSUME NEW c \in Customers, FundsMove(c, 0, 0, 0)
      PROVE  FundsStay
  BY <1>0, <1>2, ClaimsType DEF FundsMove, FundsStay
<1>3. ASSUME NEW c \in Customers, NEW i \in TxnIds, InsertRecharge(c, i)
      PROVE  UNCHANGED Funds!fundsVars
  <2>1. PICK amount \in Amounts : Recorded(c, "recharge", "absent", "pending", amount)
    BY <1>0, <1>3, InsertRechargeMoves
  <2>2. BalanceMoves(c, 0) /\ amount \in Nat
    BY <1>0, <1>1, <1>3, InsertRechargeMoves, AmountLemma
  <2>3. FundsMove(c, 0, 0, 0)
    BY <1>0, <2>1, <2>2, ClaimsMove
  <2>4. CountersKept
    BY <1>3 DEF InsertRecharge, adminVars, CountersKept
  <2> QED BY <1>2, <2>3, <2>4, StutterMaps
<1>4. ASSUME NEW c \in Customers, NEW i \in TxnIds, NEW amount \in Amounts,
             NEW key \in ClientKeys \cup {NoKey}, RequestWithdraw(c, i, amount, key)
      PROVE  UNCHANGED Funds!fundsVars
  <2>1. /\ BalanceMoves(c, -amount) /\ Recorded(c, "withdraw", "absent", "pending", amount)
        /\ amount \in Nat /\ -amount \in Int /\ -amount + (amount - 0) = 0
    BY <1>0, <1>4, RequestWithdrawMoves, AmountLemma
  <2>2. FundsMove(c, 0, 0, 0)
    BY <1>0, <2>1, ClaimsMove
  <2>3. CountersKept
    BY <1>4 DEF RequestWithdraw, adminVars, CountersKept
  <2> QED BY <1>2, <2>2, <2>3, StutterMaps
<1>5. ASSUME NEW i \in TxnIds, ApproveRecharge(i)
      PROVE  \E c \in Customers, amount \in Amounts : Funds!Deposit(c, amount)
  <2> DEFINE c == txn[i].customer
             amount == txn[i].amount
  <2>1. /\ c \in Customers /\ amount \in Amounts /\ amount \in Nat
        /\ BalanceMoves(c, amount)
        /\ Recorded(c, "recharge", "pending", "completed", amount)
    BY <1>0, <1>5, ApproveRechargeMoves, AmountLemma
  <2>2. PostCredit("customer_funding", amount, RechargeKey(i))
    BY <1>5, PendingKeysUnused DEF ApproveRecharge, Reviewable, CreditAdminWallet, Replays
  <2>3. admin'.funding = admin.funding + amount /\ admin'.payouts = admin.payouts
    BY <1>0, <2>1, <2>2, DepositCounters
  <2> HIDE DEF c, amount
  <2>4. amount + 0 = amount
    BY <2>1
  <2>5. FundsMove(c, amount, 0, 0)
    BY <1>0, <2>1, <2>4, ClaimsMove
  <2>6. Funds!Deposit(c, amount)
    BY <1>0, <2>1, <2>3, <2>5, FundsSteps
  <2> QED BY <2>1, <2>6
<1>6. ASSUME NEW i \in TxnIds, RejectRecharge(i)
      PROVE  UNCHANGED Funds!fundsVars
  <2> DEFINE c == txn[i].customer
             amount == txn[i].amount
  <2>1. /\ c \in Customers /\ amount \in Nat /\ BalanceMoves(c, 0)
        /\ Recorded(c, "recharge", "pending", "failed", amount)
    BY <1>0, <1>1, <1>6, RejectRechargeMoves, AmountLemma
  <2> HIDE DEF c, amount
  <2>2. FundsMove(c, 0, 0, 0)
    BY <1>0, <2>1, ClaimsMove
  <2>3. CountersKept
    BY <1>6 DEF RejectRecharge, adminVars, CountersKept
  <2> QED BY <1>2, <2>1, <2>2, <2>3, StutterMaps
<1>7. ASSUME NEW i \in TxnIds, ApproveWithdraw(i)
      PROVE  \E c \in Customers, amount \in Amounts : Funds!Payout(c, amount)
  <2> DEFINE c == txn[i].customer
             amount == txn[i].amount
  <2>1. /\ c \in Customers /\ amount \in Amounts /\ amount \in Nat
        /\ BalanceMoves(c, 0) /\ FiniteLedger'
        /\ Recorded(c, "withdraw", "pending", "completed", amount)
    BY <1>0, <1>1, <1>7, ApproveWithdrawMoves, AmountLemma
  <2>2. PostDebit("customer_withdraw", amount, WithdrawKey(i))
    BY <1>7, PendingKeysUnused DEF ApproveWithdraw, Reviewable, DebitAdminWallet, Replays
  <2>3. admin'.funding = admin.funding /\ admin'.payouts = admin.payouts + amount
    BY <1>0, <2>1, <2>2, PayoutCounters
  <2> HIDE DEF c, amount
  <2>4. 0 + (0 - amount) = -amount
    BY <2>1
  <2>5. FundsMove(c, -amount, 0, 0)
    BY <1>0, <2>1, <2>4, ClaimsMove
  <2>6. amount <= Claims(c)
    <3>1. PICK x \in Customers : x = c
      BY <2>1
    <3>2. Claims(x)' = Claims(x) - amount
      BY <1>0, <2>1, <2>5, <3>1, ClaimsType DEF FundsMove
    <3>3. Claims(x) \in Nat
      BY <1>0, ClaimsType
    <3>4. Held(x)' \in Nat
      <4>1. RowsOf(x, {"withdraw"}, {"pending"})' \in SUBSET Stored'
        BY DEF RowsOf
      <4> QED BY <2>1, <4>1, PaisaSubset DEF Held, Total, FiniteLedger
    <3>5. Balance(wallet[x])' \in Nat
      BY TypeStep, MaxBalanceAssumption DEF TypeOK, Wallets, Balance
    <3>6. Claims(x)' \in Nat
      BY <3>4, <3>5 DEF Claims
    <3> QED BY <2>1, <3>1, <3>2, <3>3, <3>6
  <2>7. Funds!Payout(c, amount)
    BY <1>0, <2>1, <2>3, <2>5, <2>6, FundsSteps
  <2> QED BY <2>1, <2>7
<1>8. ASSUME NEW i \in TxnIds, RejectWithdraw(i)
      PROVE  UNCHANGED Funds!fundsVars
  <2> DEFINE c == txn[i].customer
             amount == txn[i].amount
  <2>1. /\ c \in Customers /\ amount \in Nat /\ BalanceMoves(c, amount)
        /\ Recorded(c, "withdraw", "pending", "failed", amount)
    BY <1>0, <1>8, RejectWithdrawMoves, AmountLemma
  <2> HIDE DEF c, amount
  <2>2. amount + (0 - amount) = 0
    BY <2>1
  <2>3. FundsMove(c, 0, 0, 0)
    BY <1>0, <2>1, <2>2, ClaimsMove
  <2>4. CountersKept
    BY <1>8 DEF RejectWithdraw, adminVars, CountersKept
  <2> QED BY <1>2, <2>1, <2>3, <2>4, StutterMaps
<1>9. ASSUME NEW c \in Customers, NEW i \in TxnIds, NEW e \in Events,
             NEW amount \in Amounts, ChargeWallet(c, i, e, amount)
      PROVE  Funds!Charge(c, amount)
  <2>1. /\ BalanceMoves(c, -amount) /\ amount <= Balance(wallet[c])
        /\ Recorded(c, "payment", "absent", "completed", amount) /\ amount \in Nat
    BY <1>0, <1>9, ChargeMoves, AmountLemma
  <2>2. -amount \in Int /\ -amount + 0 = -amount /\ amount - 0 = amount
    BY <2>1
  <2>3. FundsMove(c, -amount, amount, 0)
    BY <1>0, <2>1, <2>2, ClaimsMove
  <2>4. amount <= Claims(c)
    BY <1>0, <2>1, ClaimsType DEF Claims
  <2>5. CountersKept
    BY <1>9 DEF ChargeWallet, adminVars, CountersKept
  <2> QED BY <1>0, <2>3, <2>4, <2>5, FundsSteps
<1>10. ASSUME NEW c \in Customers, NEW i \in TxnIds, NEW e \in Events,
              NEW amount \in Amounts, PayCommission(c, i, e, amount)
       PROVE  Funds!Earn(c, amount)
  <2>1. /\ BalanceMoves(c, amount)
        /\ Recorded(c, "referral_commission", "absent", "completed", amount) /\ amount \in Nat
    BY <1>0, <1>10, CommissionMoves, AmountLemma
  <2>2. amount + 0 = amount /\ amount - 0 = amount
    BY <2>1
  <2>3. FundsMove(c, amount, 0, amount)
    BY <1>0, <2>1, <2>2, ClaimsMove
  <2>4. CountersKept
    BY <1>0, <1>10, <2>1, DebitKeepsCounters DEF PayCommission, DebitTypes, ExpenseTypes
  <2> QED BY <1>0, <2>3, <2>4, FundsSteps
<1>11. CASE OtherStep
  <2>1. NothingRecorded /\ BucketsKept
    BY <1>0, <1>11, OtherMoves
  <2>2. FundsStay
    BY <2>1, SumsStay DEF FundsStay, Claims, BucketsKept
  <2>3. CountersKept
    <3>1. ASSUME NEW k \in StaffKeys, NEW amount \in Amounts, StaffMovement(k, amount)
          PROVE  CountersKept
      BY <1>0, <3>1, AmountLemma, CreditKeepsCounters, DebitKeepsCounters
      DEF StaffMovement, CreditTypes, DebitTypes, ExpenseTypes
    <3>2. ASSUME NEW status \in WalletStatuses, FreezePlatform(status)
          PROVE  CountersKept
      BY <1>0, <3>2 DEF FreezePlatform, SetAdminStatus, CountersKept, AdminTypeOK
    <3>3. CASE UNCHANGED adminVars
      BY <3>3 DEF adminVars, CountersKept
    <3> QED
      BY <1>11, <3>1, <3>2, <3>3
      DEF OtherStep, CheckRecharge, AbortRecharge, StaffStep, SetWalletStatus, vars
  <2> QED BY <2>2, <2>3, StutterMaps
<1> QED
  BY <1>3, <1>4, <1>5, <1>6, <1>7, <1>8, <1>9, <1>10, <1>11, StepCases
  DEF ReviewStep, LedgerStep, Funds!FundsNext

\* New wallets promise nothing, have charged nothing and earned nothing.
LEMMA InitMaps == Init => Funds!FundsInit
<1> SUFFICES ASSUME Init PROVE Funds!FundsInit
  OBVIOUS
<1>1. LedgerInv /\ Stored = {}
  BY InitLedger DEF Init, Stored, NoRow
<1>2. \A x, types, statuses : RowsOf(x, types, statuses) = {}
  BY <1>1 DEF RowsOf
<1>3. Total({}) = 0
  BY FS_EmptySet DEF Paisa, Total
<1>4. \A c \in Customers : /\ Balance(wallet[c]) = 0 /\ Held(c) = 0
                           /\ Total(RowsOf(c, {"payment"}, {"completed"})) = 0
                           /\ Total(RowsOf(c, {"referral_commission"}, {"completed"})) = 0
  <2>1. \A c \in Customers : Balance(wallet[c]) = 0
    BY DEF Init, NewWallet, Balance
  <2> QED BY <1>2, <1>3, <2>1, Zenon DEF Held
<1>5. admin.funding = 0 /\ admin.payouts = 0
  BY DEF Init, AdminInit
<1> QED BY <1>4, <1>5 DEF Funds!FundsInit, claims, charged, earned

\* The service keeps its promise for all customers, amounts, requests and retries:
\* a customer's claims move by deposits, payouts, charges and commission alone, and
\* the platform's counters with them.
THEOREM FundsImplemented == Spec => ImplementsCustomerFunds
<1>1. TypeOK /\ LedgerInv /\ CustodyInv /\ [Next]_vars => [Funds!FundsNext]_(Funds!fundsVars)
  BY StepMaps
<1> QED
  BY <1>1, InitMaps, TypeCorrect, LedgerInvariant, CustodyInvariant, PTL
  DEF Spec, ImplementsCustomerFunds, Funds!FundsSpec

-----------------------------------------------------------------------------
\* Frozen wallets

\* The money of a frozen wallet moves only as the outcome of a review that was asked
\* for before, in every interleaving of freezes, requests and reviews.
THEOREM FrozenMoney == Spec => FrozenOnlyReviews
<1> DEFINE Step == \A c \in Customers :
                     wallet[c].status = "frozen" /\ Balance(wallet'[c]) # Balance(wallet[c])
                     => \E i \in RowsOf(c, {"recharge", "withdraw"}, {"pending"}) :
                          txn'[i].status # "pending"
<1>1. TypeOK /\ LedgerInv /\ [Next]_vars => Step
  <2> SUFFICES ASSUME TypeOK, LedgerInv, [Next]_vars, NEW x \in Customers,
                      wallet[x].status = "frozen", Balance(wallet'[x]) # Balance(wallet[x])
               PROVE  \E i \in RowsOf(x, {"recharge", "withdraw"}, {"pending"}) :
                        txn'[i].status # "pending"
    OBVIOUS
  <2>0. FiniteLedger /\ ~IsActive(x) /\ Balance(wallet[x]) \in Int
    BY MaxBalanceAssumption DEF LedgerInv, IsActive, TypeOK, Wallets, Balance
  <2>1. ASSUME BucketsKept PROVE FALSE
    BY <2>1 DEF BucketsKept
  <2>2. ASSUME NEW c \in Customers, NEW d \in Int, BalanceMoves(c, d), c # x PROVE FALSE
    BY <2>0, <2>2 DEF BalanceMoves
  <2>3. ASSUME NEW i \in TxnIds, ApproveRecharge(i) \/ RejectWithdraw(i)
        PROVE  \E j \in RowsOf(x, {"recharge", "withdraw"}, {"pending"}) : txn'[j].status # "pending"
    <3>1. PICK c \in Customers, d \in Int : c = txn[i].customer /\ BalanceMoves(c, d)
      BY <2>0, <2>3, ApproveRechargeMoves, RejectWithdrawMoves, AmountLemma
    <3>2. txn[i].customer = x
      BY <2>2, <3>1
    <3>3. txn[i] \in Rows /\ txn[i].status = "pending" /\ txn[i].type \in {"recharge", "withdraw"}
      BY <2>3, StoredLemma DEF ApproveRecharge, RejectWithdraw, Reviewable
    <3>4. txn'[i].status # "pending"
      BY <2>3, <3>3 DEF ApproveRecharge, RejectWithdraw, SetStatus, TypeOK, Rows
    <3>5. i \in RowsOf(x, {"recharge", "withdraw"}, {"pending"})
      BY <3>2, <3>3 DEF RowsOf, Stored
    <3> QED BY <3>4, <3>5
  <2>4. ASSUME NEW i \in TxnIds, RejectRecharge(i) \/ ApproveWithdraw(i) PROVE FALSE
    BY <2>0, <2>1, <2>4, RejectRechargeMoves, ApproveWithdrawMoves
  <2>5. ASSUME NEW c \in Customers, NEW i \in TxnIds, InsertRecharge(c, i) PROVE FALSE
    BY <2>0, <2>1, <2>5, InsertRechargeMoves
  <2>6. ASSUME NEW c \in Customers, NEW i \in TxnIds, NEW amount \in Amounts,
               NEW key \in ClientKeys \cup {NoKey}, RequestWithdraw(c, i, amount, key)
        PROVE  FALSE
    <3>1. c # x /\ BalanceMoves(c, -amount) /\ -amount \in Int
      BY <2>0, <2>6, RequestWithdrawMoves, AmountLemma DEF RequestWithdraw
    <3> QED BY <2>2, <3>1
  <2>7. ASSUME NEW c \in Customers, NEW i \in TxnIds, NEW e \in Events, NEW amount \in Amounts,
               ChargeWallet(c, i, e, amount)
        PROVE  FALSE
    <3>1. c # x /\ BalanceMoves(c, -amount) /\ -amount \in Int
      BY <2>0, <2>7, ChargeMoves, AmountLemma DEF ChargeWallet
    <3> QED BY <2>2, <3>1
  <2>8. ASSUME NEW c \in Customers, NEW i \in TxnIds, NEW e \in Events, NEW amount \in Amounts,
               PayCommission(c, i, e, amount)
        PROVE  FALSE
    <3>1. c # x /\ BalanceMoves(c, amount) /\ amount \in Int
      BY <2>0, <2>8, CommissionMoves, AmountLemma DEF PayCommission
    <3> QED BY <2>2, <3>1
  <2>9. ASSUME OtherStep PROVE FALSE
    BY <2>0, <2>1, <2>9, OtherMoves
  <2> QED
    BY <2>3, <2>4, <2>5, <2>6, <2>7, <2>8, <2>9, StepCases DEF ReviewStep, LedgerStep
<1>2. TypeOK /\ LedgerInv /\ [Next]_vars => [Step]_vars
  BY <1>1
<1> QED BY <1>2, TypeCorrect, LedgerInvariant, PTL DEF Spec, FrozenOnlyReviews

-----------------------------------------------------------------------------
\* The wallet's form beside the service

\* Every step of the office is one of the service, or the form's, which writes
\* nothing but a wallet.
LEMMA OfficeCases ==
  ASSUME [OfficeNext]_officeVars
  PROVE  [Next]_vars \/ (UNCHANGED <<txn, session, adminVars>>
                         /\ \E c \in Customers, status \in WalletStatuses : SaveForm(c, status))
BY DEF OfficeNext, officeVars, ReadForm, SaveForm

\* Whatever the form writes back is a wallet's row, with a status a wallet may have,
\* however old it is.
THEOREM OfficeTypeCorrect == OfficeSpec => []OfficeTypeOK
<1>1. OfficeInit => OfficeTypeOK
  <2>1. Init => TypeOK
    BY MaxBalanceAssumption, MaxAdminBalanceAssumption
    DEF Init, TypeOK, AdminInit, AdminTypeOK, NewWallet, Wallets, WalletStatuses
  <2> QED BY <2>1 DEF OfficeInit, OfficeTypeOK
<1>2. OfficeTypeOK /\ [OfficeNext]_officeVars => OfficeTypeOK'
  <2> SUFFICES ASSUME OfficeTypeOK, [OfficeNext]_officeVars PROVE OfficeTypeOK'
    OBVIOUS
  <2>1. TypeOK /\ form \in [Customers -> Wallets \cup {NoForm}]
    BY DEF OfficeTypeOK
  <2>2. TypeOK'
    <3>1. ASSUME NEW c \in Customers, NEW status \in WalletStatuses, SaveForm(c, status)
          PROVE  TypeOK'
      <4>1. form[c] \in Wallets
        BY <2>1, <3>1 DEF SaveForm
      <4>2. [form[c] EXCEPT !.status = status] \in Wallets
        BY <4>1 DEF Wallets
      <4>3. wallet' \in [Customers -> Wallets]
        BY <2>1, <3>1, <4>2, WalletUpdateLemma DEF SaveForm
      <4> QED BY <2>1, <3>1, <4>3 DEF SaveForm, TypeOK, AdminTypeOK, adminVars
    <3> QED BY <2>1, <3>1, TypeStep, OfficeCases
  <2>3. form' \in [Customers -> Wallets \cup {NoForm}]
    BY <2>1 DEF OfficeNext, officeVars, ReadForm, SaveForm, TypeOK
  <2> QED BY <2>2, <2>3 DEF OfficeTypeOK
<1> QED BY <1>1, <1>2, PTL DEF OfficeSpec

\* The form does not get between the constraint and the references.
THEOREM OfficeRefsUnique == OfficeSpec => []UniqueLiveRef
<1>1. OfficeInit => UniqueLiveRef
  BY DEF OfficeInit, Init, UniqueLiveRef, Stored, NoRow
<1>2. OfficeTypeOK /\ UniqueLiveRef /\ [OfficeNext]_officeVars => UniqueLiveRef'
  <2> SUFFICES ASSUME TypeOK, UniqueLiveRef, [Next]_vars \/ UNCHANGED txn PROVE UniqueLiveRef'
    BY OfficeCases DEF OfficeTypeOK
  <2>1. CASE UNCHANGED txn
    BY <2>1 DEF UniqueLiveRef, Stored, LiveWithRef
  <2> QED BY <2>1, TableSteps, InsertKeepsRefs, ReviewKeepsRefs
<1> QED BY <1>1, <1>2, OfficeTypeCorrect, PTL DEF OfficeSpec

\* A decision stands whatever the form overwrites meanwhile.
THEOREM OfficeReviewsAreFinal == OfficeSpec => ReviewIsFinal
<1>1. OfficeTypeOK /\ [OfficeNext]_officeVars => [OnlyDecides]_vars
  BY StepIsFinal, OfficeCases DEF OfficeTypeOK
<1> QED BY <1>1, OfficeTypeCorrect, PTL DEF OfficeSpec, ReviewIsFinal
=============================================================================
