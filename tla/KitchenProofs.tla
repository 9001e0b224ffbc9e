----------------------------- MODULE KitchenProofs -----------------------------
(***************************************************************************)
(* Theorems about Prepaid and Kitchen, for any stops, keys, quantities,    *)
(* prices, quota, floor, wallets and months, and any number of workers.    *)
(* The first part is about purchases, whether there is a kitchen or not;   *)
(* in the second, Kitchen implements Prepaid, so that the first holds of   *)
(* it, and the counts follow.                                              *)
(***************************************************************************)
EXTENDS Kitchen, FiniteSetTheorems, TLAPS

-----------------------------------------------------------------------------
\* The inductive invariant

IdsOf(rows) == {o.id : o \in rows}

InMonth(rows, m) == {o \in rows : o.month = m}

\* Orders are numbered, and none is of a month to come.
Numbered ==
  /\ \E n \in Nat : IdsOf(orders) = 1..n
  /\ \A a, b \in orders : a.id = b.id => a = b
  /\ \A o \in orders : o.month <= month

AllFinite == IsFiniteSet(MealsOf(orders)) /\ IsFiniteSet(FeesPaid) /\ IsFiniteSet(delivered)

\* A key is one order's or one fee's.
KeysApart ==
  /\ \A a, b \in orders : a.key = b.key /\ a.key # NoKey => a = b
  /\ \A a, b \in fees : a.key = b.key /\ a.key # NoKey => a = b
  /\ \A a \in orders, b \in fees : a.key = b.key => a.key = NoKey

HoldsWallet(w) == tx[w].pc \in {"quoted", "billed"}

\* One transaction holds the wallet; what it checked then still holds.
WalletHeld ==
  /\ \A v, w \in Workers : HoldsWallet(v) /\ HoldsWallet(w) => v = w
  /\ \A w \in Workers : tx[w].pc = "quoted" =>
       /\ Used(month) + tx[w].quantity <= Limit
       /\ wallet.recharge - Total(tx[w]) >= Floor

\* A stop that is being marked is one worker's, and was not marked before.
SlotsHeld ==
  /\ \A w \in Workers : tx[w].pc = "marking" => tx[w].slot \notin delivered
  /\ \A v, w \in Workers :
       tx[v].pc = "marking" /\ tx[w].pc = "marking" /\ tx[v].slot = tx[w].slot => v = w

PrepaidInv ==
  /\ TypeOK /\ Numbered /\ AllFinite /\ KeysApart /\ WalletHeld /\ SlotsHeld
  /\ QuotaHolds /\ PurchasesExplainWallet

-----------------------------------------------------------------------------
\* Counting

\* n pieces of one row.
LEMMA PortionLemma ==
  ASSUME NEW d, NEW n \in Nat
  PROVE  IsFiniteSet({d} \X (1..n)) /\ Cardinality({d} \X (1..n)) = n
<1>1. IsFiniteSet({d}) /\ Cardinality({d}) = 1
  BY FS_Singleton
<1>2. IsFiniteSet(1..n) /\ Cardinality(1..n) = n
  BY FS_Interval
<1>3. /\ IsFiniteSet({d} \X (1..n))
      /\ Cardinality({d} \X (1..n)) = Cardinality({d}) * Cardinality(1..n)
  BY <1>1, <1>2, FS_Product, Zenon
<1> QED BY <1>1, <1>2, <1>3

\* To add the pieces of a row that was not counted adds as many.
LEMMA AddPortion ==
  ASSUME NEW S, IsFiniteSet(S), NEW d, NEW n \in Nat, S \cap ({d} \X (1..n)) = {}
  PROVE  /\ IsFiniteSet(S \cup ({d} \X (1..n)))
         /\ Cardinality(S \cup ({d} \X (1..n))) = Cardinality(S) + n
<1>1. IsFiniteSet({d} \X (1..n)) /\ Cardinality({d} \X (1..n)) = n
  BY PortionLemma
<1>2. Cardinality(S) \in Nat
  BY FS_CardinalityType
<1>3. Cardinality(S \cap ({d} \X (1..n))) = 0
  BY FS_EmptySet
<1> QED BY <1>1, <1>2, <1>3, FS_Union

\* What it means to be a meal of some orders.
LEMMA MealsMember ==
  ASSUME NEW rows, NEW x
  PROVE  x \in MealsOf(rows) <=> \E o \in rows : x \in {o.id} \X (1..o.quantity)
BY DEF MealsOf

\* Some of the orders have some of the meals.
LEMMA MealsSubset ==
  ASSUME NEW rows, NEW some \in SUBSET rows, IsFiniteSet(MealsOf(rows))
  PROVE  IsFiniteSet(MealsOf(some)) /\ Cardinality(MealsOf(some)) \in Nat
<1>1. MealsOf(some) \subseteq MealsOf(rows)
  BY MealsMember
<1>2. IsFiniteSet(MealsOf(some))
  BY <1>1, FS_Subset
<1> QED BY <1>2, FS_CardinalityType

\* One more order, with a number no other has, has its own meals.
LEMMA MealsAdd ==
  ASSUME NEW rows, IsFiniteSet(MealsOf(rows)), NEW o, o.quantity \in Nat,
         o.id \notin IdsOf(rows)
  PROVE  /\ IsFiniteSet(MealsOf(rows \cup {o}))
         /\ Cardinality(MealsOf(rows \cup {o})) = Cardinality(MealsOf(rows)) + o.quantity
<1> DEFINE S == MealsOf(rows)
           P == {o.id} \X (1..o.quantity)
<1>1. MealsOf(rows \cup {o}) = S \cup P
  BY DEF MealsOf
<1>2. S \cap P = {}
  BY DEF MealsOf, IdsOf
<1> HIDE DEF S
<1>3. IsFiniteSet(S)
  BY DEF S
<1>4. IsFiniteSet(S \cup P) /\ Cardinality(S \cup P) = Cardinality(S) + o.quantity
  BY <1>2, <1>3, AddPortion
<1> QED BY <1>1, <1>4 DEF S

\* The one fact of multiplication the wallet's sum needs.
LEMMA Distribute ==
  ASSUME NEW a \in Nat, NEW b \in Nat, NEW c \in Nat
  PROVE  a * (b + c) = a * b + a * c /\ a * b \in Nat
BY SMT

-----------------------------------------------------------------------------
\* Paying

\* A payment within the balance leaves a wallet, that much poorer, and takes no more
\* of the recharge than its amount.
LEMMA PayLemma ==
  ASSUME TypeOK, NEW amount \in Nat, amount <= Balance(wallet), Pay(amount)
  PROVE  /\ wallet' \in Wallets /\ stopped' \in BOOLEAN
         /\ Balance(wallet') = Balance(wallet) - amount
         /\ wallet'.recharge >= wallet.recharge - amount
<1> DEFINE f == FromCommission(wallet, amount, "commission_first")
<1>1. MaxBalance \in Nat
  BY MaxBalanceAssumption
<1>2. /\ wallet \in Wallets /\ wallet.recharge \in 0..MaxBalance
      /\ wallet.commission \in 0..MaxBalance
  BY DEF Wallets, TypeOK
<1>3. f \in Int /\ 0 <= f /\ f <= amount /\ f <= wallet.commission /\ amount - f <= wallet.recharge
  BY <1>1, <1>2 DEF FromCommission, Balance
<1>4. wallet' = [wallet EXCEPT !.commission = @ - f, !.recharge = @ - (amount - f)]
  BY DEF Pay, Debited, DefaultDebitStrategy, ApplyDebit
<1> HIDE DEF f
<1>5. /\ wallet.commission - f \in 0..MaxBalance
      /\ wallet.recharge - (amount - f) \in 0..MaxBalance
  BY <1>1, <1>2, <1>3
<1>6. /\ wallet' \in Wallets
      /\ wallet'.recharge = wallet.recharge - (amount - f)
      /\ wallet'.commission = wallet.commission - f
  BY <1>2, <1>4, <1>5 DEF Wallets
<1>7. Balance(wallet') = Balance(wallet) - amount
  BY <1>1, <1>2, <1>3, <1>6 DEF Balance
<1>8. wallet'.recharge >= wallet.recharge - amount
  BY <1>1, <1>2, <1>3, <1>6
<1>9. stopped' \in BOOLEAN
  BY DEF Pay, TypeOK
<1> QED BY <1>6, <1>7, <1>8, <1>9

\* What is spent is a number, in three parts.
LEMMA SpentParts ==
  ASSUME PrepaidInv
  PROVE  /\ Cardinality(MealsOf(orders)) \in Nat /\ Cardinality(FeesPaid) \in Nat
         /\ Cardinality(delivered) \in Nat
         /\ UnitPrice * Cardinality(MealsOf(orders)) \in Nat
         /\ MealPrice * Cardinality(delivered) \in Nat
         /\ Balance(wallet) \in Nat /\ Balance(opening) \in Nat
<1>1. /\ Cardinality(MealsOf(orders)) \in Nat /\ Cardinality(FeesPaid) \in Nat
      /\ Cardinality(delivered) \in Nat
  BY FS_CardinalityType DEF PrepaidInv, AllFinite
<1>2. UnitPrice \in Nat /\ MealPrice \in Nat
  BY PrepaidAssumption
<1>3. Balance(wallet) \in Nat /\ Balance(opening) \in Nat
  BY MaxBalanceAssumption DEF PrepaidInv, TypeOK, Wallets, Balance
<1> QED BY <1>1, <1>2, <1>3, Distribute

-----------------------------------------------------------------------------
\* A guest purchase

\* What a quoted transaction is, and the order it makes.
LEMMA OrderedLemma ==
  ASSUME PrepaidInv, NEW w \in Workers, tx[w].pc = "quoted"
  PROVE  /\ tx[w].quantity \in Quantities /\ tx[w].quantity \in Nat
         /\ tx[w].key \in SomeKey
         /\ Ordered(tx[w]) \in Order /\ Ordered(tx[w]).id \notin IdsOf(orders)
         /\ \E n \in Nat : IdsOf(orders) = 1..n /\ Ordered(tx[w]).id = n + 1
         /\ Ordered(tx[w]).quantity = tx[w].quantity /\ Ordered(tx[w]).month = month
         /\ Ordered(tx[w]).key = tx[w].key
         /\ Total(tx[w]) \in Nat /\ Total(tx[w]) <= Balance(wallet)
<1>1. tx[w] \in [pc : {"asked", "quoted"}, slot : Slots, quantity : Quantities, key : SomeKey]
  BY DEF PrepaidInv, TypeOK, Transactions
<1>2. /\ tx[w].quantity \in Quantities /\ tx[w].slot \in Slots /\ tx[w].key \in SomeKey
      /\ tx[w].quantity \in Nat
  BY <1>1, PrepaidAssumption
<1>3. PICK n \in Nat : IdsOf(orders) = 1..n
  BY DEF PrepaidInv, Numbered
<1>4. Cardinality(IdsOf(orders)) = n
  BY <1>3, FS_Interval
<1>5. Ordered(tx[w]) = [id |-> n + 1, key |-> tx[w].key, slot |-> tx[w].slot,
                        quantity |-> tx[w].quantity, month |-> month, status |-> "scheduled"]
  BY <1>4 DEF Ordered, IdsOf
<1>6. month \in Months
  BY DEF PrepaidInv, TypeOK
<1>7. Ordered(tx[w]) \in Order
  BY <1>2, <1>3, <1>5, <1>6 DEF Order
<1>8. /\ Ordered(tx[w]).id = n + 1 /\ Ordered(tx[w]).quantity = tx[w].quantity
      /\ Ordered(tx[w]).month = month /\ Ordered(tx[w]).key = tx[w].key
  BY <1>5
<1>9. n + 1 \notin IdsOf(orders)
  BY <1>3
<1>10. Total(tx[w]) \in Nat
  BY <1>2, PrepaidAssumption, Distribute DEF Total
<1>11. Total(tx[w]) <= Balance(wallet)
  <2>1. wallet.recharge - Total(tx[w]) >= Floor
    BY DEF PrepaidInv, WalletHeld
  <2>2. wallet.recharge \in Nat /\ wallet.commission \in Nat
    BY MaxBalanceAssumption DEF PrepaidInv, TypeOK, Wallets
  <2>3. Floor \in Nat
    BY PrepaidAssumption
  <2> QED BY <1>10, <2>1, <2>2, <2>3 DEF Balance
<1> QED BY <1>2, <1>3, <1>7, <1>8, <1>9, <1>10, <1>11

\* The order is one more: numbered, in its month, under its own key.
LEMMA BuyOrders ==
  ASSUME PrepaidInv, NEW w \in Workers, tx[w].pc = "quoted",
         orders' = orders \cup {Ordered(tx[w])}, UNCHANGED <<fees, month>>,
         ~KeyTaken(tx[w].key)
  PROVE  /\ orders' \in SUBSET Order /\ Numbered' /\ KeysApart'
         /\ IsFiniteSet(MealsOf(orders'))
         /\ Cardinality(MealsOf(orders')) = Cardinality(MealsOf(orders)) + tx[w].quantity
         /\ Used(month)' = Used(month) + tx[w].quantity
         /\ \A m \in Months : m # month => Used(m)' = Used(m)
<1> DEFINE o == Ordered(tx[w])
           q == tx[w].quantity
<1>1. /\ q \in Nat /\ o \in Order /\ o.id \notin IdsOf(orders) /\ o.quantity = q
      /\ o.month = month /\ o.key = tx[w].key
  BY OrderedLemma
<1>2. PICK n \in Nat : IdsOf(orders) = 1..n /\ o.id = n + 1
  BY OrderedLemma
<1>3. /\ orders \in SUBSET Order /\ IsFiniteSet(MealsOf(orders)) /\ month \in Months
  BY DEF PrepaidInv, TypeOK, AllFinite
<1>4. orders' = orders \cup {o}
  OBVIOUS
<1>5. tx[w].key = NoKey \/ (\A r \in orders \cup fees : r.key # tx[w].key)
  BY DEF KeyTaken, KeyOf
<1> HIDE DEF o, q
<1>6. orders' \in SUBSET Order
  BY <1>1, <1>3, <1>4
<1>7. Numbered'
  <2>1. IdsOf(orders') = 1..(n + 1)
    <3>1. IdsOf(orders') = IdsOf(orders) \cup {o.id}
      BY <1>4 DEF IdsOf
    <3>2. (1..n) \cup {n + 1} = 1..(n + 1)
      OBVIOUS
    <3> QED BY <1>2, <3>1, <3>2
  <2>2. \A a, b \in orders' : a.id = b.id => a = b
    <3>1. \A a \in orders : a.id # o.id
      BY <1>1 DEF IdsOf
    <3> QED BY <1>4, <3>1 DEF PrepaidInv, Numbered
  <2>3. \A a \in orders' : a.month <= month'
    <3>1. month \in Nat
      BY <1>3, PrepaidAssumption
    <3> QED BY <1>1, <1>4, <3>1 DEF PrepaidInv, Numbered
  <2> QED BY <1>2, <2>1, <2>2, <2>3 DEF Numbered
<1>8. KeysApart'
  <2>1. \A r \in orders : r.key = o.key => o.key = NoKey
    BY <1>1, <1>5
  <2>2. \A r \in fees : r.key = o.key => o.key = NoKey
    BY <1>1, <1>5
  <2>3. KeysApart /\ fees' = fees
    BY DEF PrepaidInv
  <2>4. \A a, b \in orders' : a.key = b.key /\ a.key # NoKey => a = b
    BY <1>4, <2>1, <2>3 DEF KeysApart
  <2>5. \A a \in orders', b \in fees' : a.key = b.key => a.key = NoKey
    BY <1>4, <2>2, <2>3 DEF KeysApart
  <2> QED BY <2>3, <2>4, <2>5 DEF KeysApart
<1>9. /\ IsFiniteSet(MealsOf(orders'))
      /\ Cardinality(MealsOf(orders')) = Cardinality(MealsOf(orders)) + q
  BY <1>1, <1>3, <1>4, MealsAdd
<1>10. Used(month)' = Used(month) + q
  <2> DEFINE rows == InMonth(orders, month)
  <2>1. rows \in SUBSET orders /\ InMonth(orders', month) = rows \cup {o}
    BY <1>1, <1>4 DEF InMonth
  <2>2. IsFiniteSet(MealsOf(rows))
    BY <1>3, <2>1, MealsSubset
  <2>3. o.id \notin IdsOf(rows)
    BY <1>1, <2>1 DEF IdsOf
  <2>4. Used(month) = Cardinality(MealsOf(rows))
    BY DEF Used, InMonth
  <2>5. Used(month)' = Cardinality(MealsOf(InMonth(orders', month)))
    BY DEF Used, InMonth
  <2> HIDE DEF rows
  <2>6. Cardinality(MealsOf(rows \cup {o})) = Cardinality(MealsOf(rows)) + q
    BY <1>1, <2>2, <2>3, MealsAdd
  <2> QED BY <2>1, <2>4, <2>5, <2>6
<1>11. ASSUME NEW m \in Months, m # month PROVE Used(m)' = Used(m)
  <2>1. InMonth(orders', m) = InMonth(orders, m)
    BY <1>1, <1>4, <1>11 DEF InMonth
  <2> QED BY <2>1 DEF Used, InMonth
<1> QED BY <1>6, <1>7, <1>8, <1>9, <1>10, <1>11 DEF q

\* What stays while no one pays: the transaction w goes on with t.
LEMMA QuietStep ==
  ASSUME PrepaidInv, NEW w \in Workers, NEW t \in Transactions, Continue(w, t),
         UNCHANGED <<ledger, opening, month>>,
         t.pc = "quoted" => /\ Used(month) + t.quantity <= Limit
                            /\ wallet.recharge - Total(t) >= Floor,
         t.pc \in {"quoted", "billed"} => WalletFree,
         t.pc = "marking" => t.slot \notin delivered /\ SlotFree(t.slot)
  PROVE  /\ tx' \in [Workers -> Transactions]
         /\ Numbered' /\ AllFinite' /\ KeysApart' /\ WalletHeld' /\ SlotsHeld'
         /\ QuotaHolds' /\ PurchasesExplainWallet'
<1>1. /\ tx' \in [Workers -> Transactions] /\ tx'[w] = t
      /\ \A v \in Workers : v # w => tx'[v] = tx[v]
  BY DEF PrepaidInv, TypeOK, Continue
<1>2. /\ UNCHANGED <<wallet, orders, fees, delivered, month, opening>>
      /\ \A m : Used(m)' = Used(m)
  BY DEF ledger, Used
<1>3. Numbered' /\ AllFinite' /\ KeysApart' /\ QuotaHolds' /\ PurchasesExplainWallet'
  BY <1>2 DEF PrepaidInv, Numbered, AllFinite, FeesPaid, KeysApart, QuotaHolds,
       PurchasesExplainWallet, Spent
<1>4. WalletHeld'
  <2>1. \A u, v \in Workers : HoldsWallet(u)' /\ HoldsWallet(v)' => u = v
    BY <1>1 DEF PrepaidInv, WalletHeld, HoldsWallet, WalletFree
  <2>2. \A v \in Workers : tx'[v].pc = "quoted" =>
          /\ Used(month) + tx'[v].quantity <= Limit
          /\ wallet.recharge - Total(tx'[v]) >= Floor
    BY <1>1 DEF PrepaidInv, WalletHeld
  <2>3. Total(t)' = Total(t) /\ Used(month)' = Used(month)
    BY <1>2 DEF Total, Used
  <2> QED BY <1>2, <2>1, <2>2, <2>3 DEF WalletHeld, Total, Used
<1>5. SlotsHeld'
  BY <1>1, <1>2 DEF PrepaidInv, SlotsHeld, SlotFree
<1> QED BY <1>1, <1>3, <1>4, <1>5

\* Whoever pays and ends held the wallet alone: after it no one holds it.
LEMMA PayerEnds ==
  ASSUME PrepaidInv, NEW w \in Workers, HoldsWallet(w) \/ WalletFree, Continue(w, Idle)
  PROVE  /\ tx' \in [Workers -> Transactions]
         /\ WalletHeld'
         /\ \A v \in Workers : tx'[v].pc = "marking" => v # w /\ tx'[v] = tx[v]
         /\ UNCHANGED delivered => SlotsHeld'
<1>1. Idle \in Transactions /\ Idle.pc = "idle"
  BY DEF Idle, Transactions
<1>2. /\ tx' \in [Workers -> Transactions] /\ tx'[w] = Idle
      /\ \A v \in Workers : v # w => tx'[v] = tx[v]
  BY <1>1 DEF PrepaidInv, TypeOK, Continue
<1>3. \A v \in Workers : tx'[v].pc \notin {"quoted", "billed"}
  BY <1>1, <1>2 DEF PrepaidInv, WalletHeld, HoldsWallet, WalletFree
<1>4. WalletHeld'
  BY <1>3 DEF WalletHeld, HoldsWallet
<1>5. \A v \in Workers : tx'[v].pc = "marking" => v # w /\ tx'[v] = tx[v]
  BY <1>1, <1>2
<1>6. UNCHANGED delivered => SlotsHeld'
  BY <1>5 DEF PrepaidInv, SlotsHeld
<1> QED BY <1>2, <1>4, <1>5, <1>6

-----------------------------------------------------------------------------
\* The steps that pay

\* Buying guest meals keeps the invariant and leaves the floor in the wallet.
LEMMA BuyKept ==
  ASSUME PrepaidInv, NEW w \in Workers, Buy(w), orders' # orders
  PROVE  PrepaidInv' /\ wallet'.recharge >= Floor
<1>1. tx[w].pc = "quoted" /\ HoldsWallet(w)
  BY DEF Buy, HoldsWallet
<1>2. /\ ~KeyTaken(tx[w].key) /\ Pay(Total(tx[w])) /\ orders' = orders \cup {Ordered(tx[w])}
      /\ Continue(w, Idle)
      /\ UNCHANGED <<fees, delivered, opening, past, month, requests>>
  BY DEF Buy
<1>3. /\ Total(tx[w]) \in Nat /\ Total(tx[w]) <= Balance(wallet) /\ tx[w].quantity \in Nat
  BY <1>1, OrderedLemma
<1>4. TypeOK
  BY DEF PrepaidInv
<1>5. /\ wallet' \in Wallets /\ stopped' \in BOOLEAN
      /\ Balance(wallet') = Balance(wallet) - Total(tx[w])
      /\ wallet'.recharge >= wallet.recharge - Total(tx[w])
  BY <1>2, <1>3, <1>4, PayLemma
<1>6. /\ orders' \in SUBSET Order /\ Numbered' /\ KeysApart'
      /\ IsFiniteSet(MealsOf(orders'))
      /\ Cardinality(MealsOf(orders')) = Cardinality(MealsOf(orders)) + tx[w].quantity
      /\ Used(month)' = Used(month) + tx[w].quantity
      /\ \A m \in Months : m # month => Used(m)' = Used(m)
  BY <1>1, <1>2, BuyOrders
<1>7. tx' \in [Workers -> Transactions] /\ WalletHeld' /\ SlotsHeld'
  BY <1>1, <1>2, PayerEnds
<1>8. AllFinite'
  BY <1>2, <1>6 DEF PrepaidInv, AllFinite, FeesPaid
<1>9. QuotaHolds'
  <2>1. Used(month) + tx[w].quantity <= Limit
    BY <1>1 DEF PrepaidInv, WalletHeld
  <2>2. \A m \in Months : Used(m)' <= Limit
    BY <1>2, <1>6, <2>1 DEF PrepaidInv, QuotaHolds
  <2> QED BY <2>2 DEF QuotaHolds
<1>10. PurchasesExplainWallet'
  <2> DEFINE C == Cardinality(MealsOf(orders))
             F == Cardinality(FeesPaid)
             D == MealPrice * Cardinality(delivered)
             q == tx[w].quantity
  <2>1. /\ C \in Nat /\ F \in Nat /\ D \in Nat /\ UnitPrice * C \in Nat
        /\ Balance(wallet) \in Nat /\ Balance(opening) \in Nat
    BY SpentParts
  <2>2. Balance(wallet) + (UnitPrice * C + F + D) = Balance(opening)
    BY DEF PrepaidInv, PurchasesExplainWallet, Spent
  <2>3. Spent' = UnitPrice * (C + q) + F + D /\ Balance(opening)' = Balance(opening)
    BY <1>2, <1>6 DEF Spent, FeesPaid, Balance
  <2>4. Total(tx[w]) = UnitPrice * q
    BY DEF Total
  <2> HIDE DEF C, F, D, q
  <2>5. UnitPrice * (C + q) = UnitPrice * C + UnitPrice * q /\ UnitPrice * q \in Nat
    BY <1>3, <2>1, PrepaidAssumption, Distribute DEF q
  <2>6. Balance(wallet') = Balance(wallet) - UnitPrice * q
    BY <1>5, <2>4
  <2>7. Balance(wallet') + Spent' = Balance(opening)
    BY <2>1, <2>2, <2>3, <2>5, <2>6
  <2> QED BY <2>3, <2>7 DEF PurchasesExplainWallet
<1>11. TypeOK'
  BY <1>2, <1>4, <1>5, <1>6, <1>7 DEF TypeOK
<1>12. wallet'.recharge >= Floor
  <2>1. wallet.recharge - Total(tx[w]) >= Floor
    BY <1>1 DEF PrepaidInv, WalletHeld
  <2>2. wallet.recharge \in Int /\ wallet'.recharge \in Int
    BY <1>4, <1>5, MaxBalanceAssumption DEF TypeOK, Wallets
  <2> QED BY <1>3, <1>5, <2>1, <2>2, PrepaidAssumption
<1> QED BY <1>6, <1>7, <1>8, <1>9, <1>10, <1>11, <1>12 DEF PrepaidInv

\* Paying a delivery fee keeps the invariant.
LEMMA FeeKept ==
  ASSUME PrepaidInv, NEW w \in Workers, PayFee(w), fees' # fees
  PROVE  PrepaidInv'
<1> DEFINE t == tx[w]
           f == [key |-> t.key, month |-> t.month, amount |-> t.amount]
<1>1. /\ t.pc = "billed" /\ HoldsWallet(w) /\ t.amount <= Balance(wallet) /\ Pay(t.amount)
      /\ ~KeyTaken(t.key) /\ ~Paid(t.month) /\ fees' = fees \cup {f}
      /\ Continue(w, Idle)
      /\ UNCHANGED <<orders, delivered, opening, past, month, requests>>
  <2>1. ~(t.amount > Balance(wallet) \/ KeyTaken(t.key) \/ Paid(t.month))
    BY DEF PayFee
  <2>2. t.amount \in Nat /\ Balance(wallet) \in Nat
    BY SpentParts, PrepaidAssumption DEF PayFee, PrepaidInv, TypeOK, Transactions
  <2> QED BY <2>1, <2>2 DEF PayFee, HoldsWallet
<1>2. /\ t.key \in SomeKey /\ t.month \in Months /\ t.amount \in FeeAmounts
      /\ t.amount \in Nat
  BY <1>1, PrepaidAssumption DEF PrepaidInv, TypeOK, Transactions
<1>3. TypeOK
  BY DEF PrepaidInv
<1>4. /\ wallet' \in Wallets /\ stopped' \in BOOLEAN
      /\ Balance(wallet') = Balance(wallet) - t.amount
  BY <1>1, <1>2, <1>3, PayLemma
<1>5. f \in Fee /\ f.key = t.key /\ f.amount = t.amount /\ f.month = t.month
  BY <1>2 DEF Fee
<1>6. f \notin fees
  BY <1>1, <1>5 DEF Paid
<1>7. t.key = NoKey \/ (\A r \in orders \cup fees : r.key # t.key)
  BY <1>1 DEF KeyTaken, KeyOf
<1>8. tx' \in [Workers -> Transactions] /\ WalletHeld' /\ SlotsHeld'
  BY <1>1, PayerEnds
<1> HIDE DEF f
<1>9. KeysApart'
  <2>1. \A r \in fees : r.key = f.key => f.key = NoKey
    BY <1>5, <1>7
  <2>2. \A r \in orders : r.key = f.key => f.key = NoKey
    BY <1>5, <1>7
  <2>3. KeysApart /\ orders' = orders
    BY <1>1 DEF PrepaidInv
  <2>4. \A a, b \in fees' : a.key = b.key /\ a.key # NoKey => a = b
    BY <1>1, <2>1, <2>3 DEF KeysApart
  <2>5. \A a \in orders', b \in fees' : a.key = b.key => a.key = NoKey
    BY <1>1, <2>2, <2>3 DEF KeysApart
  <2> QED BY <2>3, <2>4, <2>5 DEF KeysApart
<1>10. /\ IsFiniteSet(FeesPaid')
       /\ Cardinality(FeesPaid') = Cardinality(FeesPaid) + t.amount
  <2> DEFINE S == FeesPaid
             P == {f} \X (1..t.amount)
  <2>1. FeesPaid' = S \cup P
    BY <1>1, <1>5 DEF FeesPaid
  <2>2. S \cap P = {}
    BY <1>6 DEF FeesPaid
  <2>3. IsFiniteSet(S)
    BY DEF PrepaidInv, AllFinite
  <2> HIDE DEF S
  <2>4. IsFiniteSet(S \cup P) /\ Cardinality(S \cup P) = Cardinality(S) + t.amount
    BY <1>2, <2>2, <2>3, AddPortion
  <2> QED BY <2>1, <2>4 DEF S
<1>11. Numbered' /\ QuotaHolds' /\ AllFinite'
  BY <1>1, <1>10 DEF PrepaidInv, Numbered, QuotaHolds, Used, AllFinite
<1>12. PurchasesExplainWallet'
  <2> DEFINE C == UnitPrice * Cardinality(MealsOf(orders))
             F == Cardinality(FeesPaid)
             D == MealPrice * Cardinality(delivered)
  <2>1. /\ C \in Nat /\ F \in Nat /\ D \in Nat
        /\ Balance(wallet) \in Nat /\ Balance(opening) \in Nat
    BY SpentParts
  <2>2. Balance(wallet) + (C + F + D) = Balance(opening)
    BY DEF PrepaidInv, PurchasesExplainWallet, Spent
  <2>3. Spent' = C + (F + t.amount) + D /\ Balance(opening)' = Balance(opening)
    BY <1>1, <1>10 DEF Spent, Balance
  <2> HIDE DEF C, F, D
  <2>4. Balance(wallet') + Spent' = Balance(opening)
    BY <1>2, <1>4, <2>1, <2>2, <2>3
  <2> QED BY <2>3, <2>4 DEF PurchasesExplainWallet
<1>13. TypeOK'
  BY <1>1, <1>3, <1>4, <1>5, <1>8 DEF TypeOK
<1> QED BY <1>8, <1>9, <1>11, <1>12, <1>13 DEF PrepaidInv

\* The orders of a stop are delivered with it; each is the order it was.
DeliveredOrder(o, s) == IF o.slot = s THEN [o EXCEPT !.status = "delivered"] ELSE o

\* An order that is delivered keeps its meals, its month, its key and its stop.
LEMMA SameOrder ==
  ASSUME NEW o \in Order, NEW s \in Slots
  PROVE  LET d == DeliveredOrder(o, s)
         IN  /\ d \in Order /\ d.id = o.id /\ d.quantity = o.quantity /\ d.month = o.month
             /\ d.key = o.key /\ d.slot = o.slot
BY DEF DeliveredOrder, Order

\* Delivering the orders of a stop changes no count of them.
LEMMA DeliverOrders ==
  ASSUME PrepaidInv, NEW s \in Slots,
         orders' = {DeliveredOrder(o, s) : o \in orders}
  PROVE  /\ orders' \in SUBSET Order
         /\ IdsOf(orders') = IdsOf(orders)
         /\ MealsOf(orders') = MealsOf(orders)
         /\ \A m \in Months : MealsOf(InMonth(orders', m)) = MealsOf(InMonth(orders, m))
         /\ \A r \in Slots : MealsOf({o \in orders' : o.slot = r})
                             = MealsOf({o \in orders : o.slot = r})
         /\ \A r \in Slots : \A i :
              MealsOf({o \in orders' : o.slot = r /\ o.id # i})
              = MealsOf({o \in orders : o.slot = r /\ o.id # i})
         /\ \A p \in orders' : \E o \in orders :
              p = DeliveredOrder(o, s) /\ p.id = o.id /\ p.month = o.month /\ p.key = o.key
<1>1. orders \in SUBSET Order
  BY DEF PrepaidInv, TypeOK
<1>2. \A o \in orders : /\ DeliveredOrder(o, s) \in Order /\ DeliveredOrder(o, s) \in orders'
                       /\ DeliveredOrder(o, s).id = o.id
                       /\ DeliveredOrder(o, s).quantity = o.quantity
                       /\ DeliveredOrder(o, s).month = o.month
                       /\ DeliveredOrder(o, s).key = o.key
                       /\ DeliveredOrder(o, s).slot = o.slot
  BY <1>1, SameOrder
<1>3. \A p \in orders' : \E o \in orders :
        /\ p = DeliveredOrder(o, s) /\ p.id = o.id /\ p.quantity = o.quantity
        /\ p.month = o.month /\ p.key = o.key /\ p.slot = o.slot
  BY <1>2
<1>4. \A o \in orders : \E p \in orders' :
        /\ p.id = o.id /\ p.quantity = o.quantity /\ p.month = o.month /\ p.slot = o.slot
  BY <1>2
<1>5. orders' \in SUBSET Order
  BY <1>2, <1>3
<1>6. IdsOf(orders') = IdsOf(orders)
  BY <1>3, <1>4 DEF IdsOf
<1>7. MealsOf(orders') = MealsOf(orders)
  <2>1. \A x : x \in MealsOf(orders') <=> x \in MealsOf(orders)
    BY <1>3, <1>4, MealsMember
  <2> QED BY <2>1 DEF MealsOf
<1>8. ASSUME NEW m \in Months PROVE MealsOf(InMonth(orders', m)) = MealsOf(InMonth(orders, m))
  <2>1. \A p \in InMonth(orders', m) : \E o \in InMonth(orders, m) :
          p.id = o.id /\ p.quantity = o.quantity
    BY <1>3 DEF InMonth
  <2>2. \A o \in InMonth(orders, m) : \E p \in InMonth(orders', m) :
          p.id = o.id /\ p.quantity = o.quantity
    BY <1>4 DEF InMonth
  <2>3. \A x : x \in MealsOf(InMonth(orders', m)) <=> x \in MealsOf(InMonth(orders, m))
    BY <2>1, <2>2, MealsMember
  <2> QED BY <2>3 DEF MealsOf
<1>9. ASSUME NEW r \in Slots
      PROVE  MealsOf({o \in orders' : o.slot = r}) = MealsOf({o \in orders : o.slot = r})
  <2> DEFINE A == {o \in orders' : o.slot = r}
             B == {o \in orders : o.slot = r}
  <2>1. \A p \in A : \E o \in B : p.id = o.id /\ p.quantity = o.quantity
    BY <1>3
  <2>2. \A o \in B : \E p \in A : p.id = o.id /\ p.quantity = o.quantity
    BY <1>4
  <2> HIDE DEF A, B
  <2>3. \A x : x \in MealsOf(A) <=> x \in MealsOf(B)
    BY <2>1, <2>2, MealsMember
  <2>4. MealsOf(A) = MealsOf(B)
    BY <2>3 DEF MealsOf
  <2> QED BY <2>4 DEF A, B
<1>10. ASSUME NEW r \in Slots, NEW i
       PROVE  MealsOf({o \in orders' : o.slot = r /\ o.id # i})
              = MealsOf({o \in orders : o.slot = r /\ o.id # i})
  <2> DEFINE A == {o \in orders' : o.slot = r /\ o.id # i}
             B == {o \in orders : o.slot = r /\ o.id # i}
  <2>1. \A p \in A : \E o \in B : p.id = o.id /\ p.quantity = o.quantity
    BY <1>3
  <2>2. \A o \in B : \E p \in A : p.id = o.id /\ p.quantity = o.quantity
    BY <1>4
  <2> HIDE DEF A, B
  <2>3. \A x : x \in MealsOf(A) <=> x \in MealsOf(B)
    BY <2>1, <2>2, MealsMember
  <2>4. MealsOf(A) = MealsOf(B)
    BY <2>3 DEF MealsOf
  <2> QED BY <2>4 DEF A, B
<1> QED BY <1>3, <1>5, <1>6, <1>7, <1>8, <1>9, <1>10

\* Delivering a stop keeps the invariant.
LEMMA DeliverKept ==
  ASSUME PrepaidInv, NEW w \in Workers, DeliverStop(w), delivered' # delivered
  PROVE  PrepaidInv'
<1> DEFINE s == tx[w].slot
<1>1. /\ tx[w].pc = "marking" /\ WalletFree /\ MealPrice <= Balance(wallet) /\ Pay(MealPrice)
      /\ delivered' = delivered \cup {s}
      /\ orders' = {DeliveredOrder(o, s) : o \in orders}
      /\ Continue(w, Idle) /\ UNCHANGED <<fees, opening, past, month, requests>>
  <2>1. ~(MealPrice > Balance(wallet))
    BY DEF DeliverStop
  <2>2. MealPrice \in Nat /\ Balance(wallet) \in Nat
    BY SpentParts, PrepaidAssumption
  <2> QED BY <2>1, <2>2 DEF DeliverStop, DeliveredOrder
<1>2. s \in Slots /\ s \notin delivered /\ TypeOK
  BY <1>1 DEF PrepaidInv, TypeOK, Transactions, SlotsHeld
<1>3. /\ wallet' \in Wallets /\ stopped' \in BOOLEAN
      /\ Balance(wallet') = Balance(wallet) - MealPrice
  BY <1>1, <1>2, PayLemma, PrepaidAssumption
<1> HIDE DEF s
<1>4. /\ orders' \in SUBSET Order /\ IdsOf(orders') = IdsOf(orders)
      /\ MealsOf(orders') = MealsOf(orders)
      /\ \A m \in Months : MealsOf(InMonth(orders', m)) = MealsOf(InMonth(orders, m))
      /\ \A p \in orders' : \E o \in orders :
           p = DeliveredOrder(o, s) /\ p.id = o.id /\ p.month = o.month /\ p.key = o.key
  BY <1>1, <1>2, DeliverOrders
<1>5. Numbered'
  <2>1. \A a, b \in orders' : a.id = b.id => a = b
    BY <1>4 DEF PrepaidInv, Numbered
  <2>2. \A a \in orders' : a.month <= month'
    BY <1>1, <1>4 DEF PrepaidInv, Numbered
  <2> QED BY <1>4, <2>1, <2>2 DEF PrepaidInv, Numbered
<1>6. KeysApart'
  <2>1. \A a, b \in orders' : a.key = b.key /\ a.key # NoKey => a = b
    BY <1>4 DEF PrepaidInv, KeysApart
  <2>2. \A a \in orders', b \in fees : a.key = b.key => a.key = NoKey
    BY <1>4 DEF PrepaidInv, KeysApart
  <2> QED BY <1>1, <2>1, <2>2 DEF PrepaidInv, KeysApart
<1>7. IsFiniteSet(delivered') /\ Cardinality(delivered') = Cardinality(delivered) + 1
  BY <1>1, <1>2, FS_AddElement DEF PrepaidInv, AllFinite
<1>8. AllFinite'
  BY <1>1, <1>4, <1>7 DEF PrepaidInv, AllFinite, FeesPaid
<1>9. QuotaHolds'
  BY <1>4 DEF PrepaidInv, QuotaHolds, Used, InMonth
<1>10. tx' \in [Workers -> Transactions] /\ WalletHeld'
       /\ \A v \in Workers : tx'[v].pc = "marking" => v # w /\ tx'[v] = tx[v]
  BY <1>1, PayerEnds
<1>11. SlotsHeld'
  <2>1. \A v \in Workers : v # w /\ tx[v].pc = "marking" => tx[v].slot # s
    BY <1>1 DEF PrepaidInv, SlotsHeld, s
  <2> QED BY <1>1, <1>10, <2>1 DEF PrepaidInv, SlotsHeld
<1>12. PurchasesExplainWallet'
  <2> DEFINE C == UnitPrice * Cardinality(MealsOf(orders))
             F == Cardinality(FeesPaid)
             n == Cardinality(delivered)
  <2>1. /\ C \in Nat /\ F \in Nat /\ n \in Nat /\ MealPrice * n \in Nat
        /\ Balance(wallet) \in Nat /\ Balance(opening) \in Nat
    BY SpentParts
  <2>2. Balance(wallet) + (C + F + MealPrice * n) = Balance(opening)
    BY DEF PrepaidInv, PurchasesExplainWallet, Spent
  <2>3. Spent' = C + F + MealPrice * (n + 1) /\ Balance(opening)' = Balance(opening)
    BY <1>1, <1>4, <1>7 DEF Spent, Balance, FeesPaid
  <2> HIDE DEF C, F, n
  <2>4. MealPrice * (n + 1) = MealPrice * n + MealPrice * 1 /\ MealPrice * 1 = MealPrice
    BY <2>1, PrepaidAssumption, Distribute
  <2>5. Balance(wallet') + Spent' = Balance(opening)
    BY <1>3, <2>1, <2>2, <2>3, <2>4, PrepaidAssumption
  <2> QED BY <2>3, <2>5 DEF PurchasesExplainWallet
<1>13. TypeOK'
  BY <1>1, <1>2, <1>3, <1>4, <1>10 DEF TypeOK
<1> QED BY <1>5, <1>6, <1>8, <1>9, <1>10, <1>11, <1>12, <1>13 DEF PrepaidInv

-----------------------------------------------------------------------------
\* The other steps

\* A transaction ends, and nothing is paid.
LEMMA EndsKept ==
  ASSUME PrepaidInv, NEW w \in Workers, Continue(w, Idle),
         UNCHANGED <<ledger, opening, past, month, requests>>
  PROVE  PrepaidInv'
<1>1. Idle \in Transactions /\ Idle.pc = "idle"
  BY DEF Idle, Transactions
<1>2. /\ tx' \in [Workers -> Transactions]
      /\ Numbered' /\ AllFinite' /\ KeysApart' /\ WalletHeld' /\ SlotsHeld'
      /\ QuotaHolds' /\ PurchasesExplainWallet'
  BY <1>1, QuietStep
<1>3. TypeOK'
  BY <1>2 DEF PrepaidInv, TypeOK, ledger
<1> QED BY <1>2, <1>3 DEF PrepaidInv

\* A request is asked, checked or begun.
LEMMA RequestKept ==
  ASSUME PrepaidInv, NEW w \in Workers,
         \/ \E s \in Slots, q \in Quantities, k \in SomeKey : Ask(w, s, q, k)
         \/ \E m \in Months, a \in FeeAmounts, k \in SomeKey : CheckFee(w, m, a, k)
         \/ \E s \in Slots : MarkStop(w, s)
         \/ Quote(w) /\ tx'[w].pc = "quoted"
  PROVE  PrepaidInv'
<1>1. UNCHANGED <<ledger, opening, past, month>> /\ requests' \in 0..MaxRequests
  <2>1. requests \in 0..MaxRequests /\ MaxRequests \in Nat
    BY PrepaidAssumption DEF PrepaidInv, TypeOK
  <2>2. ASSUME Requested(w) PROVE requests' \in 0..MaxRequests
    BY <2>1, <2>2 DEF Requested
  <2>3. CASE requests' = requests /\ UNCHANGED <<ledger, opening, past, month>>
    BY <2>1, <2>3
  <2>4. CASE Requested(w) /\ UNCHANGED <<ledger, opening, past, month>>
    BY <2>2, <2>4
  <2> QED BY <2>3, <2>4 DEF Ask, CheckFee, MarkStop, Quote
<1>2. PICK t \in Transactions :
        /\ Continue(w, t)
        /\ t.pc = "quoted" => /\ Used(month) + t.quantity <= Limit
                              /\ wallet.recharge - Total(t) >= Floor
        /\ t.pc \in {"quoted", "billed"} => WalletFree
        /\ t.pc = "marking" => t.slot \notin delivered /\ SlotFree(t.slot)
  <2>1. ASSUME NEW s \in Slots, NEW q \in Quantities, NEW k \in SomeKey, Ask(w, s, q, k)
        PROVE  \E t \in Transactions : t.pc = "asked" /\ Continue(w, t)
    BY <2>1 DEF Ask, Transactions
  <2>2. ASSUME NEW m \in Months, NEW a \in FeeAmounts, NEW k \in SomeKey, CheckFee(w, m, a, k)
        PROVE  \E t \in Transactions : t.pc = "billed" /\ Continue(w, t) /\ WalletFree
    BY <2>2 DEF CheckFee, Transactions
  <2>3. ASSUME NEW s \in Slots, MarkStop(w, s)
        PROVE  \E t \in Transactions :
                 t.pc = "marking" /\ t.slot = s /\ Continue(w, t) /\ s \notin delivered
                   /\ SlotFree(s)
    BY <2>3 DEF MarkStop, Transactions
  <2>4. ASSUME Quote(w), tx'[w].pc = "quoted"
        PROVE  \E t \in Transactions :
                 /\ t.pc = "quoted" /\ Continue(w, t) /\ WalletFree
                 /\ Used(month) + t.quantity <= Limit /\ wallet.recharge - Total(t) >= Floor
    <3>1. /\ tx[w] \in [pc : {"asked", "quoted"}, slot : Slots, quantity : Quantities,
                         key : SomeKey]
          /\ tx \in [Workers -> Transactions]
      BY <2>4 DEF Quote, PrepaidInv, TypeOK, Transactions
    <3> DEFINE t == [tx[w] EXCEPT !.pc = "quoted"]
    <3>2. t \in Transactions /\ t.pc = "quoted" /\ t.quantity = tx[w].quantity
      BY <3>1 DEF Transactions
    <3>3. ~Continue(w, Idle)
      BY <2>4, <3>1 DEF Continue, Idle
    <3>4. Continue(w, t) /\ Quotable(tx[w]) /\ WalletFree
      BY <2>4, <3>3 DEF Quote
    <3> HIDE DEF t
    <3>5. Total(t) = Total(tx[w])
      BY <3>2 DEF Total
    <3> QED BY <3>2, <3>4, <3>5 DEF Quotable
  <2> QED BY <2>1, <2>2, <2>3, <2>4
<1>3. /\ tx' \in [Workers -> Transactions]
      /\ Numbered' /\ AllFinite' /\ KeysApart' /\ WalletHeld' /\ SlotsHeld'
      /\ QuotaHolds' /\ PurchasesExplainWallet'
  BY <1>1, <1>2, QuietStep
<1>4. TypeOK'
  BY <1>1, <1>3 DEF PrepaidInv, TypeOK, ledger
<1> QED BY <1>3, <1>4 DEF PrepaidInv

\* In a new month nothing is ordered yet: what was quoted before fits into it.
LEMMA MonthKept ==
  ASSUME PrepaidInv, NextMonth
  PROVE  PrepaidInv'
<1>1. /\ month' = month + 1 /\ month' \in Months
      /\ UNCHANGED <<wallet, orders, fees, delivered, stopped, opening, past, tx, requests>>
  BY DEF NextMonth, ledger
<1>2. month \in Nat /\ \A o \in orders : o.month \in Nat /\ o.month <= month
  BY PrepaidAssumption DEF PrepaidInv, TypeOK, Numbered, Order
<1>3. Numbered'
  BY <1>1, <1>2 DEF PrepaidInv, Numbered
<1>4. Used(month)' = 0
  <2>1. {o \in orders : o.month = month'} = {}
    BY <1>1, <1>2
  <2>2. MealsOf({}) = {}
    BY DEF MealsOf
  <2>3. {o \in orders' : o.month = month'} = {}
    BY <1>1, <2>1
  <2> QED BY <2>2, <2>3, FS_EmptySet DEF Used
<1>5. \A w \in Workers : tx[w].pc = "quoted" => tx[w].quantity <= Limit
  <2>1. \A w \in Workers : tx[w].pc = "quoted" =>
          Used(month) + tx[w].quantity <= Limit /\ tx[w].quantity \in Nat
    BY OrderedLemma DEF PrepaidInv, WalletHeld
  <2>2. Used(month) \in Nat
    BY MealsSubset DEF Used, PrepaidInv, AllFinite
  <2> QED BY <2>1, <2>2, PrepaidAssumption
<1>6. WalletHeld'
  <2>1. \A w \in Workers : tx'[w].pc = "quoted" =>
          /\ Used(month)' + tx'[w].quantity <= Limit
          /\ wallet'.recharge - Total(tx[w]) >= Floor
    <3>1. \A w \in Workers : tx[w].pc = "quoted" => tx[w].quantity \in Nat
      BY OrderedLemma
    <3> QED BY <1>1, <1>4, <1>5, <3>1 DEF PrepaidInv, WalletHeld
  <2>2. \A v, w \in Workers : HoldsWallet(v)' /\ HoldsWallet(w)' => v = w
    BY <1>1 DEF PrepaidInv, WalletHeld, HoldsWallet
  <2>3. \A w \in Workers : Total(tx[w])' = Total(tx[w])
    BY <1>1 DEF Total
  <2> QED BY <2>1, <2>2, <2>3 DEF WalletHeld
<1>7. KeysApart' /\ AllFinite' /\ SlotsHeld' /\ QuotaHolds' /\ PurchasesExplainWallet'
  BY <1>1 DEF PrepaidInv, KeysApart, AllFinite, FeesPaid, SlotsHeld, QuotaHolds, Used,
       PurchasesExplainWallet, Spent
<1>8. TypeOK'
  BY <1>1 DEF PrepaidInv, TypeOK
<1> QED BY <1>3, <1>6, <1>7, <1>8 DEF PrepaidInv

\* A step of the clock, which moves no money and no order, keeps the invariant.
LEMMA StutterKept ==
  ASSUME PrepaidInv,
         UNCHANGED <<wallet, orders, fees, delivered, stopped, opening, month, tx, requests>>,
         past' \in SUBSET Slots
  PROVE  PrepaidInv'
<1>1. TypeOK'
  BY DEF PrepaidInv, TypeOK
<1>2. WalletHeld'
  BY DEF PrepaidInv, WalletHeld, HoldsWallet, Total, Used
<1> QED BY <1>1, <1>2 DEF PrepaidInv, Numbered, AllFinite, FeesPaid, KeysApart, SlotsHeld,
          QuotaHolds, Used, PurchasesExplainWallet, Spent

\* Every step keeps the invariant.
LEMMA InvKept ==
  ASSUME PrepaidInv, [Next]_vars
  PROVE  PrepaidInv'
<1>1. ASSUME NEW w \in Workers,
             Buy(w) \/ PayFee(w) \/ DeliverStop(w) \/ RollBack(w)
               \/ (Quote(w) /\ tx'[w].pc # "quoted")
      PROVE  PrepaidInv'
  <2>1. CASE Buy(w) /\ orders' # orders
    BY <2>1, BuyKept
  <2>2. CASE PayFee(w) /\ fees' # fees
    BY <2>2, FeeKept
  <2>3. CASE DeliverStop(w) /\ delivered' # delivered
    BY <2>3, DeliverKept
  <2>4. CASE Buy(w) /\ orders' = orders
    <3>1. KeyTaken(tx[w].key)
      <4>1. CASE ~KeyTaken(tx[w].key)
        <5>1. Ordered(tx[w]) \in orders
          BY <2>4, <4>1 DEF Buy
        <5>2. Ordered(tx[w]).id \in IdsOf(orders) /\ tx[w].pc = "quoted"
          BY <2>4, <5>1 DEF IdsOf, Buy
        <5> QED BY <5>2, OrderedLemma
      <4> QED BY <4>1
    <3> QED BY <2>4, <3>1, EndsKept DEF Buy, ledger
  <2>5. CASE PayFee(w) /\ fees' = fees
    <3>1. UNCHANGED <<wallet, stopped>>
      <4>1. CASE ~Paid(tx[w].month)
        <5>1. [key |-> tx[w].key, month |-> tx[w].month, amount |-> tx[w].amount] \notin fees
          BY <4>1 DEF Paid
        <5> QED BY <2>5, <5>1 DEF PayFee
      <4>2. CASE Paid(tx[w].month)
        BY <2>5, <4>2 DEF PayFee
      <4> QED BY <4>1, <4>2
    <3> QED BY <2>5, <3>1, EndsKept DEF PayFee, ledger
  <2>6. CASE DeliverStop(w) /\ delivered' = delivered
    <3>1. tx[w].slot \notin delivered
      BY <2>6 DEF DeliverStop, PrepaidInv, SlotsHeld
    <3>2. UNCHANGED <<wallet, stopped, orders>>
      BY <2>6, <3>1 DEF DeliverStop
    <3> QED BY <2>6, <3>2, EndsKept DEF DeliverStop, ledger
  <2>7. CASE RollBack(w)
    BY <2>7, EndsKept DEF RollBack
  <2>8. CASE Quote(w) /\ tx'[w].pc # "quoted"
    <3>1. tx \in [Workers -> Transactions]
      BY DEF PrepaidInv, TypeOK
    <3>2. tx[w] \in [pc : {"asked", "quoted"}, slot : Slots, quantity : Quantities,
                     key : SomeKey]
      BY <2>8, <3>1 DEF Quote, Transactions
    <3>3. [tx[w] EXCEPT !.pc = "quoted"].pc = "quoted"
      BY <3>2
    <3>4. ~Continue(w, [tx[w] EXCEPT !.pc = "quoted"])
      BY <2>8, <3>1, <3>3 DEF Continue
    <3>5. Continue(w, Idle)
      BY <2>8, <3>4 DEF Quote
    <3> QED BY <2>8, <3>5, EndsKept DEF Quote
  <2> QED BY <1>1, <2>1, <2>2, <2>3, <2>4, <2>5, <2>6, <2>7, <2>8
<1>2. ASSUME NEW s \in Slots, PassCutoff(s) PROVE PrepaidInv'
  <2>1. past' \in SUBSET Slots
    BY <1>2 DEF PassCutoff, PrepaidInv, TypeOK
  <2> QED BY <1>2, <2>1, StutterKept DEF PassCutoff, ledger
<1>3. CASE UNCHANGED vars
  <2>1. past' \in SUBSET Slots
    BY <1>3 DEF vars, PrepaidInv, TypeOK
  <2> QED BY <1>3, <2>1, StutterKept DEF vars, ledger
<1> QED BY <1>1, <1>2, <1>3, RequestKept, MonthKept DEF Next, Serve

\* The invariant holds before anything is bought.
LEMMA InitInv ==
  ASSUME Init
  PROVE  PrepaidInv
<1>1. TypeOK
  <2>1. Idle \in Transactions
    BY DEF Idle, Transactions
  <2> QED BY <2>1, PrepaidAssumption DEF Init, TypeOK
<1>2. Numbered
  <2>1. IdsOf({}) = 1..0
    BY DEF IdsOf
  <2> QED BY <2>1 DEF Init, Numbered
<1>3. MealsOf({}) = {} /\ FeesPaid = {} /\ delivered = {} /\ orders = {}
  BY DEF Init, MealsOf, FeesPaid
<1>4. Cardinality({}) = 0 /\ IsFiniteSet({})
  BY FS_EmptySet
<1>5. AllFinite
  BY <1>3, <1>4 DEF AllFinite
<1>6. KeysApart /\ WalletHeld /\ SlotsHeld
  BY DEF Init, KeysApart, WalletHeld, SlotsHeld, HoldsWallet, Idle
<1>7. QuotaHolds
  <2>1. \A m \in Months : {o \in orders : o.month = m} = {}
    BY <1>3
  <2> QED BY <1>3, <1>4, <2>1, PrepaidAssumption DEF QuotaHolds, Used
<1>8. PurchasesExplainWallet
  <2>1. Spent = UnitPrice * 0 + 0 + MealPrice * 0
    BY <1>3, <1>4 DEF Spent
  <2>2. Spent = 0
    BY <2>1, PrepaidAssumption
  <2>3. Balance(wallet) \in Nat /\ opening = wallet
    BY <1>1, MaxBalanceAssumption DEF Init, TypeOK, Wallets, Balance
  <2> QED BY <2>2, <2>3 DEF PurchasesExplainWallet
<1> QED BY <1>1, <1>2, <1>5, <1>6, <1>7, <1>8 DEF PrepaidInv

-----------------------------------------------------------------------------
\* The theorems

\* The inductive invariant of purchases: wallet, orders and keys as the locks leave them.
THEOREM InvTheorem == Spec => []PrepaidInv
<1>1. Init => PrepaidInv
  BY InitInv
<1>2. PrepaidInv /\ [Next]_vars => PrepaidInv'
  BY InvKept
<1> QED BY <1>1, <1>2, PTL DEF Spec

\* Every variable stays in its domain: the wallet is never overdrawn.
THEOREM TypeCorrect == Spec => []TypeOK
<1>1. PrepaidInv => TypeOK
  BY DEF PrepaidInv
<1> QED BY <1>1, InvTheorem, PTL

\* The orders of a month stay within its quota, however purchases overlap.
THEOREM Quota == Spec => []QuotaHolds
<1>1. PrepaidInv => QuotaHolds
  BY DEF PrepaidInv
<1> QED BY <1>1, InvTheorem, PTL

\* What left the wallet is on record, and was paid for once.
THEOREM WalletExplained == Spec => []PurchasesExplainWallet
<1>1. PrepaidInv => PurchasesExplainWallet
  BY DEF PrepaidInv
<1> QED BY <1>1, InvTheorem, PTL

\* The invariant bounds what is paid under one key.
LEMMA KeysPay ==
  ASSUME PrepaidInv
  PROVE  KeysPayOnce
<1> SUFFICES ASSUME NEW k \in Keys
             PROVE  Cardinality({o \in orders : o.key = k})
                      + Cardinality({f \in fees : f.key = k}) <= 1
  BY DEF KeysPayOnce
<1> DEFINE O == {o \in orders : o.key = k}
           F == {f \in fees : f.key = k}
<1>1. k # NoKey /\ KeysApart
  BY PrepaidAssumption DEF PrepaidInv
<1>2. O = {} \/ F = {}
  BY <1>1 DEF KeysApart
<1>3. O = {} \/ \E o : O = {o}
  BY <1>1 DEF KeysApart
<1>4. F = {} \/ \E f : F = {f}
  BY <1>1 DEF KeysApart
<1> HIDE DEF O, F
<1>5. Cardinality(O) \in {0, 1} /\ (O = {} => Cardinality(O) = 0)
  BY <1>3, FS_EmptySet, FS_Singleton
<1>6. Cardinality(F) \in {0, 1} /\ (F = {} => Cardinality(F) = 0)
  BY <1>4, FS_EmptySet, FS_Singleton
<1>7. Cardinality(O) + Cardinality(F) <= 1
  BY <1>2, <1>5, <1>6
<1> QED BY <1>7 DEF O, F

\* An idempotency key pays once, for one guest order or one fee.
THEOREM KeysPayOnceTheorem == Spec => []KeysPayOnce
<1>1. PrepaidInv => KeysPayOnce
  BY KeysPay
<1> QED BY <1>1, InvTheorem, PTL

\* A guest purchase leaves the meal-stop threshold of recharged money when it commits.
THEOREM FloorKept == Spec => PurchasesKeepFloor
<1>1. PrepaidInv /\ [Next]_vars =>
        [\A w \in Workers : Buy(w) /\ orders' # orders => wallet'.recharge >= Floor]_vars
  BY BuyKept
<1> QED BY <1>1, InvTheorem, PTL DEF Spec, PurchasesKeepFloor

-----------------------------------------------------------------------------
\* Prepaid under the kitchen

\* A step of the kitchen is one of Prepaid, or leaves Prepaid alone.
LEMMA PrepaidStep ==
  ASSUME [KitchenNext]_allVars
  PROVE  [Next]_vars
BY DEF KitchenNext, Next, allVars, CustomerMealOff, CustomerMealOn, Toggle, CountGuests,
       EditCatalog, StartJob, CountMeals, SaveSnapshot, KillJob

\* What the kitchen's customers and workers do is what Prepaid allows: turning meals
\* off, counting and storing neither pay nor order anything.
THEOREM KitchenImplementsPrepaid == KitchenSpec => Spec
<1>1. KitchenInit => Init
  BY DEF KitchenInit
<1>2. [KitchenNext]_allVars => [Next]_vars
  BY PrepaidStep
<1> QED BY <1>1, <1>2, PTL DEF KitchenSpec, Spec

-----------------------------------------------------------------------------
\* The inductive invariant

\* n is the number of guest meals of a stop, or would be without one order; then no
\* other purchase for the stop is under way.
Reached(s, n) ==
  \/ GuestMeals(s) = n
  \/ /\ \E i \in IdsOf(orders) : MealsBut(s, i) = n
     /\ \A w \in Workers : ~(tx[w].pc = "quoted" /\ tx[w].slot = s)

AddsUp(c) == c.expected - (c.cooking + c.off) \in {0, 1}

\* The guests a demand was made of.
Serves(c, n) == c.expected = 1 + n /\ c.cooking \in {n, 1 + n}

JobRight ==
  /\ job.due \subseteq past
  /\ job.slot = None => job.counts = None
  /\ job.slot # None => job.slot \in past /\ Reached(job.slot, job.guests)
  /\ job.counts # None => AddsUp(job.counts) /\ Serves(job.counts, job.guests)

HistoryRight ==
  \A s \in Slots : history[s] # None =>
    /\ s \in past /\ AddsUp(history[s])
    /\ \E n \in Nat : Serves(history[s], n) /\ Reached(s, n)

KitchenInv == PrepaidInv /\ KitchenTypeOK /\ JobRight /\ HistoryRight

-----------------------------------------------------------------------------
\* Guest meals

\* The guest meals of a stop are a number.
LEMMA GuestMealsNat ==
  ASSUME PrepaidInv, NEW s \in Slots
  PROVE  GuestMeals(s) \in Nat
BY MealsSubset DEF GuestMeals, PrepaidInv, AllFinite

\* After its cutoff nothing is quoted for a stop.
LEMMA QuotedStep ==
  ASSUME PrepaidInv, [Next]_vars, NEW v \in Workers, tx'[v].pc = "quoted"
  PROVE  tx'[v] = tx[v] \/ tx'[v].slot \notin past
<1>1. tx \in [Workers -> Transactions]
  BY DEF PrepaidInv, TypeOK
<1>2. ASSUME NEW w \in Workers, NEW t, t.pc # "quoted", Continue(w, t)
      PROVE  tx'[v] = tx[v]
  BY <1>1, <1>2 DEF Continue
<1>3. Idle.pc # "quoted"
  BY DEF Idle
<1>4. ASSUME NEW w \in Workers, Quote(w) PROVE tx'[v] = tx[v] \/ tx'[v].slot \notin past
  <2>1. CASE Continue(w, Idle)
    BY <1>2, <1>3, <2>1
  <2>2. CASE Quotable(tx[w]) /\ Continue(w, [tx[w] EXCEPT !.pc = "quoted"])
    <3>1. tx[w] \in [pc : {"asked", "quoted"}, slot : Slots, quantity : Quantities,
                     key : SomeKey]
      BY <1>1, <1>4 DEF Quote, Transactions
    <3>2. [tx[w] EXCEPT !.pc = "quoted"].slot = tx[w].slot
      BY <3>1
    <3>3. tx[w].slot \notin past
      BY <2>2 DEF Quotable
    <3>4. tx'[v] = tx[v] \/ tx'[v] = [tx[w] EXCEPT !.pc = "quoted"]
      BY <1>1, <2>2 DEF Continue
    <3> QED BY <3>2, <3>3, <3>4
  <2> QED BY <1>4, <2>1, <2>2 DEF Quote
<1>5. ASSUME NEW w \in Workers, NEW s \in Slots, NEW q \in Quantities, NEW k \in SomeKey,
             Ask(w, s, q, k)
      PROVE  tx'[v] = tx[v]
  BY <1>2, <1>5 DEF Ask
<1>6. ASSUME NEW w \in Workers, NEW m \in Months, NEW a \in FeeAmounts, NEW k \in SomeKey,
             CheckFee(w, m, a, k)
      PROVE  tx'[v] = tx[v]
  BY <1>2, <1>6 DEF CheckFee
<1>7. ASSUME NEW w \in Workers, NEW s \in Slots, MarkStop(w, s) PROVE tx'[v] = tx[v]
  BY <1>2, <1>7 DEF MarkStop
<1>8. ASSUME NEW w \in Workers, Buy(w) \/ PayFee(w) \/ DeliverStop(w) \/ RollBack(w)
      PROVE  tx'[v] = tx[v]
  <2>1. Continue(w, Idle)
    BY <1>8 DEF Buy, PayFee, DeliverStop, RollBack
  <2> QED BY <1>2, <1>3, <2>1
<1>9. CASE UNCHANGED tx
  BY <1>9
<1> QED
  BY <1>4, <1>5, <1>6, <1>7, <1>8, <1>9 DEF Next, Serve, PassCutoff, NextMonth, vars

\* The guest meals of a stop change by a purchase for it alone, which was quoted: they
\* are what they were but for its order.
LEMMA GuestMealsStep ==
  ASSUME PrepaidInv, [Next]_vars, NEW s \in Slots
  PROVE  \/ /\ GuestMeals(s)' = GuestMeals(s)
            /\ \A i \in IdsOf(orders) : i \in IdsOf(orders') /\ MealsBut(s, i)' = MealsBut(s, i)
         \/ /\ \E w \in Workers : tx[w].pc = "quoted" /\ tx[w].slot = s
            /\ \E i \in IdsOf(orders') : MealsBut(s, i)' = GuestMeals(s)
            /\ \A v \in Workers : tx'[v].pc # "quoted"
<1>1. CASE UNCHANGED orders
  BY <1>1 DEF GuestMeals, MealsBut
<1>2. ASSUME NEW w \in Workers, Buy(w), orders' # orders
      PROVE  \/ /\ GuestMeals(s)' = GuestMeals(s)
                /\ \A i \in IdsOf(orders) :
                     i \in IdsOf(orders') /\ MealsBut(s, i)' = MealsBut(s, i)
             \/ /\ tx[w].pc = "quoted" /\ tx[w].slot = s
                /\ \E i \in IdsOf(orders') : MealsBut(s, i)' = GuestMeals(s)
                /\ \A v \in Workers : tx'[v].pc # "quoted"
  <2>0. PICK o : o = Ordered(tx[w])
    OBVIOUS
  <2>1. /\ tx[w].pc = "quoted" /\ orders' = orders \cup {o} /\ Continue(w, Idle)
        /\ o.slot = tx[w].slot
    BY <1>2, <2>0 DEF Buy, Ordered
  <2>2. o.id \notin IdsOf(orders)
    BY <2>0, <2>1, OrderedLemma
  <2>3. CASE tx[w].slot # s
    <3>1. {r \in orders' : r.slot = s} = {r \in orders : r.slot = s}
      BY <2>1, <2>3
    <3>2. \A i : {r \in orders' : r.slot = s /\ r.id # i} = {r \in orders : r.slot = s /\ r.id # i}
      BY <2>1, <2>3
    <3>3. IdsOf(orders) \subseteq IdsOf(orders')
      BY <2>1 DEF IdsOf
    <3> QED BY <3>1, <3>2, <3>3 DEF GuestMeals, MealsBut
  <2>4. CASE tx[w].slot = s
    <3>1. {r \in orders' : r.slot = s /\ r.id # o.id} = {r \in orders : r.slot = s}
      BY <2>1, <2>2 DEF IdsOf
    <3>2. MealsBut(s, o.id)' = GuestMeals(s) /\ o.id \in IdsOf(orders')
      <4>1. Cardinality(MealsOf({r \in orders' : r.slot = s /\ r.id # o.id})) = GuestMeals(s)
        BY <3>1 DEF GuestMeals
      <4> QED BY <2>1, <4>1 DEF IdsOf, MealsBut
    <3>3. \A v \in Workers : tx'[v].pc # "quoted"
      <4>1. \A v \in Workers : v # w => tx[v].pc # "quoted" /\ tx'[v] = tx[v]
        BY <2>1 DEF PrepaidInv, WalletHeld, HoldsWallet, Continue, TypeOK
      <4>2. tx'[w].pc = "idle"
        BY <2>1 DEF Continue, Idle, PrepaidInv, TypeOK
      <4> QED BY <4>1, <4>2
    <3> QED BY <2>1, <2>4, <3>2, <3>3
  <2> QED BY <2>3, <2>4
<1>3. ASSUME NEW w \in Workers, DeliverStop(w), orders' # orders
      PROVE  /\ GuestMeals(s)' = GuestMeals(s)
             /\ \A i \in IdsOf(orders) :
                  i \in IdsOf(orders') /\ MealsBut(s, i)' = MealsBut(s, i)
  <2>1. tx[w].slot \in Slots
    BY <1>3 DEF DeliverStop, PrepaidInv, TypeOK, Transactions
  <2>2. orders' = {DeliveredOrder(o, tx[w].slot) : o \in orders}
    BY <1>3 DEF DeliverStop, DeliveredOrder
  <2>3. /\ IdsOf(orders') = IdsOf(orders)
        /\ MealsOf({o \in orders' : o.slot = s}) = MealsOf({o \in orders : o.slot = s})
        /\ \A i : MealsOf({o \in orders' : o.slot = s /\ o.id # i})
                  = MealsOf({o \in orders : o.slot = s /\ o.id # i})
    BY <2>1, <2>2, DeliverOrders
  <2> QED BY <2>3 DEF GuestMeals, MealsBut
<1> QED
  BY <1>1, <1>2, <1>3
     DEF Next, Serve, Ask, CheckFee, Quote, PayFee, RollBack, PassCutoff, NextMonth, MarkStop,
         vars, ledger

\* After its cutoff, what reached the count of a stop's guest meals but for one order
\* at most goes on to be all but one: one purchase at most was quoted.
LEMMA ReachedKept ==
  ASSUME PrepaidInv, [Next]_vars, NEW s \in Slots, s \in past, NEW n \in Nat, Reached(s, n)
  PROVE  Reached(s, n)'
<1>1. CASE /\ GuestMeals(s)' = GuestMeals(s)
           /\ \A i \in IdsOf(orders) :
                i \in IdsOf(orders') /\ MealsBut(s, i)' = MealsBut(s, i)
  <2>1. \A v \in Workers : tx'[v].pc = "quoted" /\ tx'[v].slot = s => tx'[v] = tx[v]
    BY QuotedStep
  <2>2. CASE GuestMeals(s) = n
    BY <1>1, <2>2 DEF Reached
  <2>3. CASE /\ \E i \in IdsOf(orders) : MealsBut(s, i) = n
             /\ \A w \in Workers : ~(tx[w].pc = "quoted" /\ tx[w].slot = s)
    <3>1. \E i \in IdsOf(orders') : MealsBut(s, i)' = n
      BY <1>1, <2>3
    <3>2. \A w \in Workers : ~(tx'[w].pc = "quoted" /\ tx'[w].slot = s)
      BY <2>1, <2>3
    <3> QED BY <3>1, <3>2 DEF Reached
  <2> QED BY <2>2, <2>3 DEF Reached
<1>2. CASE /\ \E w \in Workers : tx[w].pc = "quoted" /\ tx[w].slot = s
           /\ \E i \in IdsOf(orders') : MealsBut(s, i)' = GuestMeals(s)
           /\ \A v \in Workers : tx'[v].pc # "quoted"
  <2>1. GuestMeals(s) = n
    BY <1>2 DEF Reached
  <2> QED BY <1>2, <2>1 DEF Reached
<1> QED BY <1>1, <1>2, GuestMealsStep

\* A cutoff that has passed stays so.
LEMMA PastStays ==
  ASSUME [Next]_vars
  PROVE  past \subseteq past'
BY DEF Next, Serve, Ask, CheckFee, Quote, Buy, PayFee, DeliverStop, RollBack, PassCutoff,
       NextMonth, MarkStop, vars

-----------------------------------------------------------------------------
\* The steps of the kitchen

\* What Prepaid does leaves the job and the history as right as they are.
LEMMA QuietKitchen ==
  ASSUME KitchenInv, [Next]_vars, UNCHANGED <<history, job>>
  PROVE  JobRight' /\ HistoryRight'
<1>1. PrepaidInv /\ past \subseteq past'
  BY PastStays DEF KitchenInv
<1>2. JobRight'
  <2>1. JobRight /\ job.guests \in Nat /\ job.slot \in Slots \cup {None}
    BY DEF KitchenInv, KitchenTypeOK, Jobs
  <2>2. job.slot # None => Reached(job.slot, job.guests)'
    BY <1>1, <2>1, ReachedKept DEF JobRight
  <2> QED BY <1>1, <2>1, <2>2 DEF JobRight, AddsUp, Serves, Reached, GuestMeals, MealsBut, IdsOf
<1>3. HistoryRight'
  <2> SUFFICES ASSUME NEW s \in Slots, history[s] # None
               PROVE  /\ s \in past' /\ AddsUp(history[s])
                      /\ \E n \in Nat : Serves(history[s], n) /\ Reached(s, n)'
    BY DEF HistoryRight, AddsUp, Serves
  <2>1. PICK n \in Nat : /\ s \in past /\ AddsUp(history[s])
                         /\ Serves(history[s], n) /\ Reached(s, n)
    BY DEF KitchenInv, HistoryRight
  <2> QED BY <1>1, <2>1, ReachedKept
<1> QED BY <1>2, <1>3

Counts == [expected : Nat, off : Nat, cooking : Nat]

\* A demand is cooked, turned off or one stopped customer's, and cooks for the guests.
LEMMA DemandLemma ==
  ASSUME NEW s \in Slots, NEW n \in Nat
  PROVE  Demand(s, n) \in Counts /\ AddsUp(Demand(s, n)) /\ Serves(Demand(s, n), n)
<1> DEFINE o == IF s \in off /\ ~stopped THEN 1 ELSE 0
           c == IF s \in off \/ stopped THEN 0 ELSE 1
<1>1. Demand(s, n) = [expected |-> 1 + n, off |-> o, cooking |-> c + n]
  BY DEF Demand
<1>2. o \in {0, 1} /\ c \in {0, 1} /\ o + c \in {0, 1}
  OBVIOUS
<1> HIDE DEF o, c
<1>3. /\ Demand(s, n) \in Counts /\ Demand(s, n).cooking = c + n /\ Demand(s, n).off = o
      /\ Demand(s, n).expected = 1 + n
  BY <1>1, <1>2 DEF Counts
<1> QED BY <1>2, <1>3 DEF AddsUp, Serves

\* The job goes on, and Prepaid and the history are as they were.
LEMMA JobKept ==
  ASSUME KitchenInv, UNCHANGED <<vars, off, yield, history>>,
         StartJob \/ (\E s \in Slots : CountGuests(s)) \/ CountMeals \/ KillJob
  PROVE  KitchenTypeOK' /\ JobRight' /\ HistoryRight'
<1>1. /\ PrepaidInv /\ KitchenTypeOK /\ JobRight /\ HistoryRight
      /\ UNCHANGED <<past, orders, tx, off, yield, history, stopped>>
  BY DEF KitchenInv, vars, ledger
<1>2. \A s \in Slots : \A n \in Nat : Reached(s, n)' <=> Reached(s, n)
  BY <1>1 DEF Reached, GuestMeals, MealsBut, IdsOf
<1>3. HistoryRight'
  <2>1. \A s \in Slots : history[s] # None =>
          /\ s \in past /\ AddsUp(history[s])
          /\ \E n \in Nat : Serves(history[s], n) /\ Reached(s, n)'
    BY <1>1, <1>2 DEF HistoryRight
  <2> QED BY <1>1, <2>1 DEF HistoryRight, AddsUp, Serves
<1>4. past \subseteq Slots /\ None \notin Slots
  BY <1>1, KitchenAssumption DEF PrepaidInv, TypeOK
<1>5. job \in Jobs
  BY <1>1 DEF KitchenTypeOK
<1>6. job' \in Jobs /\ JobRight'
  <2>1. CASE StartJob
    <3>1. job' = [due |-> past, slot |-> None, guests |-> 0, counts |-> None]
      BY <2>1 DEF StartJob, AtRest
    <3> QED BY <1>1, <1>4, <3>1 DEF Jobs, JobRight
  <2>2. ASSUME NEW s \in Slots, CountGuests(s) PROVE job' \in Jobs /\ JobRight'
    <3>1. /\ job.slot = None /\ job.counts = None /\ s \in job.due /\ s \in past
          /\ job.due \subseteq past
      BY <1>1, <2>2 DEF CountGuests, JobRight
    <3> DEFINE n == GuestMeals(s)
    <3>2. n \in Nat /\ Reached(s, n)
      BY <1>1, GuestMealsNat DEF Reached
    <3>3. job' = [due |-> job.due \ {s}, slot |-> s, guests |-> n, counts |-> None]
      BY <1>5, <2>2, <3>1 DEF CountGuests, Jobs
    <3> HIDE DEF n
    <3>4. Reached(s, n)'
      BY <1>1, <3>2 DEF Reached, GuestMeals, MealsBut, IdsOf, n
    <3>5. /\ job'.due = job.due \ {s} /\ job'.slot = s /\ job'.guests = n
          /\ job'.counts = None
      BY <3>3
    <3>6. job' \in Jobs
      BY <1>5, <3>2, <3>3 DEF Jobs
    <3>7. Reached(job.slot, job.guests)'
      BY <1>1, <3>2, <3>5 DEF Reached, GuestMeals, MealsBut, IdsOf
    <3> QED BY <1>1, <1>4, <3>1, <3>5, <3>6, <3>7 DEF JobRight
  <2>3. CASE CountMeals
    <3> DEFINE c == Demand(job.slot, job.guests)
    <3>1. /\ job.slot \in Slots /\ job.guests \in Nat /\ job.slot \in past
          /\ Reached(job.slot, job.guests) /\ job.due \subseteq past
      BY <1>1, <1>5, <2>3 DEF CountMeals, JobRight, Jobs
    <3>2. c \in Counts /\ AddsUp(c) /\ Serves(c, job.guests)
      BY <3>1, DemandLemma
    <3>3. job' = [job EXCEPT !.counts = c]
      BY <2>3 DEF CountMeals
    <3> HIDE DEF c
    <3>4. /\ job' \in Jobs /\ job'.due = job.due /\ job'.slot = job.slot
          /\ job'.guests = job.guests /\ job'.counts = c
      BY <1>5, <3>2, <3>3 DEF Jobs, Counts
    <3>5. Reached(job.slot, job.guests)'
      BY <1>1, <3>1, <3>4 DEF Reached, GuestMeals, MealsBut, IdsOf
    <3> QED BY <1>1, <2>3, <3>1, <3>2, <3>4, <3>5 DEF JobRight, CountMeals, AddsUp, Serves
  <2>4. CASE KillJob
    <3>1. job' = [due |-> {}, slot |-> None, guests |-> 0, counts |-> None]
      BY <2>4 DEF KillJob, AtRest
    <3> QED BY <1>1, <1>4, <3>1 DEF Jobs, JobRight
  <2> QED BY <2>1, <2>2, <2>3, <2>4
<1>7. done' \in [edits : 0..MaxEdits, toggles : 0..MaxToggles, runs : 0..MaxRuns]
  <2>1. done \in [edits : 0..MaxEdits, toggles : 0..MaxToggles, runs : 0..MaxRuns]
    BY <1>1 DEF KitchenTypeOK
  <2>2. CASE StartJob
    <3>1. done.runs + 1 \in 0..MaxRuns
      BY <2>1, <2>2, KitchenAssumption DEF StartJob
    <3> QED BY <2>1, <2>2, <3>1 DEF StartJob
  <2> QED BY <2>1, <2>2 DEF CountGuests, CountMeals, KillJob
<1> QED BY <1>1, <1>3, <1>6, <1>7 DEF KitchenTypeOK

\* Saving a snapshot keeps the history right: the counts of the job are those of the rows now.
LEMMA SaveKept ==
  ASSUME KitchenInv, SaveSnapshot
  PROVE  KitchenTypeOK' /\ JobRight' /\ HistoryRight'
<1>1. /\ PrepaidInv /\ KitchenTypeOK /\ JobRight /\ HistoryRight
      /\ UNCHANGED <<past, orders, tx, off, yield, done>>
  BY DEF KitchenInv, SaveSnapshot, vars, ledger
<1> DEFINE s == job.slot
           c == job.counts
           h == [expected |-> c.expected, off |-> c.off, cooking |-> c.cooking,
                 kg |-> yield * c.cooking]
<1>2. /\ job \in Jobs /\ c # None /\ s # None /\ s \in Slots /\ s \in past
      /\ job.guests \in Nat /\ c \in Counts /\ AddsUp(c) /\ Serves(c, job.guests)
      /\ Reached(s, job.guests) /\ job.due \subseteq past
  BY <1>1 DEF SaveSnapshot, KitchenTypeOK, JobRight, Jobs, Counts
<1>3. history' = [history EXCEPT ![s] = h]
  BY DEF SaveSnapshot
<1>4. job' = [due |-> job.due, slot |-> None, guests |-> 0, counts |-> None]
  BY DEF SaveSnapshot, NextSlot, AtRest
<1>5. h \in Snapshot /\ AddsUp(h) /\ Serves(h, job.guests)
  <2> DEFINE kg == yield * c.cooking
  <2>1. yield \in Nat /\ c.cooking \in Nat
    BY <1>1, <1>2, KitchenAssumption DEF KitchenTypeOK, Counts
  <2>2. kg \in Nat
    BY <2>1, Distribute
  <2>3. h = [expected |-> c.expected, off |-> c.off, cooking |-> c.cooking, kg |-> kg]
    OBVIOUS
  <2> HIDE DEF kg, c, h
  <2> QED BY <1>2, <2>2, <2>3 DEF Snapshot, Counts, AddsUp, Serves
<1>6. \E n \in Nat : Serves(h, n) /\ Reached(s, n)
  BY <1>2, <1>5
<1>7. \A r \in Slots : \A n \in Nat : Reached(r, n)' <=> Reached(r, n)
  BY <1>1 DEF Reached, GuestMeals, MealsBut, IdsOf
<1> HIDE DEF h, c, s
<1>8. /\ history' \in [Slots -> Snapshot \cup {None}] /\ history'[s] = h
      /\ \A r \in Slots : r # s => history'[r] = history[r]
  BY <1>1, <1>2, <1>3, <1>5 DEF KitchenTypeOK
<1>9. ASSUME NEW r \in Slots, history'[r] # None
      PROVE  /\ r \in past' /\ AddsUp(history'[r])
             /\ \E n \in Nat : Serves(history'[r], n) /\ Reached(r, n)'
  <2>1. CASE r = s
    BY <1>1, <1>2, <1>5, <1>6, <1>7, <1>8, <2>1
  <2>2. CASE r # s
    BY <1>1, <1>7, <1>8, <1>9, <2>2 DEF HistoryRight
  <2> QED BY <2>1, <2>2
<1>10. HistoryRight'
  BY <1>9 DEF HistoryRight, AddsUp, Serves
<1>11. job' \in Jobs /\ JobRight'
  BY <1>1, <1>2, <1>4 DEF Jobs, JobRight
<1>12. KitchenTypeOK'
  BY <1>1, <1>8, <1>11 DEF KitchenTypeOK
<1> QED BY <1>10, <1>11, <1>12

\* The customer and the catalog.
LEMMA EditsKept ==
  ASSUME KitchenInv,
         \/ \E s \in Slots : CustomerMealOff(s) \/ CustomerMealOn(s)
         \/ \E y \in Yields : EditCatalog(y)
  PROVE  KitchenTypeOK' /\ UNCHANGED <<vars, history, job>>
<1>1. /\ KitchenTypeOK
      /\ done \in [edits : 0..MaxEdits, toggles : 0..MaxToggles, runs : 0..MaxRuns]
  BY DEF KitchenInv, KitchenTypeOK
<1>2. ASSUME NEW s \in Slots, CustomerMealOff(s) \/ CustomerMealOn(s)
      PROVE  KitchenTypeOK' /\ UNCHANGED <<vars, history, job>>
  <2>1. /\ done' = [done EXCEPT !.toggles = @ + 1] /\ done.toggles < MaxToggles
        /\ UNCHANGED <<vars, yield, history, job>> /\ off' \in SUBSET Slots
    BY <1>1, <1>2 DEF CustomerMealOff, CustomerMealOn, Toggle, KitchenTypeOK
  <2>2. done.toggles + 1 \in 0..MaxToggles
    BY <1>1, <2>1, KitchenAssumption
  <2>3. done' \in [edits : 0..MaxEdits, toggles : 0..MaxToggles, runs : 0..MaxRuns]
    BY <1>1, <2>1, <2>2
  <2> QED BY <1>1, <2>1, <2>3 DEF KitchenTypeOK
<1>3. ASSUME NEW y \in Yields, EditCatalog(y)
      PROVE  KitchenTypeOK' /\ UNCHANGED <<vars, history, job>>
  <2>1. done.edits + 1 \in 0..MaxEdits
    BY <1>1, <1>3, KitchenAssumption DEF EditCatalog
  <2>2. done' \in [edits : 0..MaxEdits, toggles : 0..MaxToggles, runs : 0..MaxRuns]
    BY <1>1, <1>3, <2>1 DEF EditCatalog
  <2> QED BY <1>1, <1>3, <2>2 DEF EditCatalog, KitchenTypeOK
<1> QED BY <1>2, <1>3

\* Every step of purchases and kitchen keeps the invariant.
LEMMA KitchenInvKept ==
  ASSUME KitchenInv, [KitchenNext]_allVars
  PROVE  KitchenInv'
<1>1. [Next]_vars
  BY PrepaidStep
<1>2. PrepaidInv'
  BY <1>1, InvKept DEF KitchenInv
<1>3. ASSUME UNCHANGED kitchen PROVE KitchenTypeOK' /\ JobRight' /\ HistoryRight'
  BY <1>1, <1>3, QuietKitchen DEF kitchen, KitchenInv, KitchenTypeOK
<1>4. ASSUME \/ \E s \in Slots : CustomerMealOff(s) \/ CustomerMealOn(s)
             \/ \E y \in Yields : EditCatalog(y)
      PROVE  KitchenTypeOK' /\ JobRight' /\ HistoryRight'
  BY <1>1, <1>4, EditsKept, QuietKitchen
<1>5. ASSUME StartJob \/ (\E s \in Slots : CountGuests(s)) \/ CountMeals \/ KillJob
      PROVE  KitchenTypeOK' /\ JobRight' /\ HistoryRight'
  <2>1. UNCHANGED <<vars, off, yield, history>>
    BY <1>5 DEF StartJob, CountGuests, CountMeals, KillJob
  <2> QED BY <1>5, <2>1, JobKept
<1>6. KitchenTypeOK' /\ JobRight' /\ HistoryRight'
  BY <1>3, <1>4, <1>5, SaveKept DEF KitchenNext, allVars
<1> QED BY <1>2, <1>6 DEF KitchenInv

\* The invariant holds before anything is ordered or captured.
LEMMA KitchenInitInv ==
  ASSUME KitchenInit
  PROVE  KitchenInv
<1>1. PrepaidInv
  BY InitInv DEF KitchenInit
<1>2. KitchenTypeOK
  BY KitchenAssumption DEF KitchenInit, KitchenTypeOK, Jobs, AtRest
<1>3. JobRight /\ HistoryRight
  BY DEF KitchenInit, JobRight, HistoryRight, AtRest
<1> QED BY <1>1, <1>2, <1>3 DEF KitchenInv

-----------------------------------------------------------------------------
\* The theorems

\* The inductive invariant of the kitchen's job beside the purchases it counts.
THEOREM KitchenInvTheorem == KitchenSpec => []KitchenInv
<1>1. KitchenInit => KitchenInv
  BY KitchenInitInv
<1>2. KitchenInv /\ [KitchenNext]_allVars => KitchenInv'
  BY KitchenInvKept
<1> QED BY <1>1, <1>2, PTL DEF KitchenSpec

\* The kitchen's variables stay in their domains.
THEOREM KitchenTypeCorrect == KitchenSpec => []KitchenTypeOK
<1>1. KitchenInv => KitchenTypeOK
  BY DEF KitchenInv
<1> QED BY <1>1, KitchenInvTheorem, PTL

\* What is expected is cooked, turned off or one stopped customer's, though the counts
\* are taken at different moments.
THEOREM SnapshotsTheorem == KitchenSpec => []SnapshotsAddUp
<1>1. KitchenInv => SnapshotsAddUp
  BY DEF KitchenInv, HistoryRight, AddsUp, SnapshotsAddUp
<1> QED BY <1>1, KitchenInvTheorem, PTL

\* A stored demand is made of all the guest orders of its slot but for one at most.
THEOREM PurchasesReachKitchenTheorem == KitchenSpec => []PurchasesReachKitchen
<1>1. ASSUME KitchenInv PROVE PurchasesReachKitchen
  <2> SUFFICES ASSUME NEW s \in Slots, history[s] # None
               PROVE  \E i \in {0} \cup IdsOf(orders) :
                        /\ history[s].expected = 1 + MealsBut(s, i)
                        /\ history[s].cooking \in {MealsBut(s, i), 1 + MealsBut(s, i)}
    BY DEF PurchasesReachKitchen, IdsOf
  <2>1. PICK n \in Nat : Serves(history[s], n) /\ Reached(s, n)
    BY <1>1 DEF KitchenInv, HistoryRight
  <2>2. MealsBut(s, 0) = GuestMeals(s)
    <3>1. 0 \notin IdsOf(orders)
      BY <1>1 DEF KitchenInv, PrepaidInv, Numbered
    <3>2. {o \in orders : o.slot = s /\ o.id # 0} = {o \in orders : o.slot = s}
      BY <3>1 DEF IdsOf
    <3> QED BY <3>2 DEF MealsBut, GuestMeals
  <2>3. \E i \in {0} \cup IdsOf(orders) : MealsBut(s, i) = n
    BY <2>1, <2>2 DEF Reached
  <2> QED BY <2>1, <2>3 DEF Serves
<1>2. KitchenInv => PurchasesReachKitchen
  BY <1>1
<1> QED BY <1>2, KitchenInvTheorem, PTL
=============================================================================
