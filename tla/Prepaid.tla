-------------------------------- MODULE Prepaid --------------------------------
(***************************************************************************)
(* What is bought from a customer's wallet besides the daily meal: guest   *)
(* meals (orders/services/guest_meal.py), paid when they are ordered, and  *)
(* the monthly delivery fee (wallet/services/delivery_fee.py), deducted by *)
(* an admin.  One customer with one wallet; workers serve the requests of  *)
(* the customer and of admins, and mark the customer's stops delivered.    *)
(*                                                                         *)
(* A purchase looks for an order with its idempotency key first and locks  *)
(* the wallet afterwards.  Quota, cutoff and floor are checked under that  *)
(* lock; the stop's row is locked last, by the foreign key of the order    *)
(* that is inserted.  Marking a stop takes the two locks the other way     *)
(* round.                                                                  *)
(***************************************************************************)
EXTENDS WalletLedger, FiniteSets

CONSTANTS
  Workers,
  Slots,          (* The stops guest meals are ordered for.                *)
  Keys,           (* Idempotency keys the clients send.                    *)
  NoKey,
  Quantities,
  UnitPrice,      (* A guest meal with its box.                            *)
  MealPrice,      (* The published price of a slot.                        *)
  FeeAmounts,     (* What an admin may enter as the fee.                   *)
  Limit,          (* OrderWalletSettings.guest_meal_monthly_limit.         *)
  Floor,          (* OrderWalletSettings.meal_stop_threshold.              *)
  Openings,       (* The wallets a behaviour may begin with.               *)
  Months,         (* Bound: the months of the calendar.                     *)
  MaxRequests     (* Bound: the requests of customer and admins.           *)

ASSUME PrepaidAssumption ==
  /\ NoKey \notin Keys
  /\ Quantities \subseteq Nat \ {0} /\ FeeAmounts \subseteq Nat \ {0}
  /\ UnitPrice \in Nat \ {0} /\ MealPrice \in Nat \ {0}
  /\ Limit \in Nat /\ Floor \in Nat /\ MaxRequests \in Nat
  /\ Openings \subseteq Wallets
  /\ Months \subseteq Nat

VARIABLES
  wallet,
  opening,        (* What the wallet held at the beginning.                *)
  orders,         (* The rows of GuestMealOrder.                           *)
  fees,           (* The rows of DeliveryFeePayment; all of them are paid. *)
  delivered,      (* The stops marked delivered, and charged for.          *)
  stopped,        (* CustomerProfile.meal_service_blocked_low_balance.     *)
  past,           (* The slots whose meal-off cutoff has passed.           *)
  month,          (* The month of the business calendar.                   *)
  tx,             (* The transaction of every worker.                      *)
  requests

ledger == <<wallet, orders, fees, delivered, stopped>>
vars == <<ledger, opening, past, month, tx, requests>>

SomeKey == Keys \cup {NoKey}
Order == [id : Nat, key : SomeKey, slot : Slots, quantity : Quantities,
          month : Months, status : {"scheduled", "delivered"}]
Fee == [key : SomeKey, month : Months, amount : FeeAmounts]

Transactions ==
  [pc : {"idle"}] \cup
  [pc : {"asked", "quoted"}, slot : Slots, quantity : Quantities, key : SomeKey] \cup
  [pc : {"billed"}, month : Months, amount : FeeAmounts, key : SomeKey] \cup
  [pc : {"marking"}, slot : Slots]

Idle == [pc |-> "idle"]

TypeOK ==
  /\ wallet \in Wallets
  /\ opening \in Wallets
  /\ orders \in SUBSET Order
  /\ fees \in SUBSET Fee
  /\ delivered \in SUBSET Slots
  /\ stopped \in BOOLEAN
  /\ past \in SUBSET Slots
  /\ month \in Months
  /\ tx \in [Workers -> Transactions]
  /\ requests \in 0..MaxRequests

Init ==
  /\ wallet \in Openings
  /\ opening = wallet
  /\ orders = {} /\ fees = {}
  /\ delivered = {} /\ past = {}
  /\ stopped = (Balance(wallet) < Floor)
  /\ month \in Months
  /\ tx = [w \in Workers |-> Idle]
  /\ requests = 0

\* A purchase holds the wallet from its quote to its end, a fee from its checks.
WalletFree == \A w \in Workers : tx[w].pc \notin {"quoted", "billed"}

SlotFree(s) == \A w \in Workers : tx[w].pc = "marking" => tx[w].slot # s

Continue(w, t) == tx' = [tx EXCEPT ![w] = t]

Requested(w) ==
  /\ tx[w] = Idle /\ requests < MaxRequests
  /\ requests' = requests + 1

KeyOf(rows, k) == k # NoKey /\ \E r \in rows : r.key = k

\* The unique index over the keys of a wallet's transactions, whatever their type.
KeyTaken(k) == KeyOf(orders, k) \/ KeyOf(fees, k)

\* A debit of a payment or of a fee takes the commission first.
Debited(amount) == ApplyDebit(wallet, amount, DefaultDebitStrategy("payment"))

\* debit_wallet, and evaluate_meal_stop_after_debit, which follows every purchase.
Pay(amount) ==
  /\ wallet' = Debited(amount)
  /\ stopped' = (stopped \/ Balance(wallet') < Floor)

-----------------------------------------------------------------------------
(***************************************************************************)
(* create_guest_meal_order.                                                *)
(***************************************************************************)

\* The meals of some orders, one by one.
MealsOf(rows) == UNION {{o.id} \X (1..o.quantity) : o \in rows}

Used(m) == Cardinality(MealsOf({o \in orders : o.month = m}))

\* A request whose key has an order already is answered with that order.
Ask(w, s, q, k) ==
  /\ Requested(w)
  /\ ~KeyOf(orders, k)
  /\ Continue(w, [pc |-> "asked", slot |-> s, quantity |-> q, key |-> k])
  /\ UNCHANGED <<ledger, opening, past, month>>

Total(t) == UnitPrice * t.quantity

\* build_guest_meal_quote, and the floor read again from the locked wallet.
Quotable(t) ==
  /\ t.slot \notin past
  /\ Used(month) + t.quantity <= Limit
  /\ wallet.recharge - Total(t) >= Floor

\* Mutant: the checks are made before the wallet is locked.
QuoteUnlocked(w) ==
  /\ tx[w].pc = "asked"
  /\ IF Quotable(tx[w]) THEN Continue(w, [tx[w] EXCEPT !.pc = "quoted"])
                        ELSE Continue(w, Idle)
  /\ UNCHANGED <<ledger, opening, past, month, requests>>

Quote(w) ==
  /\ tx[w].pc = "asked" /\ WalletFree
  /\ IF Quotable(tx[w]) THEN Continue(w, [tx[w] EXCEPT !.pc = "quoted"])
                        ELSE Continue(w, Idle)
  /\ UNCHANGED <<ledger, opening, past, month, requests>>

Ordered(t) ==
  [id |-> Cardinality({o.id : o \in orders}) + 1, key |-> t.key, slot |-> t.slot,
   quantity |-> t.quantity, month |-> month, status |-> "scheduled"]

\* Mutant: the key of an order that came first is used again.
BuyAgain(w) ==
  /\ tx[w].pc = "quoted" /\ SlotFree(tx[w].slot)
  /\ Pay(Total(tx[w]))
  /\ orders' = orders \cup {Ordered(tx[w])}
  /\ Continue(w, Idle)
  /\ UNCHANGED <<fees, delivered, opening, past, month, requests>>

\* The debit and the order.  With the key of another transaction the debit is
\* undone, and the request answered with the order that was first, if it was one.
Buy(w) ==
  /\ tx[w].pc = "quoted" /\ SlotFree(tx[w].slot)
  /\ IF KeyTaken(tx[w].key)
     THEN UNCHANGED <<wallet, stopped, orders>>
     ELSE /\ Pay(Total(tx[w]))
          /\ orders' = orders \cup {Ordered(tx[w])}
  /\ Continue(w, Idle)
  /\ UNCHANGED <<fees, delivered, opening, past, month, requests>>

-----------------------------------------------------------------------------
(***************************************************************************)
(* charge_delivery_fee.                                                    *)
(***************************************************************************)

Paid(m) == \E f \in fees : f.month = m

\* A key that has a payment is answered with it, or is a conflict.
CheckFee(w, m, amount, k) ==
  /\ Requested(w)
  /\ WalletFree
  /\ ~KeyOf(fees, k) /\ ~Paid(m)
  /\ Continue(w, [pc |-> "billed", month |-> m, amount |-> amount, key |-> k])
  /\ UNCHANGED <<ledger, opening, past, month>>

\* Mutant: the balance is not asked for.
PayFeeUnfunded(w) ==
  /\ tx[w].pc = "billed"
  /\ LET t == tx[w] IN
     IF KeyTaken(t.key) \/ Paid(t.month)
     THEN UNCHANGED <<wallet, stopped, fees>>
     ELSE /\ Pay(t.amount)
          /\ fees' = fees \cup {[key |-> t.key, month |-> t.month, amount |-> t.amount]}
  /\ Continue(w, Idle)
  /\ UNCHANGED <<orders, delivered, opening, past, month, requests>>

\* Mutant: the debit is kept when the key, or the month, turns out to be taken.
PayFeeAnyway(w) ==
  /\ tx[w].pc = "billed"
  /\ LET t == tx[w] IN
     IF t.amount > Balance(wallet)
     THEN UNCHANGED <<wallet, stopped, fees>>
     ELSE /\ Pay(t.amount)
          /\ fees' = IF KeyTaken(t.key) \/ Paid(t.month) THEN fees
                     ELSE fees \cup {[key |-> t.key, month |-> t.month, amount |-> t.amount]}
  /\ Continue(w, Idle)
  /\ UNCHANGED <<orders, delivered, opening, past, month, requests>>

\* A key of a guest order, and a month that is paid already, are found by the
\* unique indexes: the debit is undone with the transaction.
PayFee(w) ==
  /\ tx[w].pc = "billed"
  /\ LET t == tx[w] IN
     IF t.amount > Balance(wallet) \/ KeyTaken(t.key) \/ Paid(t.month)
     THEN UNCHANGED <<wallet, stopped, fees>>
     ELSE /\ Pay(t.amount)
          /\ fees' = fees \cup {[key |-> t.key, month |-> t.month, amount |-> t.amount]}
  /\ Continue(w, Idle)
  /\ UNCHANGED <<orders, delivered, opening, past, month, requests>>

-----------------------------------------------------------------------------
(***************************************************************************)
(* mark_delivery of a stop with guest orders.                              *)
(***************************************************************************)

MarkStop(w, s) ==
  /\ tx[w] = Idle /\ SlotFree(s) /\ s \notin delivered
  /\ Continue(w, [pc |-> "marking", slot |-> s])
  /\ UNCHANGED <<ledger, opening, past, month, requests>>

\* charge_delivered_meal locks the wallet and charges the customer's own meal;
\* sync_guest_meals_for_delivered_delivery follows the stop.
DeliverStop(w) ==
  /\ tx[w].pc = "marking" /\ WalletFree
  /\ IF MealPrice > Balance(wallet)
     THEN UNCHANGED <<wallet, stopped, orders, delivered>>
     ELSE /\ Pay(MealPrice)
          /\ delivered' = delivered \cup {tx[w].slot}
          /\ orders' = {IF o.slot = tx[w].slot THEN [o EXCEPT !.status = "delivered"] ELSE o :
                          o \in orders}
  /\ Continue(w, Idle)
  /\ UNCHANGED <<fees, opening, past, month, requests>>

-----------------------------------------------------------------------------
\* The wallet turns out to be frozen, the process is killed, or PostgreSQL
\* breaks the circle of a purchase and a mark that wait for each other.
RollBack(w) ==
  /\ tx[w] # Idle
  /\ Continue(w, Idle)
  /\ UNCHANGED <<ledger, opening, past, month, requests>>

PassCutoff(s) ==
  /\ s \notin past
  /\ past' = past \cup {s}
  /\ UNCHANGED <<ledger, opening, month, tx, requests>>

NextMonth ==
  /\ month + 1 \in Months
  /\ month' = month + 1
  /\ UNCHANGED <<ledger, opening, past, tx, requests>>

Serve ==
  \/ \E w \in Workers, s \in Slots, q \in Quantities, k \in SomeKey : Ask(w, s, q, k)
  \/ \E w \in Workers, m \in Months, a \in FeeAmounts, k \in SomeKey : CheckFee(w, m, a, k)
  \/ \E w \in Workers : Quote(w) \/ Buy(w) \/ PayFee(w) \/ DeliverStop(w) \/ RollBack(w)
  \/ \E s \in Slots : PassCutoff(s)
  \/ NextMonth

Next == Serve \/ \E w \in Workers, s \in Slots : MarkStop(w, s)

Spec == Init /\ [][Next]_vars

-----------------------------------------------------------------------------
\* What was paid as fees, piece by piece.
FeesPaid == UNION {{f} \X (1..f.amount) : f \in fees}

Spent ==
  UnitPrice * Cardinality(MealsOf(orders)) + Cardinality(FeesPaid)
    + MealPrice * Cardinality(delivered)

\* Every paisa that left the wallet is a guest order, a paid fee or a delivered
\* meal that is on record, and each of these was paid for once: whatever was
\* repeated, refused by an index or rolled back half way took nothing.
PurchasesExplainWallet == Balance(wallet) + Spent = Balance(opening)

\* However purchases overlap, and though the first of a month has no rows to
\* lock, the meals ordered in a month stay within its quota.  A purchase that was
\* checked before midnight and inserted after counts for the new month.
QuotaHolds == \A m \in Months : Used(m) <= Limit

\* An idempotency key pays once: for one guest order or one fee, though guest
\* orders are looked up before the wallet is locked and fees by their own type.
KeysPayOnce ==
  \A k \in Keys :
    Cardinality({o \in orders : o.key = k}) + Cardinality({f \in fees : f.key = k}) <= 1

\* A guest purchase leaves the meal-stop threshold of recharged money in the
\* wallet when it commits: no fee or meal charged between its check and its debit
\* makes it the purchase that stops the customer's meals.
PurchasesKeepFloor ==
  [][\A w \in Workers : Buy(w) /\ orders' # orders => wallet'.recharge >= Floor]_vars
=============================================================================
