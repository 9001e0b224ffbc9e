------------------------------- MODULE Inventory -------------------------------
(***************************************************************************)
(* The kitchen's stock (inventory/services).  Purchases are drafted,       *)
(* confirmed and cancelled; to confirm one takes its money from the        *)
(* platform wallet and puts its lines on stock, to cancel it does the      *)
(* reverse.  The kitchen uses, wastes and adjusts stock.  Of an item the   *)
(* quantity on hand is kept, in the item's unit, and its weighted average  *)
(* cost.                                                                   *)
(*                                                                         *)
(* Confirming locks the purchase, the platform wallet and the items in the *)
(* order of the lines; cancelling locks the purchase, the items and then   *)
(* the wallet.  Nothing a transaction does can be seen before its last     *)
(* step, so the model does it there: with all the locks held, what was     *)
(* checked on the way still holds.                                         *)
(*                                                                         *)
(* Quantities are counted in thousandths of a unit, costs of a unit in     *)
(* ten-thousandths of the currency, as the columns have them.              *)
(***************************************************************************)
EXTENDS Integers, Sequences, FiniteSetsExt, Sums

CONSTANTS
  Items,
  Purchases,
  Order,          (* The lines of every purchase as they are entered:      *)
                  (* item, quantity, unit and total.                       *)
  Workers,
  NoPurchase,
  NoItem,
  Entries,        (* What staff may enter as usage, wastage or adjustment: *)
                  (* signed quantities with a unit.                        *)
  Float,          (* The platform wallet at the beginning.                 *)
  MaxEntries      (* Bound: entries and changes of a unit.                 *)

Units == {"kg", "g"}
Movements == {"purchase", "entry"}
Unknown == -1     (* An average cost that is not known.                    *)

OrderLines == [item : Items, quantity : Nat \ {0}, unit : Units, total : Nat \ {0}]

ASSUME InventoryAssumption ==
  /\ Order \in [Purchases -> Seq(OrderLines)]
  /\ \A p \in Purchases : Order[p] # <<>>
  /\ IsFiniteSet(Purchases) /\ NoPurchase \notin Purchases /\ NoItem \notin Items
  /\ "wallet" \notin Purchases \cup Items /\ Items \cap Purchases = {}
  /\ \A e \in Entries : e.quantity \in Int \ {0} /\ e.unit \in Units
  /\ Float \in Nat /\ MaxEntries \in Nat

VARIABLES
  item,           (* Of an item: its unit, the quantity on hand, the       *)
                  (* average cost, and which movements it has had: those   *)
                  (* of purchases, those of entries.                       *)
  purchase,       (* The status and the lines of every purchase.           *)
  admin,          (* The balance of the platform wallet.                   *)
  used,           (* What the entries of every item sum up to.             *)
  weighed,        (* The same in grams, as it was entered.                 *)
  tx,             (* The transaction of every worker.                      *)
  entries

stock == <<item, purchase, admin, used, weighed>>
vars == <<stock, tx, entries>>

Statuses == {"none", "draft", "confirmed", "cancelled"}

\* ROUND_HALF_UP of a quotient that is not negative.
Rounded(n, d) == (2 * n + d) \div (2 * d)

UnitCost(total, base) == Rounded(1000 * total, base)

(* A line in its item's unit, at the cost of a unit that its total gives. *)
Lines ==
  {l \in [item : Items, base : Nat \ {0}, cost : Nat, total : Nat \ {0}] :
     l.cost = UnitCost(l.total, l.base)}

Locks == Purchases \cup Items \cup {"wallet"}
Transactions ==
  [kind : {"create", "confirm", "cancel", "unit"}, pc : {"idle", "item", "wallet", "save"},
   purchase : Purchases \cup {NoPurchase}, lines : Seq(Lines), next : Nat \ {0},
   item : Items \cup {NoItem}, locks : SUBSET Locks]

Idle == [kind |-> "create", pc |-> "idle", purchase |-> NoPurchase, lines |-> <<>>,
         next |-> 1, item |-> NoItem, locks |-> {}]

TypeOK ==
  /\ item \in [Items -> [unit : Units, hand : Nat, cost : Nat \cup {Unknown},
                         moved : SUBSET Movements]]
  /\ purchase \in [Purchases -> [status : Statuses, lines : Seq(Lines)]]
  /\ admin \in Nat
  /\ used \in [Items -> Int] /\ weighed \in [Items -> Int]
  /\ tx \in [Workers -> Transactions]
  /\ entries \in 0..MaxEntries

Init ==
  /\ item = [i \in Items |-> [unit |-> "kg", hand |-> 0, cost |-> Unknown, moved |-> {}]]
  /\ purchase = [p \in Purchases |-> [status |-> "none", lines |-> <<>>]]
  /\ admin = Float
  /\ used = [i \in Items |-> 0] /\ weighed = [i \in Items |-> 0]
  /\ tx = [w \in Workers |-> Idle]
  /\ entries = 0

Free(w, lock) == \A v \in Workers \ {w} : lock \notin tx[v].locks

Continue(w, t) == tx' = [tx EXCEPT ![w] = t]

-----------------------------------------------------------------------------
(***************************************************************************)
(* Quantities and costs (units.py, ledger.py).                             *)
(***************************************************************************)

InGrams(quantity, unit) == IF unit = "kg" THEN 1000 * quantity ELSE quantity

ToBase(quantity, from, unit) ==
  CASE from = unit -> quantity
    [] from = "kg" /\ unit = "g" -> 1000 * quantity
    [] from = "g" /\ unit = "kg" -> Rounded(quantity, 1000)

SignedToBase(quantity, from, unit) ==
  IF quantity < 0 THEN -ToBase(-quantity, from, unit) ELSE ToBase(quantity, from, unit)

ComputeWac(i, l) ==
  IF i.hand <= 0 \/ i.cost = Unknown THEN l.cost
  ELSE Rounded(i.hand * i.cost + l.base * l.cost, i.hand + l.base)

\* Mutant: the average is left as it is.
KeptWac(i, l) == i.cost

\* "Approximate WAC after reversing a purchase receipt".
ReverseWac(i, l) ==
  IF i.hand <= l.base \/ i.cost = Unknown \/ i.hand * i.cost < l.base * l.cost
  THEN Unknown
  ELSE Rounded(i.hand * i.cost - l.base * l.cost, i.hand - l.base)

Received(items, l) ==
  LET old == items[l.item]
  IN  [items EXCEPT ![l.item] = [old EXCEPT !.hand = @ + l.base, !.moved = @ \cup {"purchase"},
                                            !.cost = ComputeWac(old, l)]]

Returned(items, l) ==
  LET old == items[l.item]
  IN  [items EXCEPT ![l.item] = [old EXCEPT !.hand = @ - l.base, !.moved = @ \cup {"purchase"},
                                            !.cost = ReverseWac(old, l)]]

\* The items after the movements of a purchase, line by line.
AfterLines(kind, lines) ==
  LET after[n \in 0..Len(lines)] ==
        IF n = 0 THEN item
        ELSE IF kind = "cancel" THEN Returned(after[n - 1], lines[n])
        ELSE Received(after[n - 1], lines[n])
  IN  after[Len(lines)]

Total(lines) == SumOver([n \in DOMAIN lines |-> lines[n].total], DOMAIN lines)

-----------------------------------------------------------------------------
(***************************************************************************)
(* Purchases (purchasing.py).                                              *)
(***************************************************************************)

\* Lines are converted to the units the items have now.
Entered(p) ==
  [n \in DOMAIN Order[p] |->
     LET o == Order[p][n]
         base == ToBase(o.quantity, o.unit, item[o.item].unit)
     IN  [item |-> o.item, base |-> base, cost |-> UnitCost(o.total, base),
          total |-> o.total]]

\* A line that comes to nothing in the item's unit is refused.
Enterable(p) ==
  \A n \in DOMAIN Order[p] :
    ToBase(Order[p][n].quantity, Order[p][n].unit, item[Order[p][n].item].unit) > 0

Draft(p) ==
  /\ purchase[p].status = "none" /\ Enterable(p)
  /\ \A w \in Workers : tx[w].purchase # p
  /\ purchase' = [purchase EXCEPT ![p] = [status |-> "draft", lines |-> Entered(p)]]
  /\ UNCHANGED <<item, admin, used, weighed, tx, entries>>

\* create_purchase with confirm: the draft is never seen by others.
CreateConfirmed(w, p) ==
  /\ tx[w].pc = "idle" /\ purchase[p].status = "none" /\ Enterable(p)
  /\ \A v \in Workers : tx[v].purchase # p
  /\ Continue(w, [Idle EXCEPT !.kind = "create", !.pc = "wallet", !.purchase = p,
                              !.lines = Entered(p), !.locks = {p}])
  /\ UNCHANGED <<stock, entries>>

\* Mutant: the purchase is not locked while its status is looked at.
ConfirmUnlocked(w, p) ==
  /\ tx[w].pc = "idle"
  /\ purchase[p].status = "draft"
  /\ Continue(w, [Idle EXCEPT !.kind = "confirm", !.pc = "wallet", !.purchase = p,
                              !.lines = purchase[p].lines])
  /\ UNCHANGED <<stock, entries>>

Confirm(w, p) ==
  /\ tx[w].pc = "idle" /\ Free(w, p)
  /\ purchase[p].status = "draft"
  /\ Continue(w, [Idle EXCEPT !.kind = "confirm", !.pc = "wallet", !.purchase = p,
                              !.lines = purchase[p].lines, !.locks = {p}])
  /\ UNCHANGED <<stock, entries>>

CancelDraft(p) ==
  /\ purchase[p].status = "draft" /\ \A w \in Workers : p \notin tx[w].locks
  /\ purchase' = [purchase EXCEPT ![p].status = "cancelled"]
  /\ UNCHANGED <<item, admin, used, weighed, tx, entries>>

\* Mutant: what is cancelled can be cancelled once more.
CancelAgain(w, p) ==
  /\ tx[w].pc = "idle" /\ Free(w, p)
  /\ purchase[p].status \in {"confirmed", "cancelled"}
  /\ purchase[p].lines # <<>> /\ item[purchase[p].lines[1].item].moved # {}
  /\ Continue(w, [Idle EXCEPT !.kind = "cancel", !.pc = "item", !.purchase = p,
                              !.lines = purchase[p].lines, !.locks = {p}])
  /\ UNCHANGED <<stock, entries>>

Cancel(w, p) ==
  /\ tx[w].pc = "idle" /\ Free(w, p)
  /\ purchase[p].status = "confirmed"
  /\ Continue(w, [Idle EXCEPT !.kind = "cancel", !.pc = "item", !.purchase = p,
                              !.lines = purchase[p].lines, !.locks = {p}])
  /\ UNCHANGED <<stock, entries>>

\* The money is taken before the first item is locked.
TakeMoney(w) ==
  /\ tx[w].kind \in {"create", "confirm"} /\ tx[w].pc = "wallet" /\ Free(w, "wallet")
  /\ IF admin >= Total(tx[w].lines)
     THEN Continue(w, [tx[w] EXCEPT !.pc = "item", !.locks = @ \cup {"wallet"}])
     ELSE Continue(w, Idle)
  /\ UNCHANGED <<stock, entries>>

Line(w) == tx[w].lines[tx[w].next]

\* Cancelling asks of every line whether its item has as much, line by line.
Lacking(w) == tx[w].kind = "cancel" /\ item[Line(w).item].hand < Line(w).base

TakeItem(w) ==
  /\ tx[w].pc = "item" /\ tx[w].next <= Len(tx[w].lines) /\ Free(w, Line(w).item)
  /\ IF Lacking(w) THEN Continue(w, Idle)
     ELSE Continue(w, [tx[w] EXCEPT !.next = @ + 1, !.locks = @ \cup {Line(w).item},
            !.pc = IF tx[w].kind = "cancel" /\ tx[w].next = Len(tx[w].lines)
                   THEN "wallet" ELSE "item"])
  /\ UNCHANGED <<stock, entries>>

FinishConfirm(w) ==
  LET p == tx[w].purchase
  IN  /\ tx[w].kind \in {"create", "confirm"} /\ tx[w].pc = "item"
      /\ tx[w].next > Len(tx[w].lines)
      /\ item' = AfterLines(tx[w].kind, tx[w].lines)
      /\ admin' = admin - Total(tx[w].lines)
      /\ purchase' = [purchase EXCEPT ![p] = [status |-> "confirmed", lines |-> tx[w].lines]]
      /\ Continue(w, Idle)
      /\ UNCHANGED <<used, weighed, entries>>

\* Mutant: the lines are taken from stock whatever is left of it.
FinishCancelBelowZero(w) ==
  LET p == tx[w].purchase
  IN  /\ tx[w].kind = "cancel" /\ tx[w].pc = "wallet" /\ Free(w, "wallet")
      /\ item' = AfterLines("cancel", tx[w].lines)
      /\ admin' = admin + Total(tx[w].lines)
      /\ purchase' = [purchase EXCEPT ![p].status = "cancelled"]
      /\ Continue(w, Idle)
      /\ UNCHANGED <<used, weighed, entries>>

\* Two lines of one item may each find enough, and not both; the second one's
\* movement then takes everything back.
FinishCancel(w) ==
  LET p == tx[w].purchase
      left == AfterLines("cancel", tx[w].lines)
  IN  /\ tx[w].kind = "cancel" /\ tx[w].pc = "wallet" /\ Free(w, "wallet")
      /\ IF \A i \in Items : left[i].hand >= 0
         THEN /\ item' = left
              /\ admin' = admin + Total(tx[w].lines)
              /\ purchase' = [purchase EXCEPT ![p].status = "cancelled"]
         ELSE UNCHANGED <<item, admin, purchase>>
      /\ Continue(w, Idle)
      /\ UNCHANGED <<used, weighed, entries>>

-----------------------------------------------------------------------------
(***************************************************************************)
(* Usage, wastage and adjustments (operations.py): one lock, one movement. *)
(***************************************************************************)

\* The entry is converted before the item is locked, to the unit the item has or to
\* the one it had.
Record(i, e) ==
  \E unit \in {item[i].unit, "kg"} :
    LET delta == SignedToBase(e.quantity, e.unit, unit)
    IN  /\ entries < MaxEntries
        /\ \A w \in Workers : i \notin tx[w].locks
        /\ item[i].hand + delta >= 0
        /\ item' = [item EXCEPT ![i].hand = @ + delta, ![i].moved = @ \cup {"entry"}]
        /\ used' = [used EXCEPT ![i] = @ + delta]
        /\ weighed' = [weighed EXCEPT ![i] = @ + InGrams(e.quantity, e.unit)]
        /\ entries' = entries + 1
        /\ UNCHANGED <<purchase, admin, tx>>

-----------------------------------------------------------------------------
(***************************************************************************)
(* The unit of an item (update_item): whether there are movements is       *)
(* looked up without a lock; the update waits for the row.                 *)
(***************************************************************************)

ChangeUnit(w, i) ==
  /\ tx[w].pc = "idle" /\ entries < MaxEntries
  /\ item[i].hand = 0 /\ item[i].moved = {}
  /\ Continue(w, [Idle EXCEPT !.kind = "unit", !.pc = "save", !.item = i])
  /\ entries' = entries + 1
  /\ UNCHANGED stock

SaveUnit(w) ==
  /\ tx[w].pc = "save" /\ Free(w, tx[w].item)
  /\ item' = [item EXCEPT ![tx[w].item].unit = "g"]
  /\ Continue(w, Idle)
  /\ UNCHANGED <<purchase, admin, used, weighed, entries>>

-----------------------------------------------------------------------------
\* The lock a transaction asks for next.
Wants(w) ==
  CASE tx[w].pc = "wallet" -> {"wallet"}
    [] tx[w].pc = "item" /\ tx[w].next <= Len(tx[w].lines) -> {Line(w).item}
    [] tx[w].pc = "save" -> {tx[w].item}
    [] OTHER -> {}

WaitsFor(w, v) == v # w /\ Wants(w) \cap tx[v].locks # {}

\* PostgreSQL aborts a transaction of a cycle of waiting ones.
Victim(w) ==
  /\ \E ring \in SUBSET Workers :
       /\ w \in ring
       /\ \A v \in ring : (\E u \in ring : WaitsFor(v, u)) /\ (\E u \in ring : WaitsFor(u, v))
  /\ Continue(w, Idle)
  /\ UNCHANGED <<stock, entries>>

Next ==
  \/ \E p \in Purchases : Draft(p) \/ CancelDraft(p)
  \/ \E w \in Workers, p \in Purchases :
       CreateConfirmed(w, p) \/ Confirm(w, p) \/ Cancel(w, p)
  \/ \E w \in Workers :
       TakeMoney(w) \/ TakeItem(w) \/ FinishConfirm(w) \/ FinishCancel(w)
         \/ SaveUnit(w) \/ Victim(w)
  \/ \E i \in Items, e \in Entries : Record(i, e)
  \/ \E w \in Workers, i \in Items : ChangeUnit(w, i)

Spec == Init /\ [][Next]_vars

-----------------------------------------------------------------------------
(***************************************************************************)
(* Properties.                                                             *)
(***************************************************************************)

\* What the lines of a purchase bring of an item.
Brings(lines, i) ==
  SumOver([n \in DOMAIN lines |-> IF lines[n].item = i THEN lines[n].base ELSE 0],
          DOMAIN lines)

Confirmed(p) == purchase[p].status = "confirmed"

\* What confirmed purchases have brought of an item, and cost.
Brought(i) ==
  SumOver([p \in Purchases |-> IF Confirmed(p) THEN Brings(purchase[p].lines, i) ELSE 0],
          Purchases)
Paid == SumOver([p \in Purchases |-> IF Confirmed(p) THEN Total(purchase[p].lines) ELSE 0],
                Purchases)

\* Stock and money are what the purchases that are confirmed, and not cancelled,
\* and the entries say: with every deadlock, every purchase that lacks money or
\* stock and every two requests for one purchase.  (confirm_purchase,
\* cancel_purchase, apply_stock_movement)
StockExplained ==
  /\ \A i \in Items : item[i].hand = used[i] + Brought(i)
  /\ admin = Float - Paid

\* What the lines of a purchase cost of an item, and how many they are.
CostOf(lines, i) ==
  SumOver([n \in DOMAIN lines |-> IF lines[n].item = i THEN lines[n].total ELSE 0],
          DOMAIN lines)
Count(lines, i) ==
  SumOver([n \in DOMAIN lines |-> IF lines[n].item = i THEN 1 ELSE 0], DOMAIN lines)

\* What the confirmed purchases have cost of an item.
PaidFor(i) ==
  SumOver([p \in Purchases |-> IF Confirmed(p) THEN CostOf(purchase[p].lines, i) ELSE 0],
          Purchases)

\* The lines of an item in purchases of any status, and what they bring.
LinesEver(i) == SumOver([p \in Purchases |-> Count(purchase[p].lines, i)], Purchases)
Volume(i) == SumOver([p \in Purchases |-> Brings(purchase[p].lines, i)], Purchases)

\* What roundings may make up for an item: half a unit of cost for what is on hand,
\* for every line that came and went.
Tolerance(i) == 2 * LinesEver(i) * Volume(i)

\* While nothing but purchases has moved an item, its stock is valued at what was paid
\* for it, in whatever order they were confirmed and cancelled.
\* (compute_wac, reverse_wac)
ValueIsPaid ==
  \A i \in Items :
    "entry" \notin item[i].moved /\ item[i].hand > 0 =>
      /\ item[i].cost # Unknown
      /\ item[i].hand * item[i].cost - 1000 * PaidFor(i) \in (-Tolerance(i))..Tolerance(i)

\* A purchase that is cancelled stays so, a confirmed one can only be cancelled,
\* and neither changes its lines.  (confirm_purchase, cancel_purchase)
PurchasesAreFinal ==
  [][\A p \in Purchases :
       /\ purchase[p].status = "cancelled" => purchase'[p] = purchase[p]
       /\ purchase[p].status = "confirmed" =>
            /\ purchase'[p].status \in {"confirmed", "cancelled"}
            /\ purchase'[p].lines = purchase[p].lines]_vars

\* The lines of an item in confirmed purchases.
LinesOf(i) ==
  {l \in UNION {{p} \X DOMAIN purchase[p].lines : p \in Purchases} :
     Confirmed(l[1]) /\ purchase[l[1]].lines[l[2]].item = i}

\* "Stock on-hand and movements MUST be stored in the item default unit": what is on
\* hand weighs what the confirmed purchases and the entries weigh.
HandWeighsWhatCame ==
  \A i \in Items :
    InGrams(item[i].hand, item[i].unit)
      = weighed[i] + MapThenSumSet(LAMBDA l : InGrams(Order[l[1]][l[2]].quantity,
                                                      Order[l[1]][l[2]].unit), LinesOf(i))
=============================================================================
