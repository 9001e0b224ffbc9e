---------------------------- MODULE InventoryProofs ----------------------------
(***************************************************************************)
(* Theorems about Inventory, for any items, orders and numbers of workers  *)
(* and finitely many purchases: what is confirmed or cancelled is final,   *)
(* the state has its type (so neither stock nor money falls below zero),   *)
(* and stock and money are what the confirmed purchases and the entries    *)
(* make of them.  What purchases alone have moved is valued at what was    *)
(* paid for it, up to the roundings, as long as the average costs stay     *)
(* known; they do where every line costs more than the roundings can add   *)
(* up to.                                                                  *)
(*                                                                         *)
(* The movements of a purchase are a recursive function over its lines;    *)
(* that it has a solution, and what the solution adds up to, is shown by   *)
(* the smallest line that would be an exception.  The last section shows   *)
(* that only cancellations make transactions wait for each other.          *)
(***************************************************************************)
EXTENDS Inventory, SumsProofs, SequenceTheorems

-----------------------------------------------------------------------------
\* The inductive invariant

\* A transaction is a record of its fields; of some the value does not matter here.
Shaped(t) ==
  t \in [kind : {"create", "confirm", "cancel", "unit"}, pc : {"idle", "item", "wallet", "save"},
         purchase : Purchases \cup {NoPurchase}, lines : {t.lines}, next : {t.next},
         item : {t.item}, locks : {t.locks}]

\* The status a transaction has found its purchase in, and may rely on.
Found(t) ==
  /\ t.kind = "create" => purchase[t.purchase].status = "none"
  /\ t.kind = "confirm" => /\ purchase[t.purchase].status = "draft"
                           /\ purchase[t.purchase].lines = t.lines
  /\ t.kind = "cancel" => /\ purchase[t.purchase].status = "confirmed"
                          /\ purchase[t.purchase].lines = t.lines

\* A purchase is one transaction's at a time, which holds its lock, and is as that
\* transaction found it.
Apart ==
  /\ \A w \in Workers :
       /\ tx[w].pc = "idle" => tx[w].purchase = NoPurchase
       /\ tx[w].kind = "unit" => tx[w].purchase = NoPurchase
       /\ (tx[w].pc # "idle" /\ tx[w].kind # "unit") => tx[w].purchase # NoPurchase
       /\ tx[w].purchase # NoPurchase => tx[w].purchase \in tx[w].locks /\ Found(tx[w])
  /\ \A v, w \in Workers :
       v # w /\ tx[v].purchase = tx[w].purchase => tx[w].purchase = NoPurchase

TxShaped == tx = [w \in Workers |-> tx[w]] /\ \A w \in Workers : Shaped(tx[w])

PurchaseShaped ==
  /\ purchase = [p \in Purchases |-> purchase[p]]
  /\ \A p \in Purchases : purchase[p] \in [status : Statuses, lines : {purchase[p].lines}]

Inv == TxShaped /\ PurchaseShaped /\ Apart

-----------------------------------------------------------------------------
\* Steps

\* What a worker goes on with.
LEMMA ContinueLemma ==
  ASSUME TxShaped, NEW w \in Workers, NEW t, Shaped(t), Continue(w, t)
  PROVE  /\ TxShaped' /\ tx'[w] = t
         /\ \A v \in Workers : v # w => tx'[v] = tx[v]
<1>1. tx' = [v \in Workers |-> IF v = w THEN t ELSE tx[v]]
  BY DEF TxShaped, Continue
<1>2. tx'[w] = t /\ \A v \in Workers : v # w => tx'[v] = tx[v]
  BY <1>1
<1>3. \A v \in Workers : Shaped(tx'[v])
  BY <1>2 DEF TxShaped
<1>4. tx' = [v \in Workers |-> tx'[v]]
  BY <1>1
<1> QED BY <1>2, <1>3, <1>4 DEF TxShaped, Shaped

\* No transaction, and the one that changes a unit.
LEMMA IdleLemma ==
  /\ Shaped(Idle) /\ Idle.pc = "idle" /\ Idle.purchase = NoPurchase /\ Idle.kind = "create"
  /\ \A i : Shaped([Idle EXCEPT !.kind = "unit", !.pc = "save", !.item = i])
BY DEF Shaped, Idle

\* How one transaction moves: only it changes, and the purchases stay.
Moves(w, t) ==
  /\ TxShaped' /\ tx'[w] = t
  /\ \A v \in Workers : v # w => tx'[v] = tx[v]

\* A worker that lets go of its purchase.
LEMMA LetGoLemma ==
  ASSUME Inv, NEW w \in Workers, Continue(w, Idle), UNCHANGED purchase
  PROVE  Inv'
<1>1. Moves(w, Idle)
  BY ContinueLemma, IdleLemma DEF Inv, Moves
<1>2. PurchaseShaped'
  BY DEF Inv, PurchaseShaped
<1>3. \A v \in Workers : tx[v].purchase # NoPurchase => Found(tx[v])
  BY DEF Inv, Apart
<1>4. \A v \in Workers : tx'[v].purchase # NoPurchase => Found(tx[v])' /\ tx'[v] = tx[v]
  BY <1>1, <1>3, IdleLemma DEF Moves, Found
<1>5. Idle.purchase = NoPurchase /\ Idle.pc = "idle"
  BY IdleLemma
<1>6. ASSUME NEW v \in Workers
      PROVE  /\ tx'[v].pc = "idle" => tx'[v].purchase = NoPurchase
             /\ tx'[v].kind = "unit" => tx'[v].purchase = NoPurchase
             /\ tx'[v].pc # "idle" /\ tx'[v].kind # "unit" => tx'[v].purchase # NoPurchase
             /\ tx'[v].purchase # NoPurchase => tx'[v].purchase \in tx'[v].locks
             /\ tx'[v].purchase # NoPurchase => Found(tx[v])'
             /\ tx'[v].purchase # NoPurchase => tx'[v] = tx[v]
  <2>1. CASE v = w
    BY <1>1, <1>5, <2>1 DEF Moves
  <2>2. CASE v # w
    <3>1. tx'[v] = tx[v]
      BY <1>1, <2>2 DEF Moves
    <3> QED BY <3>1, <1>4 DEF Inv, Apart
  <2> QED BY <2>1, <2>2
<1>7. ASSUME NEW u \in Workers, NEW v \in Workers, u # v, tx'[u].purchase = tx'[v].purchase
      PROVE  tx'[v].purchase = NoPurchase
  BY <1>6, <1>7 DEF Inv, Apart
<1>8. Apart'
  BY <1>6, <1>7 DEF Apart
<1> QED BY <1>1, <1>2, <1>8 DEF Inv, Moves

\* A worker that takes up a purchase no other has.
LEMMA TakeUpLemma ==
  ASSUME Inv, NEW w \in Workers, NEW p \in Purchases, NEW t, Shaped(t), Continue(w, t),
         UNCHANGED purchase, t.purchase = p, t.pc # "idle", t.kind # "unit", p \in t.locks,
         Found(t), \A v \in Workers : v # w => tx[v].purchase # p
  PROVE  Inv'
<1>1. Moves(w, t)
  BY ContinueLemma DEF Inv, Moves
<1>2. p # NoPurchase
  BY InventoryAssumption
<1> QED BY <1>1, <1>2 DEF Inv, Moves, Apart, Found, PurchaseShaped

\* A worker that goes on with what it has.
LEMMA GoOnLemma ==
  ASSUME Inv, NEW w \in Workers, NEW t, Shaped(t), Continue(w, t), UNCHANGED purchase,
         t.purchase = tx[w].purchase, t.kind = tx[w].kind, t.lines = tx[w].lines,
         t.pc # "idle", tx[w].pc # "idle", tx[w].locks \subseteq t.locks
  PROVE  Inv'
<1>1. Moves(w, t)
  BY ContinueLemma DEF Inv, Moves
<1> QED BY <1>1 DEF Inv, Moves, Apart, Found, PurchaseShaped

\* A transaction that ends with a new row of its purchase.
LEMMA CommitLemma ==
  ASSUME Inv, NEW w \in Workers, tx[w].pc # "idle", tx[w].kind # "unit",
         NEW row, row \in [status : Statuses, lines : {row.lines}],
         purchase' = [purchase EXCEPT ![tx[w].purchase] = row], Continue(w, Idle)
  PROVE  /\ Inv' /\ tx[w].purchase \in Purchases
         /\ purchase'[tx[w].purchase] = row
         /\ \A p \in Purchases : p # tx[w].purchase => purchase'[p] = purchase[p]
<1>1. Moves(w, Idle)
  BY ContinueLemma, IdleLemma DEF Inv, Moves
<1>2. tx[w].purchase \in Purchases /\ tx[w].purchase # NoPurchase
  BY DEF Inv, Apart, TxShaped, Shaped
<1>3. /\ PurchaseShaped' /\ purchase'[tx[w].purchase] = row
      /\ \A p \in Purchases : p # tx[w].purchase => purchase'[p] = purchase[p]
  BY <1>2 DEF Inv, PurchaseShaped
<1>4. \A v \in Workers : v # w => tx[v].purchase # tx[w].purchase
  BY <1>2 DEF Inv, Apart
<1>5. \A v \in Workers : tx[v].purchase \in Purchases \cup {NoPurchase}
  BY DEF Inv, TxShaped, Shaped
<1>6. Apart'
  <2>1. \A v \in Workers : v # w /\ tx[v].purchase # NoPurchase => Found(tx[v])'
    BY <1>1, <1>3, <1>4, <1>5 DEF Inv, Apart, Found, Moves
  <2>2. Idle.purchase = NoPurchase /\ Idle.pc = "idle"
    BY IdleLemma
  <2>3. ASSUME NEW v \in Workers
        PROVE  /\ tx'[v].pc = "idle" => tx'[v].purchase = NoPurchase
               /\ tx'[v].kind = "unit" => tx'[v].purchase = NoPurchase
               /\ tx'[v].pc # "idle" /\ tx'[v].kind # "unit" => tx'[v].purchase # NoPurchase
               /\ tx'[v].purchase # NoPurchase => tx'[v].purchase \in tx'[v].locks
               /\ tx'[v].purchase # NoPurchase => Found(tx[v])'
               /\ tx'[v].purchase # NoPurchase => tx'[v] = tx[v]
    <3>1. CASE v = w
      BY <1>1, <2>2, <3>1 DEF Moves
    <3>2. CASE v # w
      <4>1. tx'[v] = tx[v]
        BY <1>1, <3>2 DEF Moves
      <4> QED BY <4>1, <2>1, <3>2 DEF Inv, Apart
    <3> QED BY <3>1, <3>2
  <2>4. ASSUME NEW u \in Workers, NEW v \in Workers, u # v,
               tx'[u].purchase = tx'[v].purchase
        PROVE  tx'[v].purchase = NoPurchase
    BY <2>3, <2>4 DEF Inv, Apart
  <2> QED BY <2>3, <2>4 DEF Apart
<1> QED BY <1>1, <1>2, <1>3, <1>6 DEF Inv, Moves

\* What a step leaves of a purchase.
Final(p) ==
  /\ purchase[p].status = "cancelled" => purchase'[p] = purchase[p]
  /\ purchase[p].status = "confirmed" =>
       /\ purchase'[p].status \in {"confirmed", "cancelled"}
       /\ purchase'[p].lines = purchase[p].lines

\* A draft that is written or withdrawn while no transaction has its purchase.
LEMMA DraftLemma ==
  ASSUME Inv, NEW p \in Purchases, Draft(p) \/ CancelDraft(p)
  PROVE  Inv' /\ \A q \in Purchases : Final(q)
<1>1. \A w \in Workers : tx[w].purchase # p
  <2>1. p # NoPurchase
    BY InventoryAssumption
  <2> QED BY <2>1 DEF Draft, CancelDraft, Inv, Apart
<1>2. /\ UNCHANGED tx /\ purchase[p].status \in {"none", "draft"}
      /\ \A q \in Purchases : q # p => purchase'[q] = purchase[q]
      /\ PurchaseShaped'
  <2>1. CASE Draft(p)
    BY <2>1 DEF Draft, Inv, PurchaseShaped, Statuses
  <2>2. CASE CancelDraft(p)
    BY <2>2 DEF CancelDraft, Inv, PurchaseShaped, Statuses
  <2> QED BY <2>1, <2>2
<1>3. \A v \in Workers : tx[v].purchase \in Purchases \cup {NoPurchase}
  BY DEF Inv, TxShaped, Shaped
<1>4. TxShaped'
  BY <1>2 DEF Inv, TxShaped, Shaped
<1>5. Apart'
  <2>1. \A w \in Workers : tx[w].purchase # NoPurchase => Found(tx[w])'
    BY <1>1, <1>2, <1>3 DEF Inv, Apart, Found
  <2> QED BY <1>2, <2>1 DEF Inv, Apart
<1>6. \A q \in Purchases : Final(q)
  BY <1>2 DEF Final
<1> QED BY <1>2, <1>4, <1>5, <1>6 DEF Inv

\* A step keeps the invariant, and what is final.
LEMMA Step ==
  ASSUME Inv, Next
  PROVE  Inv' /\ \A p \in Purchases : Final(p)
<1>1. ASSUME UNCHANGED purchase PROVE \A p \in Purchases : Final(p)
  BY <1>1 DEF Final
<1>2. ASSUME NEW w \in Workers, NEW p \in Purchases,
             CreateConfirmed(w, p) \/ Confirm(w, p) \/ Cancel(w, p)
      PROVE  Inv' /\ UNCHANGED purchase
  <2>1. p # NoPurchase
    BY InventoryAssumption
  <2>2. PICK t : /\ Shaped(t) /\ Continue(w, t) /\ t.purchase = p /\ t.pc # "idle"
                 /\ t.kind # "unit" /\ p \in t.locks /\ Found(t)
    <3>1. CASE CreateConfirmed(w, p)
      <4> DEFINE t == [Idle EXCEPT !.kind = "create", !.pc = "wallet", !.purchase = p,
                                   !.lines = Entered(p), !.locks = {p}]
      <4>1. Shaped(t) /\ t.purchase = p /\ t.pc = "wallet" /\ t.kind = "create" /\ t.locks = {p}
        BY DEF Shaped, Idle
      <4>2. Continue(w, t) /\ purchase[p].status = "none"
        BY <3>1 DEF CreateConfirmed
      <4> HIDE DEF t
      <4> QED BY <4>1, <4>2 DEF Found
    <3>2. CASE Confirm(w, p)
      <4> DEFINE t == [Idle EXCEPT !.kind = "confirm", !.pc = "wallet", !.purchase = p,
                                   !.lines = purchase[p].lines, !.locks = {p}]
      <4>1. /\ Shaped(t) /\ t.purchase = p /\ t.pc = "wallet" /\ t.kind = "confirm"
            /\ t.locks = {p} /\ t.lines = purchase[p].lines
        BY DEF Shaped, Idle
      <4>2. Continue(w, t) /\ purchase[p].status = "draft"
        BY <3>2 DEF Confirm
      <4> HIDE DEF t
      <4> QED BY <4>1, <4>2 DEF Found
    <3>3. CASE Cancel(w, p)
      <4> DEFINE t == [Idle EXCEPT !.kind = "cancel", !.pc = "item", !.purchase = p,
                                   !.lines = purchase[p].lines, !.locks = {p}]
      <4>1. /\ Shaped(t) /\ t.purchase = p /\ t.pc = "item" /\ t.kind = "cancel"
            /\ t.locks = {p} /\ t.lines = purchase[p].lines
        BY DEF Shaped, Idle
      <4>2. Continue(w, t) /\ purchase[p].status = "confirmed"
        BY <3>3 DEF Cancel
      <4> HIDE DEF t
      <4> QED BY <4>1, <4>2 DEF Found
    <3> QED BY <1>2, <3>1, <3>2, <3>3
  <2>3. \A v \in Workers : v # w => tx[v].purchase # p
    BY <1>2, <2>1 DEF CreateConfirmed, Confirm, Cancel, Free, Inv, Apart
  <2>4. UNCHANGED purchase
    BY <1>2 DEF CreateConfirmed, Confirm, Cancel, stock
  <2> QED BY <2>2, <2>3, <2>4, TakeUpLemma
<1>3. ASSUME NEW w \in Workers, TakeMoney(w) \/ TakeItem(w) PROVE Inv' /\ UNCHANGED purchase
  <2>1. UNCHANGED purchase
    BY <1>3 DEF TakeMoney, TakeItem, stock
  <2>2. Shaped(tx[w]) /\ tx[w].pc # "idle"
    BY <1>3 DEF Inv, TxShaped, TakeMoney, TakeItem
  <2>3. CASE Continue(w, Idle)
    BY <2>1, <2>3, LetGoLemma
  <2>4. CASE Continue(w, [tx[w] EXCEPT !.pc = "item", !.locks = @ \cup {"wallet"}])
    <3> DEFINE t == [tx[w] EXCEPT !.pc = "item", !.locks = @ \cup {"wallet"}]
    <3>1. /\ Shaped(t) /\ t.purchase = tx[w].purchase /\ t.kind = tx[w].kind
          /\ t.lines = tx[w].lines /\ t.pc = "item" /\ tx[w].locks \subseteq t.locks
      BY <2>2 DEF Shaped
    <3> HIDE DEF t
    <3>2. Continue(w, t)
      BY <2>4 DEF t
    <3> QED BY <2>1, <2>2, <3>1, <3>2, GoOnLemma
  <2>5. ASSUME NEW pc \in {"item", "wallet"},
               Continue(w, [tx[w] EXCEPT !.next = @ + 1, !.locks = @ \cup {Line(w).item}, !.pc = pc])
        PROVE  Inv'
    <3> DEFINE next == tx[w].next + 1
               lock == Line(w).item
               t == [tx[w] EXCEPT !.next = next, !.locks = tx[w].locks \cup {lock}, !.pc = pc]
    <3>1. Continue(w, t)
      BY <2>5
    <3> HIDE DEF next, lock
    <3>2. /\ Shaped(t) /\ t.kind = tx[w].kind /\ t.purchase = tx[w].purchase
          /\ t.lines = tx[w].lines /\ t.pc = pc /\ t.locks = tx[w].locks \cup {lock}
      BY <2>2 DEF Shaped
    <3> HIDE DEF t
    <3> QED BY <2>1, <2>2, <3>1, <3>2, GoOnLemma
  <2> QED BY <1>3, <2>1, <2>3, <2>4, <2>5 DEF TakeMoney, TakeItem
<1>4. ASSUME NEW w \in Workers, FinishConfirm(w)
      PROVE  Inv' /\ \A p \in Purchases : Final(p)
  <2> DEFINE row == [status |-> "confirmed", lines |-> tx[w].lines]
  <2>1. /\ tx[w].kind \in {"create", "confirm"} /\ tx[w].pc # "idle" /\ tx[w].kind # "unit"
        /\ purchase' = [purchase EXCEPT ![tx[w].purchase] = row] /\ Continue(w, Idle)
    BY <1>4 DEF FinishConfirm
  <2>2. row \in [status : Statuses, lines : {row.lines}]
    BY DEF Statuses
  <2> HIDE DEF row
  <2>3. /\ Inv' /\ tx[w].purchase \in Purchases
        /\ \A p \in Purchases : p # tx[w].purchase => purchase'[p] = purchase[p]
    BY <2>1, <2>2, CommitLemma
  <2>4. purchase[tx[w].purchase].status \in {"none", "draft"}
    BY <2>1 DEF Inv, Apart, Found
  <2> QED BY <2>3, <2>4 DEF Final
<1>5. ASSUME NEW w \in Workers, FinishCancel(w)
      PROVE  Inv' /\ \A p \in Purchases : Final(p)
  <2>1. /\ tx[w].kind = "cancel" /\ tx[w].pc # "idle" /\ tx[w].kind # "unit"
        /\ Continue(w, Idle)
    BY <1>5 DEF FinishCancel
  <2>2. CASE UNCHANGED purchase
    BY <1>1, <2>1, <2>2, LetGoLemma
  <2>3. CASE purchase' = [purchase EXCEPT ![tx[w].purchase].status = "cancelled"]
    <3> DEFINE row == [status |-> "cancelled", lines |-> purchase[tx[w].purchase].lines]
    <3>1. tx[w].purchase \in Purchases
      BY <2>1 DEF Inv, Apart, TxShaped, Shaped
    <3>2. [purchase[tx[w].purchase] EXCEPT !.status = "cancelled"] = row
      BY <3>1 DEF Inv, PurchaseShaped
    <3>3. purchase' = [purchase EXCEPT ![tx[w].purchase] = row]
      BY <2>3, <3>2
    <3>4. row \in [status : Statuses, lines : {row.lines}]
      BY DEF Statuses
    <3>5. row.status = "cancelled" /\ row.lines = purchase[tx[w].purchase].lines
      OBVIOUS
    <3> HIDE DEF row
    <3>6. /\ Inv' /\ purchase'[tx[w].purchase] = row
          /\ \A p \in Purchases : p # tx[w].purchase => purchase'[p] = purchase[p]
      BY <2>1, <3>3, <3>4, CommitLemma
    <3>7. purchase[tx[w].purchase].status = "confirmed"
      BY <2>1 DEF Inv, Apart, Found
    <3> QED BY <3>5, <3>6, <3>7 DEF Final
  <2> QED BY <1>5, <2>2, <2>3 DEF FinishCancel
<1>6. ASSUME NEW w \in Workers, SaveUnit(w) \/ Victim(w) PROVE Inv' /\ UNCHANGED purchase
  <2>1. Continue(w, Idle) /\ UNCHANGED purchase
    BY <1>6 DEF SaveUnit, Victim, stock
  <2> QED BY <2>1, LetGoLemma
<1>7. ASSUME NEW i \in Items, NEW e \in Entries, Record(i, e) PROVE Inv' /\ UNCHANGED purchase
  BY <1>7 DEF Record, Inv, TxShaped, Shaped, PurchaseShaped, Apart, Found
<1>8. ASSUME NEW w \in Workers, NEW i \in Items, ChangeUnit(w, i)
      PROVE  Inv' /\ UNCHANGED purchase
  <2> DEFINE t == [Idle EXCEPT !.kind = "unit", !.pc = "save", !.item = i]
  <2>1. Continue(w, t) /\ UNCHANGED purchase
    BY <1>8 DEF ChangeUnit, stock
  <2>2. Shaped(t) /\ t.kind = "unit" /\ t.purchase = NoPurchase /\ t.pc = "save"
    BY DEF Shaped, Idle
  <2> HIDE DEF t
  <2>3. Moves(w, t)
    BY <2>1, <2>2, ContinueLemma DEF Inv, Moves
  <2> QED BY <2>1, <2>2, <2>3 DEF Inv, Moves, Apart, Found, PurchaseShaped
<1> QED BY <1>1, <1>2, <1>3, <1>4, <1>5, <1>6, <1>7, <1>8, DraftLemma DEF Next

\* The invariant holds of an empty store.
LEMMA InitInv ==
  ASSUME Init
  PROVE  Inv
BY IdleLemma DEF Init, Inv, TxShaped, PurchaseShaped, Apart, Statuses

-----------------------------------------------------------------------------
\* Quantities and costs

\* An item between the movements of a purchase: a cancelled one may take it below zero.
MovedItems == [unit : Units, hand : Int, cost : Nat \cup {Unknown}, moved : SUBSET Movements]

\* Products and roundings of what is not negative are not.
LEMMA RoundedNat ==
  /\ \A n \in Nat, d \in Nat \ {0} : Rounded(n, d) \in Nat
  /\ \A a \in Nat, b \in Nat : a * b \in Nat
<1>1. ASSUME NEW n \in Nat, NEW d \in Nat \ {0} PROVE Rounded(n, d) \in Nat
  <2>1. PICK a, b : a = 2 * n + d /\ b = 2 * d
    OBVIOUS
  <2>2. a \in Nat /\ b \in Nat /\ b > 0
    BY <2>1
  <2>3. a \div b \in Nat
    BY <2>2
  <2> QED BY <2>1, <2>3 DEF Rounded
<1> QED BY <1>1

\* A quantity in another unit is a quantity, with its sign.
LEMMA ToBaseType ==
  ASSUME NEW from \in Units, NEW unit \in Units
  PROVE  /\ \A quantity \in Nat : ToBase(quantity, from, unit) \in Nat
         /\ \A quantity \in Int : SignedToBase(quantity, from, unit) \in Int
                                  /\ InGrams(quantity, from) \in Int
<1>1. \A quantity \in Nat : ToBase(quantity, from, unit) \in Nat
  <2>1. \A quantity \in Nat : Rounded(quantity, 1000) \in Nat
    BY RoundedNat
  <2> QED BY <2>1 DEF ToBase, Units
<1>2. ASSUME NEW quantity \in Int PROVE SignedToBase(quantity, from, unit) \in Int
  <2>1. CASE quantity < 0
    <3>1. PICK b : b = ToBase(-quantity, from, unit)
      OBVIOUS
    <3>2. b \in Nat
      BY <1>1, <2>1, <3>1
    <3> QED BY <2>1, <3>1, <3>2 DEF SignedToBase
  <2>2. CASE quantity >= 0
    BY <1>1, <2>2 DEF SignedToBase
  <2> QED BY <2>1, <2>2
<1>3. \A quantity \in Int : InGrams(quantity, from) \in Int
  BY DEF InGrams
<1> QED BY <1>1, <1>2, <1>3

\* An average cost is one, or is not known.
LEMMA CostType ==
  ASSUME NEW i \in MovedItems, NEW l \in Lines
  PROVE  ComputeWac(i, l) \in Nat \cup {Unknown} /\ ReverseWac(i, l) \in Nat \cup {Unknown}
<1>1. PICK h, c, b, d : h = i.hand /\ c = i.cost /\ b = l.base /\ d = l.cost
  OBVIOUS
<1>2. h \in Int /\ c \in Nat \cup {Unknown} /\ b \in Nat /\ d \in Nat
  BY <1>1 DEF MovedItems, Lines
<1>3. ASSUME h > 0, c # Unknown PROVE Rounded(h * c + b * d, h + b) \in Nat
  <2>1. PICK p, q : p = h * c /\ q = b * d
    OBVIOUS
  <2>2. h \in Nat /\ c \in Nat
    BY <1>2, <1>3
  <2>3. p \in Nat /\ q \in Nat
    BY <1>2, <2>1, <2>2, RoundedNat
  <2>4. p + q \in Nat /\ h + b \in Nat \ {0}
    BY <1>2, <1>3, <2>3
  <2> QED BY <2>1, <2>4, RoundedNat
<1>4. ASSUME h > b, c # Unknown, ~(h * c < b * d) PROVE Rounded(h * c - b * d, h - b) \in Nat
  <2>1. PICK p, q : p = h * c /\ q = b * d
    OBVIOUS
  <2>2. h \in Nat /\ c \in Nat
    BY <1>2, <1>4
  <2>3. p \in Nat /\ q \in Nat
    BY <1>2, <2>1, <2>2, RoundedNat
  <2>4. p - q \in Nat /\ h - b \in Nat \ {0}
    BY <1>2, <1>4, <2>1, <2>3
  <2> QED BY <2>1, <2>4, RoundedNat
<1>5. ComputeWac(i, l) \in Nat \cup {Unknown}
  BY <1>1, <1>2, <1>3 DEF ComputeWac
<1>6. ReverseWac(i, l) \in Nat \cup {Unknown}
  BY <1>1, <1>2, <1>4 DEF ReverseWac
<1> QED BY <1>5, <1>6

\* The movement of a line: onto stock, or off it when its purchase is cancelled.
Movement(kind, items, l) == IF kind = "cancel" THEN Returned(items, l) ELSE Received(items, l)

\* What a line puts on stock of an item, or takes off it.
Change(kind, base) == IF kind = "cancel" THEN -base ELSE base

\* What a movement does to the items: that of its line changes its quantity by what the
\* line has, and averages its cost; any other is as it was; and it is no entry.
Shifts(kind, items, l) ==
  \A i \in Items :
    LET row == Movement(kind, items, l)[i]
    IN  /\ l.item # i => row = items[i]
        /\ l.item = i =>
             /\ row.hand = items[i].hand + Change(kind, l.base)
             /\ row.cost = IF kind = "cancel" THEN ReverseWac(items[i], l)
                                              ELSE ComputeWac(items[i], l)
        /\ "entry" \in row.moved <=> "entry" \in items[i].moved

\* So does every movement.
LEMMA MovementLemma ==
  ASSUME NEW kind, NEW items \in [Items -> MovedItems], NEW l \in Lines
  PROVE  Movement(kind, items, l) \in [Items -> MovedItems] /\ Shifts(kind, items, l)
<1>1. PICK j, b : j = l.item /\ b = l.base
  OBVIOUS
<1>2. j \in Items /\ b \in Nat
  BY <1>1 DEF Lines
<1>3. items[j] \in MovedItems
  BY <1>2
<1>4. PICK c : c = IF kind = "cancel" THEN ReverseWac(items[j], l) ELSE ComputeWac(items[j], l)
  OBVIOUS
<1>5. c \in Nat \cup {Unknown}
  BY <1>3, <1>4, CostType
<1>6. PICK h : h = items[j].hand + Change(kind, b)
  OBVIOUS
<1>7. items[j].hand \in Int /\ h \in Int
  BY <1>2, <1>3, <1>6 DEF MovedItems, Change
<1>8. PICK m, r : /\ m = items[j].moved \cup {"purchase"}
                  /\ r = [items[j] EXCEPT !.hand = h, !.moved = m, !.cost = c]
  OBVIOUS
<1>9. r \in MovedItems /\ r.hand = h /\ r.cost = c /\ r.moved = m
  <2>1. m \in SUBSET Movements
    BY <1>3, <1>8 DEF MovedItems, Movements
  <2> QED BY <1>3, <1>5, <1>7, <1>8, <2>1 DEF MovedItems
<1>10. Movement(kind, items, l) = [items EXCEPT ![j] = r]
  <2>1. CASE kind = "cancel"
    <3>1. h = items[j].hand - b
      BY <1>2, <1>6, <1>7, <2>1 DEF Change
    <3> QED BY <1>1, <1>2, <1>4, <1>8, <2>1, <3>1 DEF Movement, Returned
  <2>2. CASE kind # "cancel"
    BY <1>1, <1>2, <1>4, <1>6, <1>8, <2>2 DEF Movement, Received, Change
  <2> QED BY <2>1, <2>2
<1>11. PICK after : after = [items EXCEPT ![j] = r]
  OBVIOUS
<1>12. after \in [Items -> MovedItems]
  BY <1>9, <1>11
<1>13. ASSUME NEW i \in Items
       PROVE  /\ j # i => after[i] = items[i]
              /\ j = i => after[i].hand = items[i].hand + Change(kind, b) /\ after[i].cost = c
              /\ "entry" \in after[i].moved <=> "entry" \in items[i].moved
  <2>1. CASE i = j
    <3>1. after[i] = r
      BY <1>2, <1>11, <2>1
    <3>2. "entry" \in r.moved <=> "entry" \in items[i].moved
      BY <1>8, <1>9, <2>1
    <3> QED BY <1>6, <1>9, <2>1, <3>1, <3>2
  <2>2. CASE i # j
    BY <1>11, <2>2
  <2> QED BY <2>1, <2>2
<1>14. Shifts(kind, items, l)
  BY <1>1, <1>4, <1>10, <1>11, <1>13 DEF Shifts
<1> QED BY <1>10, <1>11, <1>12, <1>14

-----------------------------------------------------------------------------
\* Line by line

\* What holds at nothing and is passed on by every number up to N holds up to N.
LEMMA Upwards ==
  ASSUME NEW N \in Nat, NEW Good, 0 \in Good, \A n \in 1..N : n - 1 \in Good => n \in Good
  PROVE  \A n \in 0..N : n \in Good
<1> SUFFICES ASSUME NEW m \in 0..N, m \notin Good PROVE FALSE
  OBVIOUS
<1> DEFINE Some == {0..n : n \in {k \in 0..N : k \notin Good}}
<1>1. IsFiniteSet(0..N)
  BY FS_Interval
<1>2. Some \in SUBSET (SUBSET (0..N)) /\ 0..m \in Some
  OBVIOUS
<1>3. PICK T \in Some : \A U \in SUBSET T : U # T => U \notin Some
  <2>1. PICK S : S = 0..N
    OBVIOUS
  <2>2. IsFiniteSet(S) /\ Some \in SUBSET (SUBSET S) /\ Some # {}
    BY <1>1, <1>2, <2>1
  <2> HIDE DEF Some
  <2> QED BY <2>2, SmallestSubset
<1>4. PICK n \in 0..N : n \notin Good /\ T = 0..n
  BY <1>3
<1>5. n \in 1..N
  BY <1>4
<1>6. n - 1 \in 0..N /\ 0..(n - 1) \in SUBSET T /\ 0..(n - 1) # T
  <2>1. n \in T /\ n \notin 0..(n - 1) /\ n - 1 \in 0..N
    BY <1>4, <1>5
  <2>2. \A k \in 0..(n - 1) : k \in 0..n
    BY <1>5
  <2> QED BY <1>4, <2>1, <2>2
<1>7. 0..(n - 1) \notin Some
  BY <1>3, <1>6
<1>8. n - 1 \in Good
  BY <1>6, <1>7
<1> QED BY <1>4, <1>5, <1>8

\* A function that goes on from a value step by step.
Goes(f, S, a, N, next) ==
  /\ f \in [0..N -> S] /\ f[0] = a
  /\ \A n \in 1..N : f[n] = next[<<f[n - 1], n>>]

\* There is one.
LEMMA StepsExist ==
  ASSUME NEW S, NEW a \in S, NEW N \in Nat, NEW next,
         \A s \in S, n \in 1..N : next[<<s, n>>] \in S
  PROVE  \E f : Goes(f, S, a, N, next)
<1> DEFINE From(f, m) == /\ f \in [0..m -> S] /\ f[0] = a
                         /\ \A n \in 1..m : f[n] = next[<<f[n - 1], n>>]
           Good == {m \in 0..N : \E f : From(f, m)}
<1>1. 0 \in Good
  <2> DEFINE f == [n \in 0..0 |-> a]
  <2>1. From(f, 0)
    OBVIOUS
  <2>2. 0 \in 0..N
    OBVIOUS
  <2> HIDE DEF From, f
  <2> QED BY <2>1, <2>2
<1>2. ASSUME NEW m \in 1..N, m - 1 \in Good PROVE m \in Good
  <2>1. PICK f : From(f, m - 1)
    BY <1>2
  <2>2. PICK s : s = next[<<f[m - 1], m>>]
    OBVIOUS
  <2>3. s \in S
    BY <2>1, <2>2
  <2> DEFINE g == [n \in 0..m |-> IF n = m THEN s ELSE f[n]]
  <2>4. g \in [0..m -> S] /\ g[0] = a
    BY <2>1, <2>3
  <2>5. ASSUME NEW n \in 1..m PROVE g[n] = next[<<g[n - 1], n>>]
    <3>1. n - 1 \in 0..m /\ n - 1 # m /\ n \in 0..m
      OBVIOUS
    <3>2. g[n - 1] = f[n - 1]
      BY <3>1
    <3>3. CASE n = m
      BY <2>2, <3>1, <3>2, <3>3
    <3>4. CASE n # m
      <4>1. n \in 1..(m - 1)
        BY <3>4
      <4>2. g[n] = f[n]
        BY <3>1, <3>4
      <4> QED BY <2>1, <3>2, <4>1, <4>2
    <3> QED BY <3>3, <3>4
  <2>6. From(g, m)
    BY <2>4, <2>5
  <2>7. m \in 0..N
    OBVIOUS
  <2> HIDE DEF From
  <2> QED BY <2>6, <2>7
<1>3. N \in Good
  <2>1. \A n \in 1..N : n - 1 \in Good => n \in Good
    BY <1>2
  <2> HIDE DEF Good
  <2> QED BY <1>1, <2>1, Upwards
<1> QED BY <1>3 DEF Goes

\* The items after n lines of a purchase, by the recursion of AfterLines.
After(kind, lines, items) ==
  CHOOSE after : after = [n \in 0..Len(lines) |->
                            IF n = 0 THEN items
                            ELSE Movement(kind, after[n - 1], lines[n])]

\* What that recursion says of it.
AfterIs(kind, lines, items) ==
  /\ After(kind, lines, items) \in [0..Len(lines) -> [Items -> MovedItems]]
  /\ After(kind, lines, items)[0] = items
  /\ \A n \in 1..Len(lines) :
       After(kind, lines, items)[n]
         = Movement(kind, After(kind, lines, items)[n - 1], lines[n])

\* It has a solution, of items between movements.
LEMMA AfterExists ==
  ASSUME NEW kind, NEW lines \in Seq(Lines), NEW items \in [Items -> MovedItems]
  PROVE  AfterIs(kind, lines, items)
<1>1. PICK N : N = Len(lines)
  OBVIOUS
<1>2. N \in Nat /\ \A n \in 1..N : lines[n] \in Lines
  BY <1>1
<1>3. PICK S : S = [Items -> MovedItems]
  OBVIOUS
<1>4. PICK next : next = [sn \in S \X (1..N) |-> Movement(kind, sn[1], lines[sn[2]])]
  OBVIOUS
<1>5. \A s \in S, n \in 1..N : next[<<s, n>>] = Movement(kind, s, lines[n])
  BY <1>4
<1>6. \A s \in S, n \in 1..N : next[<<s, n>>] \in S
  <2>1. ASSUME NEW s \in S, NEW n \in 1..N PROVE next[<<s, n>>] \in S
    <3>1. PICK l \in Lines : l = lines[n]
      BY <1>2
    <3>2. Movement(kind, s, l) \in [Items -> MovedItems]
      BY <1>3, MovementLemma
    <3> QED BY <1>3, <1>5, <3>1, <3>2
  <2> QED BY <2>1
<1>7. PICK f : Goes(f, S, items, N, next)
  <2>1. N \in Nat /\ items \in S
    BY <1>2, <1>3
  <2> QED BY <1>6, <2>1, StepsExist
<1>8. \A n \in 1..N : f[n - 1] \in S /\ f[n] = Movement(kind, f[n - 1], lines[n])
  <2>1. ASSUME NEW n \in 1..N PROVE f[n - 1] \in S /\ f[n] = Movement(kind, f[n - 1], lines[n])
    <3>1. PICK s : s = f[n - 1]
      OBVIOUS
    <3>2. n - 1 \in 0..N
      BY <1>2
    <3>3. s \in S
      BY <1>7, <3>1, <3>2 DEF Goes
    <3> QED BY <1>5, <1>7, <3>1, <3>3 DEF Goes
  <2> QED BY <2>1
<1>9. f = [n \in 0..N |-> IF n = 0 THEN items ELSE Movement(kind, f[n - 1], lines[n])]
  <2>1. \A n \in 0..N : f[n] = IF n = 0 THEN items ELSE Movement(kind, f[n - 1], lines[n])
    BY <1>2, <1>7, <1>8 DEF Goes
  <2> QED BY <1>7, <2>1 DEF Goes
<1>10. PICK g : g = After(kind, lines, items)
  OBVIOUS
<1>11. g = [n \in 0..N |-> IF n = 0 THEN items ELSE Movement(kind, g[n - 1], lines[n])]
  BY <1>1, <1>9, <1>10, Zenon DEF After
<1>12. g[0] = items /\ \A n \in 1..N : g[n] = Movement(kind, g[n - 1], lines[n])
  BY <1>2, <1>11
<1> DEFINE Good == {n \in 0..N : g[n] \in S}
<1>13. \A n \in 0..N : n \in Good
  <2>1. 0 \in Good
    BY <1>2, <1>3, <1>12
  <2>2. ASSUME NEW n \in 1..N, n - 1 \in Good PROVE n \in Good
    <3>1. PICK l \in Lines : l = lines[n]
      BY <1>2
    <3>2. PICK s \in S : s = g[n - 1]
      BY <2>2
    <3>3. Movement(kind, s, l) \in [Items -> MovedItems]
      BY <1>3, MovementLemma
    <3>4. n \in 0..N
      BY <1>2
    <3> QED BY <1>3, <1>12, <3>1, <3>2, <3>3, <3>4
  <2> HIDE DEF Good
  <2> QED BY <1>2, <2>1, <2>2, Upwards
<1>14. g \in [0..N -> S]
  BY <1>11, <1>13
<1> QED BY <1>1, <1>3, <1>10, <1>12, <1>14 DEF AfterIs

\* What a purchase brings of an item is a quantity, and what it costs an amount.
LEMMA BringsType ==
  ASSUME NEW lines \in Seq(Lines)
  PROVE  Total(lines) \in Nat /\ \A i \in Items : Brings(lines, i) \in Nat
<1>1. DOMAIN lines = 1..Len(lines) /\ IsFiniteSet(DOMAIN lines)
  BY FS_Interval
<1>2. \A n \in DOMAIN lines : lines[n].total \in Nat /\ lines[n].base \in Nat
  <2>1. \A n \in DOMAIN lines : lines[n] \in Lines
    OBVIOUS
  <2> QED BY <2>1 DEF Lines
<1>3. Total(lines) \in Nat
  <2>1. PICK f : f = [n \in DOMAIN lines |-> lines[n].total]
    OBVIOUS
  <2>2. \A n \in DOMAIN lines : f[n] \in Nat
    BY <1>2, <2>1
  <2> QED BY <1>1, <2>1, <2>2, SumNat DEF Total
<1>4. ASSUME NEW i \in Items PROVE Brings(lines, i) \in Nat
  <2>1. PICK f : f = [n \in DOMAIN lines |-> IF lines[n].item = i THEN lines[n].base ELSE 0]
    OBVIOUS
  <2>2. \A n \in DOMAIN lines : f[n] \in Nat
    BY <1>2, <2>1
  <2> QED BY <1>1, <2>1, <2>2, SumNat DEF Brings
<1> QED BY <1>3, <1>4

\* Of every line, what it has of an item: its quantity, its total, and that it is one.
Bases(lines, i) == [n \in DOMAIN lines |-> IF lines[n].item = i THEN lines[n].base ELSE 0]
Totals(lines, i) == [n \in DOMAIN lines |-> IF lines[n].item = i THEN lines[n].total ELSE 0]
Ones(lines, i) == [n \in DOMAIN lines |-> IF lines[n].item = i THEN 1 ELSE 0]

\* Line by line they add up to what the purchase has of the item.
LEMMA LineSums ==
  ASSUME NEW lines \in Seq(Lines), NEW i \in Items
  PROVE  /\ Adds(Bases(lines, i), Len(lines)) /\ Adds(Totals(lines, i), Len(lines))
         /\ Adds(Ones(lines, i), Len(lines))
         /\ Brings(lines, i) = SumOver(Bases(lines, i), 1..Len(lines))
         /\ CostOf(lines, i) = SumOver(Totals(lines, i), 1..Len(lines))
         /\ Count(lines, i) = SumOver(Ones(lines, i), 1..Len(lines))
<1>1. PICK N : N = Len(lines)
  OBVIOUS
<1>2. N \in Nat /\ DOMAIN lines = 1..N /\ \A n \in 1..N : lines[n] \in Lines
  BY <1>1
<1>3. PICK b, t, o : b = Bases(lines, i) /\ t = Totals(lines, i) /\ o = Ones(lines, i)
  OBVIOUS
<1>4. \A n \in 1..N : b[n] \in Nat /\ t[n] \in Nat /\ o[n] \in Nat
  BY <1>2, <1>3 DEF Lines, Bases, Totals, Ones
<1>5. Adds(b, N) /\ Adds(t, N) /\ Adds(o, N)
  BY <1>2, <1>4, PrefixSum
<1>6. /\ Brings(lines, i) = SumOver(b, 1..N) /\ CostOf(lines, i) = SumOver(t, 1..N)
      /\ Count(lines, i) = SumOver(o, 1..N)
  BY <1>2, <1>3 DEF Brings, CostOf, Count, Bases, Totals, Ones
<1> QED BY <1>1, <1>3, <1>5, <1>6

\* After n lines an item has changed by what those lines have of it.
LEMMA AfterSums ==
  ASSUME NEW kind, NEW lines \in Seq(Lines), NEW items \in [Items -> MovedItems],
         NEW i \in Items
  PROVE  \A n \in 0..Len(lines) :
           After(kind, lines, items)[n][i].hand
             = items[i].hand + Change(kind, SumOver(Bases(lines, i), 1..n))
<1>1. PICK N, f, b : N = Len(lines) /\ f = After(kind, lines, items) /\ b = Bases(lines, i)
  OBVIOUS
<1>2. N \in Nat /\ DOMAIN lines = 1..N /\ \A n \in 1..N : lines[n] \in Lines
  BY <1>1
<1>3. Adds(b, N)
  BY <1>1, LineSums
<1>4. /\ f \in [0..N -> [Items -> MovedItems]] /\ f[0] = items
      /\ \A n \in 1..N : f[n] = Movement(kind, f[n - 1], lines[n])
  <2>1. AfterIs(kind, lines, items)
    BY AfterExists, Zenon
  <2> QED BY <1>1, <2>1 DEF AfterIs
<1>5. items[i].hand \in Int
  BY DEF MovedItems
<1> DEFINE Good == {n \in 0..N : f[n][i].hand = items[i].hand + Change(kind, SumOver(b, 1..n))}
<1>6. 0 \in Good
  <2>1. SumOver(b, 1..0) = 0
    BY <1>3 DEF Adds
  <2>2. f[0][i].hand = items[i].hand + Change(kind, 0)
    BY <1>4, <1>5 DEF Change
  <2>3. 0 \in 0..N
    BY <1>2
  <2> QED BY <2>1, <2>2, <2>3
<1>7. ASSUME NEW n \in 1..N, n - 1 \in Good PROVE n \in Good
  <2>1. PICK l \in Lines, s \in [Items -> MovedItems] : l = lines[n] /\ s = f[n - 1]
    BY <1>2, <1>4
  <2>2. f[n][i].hand = s[i].hand + (IF l.item = i THEN Change(kind, l.base) ELSE 0)
    <3>1. Shifts(kind, s, l)
      BY MovementLemma
    <3>2. s[i].hand \in Int
      BY DEF MovedItems
    <3> QED BY <1>4, <2>1, <3>1, <3>2 DEF Shifts
  <2>3. PICK x, y, e : x = SumOver(b, 1..(n - 1)) /\ y = SumOver(b, 1..n) /\ e = b[n]
    OBVIOUS
  <2>4. x \in Nat /\ e \in Nat /\ y = x + e
    <3>1. n - 1 \in 0..N
      BY <1>2
    <3> QED BY <1>3, <2>3, <3>1 DEF Adds
  <2>5. e = IF l.item = i THEN l.base ELSE 0
    BY <1>1, <1>2, <2>1, <2>3 DEF Bases
  <2>6. PICK p, q, r : p = items[i].hand /\ q = s[i].hand /\ r = f[n][i].hand
    OBVIOUS
  <2>7. p \in Int /\ q = p + Change(kind, x)
    BY <1>5, <1>7, <2>1, <2>3, <2>6
  <2>8. r = p + Change(kind, y)
    <3>1. CASE l.item = i
      <4>1. r = q + Change(kind, e)
        BY <2>2, <2>5, <2>6, <3>1
      <4> QED BY <2>4, <2>7, <4>1 DEF Change
    <3>2. CASE l.item # i
      <4>1. e = 0 /\ r = q + 0
        BY <2>2, <2>5, <2>6, <3>2
      <4> QED BY <2>4, <2>7, <4>1 DEF Change
    <3> QED BY <3>1, <3>2
  <2>9. n \in 0..N
    OBVIOUS
  <2> QED BY <2>3, <2>6, <2>8, <2>9
<1>8. \A n \in 0..N : n \in Good
  <2>1. \A n \in 1..N : n - 1 \in Good => n \in Good
    BY <1>7
  <2> HIDE DEF Good
  <2> QED BY <1>2, <1>6, <2>1, Upwards
<1> QED BY <1>1, <1>8

\* The items when all lines have moved: each has as much more, or less, as the lines
\* have of it; what is only received stays on stock.
LEMMA AfterLinesLemma ==
  ASSUME NEW kind, NEW lines \in Seq(Lines), item \in [Items -> MovedItems]
  PROVE  /\ AfterLines(kind, lines) \in [Items -> MovedItems]
         /\ \A i \in Items : AfterLines(kind, lines)[i].hand
                               = item[i].hand + Change(kind, Brings(lines, i))
<1>1. AfterLines(kind, lines) = After(kind, lines, item)[Len(lines)]
  BY DEF AfterLines, After, Movement
<1>2. Len(lines) \in 0..Len(lines)
  OBVIOUS
<1>3. AfterLines(kind, lines) \in [Items -> MovedItems]
  <2>1. AfterIs(kind, lines, item)
    BY AfterExists, Zenon
  <2> QED BY <1>1, <1>2, <2>1 DEF AfterIs
<1>4. ASSUME NEW i \in Items
      PROVE  AfterLines(kind, lines)[i].hand = item[i].hand + Change(kind, Brings(lines, i))
  <2>1. Brings(lines, i) = SumOver(Bases(lines, i), 1..Len(lines))
    BY LineSums
  <2> QED BY <1>1, <1>2, <2>1, AfterSums
<1> QED BY <1>3, <1>4

-----------------------------------------------------------------------------
\* What stock and money come from

Rows == [status : Statuses, lines : Seq(Lines)]
ItemRows == [unit : Units, hand : Nat, cost : Nat \cup {Unknown}, moved : SUBSET Movements]

\* What a purchase stands for, and all purchases together.
Worth(row, i) == IF row.status = "confirmed" THEN Brings(row.lines, i) ELSE 0
Cost(row) == IF row.status = "confirmed" THEN Total(row.lines) ELSE 0
BroughtBy(rows, i) == SumOver([p \in Purchases |-> Worth(rows[p], i)], Purchases)
PaidBy(rows) == SumOver([p \in Purchases |-> Cost(rows[p])], Purchases)

\* When one purchase changes, the sums change by what it stands for.
LEMMA RowChange ==
  ASSUME NEW rows \in [Purchases -> Rows], NEW new \in [Purchases -> Rows],
         NEW p \in Purchases, \A q \in Purchases : q # p => new[q] = rows[q]
  PROVE  /\ PaidBy(rows) \in Int /\ Cost(rows[p]) \in Nat /\ Cost(new[p]) \in Nat
         /\ PaidBy(new) = PaidBy(rows) - Cost(rows[p]) + Cost(new[p])
         /\ \A i \in Items :
              /\ BroughtBy(rows, i) \in Int
              /\ Worth(rows[p], i) \in Nat /\ Worth(new[p], i) \in Nat
              /\ BroughtBy(new, i) = BroughtBy(rows, i) - Worth(rows[p], i) + Worth(new[p], i)
<1>1. IsFiniteSet(Purchases)
  BY InventoryAssumption
<1>2. ASSUME NEW row \in Rows
      PROVE  Cost(row) \in Nat /\ \A i \in Items : Worth(row, i) \in Nat
  <2>1. row.lines \in Seq(Lines)
    BY DEF Rows
  <2> QED BY <2>1, BringsType DEF Cost, Worth
<1>3. /\ PaidBy(rows) \in Int
      /\ PaidBy(new) = PaidBy(rows) - Cost(rows[p]) + Cost(new[p])
  <2>1. PICK f, g : /\ f = [q \in Purchases |-> Cost(rows[q])]
                    /\ g = [q \in Purchases |-> Cost(new[q])]
    OBVIOUS
  <2>2. \A q \in Purchases : f[q] \in Int /\ g[q] \in Int
    BY <1>2, <2>1
  <2>3. \A q \in Purchases \ {p} : g[q] = f[q]
    BY <2>1
  <2>4. SumOver(g, Purchases) = SumOver(f, Purchases) - f[p] + g[p]
    BY <1>1, <2>2, <2>3, SumChange
  <2>5. SumOver(f, Purchases) \in Int
    BY <1>1, <2>2, SumType
  <2> QED BY <2>1, <2>4, <2>5 DEF PaidBy
<1>4. ASSUME NEW i \in Items
      PROVE  /\ BroughtBy(rows, i) \in Int
             /\ BroughtBy(new, i) = BroughtBy(rows, i) - Worth(rows[p], i) + Worth(new[p], i)
  <2>1. PICK f, g : /\ f = [q \in Purchases |-> Worth(rows[q], i)]
                    /\ g = [q \in Purchases |-> Worth(new[q], i)]
    OBVIOUS
  <2>2. \A q \in Purchases : f[q] \in Int /\ g[q] \in Int
    BY <1>2, <2>1
  <2>3. \A q \in Purchases \ {p} : g[q] = f[q]
    BY <2>1
  <2>4. SumOver(g, Purchases) = SumOver(f, Purchases) - f[p] + g[p]
    BY <1>1, <2>2, <2>3, SumChange
  <2>5. SumOver(f, Purchases) \in Int
    BY <1>1, <2>2, SumType
  <2> QED BY <2>1, <2>4, <2>5 DEF BroughtBy
<1> QED BY <1>2, <1>3, <1>4

\* Stock and money are explained by the purchases as they are.
LEMMA ExplainedLemma ==
  /\ StockExplained <=> /\ \A i \in Items : item[i].hand = used[i] + BroughtBy(purchase, i)
                        /\ admin = Float - PaidBy(purchase)
  /\ StockExplained' <=> /\ \A i \in Items : item'[i].hand = used'[i] + BroughtBy(purchase', i)
                         /\ admin' = Float - PaidBy(purchase')
BY DEF StockExplained, Brought, Paid, Confirmed, BroughtBy, PaidBy, Worth, Cost

\* The lines of a purchase, in the units its items have.
LEMMA EnteredType ==
  ASSUME item \in [Items -> ItemRows], NEW p \in Purchases, Enterable(p)
  PROVE  Entered(p) \in Seq(Lines)
<1>1. Order[p] \in Seq(OrderLines)
  BY InventoryAssumption
<1>2. ASSUME NEW n \in DOMAIN Order[p] PROVE Entered(p)[n] \in Lines
  <2>1. PICK o, unit : o = Order[p][n] /\ unit = item[o.item].unit
    OBVIOUS
  <2>2. o \in OrderLines
    BY <1>1, <2>1
  <2>3. /\ o.item \in Items /\ o.quantity \in Nat /\ o.unit \in Units
        /\ o.total \in Nat \ {0}
    BY <2>2 DEF OrderLines
  <2>4. unit \in Units
    BY <2>1, <2>3 DEF ItemRows
  <2>5. PICK base : base = ToBase(o.quantity, o.unit, unit)
    OBVIOUS
  <2>6. base \in Nat \ {0}
    <3>1. base \in Nat
      BY <2>3, <2>4, <2>5, ToBaseType
    <3>2. base > 0
      BY <2>1, <2>5 DEF Enterable
    <3> QED BY <3>1, <3>2
  <2>7. PICK cost \in Nat : cost = UnitCost(o.total, base)
    <3>1. 1000 * o.total \in Nat
      BY <2>3
    <3> QED BY <2>6, <3>1, RoundedNat DEF UnitCost
  <2>8. Entered(p)[n] = [item |-> o.item, base |-> base, cost |-> UnitCost(o.total, base),
                         total |-> o.total]
    BY <2>1, <2>5 DEF Entered
  <2> QED BY <2>3, <2>6, <2>7, <2>8 DEF Lines
<1>3. PICK N, e : N = Len(Order[p]) /\ e = Entered(p)
  OBVIOUS
<1>4. N \in Nat /\ DOMAIN Order[p] = 1..N
  BY <1>1, <1>3
<1>5. e = [n \in 1..N |-> e[n]]
  BY <1>3, <1>4 DEF Entered
<1>6. e \in [1..N -> Lines]
  BY <1>2, <1>3, <1>4, <1>5
<1>7. Seq(Lines) = UNION {[1..n -> Lines] : n \in Nat}
  BY SeqDef
<1> QED BY <1>3, <1>4, <1>6, <1>7

-----------------------------------------------------------------------------
\* The money

\* Who puts lines on stock has found the money for them, and holds the wallet.
Taken(t) ==
  t.pc = "item" /\ t.kind \in {"create", "confirm"} =>
    "wallet" \in t.locks /\ admin >= Total(t.lines)

\* One transaction at a time does.
OneWallet ==
  \A v, w \in Workers : v # w => ~("wallet" \in tx[v].locks /\ "wallet" \in tx[w].locks)

Wallet == OneWallet /\ \A w \in Workers : Taken(tx[w])

StoreInv == Inv /\ TypeOK /\ Wallet /\ StockExplained

\* A transaction goes on as a transaction.
LEMMA ContinueType ==
  ASSUME tx \in [Workers -> Transactions], NEW w \in Workers, NEW t \in Transactions,
         Continue(w, t)
  PROVE  /\ tx' \in [Workers -> Transactions] /\ tx'[w] = t
         /\ \A v \in Workers : v # w => tx'[v] = tx[v]
BY DEF Continue

\* The wallet stays one transaction's when others go on, and it keeps the money it found.
LEMMA WalletLemma ==
  ASSUME StoreInv, NEW w \in Workers, NEW t \in Transactions, Continue(w, t),
         Taken(t)', admin' \in Int,
         "wallet" \in t.locks => "wallet" \in tx[w].locks \/ Free(w, "wallet"),
         admin' >= admin \/ "wallet" \in tx[w].locks
  PROVE  Wallet'
<1>1. tx \in [Workers -> Transactions] /\ admin \in Nat
  BY DEF StoreInv, TypeOK
<1>2. /\ tx'[w] = t
      /\ \A v \in Workers : v # w => tx'[v] = tx[v]
  BY <1>1, ContinueType
<1>3. OneWallet'
  BY <1>2 DEF OneWallet, StoreInv, Wallet, Free
<1>4. ASSUME NEW v \in Workers, v # w PROVE Taken(tx[v])'
  <2>1. Taken(tx[v]) /\ tx'[v] = tx[v]
    BY <1>2, <1>4 DEF StoreInv, Wallet
  <2>2. ASSUME tx[v].pc = "item", tx[v].kind \in {"create", "confirm"}
        PROVE  "wallet" \in tx[v].locks /\ admin' >= Total(tx[v].lines)
    <3>1. "wallet" \in tx[v].locks /\ admin >= Total(tx[v].lines)
      BY <2>1, <2>2 DEF Taken
    <3>2. "wallet" \notin tx[w].locks
      BY <1>4, <3>1 DEF StoreInv, Wallet, OneWallet
    <3>3. PICK sum : sum = Total(tx[v].lines)
      OBVIOUS
    <3>4. sum \in Nat
      <4>1. tx[v].lines \in Seq(Lines)
        BY <1>1 DEF Transactions
      <4> QED BY <3>3, <4>1, BringsType
    <3> QED BY <1>1, <3>1, <3>2, <3>3, <3>4
  <2> QED BY <2>1, <2>2 DEF Taken
<1>5. Taken(tx[w])'
  BY <1>2 DEF Taken
<1> QED BY <1>3, <1>4, <1>5 DEF Wallet

\* No transaction at all is one, and holds nothing.
LEMMA IdleType ==
  /\ Idle \in Transactions /\ Idle.pc = "idle" /\ Idle.locks = {}
  /\ Taken(Idle) /\ Taken(Idle)'
<1>1. /\ Idle.pc = "idle" /\ Idle.locks = {} /\ Idle.kind = "create" /\ Idle.next = 1
      /\ Idle.purchase = NoPurchase /\ Idle.item = NoItem /\ Idle.lines = <<>>
  BY DEF Idle
<1>2. <<>> \in Seq(Lines)
  OBVIOUS
<1>3. Idle \in Transactions
  BY <1>2 DEF Idle, Transactions
<1> QED BY <1>1, <1>3 DEF Taken

\* A transaction that goes on and leaves the store as it is.
LEMMA GoesOn ==
  ASSUME StoreInv, NEW w \in Workers, NEW t \in Transactions, Continue(w, t),
         UNCHANGED stock, entries' \in 0..MaxEntries, Taken(t),
         "wallet" \in t.locks => "wallet" \in tx[w].locks \/ Free(w, "wallet")
  PROVE  TypeOK' /\ Wallet' /\ StockExplained'
<1>1. TypeOK /\ StockExplained /\ admin \in Nat
  BY DEF StoreInv, TypeOK
<1>2. UNCHANGED <<item, purchase, admin, used, weighed>>
  BY DEF stock
<1>3. Taken(t)'
  BY <1>2 DEF Taken
<1>4. admin' \in Int /\ admin' >= admin
  BY <1>1, <1>2
<1>5. Wallet'
  BY <1>3, <1>4, WalletLemma
<1>6. tx' \in [Workers -> Transactions]
  BY <1>1, ContinueType DEF TypeOK
<1>7. TypeOK'
  BY <1>1, <1>2, <1>6 DEF TypeOK
<1>8. StockExplained'
  BY <1>1, <1>2, ExplainedLemma
<1> QED BY <1>5, <1>7, <1>8

\* A transaction that ends.
LEMMA GivesUp ==
  ASSUME StoreInv, NEW w \in Workers, Continue(w, Idle), UNCHANGED stock, UNCHANGED entries
  PROVE  TypeOK' /\ Wallet' /\ StockExplained'
<1>1. entries' \in 0..MaxEntries
  BY DEF StoreInv, TypeOK
<1> QED BY <1>1, IdleType, GoesOn

-----------------------------------------------------------------------------
\* The steps of the store

\* A purchase that is taken up.
LEMMA TakeUpStore ==
  ASSUME StoreInv, NEW w \in Workers, NEW p \in Purchases,
         CreateConfirmed(w, p) \/ Confirm(w, p) \/ Cancel(w, p)
  PROVE  TypeOK' /\ Wallet' /\ StockExplained'
<1>1. /\ item \in [Items -> ItemRows] /\ purchase[p] \in Rows /\ entries \in 0..MaxEntries
      /\ p # "wallet"
  BY InventoryAssumption DEF StoreInv, TypeOK, ItemRows, Rows
<1>2. UNCHANGED stock /\ UNCHANGED entries
  BY DEF CreateConfirmed, Confirm, Cancel
<1>3. ASSUME NEW kind \in {"create", "confirm", "cancel"}, NEW pc \in {"item", "wallet"},
             NEW lines \in Seq(Lines), pc = "item" => kind = "cancel",
             Continue(w, [Idle EXCEPT !.kind = kind, !.pc = pc, !.purchase = p,
                                      !.lines = lines, !.locks = {p}])
      PROVE  TypeOK' /\ Wallet' /\ StockExplained'
  <2>1. PICK t : t = [Idle EXCEPT !.kind = kind, !.pc = pc, !.purchase = p,
                                  !.lines = lines, !.locks = {p}]
    OBVIOUS
  <2>2. t \in Transactions /\ t.kind = kind /\ t.pc = pc /\ t.locks = {p}
    <3>1. {p} \in SUBSET Locks
      BY DEF Locks
    <3>2. t = [kind |-> kind, pc |-> pc, purchase |-> p, lines |-> lines, next |-> 1,
               item |-> NoItem, locks |-> {p}]
      BY <2>1 DEF Idle
    <3> QED BY <3>1, <3>2 DEF Transactions
  <2>3. Taken(t) /\ "wallet" \notin t.locks
    BY <1>1, <1>3, <2>2 DEF Taken
  <2> QED BY <1>1, <1>2, <1>3, <2>1, <2>2, <2>3, GoesOn
<1>4. CASE CreateConfirmed(w, p)
  <2>1. Entered(p) \in Seq(Lines)
    BY <1>1, <1>4, EnteredType DEF CreateConfirmed
  <2> QED BY <1>3, <1>4, <2>1 DEF CreateConfirmed
<1>5. CASE Confirm(w, p)
  BY <1>1, <1>3, <1>5 DEF Confirm, Rows
<1>6. CASE Cancel(w, p)
  BY <1>1, <1>3, <1>6 DEF Cancel, Rows
<1> QED BY <1>4, <1>5, <1>6

\* The money is found while the wallet is locked.
LEMMA TakeMoneyStore ==
  ASSUME StoreInv, NEW w \in Workers, TakeMoney(w)
  PROVE  TypeOK' /\ Wallet' /\ StockExplained'
<1>1. UNCHANGED stock /\ UNCHANGED entries /\ entries' \in 0..MaxEntries
  BY DEF TakeMoney, StoreInv, TypeOK
<1>2. CASE admin >= Total(tx[w].lines)
  <2>1. PICK x, t : x = tx[w] /\ t = [x EXCEPT !.pc = "item", !.locks = @ \cup {"wallet"}]
    OBVIOUS
  <2>2. x \in Transactions
    BY <2>1 DEF StoreInv, TypeOK
  <2>3. /\ t \in Transactions /\ t.lines = x.lines /\ t.locks = x.locks \cup {"wallet"}
    BY <2>1, <2>2 DEF Transactions, Locks
  <2>4. Taken(t)
    BY <1>2, <2>1, <2>3 DEF Taken
  <2>5. Continue(w, t) /\ Free(w, "wallet")
    BY <1>2, <2>1 DEF TakeMoney
  <2> QED BY <1>1, <2>3, <2>4, <2>5, GoesOn
<1>3. CASE ~(admin >= Total(tx[w].lines))
  BY <1>1, <1>3, GivesUp DEF TakeMoney
<1> QED BY <1>2, <1>3

\* An item is locked.
LEMMA TakeItemStore ==
  ASSUME StoreInv, NEW w \in Workers, TakeItem(w)
  PROVE  TypeOK' /\ Wallet' /\ StockExplained'
<1>1. UNCHANGED stock /\ UNCHANGED entries /\ entries' \in 0..MaxEntries
  BY DEF TakeItem, StoreInv, TypeOK
<1>2. PICK x, n, i : x = tx[w] /\ n = x.next /\ i = Line(w).item
  OBVIOUS
<1>3. x \in Transactions /\ Taken(x)
  BY <1>2 DEF StoreInv, TypeOK, Wallet
<1>4. CASE ~Lacking(w)
  <2>1. x.lines \in Seq(Lines) /\ n \in Nat \ {0} /\ n <= Len(x.lines)
    BY <1>2, <1>3 DEF TakeItem, Transactions
  <2>2. x.lines[n] \in Lines
    BY <2>1
  <2>3. i \in Items /\ i # "wallet"
    BY <1>2, <2>2, InventoryAssumption DEF Line, Lines
  <2>4. PICK pc : pc = IF x.kind = "cancel" /\ n = Len(x.lines) THEN "wallet" ELSE "item"
    OBVIOUS
  <2>5. PICK t : t = [x EXCEPT !.next = n + 1, !.locks = @ \cup {i}, !.pc = pc]
    OBVIOUS
  <2>6. /\ t.kind = x.kind /\ t.lines = x.lines /\ t.locks = x.locks \cup {i} /\ t.pc = pc
        /\ t \in Transactions
    <3>1. n + 1 \in Nat \ {0} /\ pc \in {"wallet", "item"}
      BY <2>1, <2>4
    <3>2. PICK locks : locks = x.locks \cup {i}
      OBVIOUS
    <3>3. locks \in SUBSET Locks
      BY <1>3, <2>3, <3>2 DEF Transactions, Locks
    <3>4. t = [x EXCEPT !.next = n + 1, !.locks = locks, !.pc = pc]
      BY <2>5, <3>2
    <3>5. PICK m : m = n + 1
      OBVIOUS
    <3> QED BY <1>3, <3>1, <3>2, <3>3, <3>4, <3>5 DEF Transactions
  <2>7. Taken(t)
    <3>1. x.pc = "item"
      BY <1>2 DEF TakeItem
    <3> QED BY <1>3, <2>6, <3>1 DEF Taken
  <2>8. "wallet" \in t.locks => "wallet" \in x.locks
    BY <2>3, <2>6
  <2>9. Continue(w, t)
    <3>1. Continue(w, [tx[w] EXCEPT !.next = @ + 1, !.locks = @ \cup {Line(w).item},
            !.pc = IF tx[w].kind = "cancel" /\ tx[w].next = Len(tx[w].lines)
                   THEN "wallet" ELSE "item"])
      BY <1>4 DEF TakeItem
    <3> QED BY <1>2, <2>4, <2>5, <3>1
  <2> QED BY <1>1, <1>2, <2>6, <2>7, <2>8, <2>9, GoesOn
<1>5. CASE Lacking(w)
  BY <1>1, <1>5, GivesUp DEF TakeItem
<1> QED BY <1>4, <1>5

\* A transaction that ends with its purchase in a new row.
LEMMA EndsWith ==
  ASSUME StoreInv, NEW w \in Workers, Continue(w, Idle), UNCHANGED <<used, weighed, entries>>,
         NEW p \in Purchases, NEW row \in Rows,
         purchase' = [purchase EXCEPT ![p] = row],
         item' \in [Items -> ItemRows], admin' \in Nat,
         admin' >= admin \/ "wallet" \in tx[w].locks,
         admin' = admin + Cost(purchase[p]) - Cost(row),
         \A i \in Items : item'[i].hand
                            = item[i].hand - Worth(purchase[p], i) + Worth(row, i)
  PROVE  TypeOK' /\ Wallet' /\ StockExplained'
<1>1. /\ purchase \in [Purchases -> Rows] /\ TypeOK /\ StockExplained
      /\ tx \in [Workers -> Transactions] /\ Float \in Int /\ \A i \in Items : used[i] \in Int
  BY InventoryAssumption DEF StoreInv, TypeOK, Rows
<1>2. /\ purchase' \in [Purchases -> Rows] /\ purchase'[p] = row
      /\ \A q \in Purchases : q # p => purchase'[q] = purchase[q]
  BY <1>1
<1>3. tx' \in [Workers -> Transactions]
  BY <1>1, IdleType, ContinueType
<1>4. TypeOK'
  BY <1>1, <1>2, <1>3 DEF TypeOK, Rows, ItemRows
<1>5. Wallet'
  <2>1. Taken(Idle)' /\ "wallet" \notin Idle.locks /\ admin' \in Int
    BY IdleType
  <2> QED BY <2>1, IdleType, WalletLemma
<1>6. PICK rows, new : rows = purchase /\ new = purchase'
  OBVIOUS
<1>7. /\ PaidBy(rows) \in Int /\ Cost(rows[p]) \in Nat /\ Cost(row) \in Nat
      /\ PaidBy(new) = PaidBy(rows) - Cost(rows[p]) + Cost(row)
      /\ \A i \in Items :
           /\ BroughtBy(rows, i) \in Int
           /\ Worth(rows[p], i) \in Nat /\ Worth(row, i) \in Nat
           /\ BroughtBy(new, i) = BroughtBy(rows, i) - Worth(rows[p], i) + Worth(row, i)
  <2>1. /\ rows \in [Purchases -> Rows] /\ new \in [Purchases -> Rows]
        /\ \A q \in Purchases : q # p => new[q] = rows[q]
    BY <1>1, <1>2, <1>6
  <2>2. new[p] = row
    BY <1>2, <1>6
  <2>3. /\ PaidBy(rows) \in Int /\ Cost(rows[p]) \in Nat /\ Cost(new[p]) \in Nat
        /\ PaidBy(new) = PaidBy(rows) - Cost(rows[p]) + Cost(new[p])
        /\ \A i \in Items :
             /\ BroughtBy(rows, i) \in Int
             /\ Worth(rows[p], i) \in Nat /\ Worth(new[p], i) \in Nat
             /\ BroughtBy(new, i) = BroughtBy(rows, i) - Worth(rows[p], i) + Worth(new[p], i)
    BY <2>1, RowChange, Zenon
  <2> QED BY <2>2, <2>3
<1>8. admin' = Float - PaidBy(new)
  <2>1. admin = Float - PaidBy(rows)
    BY <1>1, <1>6, ExplainedLemma
  <2>2. PICK a, b, c, d : a = PaidBy(rows) /\ b = Cost(rows[p]) /\ c = Cost(row) /\ d = PaidBy(new)
    OBVIOUS
  <2> QED BY <1>1, <1>6, <1>7, <2>1, <2>2
<1>9. ASSUME NEW i \in Items PROVE item'[i].hand = used'[i] + BroughtBy(new, i)
  <2>1. item[i].hand = used[i] + BroughtBy(rows, i)
    BY <1>1, <1>6, ExplainedLemma
  <2>2. PICK a, b, c, d : /\ a = BroughtBy(rows, i) /\ b = Worth(rows[p], i)
                          /\ c = Worth(row, i) /\ d = BroughtBy(new, i)
    OBVIOUS
  <2>3. a \in Int /\ b \in Nat /\ c \in Nat /\ d = a - b + c
    BY <1>7, <2>2
  <2>4. item'[i].hand = item[i].hand - b + c
    BY <1>6, <2>2
  <2>5. used[i] \in Int /\ used'[i] = used[i]
    BY <1>1
  <2> QED BY <2>1, <2>2, <2>3, <2>4, <2>5
<1>10. StockExplained'
  BY <1>6, <1>8, <1>9, ExplainedLemma
<1> QED BY <1>4, <1>5, <1>10

\* The purchase of a transaction at its end, as it has found it.
LEMMA FoundLemma ==
  ASSUME StoreInv, NEW w \in Workers, tx[w].pc # "idle", tx[w].kind # "unit"
  PROVE  /\ tx[w].purchase \in Purchases /\ tx[w].lines \in Seq(Lines)
         /\ purchase[tx[w].purchase] \in Rows
         /\ tx[w].kind \in {"create", "confirm"} => purchase[tx[w].purchase].status # "confirmed"
         /\ tx[w].kind = "cancel" =>
              /\ purchase[tx[w].purchase].status = "confirmed"
              /\ purchase[tx[w].purchase].lines = tx[w].lines
<1>1. tx[w] \in Transactions
  BY DEF StoreInv, TypeOK
<1>2. tx[w].purchase \in Purchases /\ tx[w].lines \in Seq(Lines)
  BY <1>1 DEF StoreInv, Inv, Apart, Transactions
<1>3. purchase[tx[w].purchase] \in Rows
  BY <1>2 DEF StoreInv, TypeOK, Rows
<1>4. Found(tx[w])
  BY <1>2, InventoryAssumption DEF StoreInv, Inv, Apart
<1> QED BY <1>2, <1>3, <1>4 DEF Found

\* The lines of a confirmed purchase go on stock, and its money is paid.
LEMMA FinishConfirmStore ==
  ASSUME StoreInv, NEW w \in Workers, FinishConfirm(w)
  PROVE  TypeOK' /\ Wallet' /\ StockExplained'
<1>1. PICK x, p, lines : x = tx[w] /\ p = x.purchase /\ lines = x.lines
  OBVIOUS
<1>2. x.kind \in {"create", "confirm"} /\ x.pc = "item"
  BY <1>1 DEF FinishConfirm
<1>3. /\ p \in Purchases /\ lines \in Seq(Lines) /\ purchase[p] \in Rows
      /\ purchase[p].status # "confirmed"
  BY <1>1, <1>2, FoundLemma
<1>4. Taken(x)
  BY <1>1 DEF StoreInv, Wallet
<1>5. PICK row : row = [status |-> "confirmed", lines |-> lines]
  OBVIOUS
<1>6. row \in Rows /\ row.status = "confirmed" /\ row.lines = lines
  BY <1>3, <1>5 DEF Rows, Statuses
<1>7. /\ item' = AfterLines(x.kind, lines) /\ admin' = admin - Total(lines)
      /\ purchase' = [purchase EXCEPT ![p] = row] /\ Continue(w, Idle)
      /\ UNCHANGED <<used, weighed, entries>>
  BY <1>1, <1>5 DEF FinishConfirm
<1>8. Total(lines) \in Nat /\ \A i \in Items : Brings(lines, i) \in Nat
  BY <1>3, BringsType
<1>9. \A i \in Items : item[i] \in ItemRows /\ item[i].hand \in Nat
  BY DEF StoreInv, TypeOK, ItemRows
<1>10. /\ item' \in [Items -> MovedItems]
       /\ \A i \in Items : item'[i].hand = item[i].hand + Brings(lines, i)
  <2>1. item \in [Items -> MovedItems]
    BY DEF StoreInv, TypeOK, MovedItems
  <2>2. /\ item' \in [Items -> MovedItems]
        /\ \A i \in Items : item'[i].hand = item[i].hand + Change(x.kind, Brings(lines, i))
    BY <1>3, <1>7, <2>1, AfterLinesLemma
  <2>3. \A b : Change(x.kind, b) = b
    BY <1>2 DEF Change
  <2> QED BY <2>2, <2>3
<1>11. item' \in [Items -> ItemRows]
  <2>1. ASSUME NEW i \in Items PROVE item'[i] \in ItemRows
    <3>1. item'[i].hand \in Nat
      BY <1>8, <1>9, <1>10
    <3>2. item'[i] \in MovedItems
      BY <1>10
    <3> QED BY <3>1, <3>2 DEF ItemRows, MovedItems
  <2> QED BY <1>10, <2>1
<1>12. PICK sum : sum = Total(lines)
  OBVIOUS
<1>13. admin' \in Nat /\ "wallet" \in tx[w].locks
  <2>1. admin \in Nat /\ admin >= sum /\ sum \in Nat /\ admin' = admin - sum
    BY <1>1, <1>2, <1>4, <1>7, <1>8, <1>12 DEF StoreInv, TypeOK, Taken
  <2> QED BY <1>1, <1>2, <1>4, <2>1 DEF Taken
<1>14. admin' = admin + Cost(purchase[p]) - Cost(row)
  <2>1. Cost(purchase[p]) = 0 /\ Cost(row) = sum
    BY <1>3, <1>6, <1>12 DEF Cost
  <2>2. admin \in Nat /\ sum \in Nat
    BY <1>8, <1>12 DEF StoreInv, TypeOK
  <2> QED BY <1>7, <1>12, <2>1, <2>2
<1>15. \A i \in Items : item'[i].hand = item[i].hand - Worth(purchase[p], i) + Worth(row, i)
  <2>1. \A i \in Items : Worth(purchase[p], i) = 0 /\ Worth(row, i) = Brings(lines, i)
    BY <1>3, <1>6 DEF Worth
  <2> QED BY <1>8, <1>9, <1>10, <2>1
<1> QED BY <1>3, <1>6, <1>7, <1>11, <1>13, <1>14, <1>15, EndsWith

\* The lines of a cancelled purchase leave stock when there is as much, and its money
\* comes back; otherwise nothing happens.
LEMMA FinishCancelStore ==
  ASSUME StoreInv, NEW w \in Workers, FinishCancel(w)
  PROVE  TypeOK' /\ Wallet' /\ StockExplained'
<1>1. PICK x, p, lines : x = tx[w] /\ p = x.purchase /\ lines = x.lines
  OBVIOUS
<1>2. x.kind = "cancel" /\ x.pc = "wallet"
  BY <1>1 DEF FinishCancel
<1>3. /\ p \in Purchases /\ lines \in Seq(Lines) /\ purchase[p] \in Rows
      /\ purchase[p].status = "confirmed" /\ purchase[p].lines = lines
  BY <1>1, <1>2, FoundLemma
<1>4. PICK left : left = AfterLines("cancel", lines)
  OBVIOUS
<1>5. Continue(w, Idle) /\ UNCHANGED <<used, weighed, entries>>
  BY DEF FinishCancel
<1>6. CASE \A i \in Items : left[i].hand >= 0
  <2>1. /\ item' = left /\ admin' = admin + Total(lines)
        /\ purchase' = [purchase EXCEPT ![p].status = "cancelled"]
    BY <1>1, <1>4, <1>6 DEF FinishCancel
  <2>2. PICK row : row = [status |-> "cancelled", lines |-> lines]
    OBVIOUS
  <2>3. row \in Rows /\ row.status = "cancelled"
    BY <1>3, <2>2 DEF Rows, Statuses
  <2>4. purchase' = [purchase EXCEPT ![p] = row]
    <3>1. [purchase[p] EXCEPT !.status = "cancelled"] = row
      BY <1>3, <2>2 DEF Rows
    <3> QED BY <2>1, <3>1
  <2>5. Total(lines) \in Nat /\ \A i \in Items : Brings(lines, i) \in Nat
    BY <1>3, BringsType
  <2>6. \A i \in Items : item[i].hand \in Nat
    BY DEF StoreInv, TypeOK
  <2>7. /\ left \in [Items -> MovedItems]
        /\ \A i \in Items : left[i].hand = item[i].hand - Brings(lines, i)
    <3>1. item \in [Items -> MovedItems]
      BY DEF StoreInv, TypeOK, MovedItems
    <3>2. /\ left \in [Items -> MovedItems]
          /\ \A i \in Items : left[i].hand = item[i].hand + Change("cancel", Brings(lines, i))
      BY <1>3, <1>4, <3>1, AfterLinesLemma
    <3>3. \A i \in Items : Change("cancel", Brings(lines, i)) = -Brings(lines, i)
      BY DEF Change
    <3> QED BY <2>5, <2>6, <3>2, <3>3
  <2>8. item' \in [Items -> ItemRows]
    <3>1. ASSUME NEW i \in Items PROVE left[i] \in ItemRows
      <4>1. left[i] \in MovedItems /\ left[i].hand >= 0
        BY <1>6, <2>7
      <4> QED BY <4>1 DEF ItemRows, MovedItems
    <3> QED BY <2>1, <2>7, <3>1
  <2>9. PICK sum : sum = Total(lines)
    OBVIOUS
  <2>10. admin' \in Nat /\ admin' >= admin /\ admin \in Nat /\ sum \in Nat
    BY <2>1, <2>5, <2>9 DEF StoreInv, TypeOK
  <2>11. admin' = admin + Cost(purchase[p]) - Cost(row)
    <3>1. Cost(purchase[p]) = sum /\ Cost(row) = 0
      BY <1>3, <2>3, <2>9 DEF Cost
    <3> QED BY <2>1, <2>9, <2>10, <3>1
  <2>12. \A i \in Items : item'[i].hand = item[i].hand - Worth(purchase[p], i) + Worth(row, i)
    <3>1. \A i \in Items : Worth(purchase[p], i) = Brings(lines, i) /\ Worth(row, i) = 0
      BY <1>3, <2>3 DEF Worth
    <3> QED BY <2>1, <2>5, <2>6, <2>7, <3>1
  <2> QED BY <1>3, <1>5, <2>3, <2>4, <2>8, <2>10, <2>11, <2>12, EndsWith
<1>7. CASE ~(\A i \in Items : left[i].hand >= 0)
  <2>1. UNCHANGED stock
    BY <1>1, <1>4, <1>7 DEF FinishCancel, stock
  <2> QED BY <1>5, <2>1, GivesUp
<1> QED BY <1>6, <1>7

\* A draft that is written or withdrawn stands for nothing.
LEMMA DraftStore ==
  ASSUME StoreInv, NEW p \in Purchases, Draft(p) \/ CancelDraft(p)
  PROVE  TypeOK' /\ Wallet' /\ StockExplained'
<1>1. /\ item \in [Items -> ItemRows] /\ purchase \in [Purchases -> Rows]
      /\ StockExplained /\ TypeOK /\ Wallet /\ admin \in Nat
  BY DEF StoreInv, TypeOK, ItemRows, Rows
<1>2. UNCHANGED <<item, admin, used, weighed, tx, entries>>
  BY DEF Draft, CancelDraft
<1>3. PICK row \in Rows : /\ purchase' = [purchase EXCEPT ![p] = row]
                          /\ row.status # "confirmed" /\ purchase[p].status # "confirmed"
  <2>1. CASE Draft(p)
    <3>1. Entered(p) \in Seq(Lines)
      BY <1>1, <2>1, EnteredType DEF Draft
    <3>2. [status |-> "draft", lines |-> Entered(p)] \in Rows
      BY <3>1 DEF Rows, Statuses
    <3> QED BY <2>1, <3>2 DEF Draft
  <2>2. CASE CancelDraft(p)
    <3>1. purchase[p] \in Rows
      BY <1>1
    <3>2. [purchase[p] EXCEPT !.status = "cancelled"] \in Rows
      BY <3>1 DEF Rows, Statuses
    <3>3. [purchase[p] EXCEPT !.status = "cancelled"].status = "cancelled"
      BY <3>1 DEF Rows
    <3>4. purchase' = [purchase EXCEPT ![p] = [purchase[p] EXCEPT !.status = "cancelled"]]
      BY <2>2 DEF CancelDraft
    <3> QED BY <2>2, <3>2, <3>3, <3>4 DEF CancelDraft
  <2> QED BY <2>1, <2>2
<1>4. PICK rows, new : rows = purchase /\ new = purchase'
  OBVIOUS
<1>5. /\ rows \in [Purchases -> Rows] /\ new \in [Purchases -> Rows] /\ new[p] = row
      /\ \A q \in Purchases : q # p => new[q] = rows[q]
  BY <1>1, <1>3, <1>4
<1>6. /\ PaidBy(rows) \in Int /\ Cost(rows[p]) \in Nat /\ Cost(new[p]) \in Nat
      /\ PaidBy(new) = PaidBy(rows) - Cost(rows[p]) + Cost(new[p])
      /\ \A i \in Items :
           /\ BroughtBy(rows, i) \in Int
           /\ Worth(rows[p], i) \in Nat /\ Worth(new[p], i) \in Nat
           /\ BroughtBy(new, i) = BroughtBy(rows, i) - Worth(rows[p], i) + Worth(new[p], i)
  BY <1>5, RowChange, Zenon
<1>7. /\ Cost(rows[p]) = 0 /\ Cost(new[p]) = 0
      /\ \A i \in Items : Worth(rows[p], i) = 0 /\ Worth(new[p], i) = 0
  BY <1>3, <1>4, <1>5 DEF Cost, Worth
<1>8. PaidBy(new) = PaidBy(rows) /\ \A i \in Items : BroughtBy(new, i) = BroughtBy(rows, i)
  <2>1. PaidBy(new) = PaidBy(rows)
    <3>1. PICK a, b : a = PaidBy(new) /\ b = PaidBy(rows)
      OBVIOUS
    <3> QED BY <1>6, <1>7, <3>1
  <2>2. ASSUME NEW i \in Items PROVE BroughtBy(new, i) = BroughtBy(rows, i)
    <3>1. PICK a, b : a = BroughtBy(new, i) /\ b = BroughtBy(rows, i)
      OBVIOUS
    <3> QED BY <1>6, <1>7, <3>1
  <2> QED BY <2>1, <2>2
<1>9. StockExplained'
  BY <1>1, <1>2, <1>4, <1>8, ExplainedLemma
<1>10. TypeOK'
  BY <1>1, <1>2, <1>4, <1>5 DEF TypeOK, Rows
<1>11. Wallet'
  BY <1>1, <1>2 DEF Wallet, OneWallet, Taken
<1> QED BY <1>9, <1>10, <1>11

\* Staff take from an item, or add to it, what their entry says.
LEMMA RecordStore ==
  ASSUME StoreInv, NEW i \in Items, NEW e \in Entries, Record(i, e)
  PROVE  TypeOK' /\ Wallet' /\ StockExplained'
<1>0. PICK unit \in {item[i].unit, "kg"} :
        /\ item[i].hand + SignedToBase(e.quantity, e.unit, unit) >= 0
        /\ used' = [used EXCEPT ![i] = @ + SignedToBase(e.quantity, e.unit, unit)]
        /\ item' = [item EXCEPT ![i].hand = @ + SignedToBase(e.quantity, e.unit, unit),
                                ![i].moved = @ \cup {"entry"}]
  BY DEF Record
<1>1. PICK delta : delta = SignedToBase(e.quantity, e.unit, unit)
  OBVIOUS
<1>2. /\ TypeOK /\ StockExplained /\ item[i] \in ItemRows /\ item \in [Items -> ItemRows]
      /\ used \in [Items -> Int] /\ weighed \in [Items -> Int]
  BY DEF StoreInv, TypeOK, ItemRows
<1>3. PICK grams : grams = InGrams(e.quantity, e.unit)
  OBVIOUS
<1>4. delta \in Int /\ grams \in Int
  <2>1. e.quantity \in Int /\ e.unit \in Units /\ unit \in Units
    BY <1>0, <1>2, InventoryAssumption DEF ItemRows, Units
  <2> QED BY <1>1, <1>3, <2>1, ToBaseType
<1>5. /\ entries < MaxEntries /\ item[i].hand + delta >= 0 /\ entries' = entries + 1
      /\ used' = [used EXCEPT ![i] = @ + delta]
      /\ weighed' = [weighed EXCEPT ![i] = @ + grams]
      /\ UNCHANGED <<purchase, admin, tx>>
      /\ item' = [item EXCEPT ![i].hand = @ + delta, ![i].moved = @ \cup {"entry"}]
  BY <1>0, <1>1, <1>3 DEF Record
<1>6. PICK row, h, m : /\ h = item[i].hand + delta /\ m = item[i].moved \cup {"entry"}
                       /\ row = [item[i] EXCEPT !.hand = h, !.moved = m]
  OBVIOUS
<1>7. item' = [item EXCEPT ![i] = row]
  BY <1>2, <1>5, <1>6 DEF ItemRows
<1>8. item[i].hand \in Nat /\ h \in Nat
  BY <1>2, <1>4, <1>5, <1>6 DEF ItemRows
<1>9. row \in ItemRows /\ row.hand = h
  <2>1. m \in SUBSET Movements
    BY <1>2, <1>6 DEF ItemRows, Movements
  <2> QED BY <1>2, <1>6, <1>8, <2>1 DEF ItemRows
<1>10. /\ item' \in [Items -> ItemRows] /\ used' \in [Items -> Int]
       /\ weighed' \in [Items -> Int]
  <2>1. used[i] + delta \in Int /\ weighed[i] + grams \in Int
    BY <1>2, <1>4
  <2> QED BY <1>2, <1>5, <1>7, <1>9, <2>1
<1>11. entries' \in 0..MaxEntries
  BY <1>2, <1>5, InventoryAssumption DEF TypeOK
<1>12. TypeOK'
  BY <1>2, <1>5, <1>10, <1>11 DEF TypeOK, ItemRows
<1>13. Wallet'
  BY <1>5 DEF StoreInv, Wallet, OneWallet, Taken
<1>14. PICK brought : brought = [j \in Items |-> BroughtBy(purchase, j)]
  OBVIOUS
<1>15. brought[i] \in Int
  <2>1. PICK rows : rows = purchase
    OBVIOUS
  <2>2. rows \in [Purchases -> Rows]
    BY <1>2, <2>1 DEF TypeOK, Rows
  <2>3. item[i].hand = used[i] + brought[i]
    BY <1>2, <1>14, ExplainedLemma
  <2>4. IsFiniteSet(Purchases)
    BY InventoryAssumption
  <2>5. PICK f : f = [p \in Purchases |-> Worth(rows[p], i)]
    OBVIOUS
  <2>6. ASSUME NEW p \in Purchases PROVE f[p] \in Int
    <3>1. rows[p].lines \in Seq(Lines)
      BY <2>2 DEF Rows
    <3> QED BY <2>5, <3>1, BringsType DEF Worth
  <2> QED BY <1>14, <2>1, <2>4, <2>5, <2>6, SumType DEF BroughtBy
<1>16. ASSUME NEW j \in Items PROVE item'[j].hand = used'[j] + brought[j]
  <2>1. item[j].hand = used[j] + brought[j]
    BY <1>2, <1>14, ExplainedLemma
  <2>2. CASE j = i
    <3>1. item'[i].hand = h /\ used'[i] = used[i] + delta /\ used[i] \in Int
      BY <1>2, <1>5, <1>7, <1>9
    <3> QED BY <1>4, <1>6, <1>8, <1>15, <2>1, <2>2, <3>1
  <2>3. CASE j # i
    <3>1. item'[j] = item[j] /\ used'[j] = used[j]
      BY <1>2, <1>5, <1>7, <2>3
    <3> QED BY <2>1, <3>1
  <2> QED BY <2>2, <2>3
<1>17. StockExplained'
  <2>1. \A j \in Items : item'[j].hand = used'[j] + BroughtBy(purchase', j)
    BY <1>5, <1>14, <1>16
  <2> QED BY <1>2, <1>5, <2>1, ExplainedLemma
<1> QED BY <1>12, <1>13, <1>17

\* The unit of an item changes, its quantity does not.
LEMMA SaveUnitStore ==
  ASSUME StoreInv, NEW w \in Workers, SaveUnit(w)
  PROVE  TypeOK' /\ Wallet' /\ StockExplained'
<1>1. /\ TypeOK /\ StockExplained /\ item \in [Items -> ItemRows] /\ admin \in Nat
  BY DEF StoreInv, TypeOK, ItemRows
<1>2. PICK i : i = tx[w].item
  OBVIOUS
<1>3. /\ item' = [item EXCEPT ![i].unit = "g"] /\ Continue(w, Idle)
      /\ UNCHANGED <<purchase, admin, used, weighed, entries>>
  BY <1>2 DEF SaveUnit
<1>4. /\ item' \in [Items -> ItemRows]
      /\ \A j \in Items : item'[j].hand = item[j].hand
  <2>1. \A j \in Items : /\ [item[j] EXCEPT !.unit = "g"] \in ItemRows
                         /\ [item[j] EXCEPT !.unit = "g"].hand = item[j].hand
    BY <1>1 DEF ItemRows, Units
  <2>2. item' = [j \in Items |-> IF j = i THEN [item[j] EXCEPT !.unit = "g"] ELSE item[j]]
    BY <1>1, <1>3
  <2> QED BY <1>1, <2>1, <2>2
<1>5. tx' \in [Workers -> Transactions]
  BY <1>1, <1>3, IdleType, ContinueType DEF TypeOK
<1>6. TypeOK'
  BY <1>1, <1>3, <1>4, <1>5 DEF TypeOK, ItemRows
<1>7. StockExplained'
  BY <1>1, <1>3, <1>4, ExplainedLemma
<1>8. Wallet'
  <2>1. admin' \in Int /\ admin' >= admin
    BY <1>1, <1>3
  <2> QED BY <1>3, <2>1, IdleType, WalletLemma
<1> QED BY <1>6, <1>7, <1>8

\* The unit of an item is about to change.
LEMMA ChangeUnitStore ==
  ASSUME StoreInv, NEW w \in Workers, NEW i \in Items, ChangeUnit(w, i)
  PROVE  TypeOK' /\ Wallet' /\ StockExplained'
<1>1. PICK t : t = [Idle EXCEPT !.kind = "unit", !.pc = "save", !.item = i]
  OBVIOUS
<1>2. t = [kind |-> "unit", pc |-> "save", purchase |-> NoPurchase, lines |-> <<>>,
           next |-> 1, item |-> i, locks |-> {}]
  BY <1>1 DEF Idle
<1>3. t \in Transactions /\ Taken(t) /\ "wallet" \notin t.locks
  BY <1>2 DEF Transactions, Taken
<1>4. Continue(w, t) /\ UNCHANGED stock /\ entries' \in 0..MaxEntries
  BY <1>1, InventoryAssumption DEF ChangeUnit, StoreInv, TypeOK
<1> QED BY <1>3, <1>4, GoesOn

\* A step keeps the store in order.
LEMMA StoreStep ==
  ASSUME StoreInv, [Next]_vars
  PROVE  StoreInv'
<1>1. CASE UNCHANGED vars
  BY <1>1, ExplainedLemma
     DEF vars, stock, StoreInv, Inv, TxShaped, Shaped, PurchaseShaped, Apart, Found,
         TypeOK, Wallet, OneWallet, Taken
<1>2. CASE Next
  <2>1. Inv'
    BY <1>2, Step DEF StoreInv
  <2>2. ASSUME NEW p \in Purchases, Draft(p) \/ CancelDraft(p)
        PROVE  TypeOK' /\ Wallet' /\ StockExplained'
    BY <2>2, DraftStore
  <2>3. ASSUME NEW w \in Workers, NEW p \in Purchases,
               CreateConfirmed(w, p) \/ Confirm(w, p) \/ Cancel(w, p)
        PROVE  TypeOK' /\ Wallet' /\ StockExplained'
    BY <2>3, TakeUpStore
  <2>4. ASSUME NEW w \in Workers, Victim(w)
        PROVE  TypeOK' /\ Wallet' /\ StockExplained'
    BY <2>4, GivesUp DEF Victim
  <2> QED BY <1>2, <2>1, <2>2, <2>3, <2>4, TakeMoneyStore, TakeItemStore, FinishConfirmStore,
             FinishCancelStore, SaveUnitStore, RecordStore, ChangeUnitStore DEF Next, StoreInv
<1> QED BY <1>1, <1>2

\* An empty store is in order.
LEMMA StoreInit ==
  ASSUME Init
  PROVE  StoreInv
<1>1. Inv
  BY InitInv
<1>2. TypeOK
  <2>1. <<>> \in Seq(Lines)
    OBVIOUS
  <2> QED BY <2>1, IdleType, InventoryAssumption DEF Init, TypeOK, Units, Statuses
<1>3. Wallet
  <2>1. \A w \in Workers : tx[w] = Idle
    BY DEF Init
  <2> QED BY <2>1, IdleType DEF Wallet, OneWallet
<1>4. StockExplained
  <2>1. \A p \in Purchases : Cost(purchase[p]) = 0 /\ \A i \in Items : Worth(purchase[p], i) = 0
    BY DEF Init, Cost, Worth
  <2>2. IsFiniteSet(Purchases)
    BY InventoryAssumption
  <2>3. PaidBy(purchase) = 0
    <3>1. PICK f : f = [p \in Purchases |-> Cost(purchase[p])]
      OBVIOUS
    <3>2. \A p \in Purchases : f[p] = 0
      BY <2>1, <3>1
    <3> QED BY <2>2, <3>1, <3>2, SumZero DEF PaidBy
  <2>4. ASSUME NEW i \in Items PROVE BroughtBy(purchase, i) = 0
    <3>1. PICK f : f = [p \in Purchases |-> Worth(purchase[p], i)]
      OBVIOUS
    <3>2. \A p \in Purchases : f[p] = 0
      BY <2>1, <3>1
    <3> QED BY <2>2, <3>1, <3>2, SumZero DEF BroughtBy
  <2>5. Float \in Nat /\ admin = Float /\ \A i \in Items : item[i].hand = 0 /\ used[i] = 0
    BY InventoryAssumption DEF Init
  <2> QED BY <2>3, <2>4, <2>5, ExplainedLemma
<1> QED BY <1>1, <1>2, <1>3, <1>4 DEF StoreInv

-----------------------------------------------------------------------------
\* Values and roundings

\* A value that is what was paid, up to e: costs have a digit more than quantities
\* leave of totals.
Near(hand, cost, paid, e) ==
  hand * cost - 1000 * paid <= e /\ 1000 * paid - hand * cost <= e

\* A rounded quotient is off by half its divisor.
LEMMA RoundedError ==
  ASSUME NEW n \in Nat, NEW d \in Nat \ {0}
  PROVE  /\ Rounded(n, d) \in Nat /\ d * Rounded(n, d) \in Nat
         /\ 2 * (d * Rounded(n, d)) - 2 * n <= d /\ 2 * n - 2 * (d * Rounded(n, d)) <= d
<1>1. PICK a, b, q : a = 2 * n + d /\ b = 2 * d /\ q = a \div b
  OBVIOUS
<1>2. a \in Nat /\ b \in Nat /\ b > 0
  BY <1>1
<1>3. q \in Nat /\ b * q <= a /\ a < b * q + b
  BY <1>1, <1>2
<1>4. PICK z : z = d * q
  OBVIOUS
<1>5. z \in Nat /\ b * q = 2 * z
  BY <1>1, <1>3, <1>4
<1>6. Rounded(n, d) = q
  BY <1>1 DEF Rounded
<1> QED BY <1>1, <1>3, <1>4, <1>5, <1>6

\* A line's cost of a unit gives its total again, up to half its quantity.
LEMMA LineError ==
  ASSUME NEW b \in Nat \ {0}, NEW t \in Nat
  PROVE  /\ UnitCost(t, b) \in Nat /\ b * UnitCost(t, b) \in Nat
         /\ 2 * (b * UnitCost(t, b)) - 2 * (1000 * t) <= b
         /\ 2 * (1000 * t) - 2 * (b * UnitCost(t, b)) <= b
<1>1. PICK n : n = 1000 * t
  OBVIOUS
<1>2. n \in Nat
  BY <1>1
<1> QED BY <1>1, <1>2, RoundedError DEF UnitCost

\* What is received first is at its own cost.
LEMMA FirstError ==
  ASSUME NEW b \in Nat \ {0}, NEW t \in Nat, NEW B \in Nat, b <= B
  PROVE  Near(b, UnitCost(t, b), t, B)
<1>1. PICK y : y = b * UnitCost(t, b)
  OBVIOUS
<1>2. y \in Nat /\ 2 * y - 2 * (1000 * t) <= b /\ 2 * (1000 * t) - 2 * y <= b
  BY <1>1, LineError
<1> QED BY <1>1, <1>2 DEF Near

\* What is received adds its total, and no more error than there is on hand.
LEMMA ReceiveError ==
  ASSUME NEW h \in Nat \ {0}, NEW c \in Nat, NEW b \in Nat \ {0}, NEW t \in Nat,
         NEW paid \in Int, NEW e \in Nat, NEW B \in Nat, h + b <= B, Near(h, c, paid, e)
  PROVE  Near(h + b, Rounded(h * c + b * UnitCost(t, b), h + b), paid + t, e + B)
<1>1. PICK x, y, n, d, z : /\ x = h * c /\ y = b * UnitCost(t, b) /\ n = x + y /\ d = h + b
                           /\ z = d * Rounded(n, d)
  OBVIOUS
<1>2. y \in Nat /\ 2 * y - 2 * (1000 * t) <= b /\ 2 * (1000 * t) - 2 * y <= b
  BY <1>1, LineError
<1>3. x \in Nat
  BY <1>1, RoundedNat
<1>4. n \in Nat /\ d \in Nat \ {0}
  BY <1>1, <1>2, <1>3
<1>5. z \in Nat /\ 2 * z - 2 * n <= d /\ 2 * n - 2 * z <= d
  BY <1>1, <1>4, RoundedError
<1>6. x - 1000 * paid <= e /\ 1000 * paid - x <= e
  BY <1>1 DEF Near
<1>7. z - 1000 * (paid + t) <= e + B /\ 1000 * (paid + t) - z <= e + B
  BY <1>1, <1>2, <1>3, <1>4, <1>5, <1>6
<1> QED BY <1>1, <1>7 DEF Near

\* What is returned takes its total away, with no more error than there was on hand.
LEMMA ReturnError ==
  ASSUME NEW h \in Nat, NEW c \in Nat, NEW b \in Nat \ {0}, NEW t \in Nat,
         NEW paid \in Int, NEW e \in Nat, NEW B \in Nat, h <= B, b < h,
         Near(h, c, paid, e), b * UnitCost(t, b) <= h * c
  PROVE  Near(h - b, Rounded(h * c - b * UnitCost(t, b), h - b), paid - t, e + B)
<1>1. PICK x, y, n, d, z : /\ x = h * c /\ y = b * UnitCost(t, b) /\ n = x - y /\ d = h - b
                           /\ z = d * Rounded(n, d)
  OBVIOUS
<1>2. y \in Nat /\ 2 * y - 2 * (1000 * t) <= b /\ 2 * (1000 * t) - 2 * y <= b
  BY <1>1, LineError
<1>3. x \in Nat
  BY <1>1, RoundedNat
<1>4. n \in Nat /\ d \in Nat \ {0}
  BY <1>1, <1>2, <1>3
<1>5. z \in Nat /\ 2 * z - 2 * n <= d /\ 2 * n - 2 * z <= d
  BY <1>1, <1>4, RoundedError
<1>6. x - 1000 * paid <= e /\ 1000 * paid - x <= e
  BY <1>1 DEF Near
<1>7. z - 1000 * (paid - t) <= e + B /\ 1000 * (paid - t) - z <= e + B
  BY <1>1, <1>2, <1>3, <1>4, <1>5, <1>6
<1> QED BY <1>1, <1>7 DEF Near

\* What the first n lines have of an item: quantity, total and number of lines.
FirstBrings(lines, i, n) == SumOver(Bases(lines, i), 1..n)
FirstCost(lines, i, n) == SumOver(Totals(lines, i), 1..n)
FirstCount(lines, i, n) == SumOver(Ones(lines, i), 1..n)

\* One line more.
LEMMA LineStep ==
  ASSUME NEW lines \in Seq(Lines), NEW i \in Items, NEW n \in 1..Len(lines)
  PROVE  /\ FirstCost(lines, i, n - 1) \in Nat /\ FirstCount(lines, i, n - 1) \in Nat
         /\ lines[n].item # i => /\ FirstCost(lines, i, n) = FirstCost(lines, i, n - 1)
                                 /\ FirstCount(lines, i, n) = FirstCount(lines, i, n - 1)
         /\ lines[n].item = i =>
              /\ FirstCost(lines, i, n) = FirstCost(lines, i, n - 1) + lines[n].total
              /\ FirstCount(lines, i, n) = FirstCount(lines, i, n - 1) + 1
<1>1. PICK N, t, o : N = Len(lines) /\ t = Totals(lines, i) /\ o = Ones(lines, i)
  OBVIOUS
<1>2. N \in Nat /\ n - 1 \in 0..N /\ n \in 1..N /\ DOMAIN lines = 1..N
  BY <1>1
<1>3. Adds(t, N) /\ Adds(o, N)
  BY <1>1, LineSums
<1>4. /\ SumOver(t, 1..(n - 1)) \in Nat /\ SumOver(t, 1..n) = SumOver(t, 1..(n - 1)) + t[n]
      /\ SumOver(o, 1..(n - 1)) \in Nat /\ SumOver(o, 1..n) = SumOver(o, 1..(n - 1)) + o[n]
  BY <1>2, <1>3 DEF Adds
<1>5. /\ t[n] = IF lines[n].item = i THEN lines[n].total ELSE 0
      /\ o[n] = IF lines[n].item = i THEN 1 ELSE 0
  BY <1>1, <1>2 DEF Totals, Ones
<1>6. /\ FirstCost(lines, i, n - 1) = SumOver(t, 1..(n - 1))
      /\ FirstCost(lines, i, n) = SumOver(t, 1..n)
      /\ FirstCount(lines, i, n - 1) = SumOver(o, 1..(n - 1))
      /\ FirstCount(lines, i, n) = SumOver(o, 1..n)
  BY <1>1 DEF FirstCost, FirstCount
<1> QED BY <1>4, <1>5, <1>6

\* No line at all, and all of them.
LEMMA LineEnds ==
  ASSUME NEW lines \in Seq(Lines), NEW i \in Items
  PROVE  /\ FirstBrings(lines, i, 0) = 0 /\ FirstCost(lines, i, 0) = 0
         /\ FirstCount(lines, i, 0) = 0
         /\ FirstBrings(lines, i, Len(lines)) = Brings(lines, i)
         /\ FirstCost(lines, i, Len(lines)) = CostOf(lines, i)
         /\ FirstCount(lines, i, Len(lines)) = Count(lines, i)
         /\ \A n \in 0..Len(lines) :
              /\ FirstBrings(lines, i, n) \in Nat /\ FirstBrings(lines, i, n) <= Brings(lines, i)
              /\ FirstCost(lines, i, n) \in Nat /\ FirstCost(lines, i, n) <= CostOf(lines, i)
              /\ FirstCount(lines, i, n) \in Nat /\ FirstCount(lines, i, n) <= Count(lines, i)
BY LineSums DEF Adds, FirstBrings, FirstCost, FirstCount

\* The rows of an item while lines are received: its quantity does not fall, and it is
\* valued at what was paid before and for the lines so far.
Valued(row, paid, e) ==
  /\ row.hand \in Nat
  /\ row.hand = 0 => paid = 0
  /\ row.hand > 0 => row.cost \in Nat /\ Near(row.hand, row.cost, paid, e)

\* One line that is received.
LEMMA ReceiveStep ==
  ASSUME NEW row \in MovedItems, NEW l \in Lines, NEW paid \in Nat, NEW e \in Nat,
         NEW B \in Nat, Valued(row, paid, e), row.hand + l.base <= B,
         NEW new, new.hand = row.hand + l.base, new.cost = ComputeWac(row, l)
  PROVE  Valued(new, paid + l.total, e + B)
<1>1. PICK h, c, b, t : h = row.hand /\ c = row.cost /\ b = l.base /\ t = l.total
  OBVIOUS
<1>2. /\ h \in Nat /\ b \in Nat \ {0} /\ t \in Nat /\ l.cost = UnitCost(t, b)
      /\ UnitCost(t, b) \in Nat
  BY <1>1, LineError DEF Valued, Lines
<1>3. new.hand \in Nat /\ new.hand > 0 /\ new.hand = h + b /\ b <= B
  BY <1>1, <1>2
<1>4. CASE h = 0
  <2>1. new.cost = UnitCost(t, b) /\ paid = 0
    BY <1>1, <1>2, <1>4 DEF ComputeWac, Valued
  <2>2. Near(b, UnitCost(t, b), t, B)
    BY <1>2, <1>3, FirstError
  <2>3. Near(b, UnitCost(t, b), t, e + B)
    <3>1. PICK y : y = b * UnitCost(t, b)
      OBVIOUS
    <3>2. y \in Nat
      BY <1>2, <3>1, LineError
    <3>3. y - 1000 * t <= B /\ 1000 * t - y <= B
      BY <2>2, <3>1 DEF Near
    <3>4. y - 1000 * t <= e + B /\ 1000 * t - y <= e + B
      BY <1>2, <3>2, <3>3
    <3> QED BY <3>1, <3>4 DEF Near
  <2>4. new.hand = b /\ paid + t = t
    BY <1>2, <1>3, <1>4, <2>1
  <2>5. Near(new.hand, new.cost, paid + t, e + B)
    BY <2>1, <2>3, <2>4, Zenon
  <2> QED BY <1>1, <1>2, <1>3, <2>1, <2>5 DEF Valued
<1>5. CASE h # 0
  <2>1. c \in Nat /\ c # Unknown /\ h > 0 /\ Near(h, c, paid, e)
    BY <1>1, <1>2, <1>5 DEF Valued, Unknown
  <2>2. new.cost = Rounded(h * c + b * UnitCost(t, b), h + b)
    BY <1>1, <1>2, <2>1 DEF ComputeWac
  <2>3. new.cost \in Nat
    <3>1. new.cost \in Nat \cup {Unknown}
      BY CostType
    <3>2. PICK x, y : x = h * c /\ y = b * UnitCost(t, b)
      OBVIOUS
    <3>3. x + y \in Nat /\ h + b \in Nat \ {0}
      <4>1. x \in Nat /\ y \in Nat
        BY <1>2, <2>1, <3>2, RoundedNat
      <4> QED BY <1>2, <4>1
    <3> QED BY <2>2, <3>2, <3>3, RoundedNat
  <2>4. Near(h + b, Rounded(h * c + b * UnitCost(t, b), h + b), paid + t, e + B)
    <3>1. h \in Nat \ {0} /\ h + b <= B /\ paid \in Int
      BY <1>1, <1>2, <2>1
    <3> QED BY <1>2, <2>1, <3>1, ReceiveError, Zenon
  <2>5. Near(new.hand, new.cost, paid + l.total, e + B)
    BY <1>1, <1>3, <2>2, <2>4, Zenon
  <2>6. new.hand \in Nat /\ new.hand # 0
    BY <1>3
  <2> QED BY <2>3, <2>5, <2>6, Zenon DEF Valued
<1> QED BY <1>4, <1>5

\* All lines of a purchase that are received.
LEMMA ReceiveLines ==
  ASSUME NEW kind, kind # "cancel", NEW lines \in Seq(Lines),
         NEW items \in [Items -> MovedItems], NEW i \in Items, NEW paid \in Nat, NEW e \in Nat,
         NEW B \in Nat, Valued(items[i], paid, e), items[i].hand + Brings(lines, i) <= B
  PROVE  Valued(After(kind, lines, items)[Len(lines)][i], paid + CostOf(lines, i),
                e + Count(lines, i) * B)
<1>1. PICK N, f, h : N = Len(lines) /\ f = After(kind, lines, items) /\ h = items[i].hand
  OBVIOUS
<1>2. N \in Nat /\ \A n \in 1..N : lines[n] \in Lines
  BY <1>1
<1>3. /\ f \in [0..N -> [Items -> MovedItems]] /\ f[0] = items
      /\ \A n \in 1..N : f[n] = Movement(kind, f[n - 1], lines[n])
  <2>1. AfterIs(kind, lines, items)
    BY AfterExists, Zenon
  <2> QED BY <1>1, <2>1 DEF AfterIs
<1>4. h \in Nat
  BY <1>1 DEF Valued
<1>5. Brings(lines, i) \in Nat
  BY BringsType
<1>6. \A n \in 0..N : f[n][i].hand <= B
  <2>1. ASSUME NEW n \in 0..N PROVE f[n][i].hand <= B
    <3>1. f[n][i].hand = h + Change(kind, FirstBrings(lines, i, n))
      BY <1>1, AfterSums DEF FirstBrings
    <3>2. FirstBrings(lines, i, n) \in Nat /\ FirstBrings(lines, i, n) <= Brings(lines, i)
      BY <1>1, LineEnds
    <3> QED BY <1>1, <1>4, <1>5, <3>1, <3>2 DEF Change
  <2> QED BY <2>1
<1> DEFINE Good == {n \in 0..N : Valued(f[n][i], paid + FirstCost(lines, i, n),
                                        e + FirstCount(lines, i, n) * B)}
<1>7. 0 \in Good
  <2>1. FirstCost(lines, i, 0) = 0 /\ FirstCount(lines, i, 0) = 0
    BY LineEnds
  <2>2. paid + 0 = paid /\ e + 0 * B = e /\ 0 \in 0..N
    BY <1>2
  <2> QED BY <1>3, <2>1, <2>2
<1>8. ASSUME NEW n \in 1..N, n - 1 \in Good PROVE n \in Good
  <2>1. PICK l \in Lines, s \in [Items -> MovedItems] : l = lines[n] /\ s = f[n - 1]
    BY <1>2, <1>3
  <2>2. PICK t, k : t = FirstCost(lines, i, n - 1) /\ k = FirstCount(lines, i, n - 1)
    OBVIOUS
  <2>3. /\ t \in Nat /\ k \in Nat
        /\ l.item # i => FirstCost(lines, i, n) = t /\ FirstCount(lines, i, n) = k
        /\ l.item = i => FirstCost(lines, i, n) = t + l.total /\ FirstCount(lines, i, n) = k + 1
    BY <1>1, <2>1, <2>2, LineStep
  <2>4. PICK x : x = e + k * B
    OBVIOUS
  <2>5. x \in Nat /\ e + (k + 1) * B = x + B
    BY <2>3, <2>4
  <2>6. Valued(s[i], paid + t, x)
    BY <1>8, <2>1, <2>2, <2>4
  <2>7. Shifts(kind, s, l) /\ f[n] = Movement(kind, s, l)
    BY <1>3, <2>1, MovementLemma
  <2>8. n \in 0..N
    OBVIOUS
  <2>9. CASE l.item # i
    <3>1. f[n][i] = s[i]
      BY <2>7, <2>9 DEF Shifts
    <3> QED BY <2>3, <2>4, <2>6, <2>8, <2>9, <3>1
  <2>10. CASE l.item = i
    <3>1. f[n][i].hand = s[i].hand + l.base /\ f[n][i].cost = ComputeWac(s[i], l)
      BY <2>7, <2>10 DEF Shifts, Change
    <3>2. s[i] \in MovedItems /\ l.total \in Nat /\ paid + t \in Nat
      BY <2>3 DEF Lines
    <3>3. s[i].hand + l.base <= B
      BY <1>6, <2>8, <3>1
    <3>4. Valued(f[n][i], (paid + t) + l.total, x + B)
      BY <2>5, <2>6, <3>1, <3>2, <3>3, ReceiveStep
    <3>5. (paid + t) + l.total = paid + (t + l.total)
      BY <2>3, <3>2
    <3> QED BY <2>3, <2>5, <2>8, <2>10, <3>4, <3>5
  <2> QED BY <2>9, <2>10
<1>9. N \in Good
  <2>1. \A n \in 1..N : n - 1 \in Good => n \in Good
    BY <1>8
  <2>2. N \in 0..N
    BY <1>2
  <2> HIDE DEF Good
  <2> QED BY <1>2, <1>7, <2>1, <2>2, Upwards
<1>10. FirstCost(lines, i, N) = CostOf(lines, i) /\ FirstCount(lines, i, N) = Count(lines, i)
  BY <1>1, LineEnds
<1> QED BY <1>1, <1>9, <1>10

\* The row of an item while lines are returned: what is left of it, as long as its average
\* is known, is valued at what was paid without the lines so far.
Remains(row, paid, e) ==
  row.hand > 0 /\ row.cost # Unknown => Near(row.hand, row.cost, paid, e)

\* One line that is returned.
LEMMA ReturnStep ==
  ASSUME NEW row \in MovedItems, NEW l \in Lines, NEW paid \in Int, NEW e \in Nat,
         NEW B \in Nat, Remains(row, paid, e), row.hand <= B,
         NEW new, new.hand = row.hand - l.base, new.cost = ReverseWac(row, l)
  PROVE  Remains(new, paid - l.total, e + B)
<1>1. PICK h, c, b, t : h = row.hand /\ c = row.cost /\ b = l.base /\ t = l.total
  OBVIOUS
<1>2. /\ h \in Int /\ c \in Nat \cup {Unknown} /\ b \in Nat \ {0} /\ t \in Nat
      /\ l.cost = UnitCost(t, b) /\ h <= B
  BY <1>1 DEF Lines, MovedItems
<1>3. SUFFICES ASSUME new.hand > 0, new.cost # Unknown
               PROVE  Near(new.hand, new.cost, paid - l.total, e + B)
  BY DEF Remains
<1>4. new.hand = h - b /\ h \in Nat /\ b < h /\ h > 0
  BY <1>1, <1>2, <1>3
<1>5. /\ c # Unknown /\ ~(h * c < b * UnitCost(t, b))
      /\ new.cost = Rounded(h * c - b * UnitCost(t, b), h - b)
  BY <1>1, <1>2, <1>3 DEF ReverseWac
<1>6. c \in Nat /\ Near(h, c, paid, e)
  BY <1>1, <1>2, <1>4, <1>5 DEF Remains
<1>7. b * UnitCost(t, b) <= h * c
  <2>1. PICK x, y : x = h * c /\ y = b * UnitCost(t, b)
    OBVIOUS
  <2>2. x \in Nat /\ y \in Nat
    BY <1>2, <1>4, <1>6, <2>1, RoundedNat, LineError
  <2> QED BY <1>5, <2>1, <2>2
<1>8. Near(h - b, Rounded(h * c - b * UnitCost(t, b), h - b), paid - t, e + B)
  BY <1>2, <1>4, <1>6, <1>7, ReturnError, Zenon
<1> QED BY <1>1, <1>4, <1>5, <1>8, Zenon

\* All lines of a purchase that are returned, one after the other.
LEMMA ReturnLines ==
  ASSUME NEW lines \in Seq(Lines), NEW items \in [Items -> MovedItems], NEW i \in Items,
         NEW paid \in Int, NEW e \in Nat, NEW B \in Nat, Remains(items[i], paid, e),
         items[i].hand <= B
  PROVE  \A n \in 0..Len(lines) :
           Remains(After("cancel", lines, items)[n][i], paid - FirstCost(lines, i, n),
                   e + FirstCount(lines, i, n) * B)
<1>1. PICK N, f, h : N = Len(lines) /\ f = After("cancel", lines, items) /\ h = items[i].hand
  OBVIOUS
<1>2. N \in Nat /\ \A n \in 1..N : lines[n] \in Lines
  BY <1>1
<1>3. /\ f \in [0..N -> [Items -> MovedItems]] /\ f[0] = items
      /\ \A n \in 1..N : f[n] = Movement("cancel", f[n - 1], lines[n])
  <2>1. AfterIs("cancel", lines, items)
    BY AfterExists, Zenon
  <2> QED BY <1>1, <2>1 DEF AfterIs
<1>4. h \in Int
  BY <1>1 DEF MovedItems
<1>5. \A n \in 0..N : f[n][i].hand <= B
  <2>1. ASSUME NEW n \in 0..N PROVE f[n][i].hand <= B
    <3>1. f[n][i].hand = h + Change("cancel", FirstBrings(lines, i, n))
      BY <1>1, AfterSums DEF FirstBrings
    <3>2. FirstBrings(lines, i, n) \in Nat
      BY <1>1, LineEnds
    <3> QED BY <1>1, <1>4, <3>1, <3>2 DEF Change
  <2> QED BY <2>1
<1> DEFINE Good == {n \in 0..N : Remains(f[n][i], paid - FirstCost(lines, i, n),
                                         e + FirstCount(lines, i, n) * B)}
<1>6. 0 \in Good
  <2>1. FirstCost(lines, i, 0) = 0 /\ FirstCount(lines, i, 0) = 0
    BY LineEnds
  <2>2. paid - 0 = paid /\ e + 0 * B = e /\ 0 \in 0..N
    BY <1>2
  <2> QED BY <1>3, <2>1, <2>2
<1>7. ASSUME NEW n \in 1..N, n - 1 \in Good PROVE n \in Good
  <2>1. PICK l \in Lines, s \in [Items -> MovedItems] : l = lines[n] /\ s = f[n - 1]
    BY <1>2, <1>3
  <2>2. PICK t, k : t = FirstCost(lines, i, n - 1) /\ k = FirstCount(lines, i, n - 1)
    OBVIOUS
  <2>3. /\ t \in Nat /\ k \in Nat
        /\ l.item # i => FirstCost(lines, i, n) = t /\ FirstCount(lines, i, n) = k
        /\ l.item = i => FirstCost(lines, i, n) = t + l.total /\ FirstCount(lines, i, n) = k + 1
    BY <1>1, <2>1, <2>2, LineStep
  <2>4. PICK x : x = e + k * B
    OBVIOUS
  <2>5. x \in Nat /\ e + (k + 1) * B = x + B
    BY <2>3, <2>4
  <2>6. Remains(s[i], paid - t, x)
    BY <1>7, <2>1, <2>2, <2>4
  <2>7. Shifts("cancel", s, l) /\ f[n] = Movement("cancel", s, l)
    BY <1>3, <2>1, MovementLemma
  <2>8. n \in 0..N /\ n - 1 \in 0..N
    BY <1>2
  <2>9. CASE l.item # i
    <3>1. f[n][i] = s[i]
      BY <2>7, <2>9 DEF Shifts
    <3> QED BY <2>3, <2>4, <2>6, <2>8, <2>9, <3>1
  <2>10. CASE l.item = i
    <3>1. /\ s[i] \in MovedItems /\ s[i].hand \in Int /\ l.base \in Nat /\ l.total \in Nat
          /\ paid - t \in Int
      BY <2>3 DEF Lines, MovedItems
    <3>2. f[n][i].hand = s[i].hand - l.base /\ f[n][i].cost = ReverseWac(s[i], l)
      BY <2>7, <2>10, <3>1 DEF Shifts, Change
    <3>3. s[i].hand <= B
      BY <1>5, <2>1, <2>8
    <3>4. Remains(f[n][i], (paid - t) - l.total, x + B)
      BY <2>5, <2>6, <3>1, <3>2, <3>3, ReturnStep
    <3>5. (paid - t) - l.total = paid - (t + l.total)
      BY <2>3, <3>1
    <3> QED BY <2>3, <2>5, <2>8, <2>10, <3>4, <3>5
  <2> QED BY <2>9, <2>10
<1>8. \A n \in 0..N : n \in Good
  <2>1. \A n \in 1..N : n - 1 \in Good => n \in Good
    BY <1>7
  <2> HIDE DEF Good
  <2> QED BY <1>2, <1>6, <2>1, Upwards
<1> QED BY <1>1, <1>8

\* When what is left has cost more than roundings make up for, the average of an item stays
\* known through all lines that are returned.
LEMMA DearLines ==
  ASSUME NEW lines \in Seq(Lines), NEW items \in [Items -> MovedItems], NEW i \in Items,
         NEW paid \in Nat, NEW e \in Nat, NEW B \in Nat, Remains(items[i], paid, e),
         items[i].hand <= B, items[i].cost # Unknown,
         After("cancel", lines, items)[Len(lines)][i].hand > 0,
         1000 * (paid - CostOf(lines, i)) >= e + Count(lines, i) * B + B
  PROVE  After("cancel", lines, items)[Len(lines)][i].cost # Unknown
<1>1. PICK N, f, h : N = Len(lines) /\ f = After("cancel", lines, items) /\ h = items[i].hand
  OBVIOUS
<1>2. N \in Nat /\ \A n \in 1..N : lines[n] \in Lines
  BY <1>1
<1>3. /\ f \in [0..N -> [Items -> MovedItems]] /\ f[0] = items
      /\ \A n \in 1..N : f[n] = Movement("cancel", f[n - 1], lines[n])
  <2>1. AfterIs("cancel", lines, items)
    BY AfterExists, Zenon
  <2> QED BY <1>1, <2>1 DEF AfterIs
<1>4. h \in Int
  BY <1>1 DEF MovedItems
<1>5. \A n \in 0..N : f[n][i].hand > 0 /\ f[n][i].hand <= B
  <2>1. ASSUME NEW n \in 0..N PROVE f[n][i].hand > 0 /\ f[n][i].hand <= B
    <3>1. PICK x, y : x = FirstBrings(lines, i, n) /\ y = FirstBrings(lines, i, N)
      OBVIOUS
    <3>2. f[n][i].hand = h + Change("cancel", x) /\ f[N][i].hand = h + Change("cancel", y)
      BY <1>1, <1>2, <3>1, AfterSums DEF FirstBrings
    <3>3. x \in Nat /\ y \in Nat /\ x <= y
      BY <1>1, <3>1, LineEnds
    <3>4. f[N][i].hand > 0
      BY <1>1
    <3>5. f[n][i].hand = h - x /\ f[N][i].hand = h - y
      BY <3>2 DEF Change
    <3>6. h - y > 0 /\ h <= B
      BY <1>1, <3>4, <3>5
    <3>7. h - x > 0 /\ h - x <= B
      BY <1>4, <3>3, <3>6
    <3> QED BY <3>5, <3>7
  <2> QED BY <2>1
<1>6. /\ CostOf(lines, i) \in Nat /\ Count(lines, i) \in Nat
      /\ FirstCost(lines, i, N) = CostOf(lines, i) /\ FirstCount(lines, i, N) = Count(lines, i)
  BY <1>1, <1>2, LineEnds
<1> DEFINE Good == {n \in 0..N : f[n][i].cost # Unknown}
<1>7. 0 \in Good
  <2>1. 0 \in 0..N
    BY <1>2
  <2> QED BY <1>3, <2>1
<1>8. ASSUME NEW n \in 1..N, n - 1 \in Good PROVE n \in Good
  <2>1. PICK l \in Lines, s \in [Items -> MovedItems] : l = lines[n] /\ s = f[n - 1]
    BY <1>2, <1>3
  <2>2. PICK t, k : t = FirstCost(lines, i, n - 1) /\ k = FirstCount(lines, i, n - 1)
    OBVIOUS
  <2>3. n \in 0..N /\ n - 1 \in 0..N
    BY <1>2
  <2>4. Shifts("cancel", s, l) /\ f[n] = Movement("cancel", s, l)
    BY <1>3, <2>1, MovementLemma
  <2>5. CASE l.item # i
    BY <1>8, <2>1, <2>3, <2>4, <2>5 DEF Shifts
  <2>6. CASE l.item = i
    <3>1. PICK g, c, b, a : g = s[i].hand /\ c = s[i].cost /\ b = l.base /\ a = l.total
      OBVIOUS
    <3>2. /\ b \in Nat \ {0} /\ a \in Nat /\ l.cost = UnitCost(a, b) /\ g \in Int
          /\ c \in Nat \cup {Unknown}
      BY <3>1 DEF Lines, MovedItems
    <3>3. f[n][i].hand = g - b /\ f[n][i].cost = ReverseWac(s[i], l)
      BY <2>4, <2>6, <3>1, <3>2 DEF Shifts, Change
    <3>4. g > b /\ g <= B /\ b <= B
      <4>1. f[n][i].hand > 0 /\ s[i].hand <= B
        BY <1>5, <2>1, <2>3
      <4> QED BY <3>1, <3>2, <3>3, <4>1
    <3>5. c # Unknown /\ c \in Nat
      BY <1>8, <2>1, <3>1, <3>2
    <3>6. t \in Nat /\ k \in Nat /\ t + a <= CostOf(lines, i) /\ k <= Count(lines, i)
      <4>1. FirstCost(lines, i, n) <= CostOf(lines, i)
        BY <1>1, <2>3, LineEnds
      <4>2. t \in Nat /\ k \in Nat /\ k <= Count(lines, i)
        BY <1>1, <2>2, <2>3, LineEnds
      <4>3. FirstCost(lines, i, n) = t + a
        BY <1>1, <2>1, <2>2, <2>6, <3>1, LineStep
      <4> QED BY <4>1, <4>2, <4>3
    <3>7. Near(g, c, paid - t, e + k * B)
      <4>1. Remains(s[i], paid - t, e + k * B)
        <5>1. paid \in Int
          OBVIOUS
        <5>2. \A m \in 0..N : Remains(f[m][i], paid - FirstCost(lines, i, m),
                                     e + FirstCount(lines, i, m) * B)
          BY <1>1, <5>1, ReturnLines, Zenon
        <5> QED BY <2>1, <2>2, <2>3, <5>2
      <4> QED BY <3>1, <3>2, <3>4, <3>5, <4>1 DEF Remains
    <3>8. PICK x, y, z, cost, count, all :
            /\ x = g * c /\ y = b * UnitCost(a, b) /\ z = k * B /\ cost = CostOf(lines, i)
            /\ count = Count(lines, i) /\ all = count * B
      OBVIOUS
    <3>9. x \in Nat /\ y \in Nat /\ 2 * y - 2 * (1000 * a) <= b
      <4>1. g \in Nat
        BY <3>2, <3>4
      <4>2. x \in Nat
        BY <3>5, <3>8, <4>1, RoundedNat, Zenon
      <4>3. y \in Nat /\ 2 * y - 2 * (1000 * a) <= b
        <5>1. y = b * UnitCost(a, b)
          BY <3>8
        <5> QED BY <3>2, <5>1, LineError
      <4> QED BY <4>2, <4>3
    <3>10. 1000 * (paid - t) - x <= e + z
      BY <3>7, <3>8 DEF Near
    <3>11. z \in Nat /\ all \in Nat /\ z <= all
      <4>1. count \in Nat /\ k \in Nat /\ k <= count
        BY <1>6, <3>6, <3>8
      <4>2. PICK m \in Nat : count = k + m
        <5>1. count - k \in Nat /\ count = k + (count - k)
          BY <4>1
        <5> QED BY <5>1
      <4>3. PICK r : r = m * B
        OBVIOUS
      <4>4. all = z + r /\ r \in Nat /\ z \in Nat
        BY <3>8, <4>1, <4>2, <4>3
      <4> QED BY <4>4
    <3>12. 1000 * (paid - cost) >= e + all + B /\ cost \in Nat /\ t + a <= cost
      BY <1>6, <3>6, <3>8
    <3>13. ~(x < y)
      BY <3>2, <3>4, <3>6, <3>9, <3>10, <3>11, <3>12
    <3>14. f[n][i].cost = Rounded(x - y, g - b)
      <4>1. ~(s[i].hand <= l.base) /\ s[i].cost # Unknown
        BY <3>1, <3>2, <3>4, <3>5
      <4>2. /\ s[i].hand * s[i].cost = x /\ l.base * l.cost = y
            /\ s[i].hand - l.base = g - b
        BY <3>1, <3>2, <3>8, Zenon
      <4>3. ~(s[i].hand * s[i].cost < l.base * l.cost)
        BY <3>13, <4>2, Zenon
      <4>4. ReverseWac(s[i], l)
              = Rounded(s[i].hand * s[i].cost - l.base * l.cost, s[i].hand - l.base)
        BY <4>1, <4>3, Zenon DEF ReverseWac
      <4> QED BY <3>3, <4>2, <4>4, Zenon
    <3>15. Rounded(x - y, g - b) \in Nat
      <4>1. x - y \in Nat /\ g - b \in Nat \ {0}
        BY <3>2, <3>4, <3>9, <3>13
      <4> QED BY <4>1, RoundedNat
    <3> QED BY <2>3, <3>14, <3>15 DEF Unknown
  <2> QED BY <2>5, <2>6
<1>9. N \in Good
  <2>1. \A n \in 1..N : n - 1 \in Good => n \in Good
    BY <1>8
  <2>2. N \in 0..N
    BY <1>2
  <2> HIDE DEF Good
  <2> QED BY <1>2, <1>7, <2>1, <2>2, Upwards
<1> QED BY <1>1, <1>9

\* What a purchase has cost of an item, and how often its lines have been rounded: once
\* when they came, and once more when they went.
RowCost(row, i) == IF row.status = "confirmed" THEN CostOf(row.lines, i) ELSE 0
Roundings(row, i) ==
  CASE row.status = "confirmed" -> Count(row.lines, i)
    [] row.status = "cancelled" -> 2 * Count(row.lines, i)
    [] OTHER -> 0

\* All purchases together.
PaidForBy(rows, i) == SumOver([p \in Purchases |-> RowCost(rows[p], i)], Purchases)
ErrorsBy(rows, i) == SumOver([p \in Purchases |-> Roundings(rows[p], i)], Purchases)
LinesBy(rows, i) == SumOver([p \in Purchases |-> Count(rows[p].lines, i)], Purchases)
VolumeBy(rows, i) == SumOver([p \in Purchases |-> Brings(rows[p].lines, i)], Purchases)

\* What lines have of an item, and that lines of nothing cost nothing.
LEMMA LinesType ==
  ASSUME NEW lines \in Seq(Lines), NEW i \in Items
  PROVE  /\ Brings(lines, i) \in Nat /\ CostOf(lines, i) \in Nat /\ Count(lines, i) \in Nat
         /\ Brings(lines, i) = 0 => CostOf(lines, i) = 0
<1>1. PICK N : N = Len(lines)
  OBVIOUS
<1>2. /\ N \in Nat /\ N \in 0..N /\ DOMAIN lines = 1..N /\ IsFiniteSet(1..N)
      /\ \A n \in 1..N : lines[n] \in Lines
  <2>1. N \in Nat /\ DOMAIN lines = 1..N /\ \A n \in 1..N : lines[n] \in Lines
    BY <1>1
  <2>2. IsFiniteSet(1..N)
    BY <2>1, FS_Interval
  <2> QED BY <2>1, <2>2
<1>3. Brings(lines, i) \in Nat /\ CostOf(lines, i) \in Nat /\ Count(lines, i) \in Nat
  <2>1. /\ FirstBrings(lines, i, N) \in Nat /\ FirstCost(lines, i, N) \in Nat
        /\ FirstCount(lines, i, N) \in Nat
    BY <1>1, <1>2, LineEnds
  <2>2. /\ FirstBrings(lines, i, N) = Brings(lines, i) /\ FirstCost(lines, i, N) = CostOf(lines, i)
        /\ FirstCount(lines, i, N) = Count(lines, i)
    BY <1>1, LineEnds
  <2> QED BY <2>1, <2>2
<1>4. ASSUME Brings(lines, i) = 0 PROVE CostOf(lines, i) = 0
  <2>1. PICK b, t : b = Bases(lines, i) /\ t = Totals(lines, i)
    OBVIOUS
  <2>2. Brings(lines, i) = SumOver(b, 1..N) /\ CostOf(lines, i) = SumOver(t, 1..N)
    BY <1>1, <2>1, LineSums
  <2>3. \A n \in 1..N : /\ b[n] = IF lines[n].item = i THEN lines[n].base ELSE 0
                        /\ t[n] = IF lines[n].item = i THEN lines[n].total ELSE 0
                        /\ lines[n].base \in Nat \ {0}
    BY <1>2, <2>1 DEF Bases, Totals, Lines
  <2>4. \A n \in 1..N : b[n] \in Nat
    BY <2>3
  <2>5. ASSUME NEW n \in 1..N PROVE t[n] = 0
    <3>1. b[n] <= SumOver(b, 1..N)
      BY <1>2, <2>4, SumElement
    <3>2. b[n] = 0
      BY <1>4, <2>2, <2>4, <3>1
    <3> QED BY <2>3, <3>2
  <2> QED BY <1>2, <2>2, <2>5, SumZero
<1> QED BY <1>3, <1>4

\* A line of an item is one of what its purchase has of it.
LEMMA LineIn ==
  ASSUME NEW lines \in Seq(Lines), NEW i \in Items, NEW n \in DOMAIN lines, lines[n].item = i
  PROVE  lines[n].total \in Nat /\ lines[n].total <= CostOf(lines, i)
<1>1. PICK N, t : N = Len(lines) /\ t = Totals(lines, i)
  OBVIOUS
<1>2. DOMAIN lines = 1..N /\ IsFiniteSet(1..N) /\ n \in 1..N
  BY <1>1, FS_Interval
<1>3. Adds(t, N) /\ CostOf(lines, i) = SumOver(t, 1..N)
  BY <1>1, LineSums
<1>4. \A m \in 1..N : t[m] \in Nat
  BY <1>3 DEF Adds
<1>5. t[n] <= SumOver(t, 1..N)
  BY <1>2, <1>4, SumElement
<1>6. t[n] = lines[n].total
  BY <1>1, <1>2 DEF Totals
<1> QED BY <1>2, <1>3, <1>4, <1>5, <1>6

\* What a purchase stands for.
LEMMA RowType ==
  ASSUME NEW row \in Rows, NEW i \in Items
  PROVE  /\ Worth(row, i) \in Nat /\ RowCost(row, i) \in Nat /\ Roundings(row, i) \in Nat
         /\ Brings(row.lines, i) \in Nat /\ Count(row.lines, i) \in Nat
         /\ Worth(row, i) <= Brings(row.lines, i)
         /\ Roundings(row, i) <= 2 * Count(row.lines, i)
         /\ Worth(row, i) = 0 => RowCost(row, i) = 0
<1>1. row.lines \in Seq(Lines)
  BY DEF Rows
<1>2. PICK b, c, o : b = Brings(row.lines, i) /\ c = CostOf(row.lines, i) /\ o = Count(row.lines, i)
  OBVIOUS
<1>3. b \in Nat /\ c \in Nat /\ o \in Nat /\ (b = 0 => c = 0)
  BY <1>1, <1>2, LinesType
<1>4. /\ Worth(row, i) = IF row.status = "confirmed" THEN b ELSE 0
      /\ RowCost(row, i) = IF row.status = "confirmed" THEN c ELSE 0
  BY <1>2 DEF Worth, RowCost
<1>5. Roundings(row, i) \in {0, o, 2 * o}
  <2>1. CASE row.status = "confirmed"
    BY <1>2, <2>1 DEF Roundings
  <2>2. CASE row.status = "cancelled"
    BY <1>2, <2>2 DEF Roundings
  <2>3. CASE row.status \notin {"confirmed", "cancelled"}
    BY <2>3 DEF Roundings
  <2> QED BY <2>1, <2>2, <2>3
<1> QED BY <1>2, <1>3, <1>4, <1>5

\* What all purchases stand for.
LEMMA MeasureType ==
  ASSUME NEW rows \in [Purchases -> Rows], NEW i \in Items
  PROVE  /\ PaidForBy(rows, i) \in Nat /\ ErrorsBy(rows, i) \in Nat
         /\ LinesBy(rows, i) \in Nat /\ VolumeBy(rows, i) \in Nat /\ BroughtBy(rows, i) \in Nat
         /\ BroughtBy(rows, i) <= VolumeBy(rows, i)
         /\ ErrorsBy(rows, i) <= 2 * LinesBy(rows, i)
         /\ BroughtBy(rows, i) = 0 => PaidForBy(rows, i) = 0
<1>1. IsFiniteSet(Purchases)
  BY InventoryAssumption
<1>2. PICK c, e, o, b, w, oo :
        /\ c = [p \in Purchases |-> RowCost(rows[p], i)]
        /\ e = [p \in Purchases |-> Roundings(rows[p], i)]
        /\ o = [p \in Purchases |-> Count(rows[p].lines, i)]
        /\ b = [p \in Purchases |-> Brings(rows[p].lines, i)]
        /\ w = [p \in Purchases |-> Worth(rows[p], i)]
        /\ oo = [p \in Purchases |-> 2 * o[p]]
  OBVIOUS
<1>3. \A p \in Purchases : /\ c[p] \in Nat /\ e[p] \in Nat /\ o[p] \in Nat /\ b[p] \in Nat
                           /\ w[p] \in Nat /\ w[p] <= b[p] /\ e[p] <= oo[p]
                           /\ w[p] = 0 => c[p] = 0
  BY <1>2, RowType
<1>4. \A p \in Purchases : oo[p] = 2 * o[p] /\ oo[p] \in Nat
  BY <1>2, <1>3
<1>5. /\ PaidForBy(rows, i) = SumOver(c, Purchases) /\ ErrorsBy(rows, i) = SumOver(e, Purchases)
      /\ LinesBy(rows, i) = SumOver(o, Purchases) /\ VolumeBy(rows, i) = SumOver(b, Purchases)
      /\ BroughtBy(rows, i) = SumOver(w, Purchases)
  BY <1>2 DEF PaidForBy, ErrorsBy, LinesBy, VolumeBy, BroughtBy
<1>6. /\ SumOver(c, Purchases) \in Nat /\ SumOver(e, Purchases) \in Nat
      /\ SumOver(o, Purchases) \in Nat /\ SumOver(b, Purchases) \in Nat
      /\ SumOver(w, Purchases) \in Nat
  BY <1>1, <1>3, SumNat
<1>7. SumOver(w, Purchases) <= SumOver(b, Purchases)
  BY <1>1, <1>3, SumCompare
<1>8. SumOver(e, Purchases) <= SumOver(oo, Purchases)
  BY <1>1, <1>3, <1>4, SumCompare
<1>9. SumOver(oo, Purchases) = 2 * SumOver(o, Purchases)
  BY <1>1, <1>3, <1>4, SumTwice
<1>10. ASSUME SumOver(w, Purchases) = 0 PROVE SumOver(c, Purchases) = 0
  <2>1. ASSUME NEW p \in Purchases PROVE c[p] = 0
    <3>1. w[p] <= SumOver(w, Purchases)
      BY <1>1, <1>3, SumElement
    <3> QED BY <1>3, <1>10, <3>1
  <2> QED BY <1>1, <2>1, SumZero
<1> QED BY <1>5, <1>6, <1>7, <1>8, <1>9, <1>10

\* When one purchase changes, they change by what it stands for.
LEMMA MeasureChange ==
  ASSUME NEW rows \in [Purchases -> Rows], NEW new \in [Purchases -> Rows],
         NEW p \in Purchases, \A q \in Purchases : q # p => new[q] = rows[q], NEW i \in Items
  PROVE  /\ PaidForBy(new, i) = PaidForBy(rows, i) - RowCost(rows[p], i) + RowCost(new[p], i)
         /\ ErrorsBy(new, i) = ErrorsBy(rows, i) - Roundings(rows[p], i) + Roundings(new[p], i)
         /\ VolumeBy(new, i)
              = VolumeBy(rows, i) - Brings(rows[p].lines, i) + Brings(new[p].lines, i)
<1>1. IsFiniteSet(Purchases)
  BY InventoryAssumption
<1>2. PaidForBy(new, i) = PaidForBy(rows, i) - RowCost(rows[p], i) + RowCost(new[p], i)
  <2>1. PICK f, g : /\ f = [q \in Purchases |-> RowCost(rows[q], i)]
                    /\ g = [q \in Purchases |-> RowCost(new[q], i)]
    OBVIOUS
  <2>2. \A q \in Purchases : f[q] \in Int /\ g[q] \in Int
    BY <2>1, RowType
  <2>3. \A q \in Purchases \ {p} : g[q] = f[q]
    BY <2>1
  <2>4. SumOver(g, Purchases) = SumOver(f, Purchases) - f[p] + g[p]
    BY <1>1, <2>2, <2>3, SumChange
  <2> QED BY <2>1, <2>4 DEF PaidForBy
<1>3. ErrorsBy(new, i) = ErrorsBy(rows, i) - Roundings(rows[p], i) + Roundings(new[p], i)
  <2>1. PICK f, g : /\ f = [q \in Purchases |-> Roundings(rows[q], i)]
                    /\ g = [q \in Purchases |-> Roundings(new[q], i)]
    OBVIOUS
  <2>2. \A q \in Purchases : f[q] \in Int /\ g[q] \in Int
    BY <2>1, RowType
  <2>3. \A q \in Purchases \ {p} : g[q] = f[q]
    BY <2>1
  <2>4. SumOver(g, Purchases) = SumOver(f, Purchases) - f[p] + g[p]
    BY <1>1, <2>2, <2>3, SumChange
  <2> QED BY <2>1, <2>4 DEF ErrorsBy
<1>4. VolumeBy(new, i) = VolumeBy(rows, i) - Brings(rows[p].lines, i) + Brings(new[p].lines, i)
  <2>1. PICK f, g : /\ f = [q \in Purchases |-> Brings(rows[q].lines, i)]
                    /\ g = [q \in Purchases |-> Brings(new[q].lines, i)]
    OBVIOUS
  <2>2. \A q \in Purchases : f[q] \in Int /\ g[q] \in Int
    BY <2>1, RowType
  <2>3. \A q \in Purchases \ {p} : g[q] = f[q]
    BY <2>1
  <2>4. SumOver(g, Purchases) = SumOver(f, Purchases) - f[p] + g[p]
    BY <1>1, <2>2, <2>3, SumChange
  <2> QED BY <2>1, <2>4 DEF VolumeBy
<1> QED BY <1>2, <1>3, <1>4

\* The movements of a purchase are no entries.
LEMMA AfterMoved ==
  ASSUME NEW kind, NEW lines \in Seq(Lines), NEW items \in [Items -> MovedItems], NEW i \in Items
  PROVE  "entry" \in After(kind, lines, items)[Len(lines)][i].moved
           <=> "entry" \in items[i].moved
<1>1. PICK N, f : N = Len(lines) /\ f = After(kind, lines, items)
  OBVIOUS
<1>2. N \in Nat /\ \A n \in 1..N : lines[n] \in Lines
  BY <1>1
<1>3. /\ f \in [0..N -> [Items -> MovedItems]] /\ f[0] = items
      /\ \A n \in 1..N : f[n] = Movement(kind, f[n - 1], lines[n])
  <2>1. AfterIs(kind, lines, items)
    BY AfterExists, Zenon
  <2> QED BY <1>1, <2>1 DEF AfterIs
<1> DEFINE Good == {n \in 0..N : "entry" \in f[n][i].moved <=> "entry" \in items[i].moved}
<1>4. 0 \in Good
  <2>1. 0 \in 0..N
    BY <1>2
  <2> QED BY <1>3, <2>1
<1>5. ASSUME NEW n \in 1..N, n - 1 \in Good PROVE n \in Good
  <2>1. PICK l \in Lines, s \in [Items -> MovedItems] : l = lines[n] /\ s = f[n - 1]
    BY <1>2, <1>3
  <2>2. Shifts(kind, s, l) /\ f[n] = Movement(kind, s, l)
    BY <1>3, <2>1, MovementLemma
  <2>3. n \in 0..N
    OBVIOUS
  <2> QED BY <1>5, <2>1, <2>2, <2>3 DEF Shifts
<1>6. N \in Good
  <2>1. \A n \in 1..N : n - 1 \in Good => n \in Good
    BY <1>5
  <2>2. N \in 0..N
    BY <1>2
  <2> HIDE DEF Good
  <2> QED BY <1>2, <1>4, <2>1, <2>2, Upwards
<1> QED BY <1>1, <1>6

-----------------------------------------------------------------------------
\* The value of what is on hand

\* A purchase that was never entered has no lines.
Fresh(rows) == \A p \in Purchases : rows[p].status = "none" => rows[p].lines = <<>>

\* An item that has had no entries is valued at what was paid for it, as long as its
\* average is known: up to what is on hand at most, once for every rounding.
Priced(row, entered, rows, i) ==
  "entry" \notin row.moved =>
    /\ entered = 0
    /\ Remains(row, PaidForBy(rows, i), ErrorsBy(rows, i) * VolumeBy(rows, i))

ValueInv == Fresh(purchase) /\ \A i \in Items : Priced(item[i], used[i], purchase, i)

\* The average cost of what is on hand is known: no purchase was cancelled of which the
\* average said that it had cost more than everything on hand.
AveragesKept ==
  \A i \in Items : "entry" \notin item[i].moved /\ item[i].hand > 0 => item[i].cost # Unknown

\* Products grow with their factors.
LEMMA ProductGrows ==
  ASSUME NEW a \in Nat, NEW b \in Nat, NEW c \in Nat, NEW d \in Nat, a <= c, b <= d
  PROVE  a * b \in Nat /\ c * d \in Nat /\ a * b <= c * d
<1>1. PICK m \in Nat, n \in Nat : c = a + m /\ d = b + n
  <2>1. c - a \in Nat /\ d - b \in Nat /\ c = a + (c - a) /\ d = b + (d - b)
    OBVIOUS
  <2> QED BY <2>1
<1>2. PICK p, q, r, s : p = a * b /\ q = a * n /\ r = m * b /\ s = m * n
  OBVIOUS
<1>3. p \in Nat /\ q \in Nat /\ r \in Nat /\ s \in Nat
  BY <1>1, <1>2, RoundedNat
<1>4. c * d = p + q + r + s
  BY <1>1, <1>2
<1> QED BY <1>2, <1>3, <1>4

\* More errors allow for more.
LEMMA RemainsMore ==
  ASSUME NEW row \in MovedItems, NEW paid \in Nat, NEW e \in Nat, NEW f \in Nat, e <= f,
         Remains(row, paid, e)
  PROVE  Remains(row, paid, f)
<1>1. PICK x, y : x = row.hand * row.cost /\ y = 1000 * paid
  OBVIOUS
<1>2. SUFFICES ASSUME row.hand > 0, row.cost # Unknown PROVE Near(row.hand, row.cost, paid, f)
  BY DEF Remains
<1>3. x \in Nat /\ y \in Nat
  <2>1. row.hand \in Nat /\ row.cost \in Nat
    BY <1>2 DEF MovedItems
  <2> QED BY <1>1, <2>1, RoundedNat
<1>4. x - y <= e /\ y - x <= e
  BY <1>1, <1>2 DEF Remains, Near
<1>5. x - y <= f /\ y - x <= f
  BY <1>3, <1>4
<1> QED BY <1>1, <1>5 DEF Near

\* An item that stays as it is, while purchases are written that stand for no more and no
\* less of what was paid.
LEMMA PricedMore ==
  ASSUME NEW rows \in [Purchases -> Rows], NEW new \in [Purchases -> Rows], NEW i \in Items,
         NEW row \in ItemRows, NEW entered,
         PaidForBy(new, i) = PaidForBy(rows, i), ErrorsBy(rows, i) <= ErrorsBy(new, i),
         VolumeBy(rows, i) <= VolumeBy(new, i), Priced(row, entered, rows, i)
  PROVE  Priced(row, entered, new, i)
<1>1. SUFFICES ASSUME "entry" \notin row.moved
               PROVE  /\ entered = 0
                      /\ Remains(row, PaidForBy(new, i), ErrorsBy(new, i) * VolumeBy(new, i))
  BY DEF Priced
<1>2. entered = 0 /\ Remains(row, PaidForBy(rows, i), ErrorsBy(rows, i) * VolumeBy(rows, i))
  BY <1>1 DEF Priced
<1>3. PICK a, b, c, d : /\ a = ErrorsBy(rows, i) /\ b = VolumeBy(rows, i)
                        /\ c = ErrorsBy(new, i) /\ d = VolumeBy(new, i)
  OBVIOUS
<1>4. a \in Nat /\ b \in Nat /\ c \in Nat /\ d \in Nat /\ a <= c /\ b <= d
  BY <1>3, MeasureType
<1>5. PICK e, f : e = a * b /\ f = c * d
  OBVIOUS
<1>6. e \in Nat /\ f \in Nat /\ e <= f
  BY <1>4, <1>5, ProductGrows
<1>7. row \in MovedItems /\ PaidForBy(rows, i) \in Nat
  BY MeasureType DEF ItemRows, MovedItems
<1>8. Remains(row, PaidForBy(rows, i), f)
  BY <1>2, <1>3, <1>5, <1>6, <1>7, RemainsMore
<1> QED BY <1>2, <1>3, <1>5, <1>8

\* A draft that is written or withdrawn stands for nothing that was paid.
LEMMA DraftValue ==
  ASSUME StoreInv, ValueInv, NEW p \in Purchases, Draft(p) \/ CancelDraft(p)
  PROVE  ValueInv'
<1>1. /\ item \in [Items -> ItemRows] /\ purchase \in [Purchases -> Rows]
  BY DEF StoreInv, TypeOK, ItemRows, Rows
<1>2. UNCHANGED <<item, used>>
  BY DEF Draft, CancelDraft
<1>3. PICK row \in Rows : /\ purchase' = [purchase EXCEPT ![p] = row]
                          /\ row.status \in {"draft", "cancelled"}
                          /\ purchase[p].status \in {"none", "draft"}
                          /\ purchase[p].status = "draft" => row.lines = purchase[p].lines
  <2>1. CASE Draft(p)
    <3>1. Entered(p) \in Seq(Lines)
      BY <1>1, <2>1, EnteredType DEF Draft
    <3>2. [status |-> "draft", lines |-> Entered(p)] \in Rows
      BY <3>1 DEF Rows, Statuses
    <3> QED BY <2>1, <3>2 DEF Draft
  <2>2. CASE CancelDraft(p)
    <3>1. purchase[p] \in Rows
      BY <1>1
    <3>2. PICK row : row = [purchase[p] EXCEPT !.status = "cancelled"]
      OBVIOUS
    <3>3. row \in Rows /\ row.status = "cancelled" /\ row.lines = purchase[p].lines
      BY <3>1, <3>2 DEF Rows, Statuses
    <3>4. purchase' = [purchase EXCEPT ![p] = row] /\ purchase[p].status = "draft"
      BY <2>2, <3>2 DEF CancelDraft
    <3> QED BY <3>3, <3>4
  <2> QED BY <2>1, <2>2
<1>4. PICK rows, new : rows = purchase /\ new = purchase'
  OBVIOUS
<1>5. /\ rows \in [Purchases -> Rows] /\ new \in [Purchases -> Rows] /\ new[p] = row
      /\ \A q \in Purchases : q # p => new[q] = rows[q]
  BY <1>1, <1>3, <1>4
<1>6. rows[p].status = "none" => rows[p].lines = <<>>
  BY <1>4 DEF ValueInv, Fresh
<1>7. ASSUME NEW i \in Items PROVE Priced(item'[i], used'[i], new, i)
  <2>1. Priced(item[i], used[i], rows, i) /\ item[i] \in ItemRows
    BY <1>1, <1>4 DEF ValueInv
  <2>2. /\ PaidForBy(new, i) = PaidForBy(rows, i) - RowCost(rows[p], i) + RowCost(new[p], i)
        /\ ErrorsBy(new, i) = ErrorsBy(rows, i) - Roundings(rows[p], i) + Roundings(new[p], i)
        /\ VolumeBy(new, i)
             = VolumeBy(rows, i) - Brings(rows[p].lines, i) + Brings(new[p].lines, i)
    BY <1>5, MeasureChange, Zenon
  <2>3. /\ RowCost(rows[p], i) = 0 /\ RowCost(new[p], i) = 0 /\ Roundings(rows[p], i) = 0
        /\ Roundings(new[p], i) \in Nat
    BY <1>3, <1>4, <1>5, RowType DEF RowCost, Roundings
  <2>4. /\ Brings(rows[p].lines, i) \in Nat /\ Brings(new[p].lines, i) \in Nat
        /\ Brings(rows[p].lines, i) <= Brings(new[p].lines, i)
    <3>1. Brings(rows[p].lines, i) \in Nat /\ Brings(new[p].lines, i) \in Nat
      BY <1>5, RowType
    <3>2. CASE rows[p].status = "none"
      <4>1. rows[p].lines = <<>>
        BY <1>6, <3>2
      <4>2. Brings(<<>>, i) = 0
        <5>1. <<>> \in Seq(Lines) /\ Len(<<>>) = 0
          OBVIOUS
        <5>2. FirstBrings(<<>>, i, 0) = 0 /\ FirstBrings(<<>>, i, Len(<<>>)) = Brings(<<>>, i)
          BY <5>1, LineEnds
        <5> QED BY <5>1, <5>2
      <4> QED BY <3>1, <4>1, <4>2
    <3>3. CASE rows[p].status # "none"
      BY <1>3, <1>4, <1>5, <3>1, <3>3
    <3> QED BY <3>2, <3>3
  <2>5. PaidForBy(rows, i) \in Nat /\ ErrorsBy(rows, i) \in Nat /\ VolumeBy(rows, i) \in Nat
    BY <1>5, MeasureType
  <2>6. /\ PaidForBy(new, i) = PaidForBy(rows, i) /\ ErrorsBy(rows, i) <= ErrorsBy(new, i)
        /\ VolumeBy(rows, i) <= VolumeBy(new, i)
    <3>1. PICK a, b, c, d, f, g, x, y, z :
            /\ a = PaidForBy(rows, i) /\ b = ErrorsBy(rows, i) /\ c = VolumeBy(rows, i)
            /\ d = PaidForBy(new, i) /\ f = ErrorsBy(new, i) /\ g = VolumeBy(new, i)
            /\ x = Roundings(new[p], i) /\ y = Brings(rows[p].lines, i)
            /\ z = Brings(new[p].lines, i)
      OBVIOUS
    <3>2. d = a - 0 + 0 /\ f = b - 0 + x /\ g = c - y + z
      BY <2>2, <2>3, <3>1
    <3>3. a \in Nat /\ b \in Nat /\ c \in Nat /\ x \in Nat /\ y \in Nat /\ z \in Nat /\ y <= z
      BY <2>3, <2>4, <2>5, <3>1
    <3> QED BY <3>1, <3>2, <3>3
  <2>7. Priced(item[i], used[i], new, i)
    BY <1>5, <2>1, <2>6, PricedMore
  <2> QED BY <1>2, <2>7
<1>8. Fresh(new)
  BY <1>3, <1>4, <1>5 DEF ValueInv, Fresh
<1> QED BY <1>4, <1>7, <1>8 DEF ValueInv

\* The items after the movements of a purchase are those the recursion ends with.
LEMMA AfterLinesIs ==
  ASSUME NEW kind, NEW lines
  PROVE  AfterLines(kind, lines) = After(kind, lines, item)[Len(lines)]
BY DEF AfterLines, After, Movement

\* A purchase that is confirmed leaves its items valued at what was paid, and their
\* averages known.
LEMMA ConfirmValue ==
  ASSUME StoreInv, ValueInv, AveragesKept, NEW w \in Workers, FinishConfirm(w),
         NEW new, new = purchase', \A i \in Items : item'[i].hand = used[i] + BroughtBy(new, i),
         new \in [Purchases -> Rows]
  PROVE  ValueInv' /\ AveragesKept'
<1>1. PICK x, p, lines : x = tx[w] /\ p = x.purchase /\ lines = x.lines
  OBVIOUS
<1>2. x.kind \in {"create", "confirm"} /\ x.pc = "item"
  BY <1>1 DEF FinishConfirm
<1>3. /\ p \in Purchases /\ lines \in Seq(Lines) /\ purchase[p] \in Rows
      /\ purchase[p].status # "confirmed"
  BY <1>1, <1>2, FoundLemma
<1>4. PICK row : row = [status |-> "confirmed", lines |-> lines]
  OBVIOUS
<1>5. row.status = "confirmed" /\ row.lines = lines
  BY <1>4
<1>6. /\ item' = AfterLines(x.kind, lines) /\ purchase' = [purchase EXCEPT ![p] = row]
      /\ UNCHANGED used
  BY <1>1, <1>4 DEF FinishConfirm
<1>7. /\ item \in [Items -> MovedItems] /\ purchase \in [Purchases -> Rows]
      /\ \A i \in Items : item[i].hand \in Nat
      /\ \A i \in Items : item[i].hand = used[i] + BroughtBy(purchase, i)
  BY ExplainedLemma DEF StoreInv, TypeOK, MovedItems, Rows
<1>8. PICK rows : rows = purchase
  OBVIOUS
<1>9. /\ rows \in [Purchases -> Rows] /\ new[p] = row
      /\ \A q \in Purchases : q # p => new[q] = rows[q]
  BY <1>3, <1>6, <1>7, <1>8
<1>10. /\ rows[p].status \in {"none", "draft"}
       /\ rows[p].status = "draft" => rows[p].lines = lines
       /\ rows[p].status = "none" => rows[p].lines = <<>>
  <2>1. Found(x)
    BY <1>1, <1>3, InventoryAssumption DEF StoreInv, Inv, Apart
  <2> QED BY <1>1, <1>2, <1>3, <1>8, <2>1 DEF Found, ValueInv, Fresh
<1>11. ASSUME NEW i \in Items
       PROVE  Priced(item'[i], used'[i], new, i) /\ ("entry" \notin item'[i].moved
                                                       /\ item'[i].hand > 0 => item'[i].cost # Unknown)
  <2>1. PICK to : to = item'[i]
    OBVIOUS
  <2>2. to = After(x.kind, lines, item)[Len(lines)][i]
    BY <1>6, <2>1, AfterLinesIs
  <2>3. SUFFICES ASSUME "entry" \notin to.moved
                 PROVE  /\ used[i] = 0
                        /\ Remains(to, PaidForBy(new, i), ErrorsBy(new, i) * VolumeBy(new, i))
                        /\ to.hand > 0 => to.cost # Unknown
    BY <1>6, <2>1 DEF Priced
  <2>4. "entry" \notin item[i].moved
    BY <1>3, <1>7, <2>2, <2>3, AfterMoved
  <2>5. used[i] = 0 /\ Remains(item[i], PaidForBy(rows, i), ErrorsBy(rows, i) * VolumeBy(rows, i))
    BY <1>8, <2>4 DEF ValueInv, Priced
  <2>6. item[i].hand > 0 => item[i].cost # Unknown
    BY <2>4 DEF AveragesKept
  <2>7. PICK paid, a, b, B, k, t, s : /\ paid = PaidForBy(rows, i) /\ a = ErrorsBy(rows, i)
                                      /\ b = VolumeBy(rows, i) /\ B = VolumeBy(new, i)
                                      /\ k = Count(lines, i) /\ t = CostOf(lines, i)
                                      /\ s = Brings(lines, i)
    OBVIOUS
  <2>8. /\ paid \in Nat /\ a \in Nat /\ b \in Nat /\ B \in Nat /\ k \in Nat /\ t \in Nat
        /\ s \in Nat
    BY <1>3, <1>9, <2>7, MeasureType, LinesType
  <2>9. PaidForBy(new, i) = paid + t /\ ErrorsBy(new, i) = a + k /\ b <= B
    <3>1. /\ PaidForBy(new, i) = PaidForBy(rows, i) - RowCost(rows[p], i) + RowCost(new[p], i)
          /\ ErrorsBy(new, i) = ErrorsBy(rows, i) - Roundings(rows[p], i) + Roundings(new[p], i)
          /\ VolumeBy(new, i)
               = VolumeBy(rows, i) - Brings(rows[p].lines, i) + Brings(new[p].lines, i)
      BY <1>3, <1>9, MeasureChange, Zenon
    <3>2. /\ RowCost(rows[p], i) = 0 /\ Roundings(rows[p], i) = 0
          /\ RowCost(new[p], i) = t /\ Roundings(new[p], i) = k
          /\ Brings(new[p].lines, i) = s
      BY <1>5, <1>9, <1>10, <2>7 DEF RowCost, Roundings
    <3>3. PICK y : y = Brings(rows[p].lines, i)
      OBVIOUS
    <3>4. y \in Nat /\ y <= s
      <4>1. CASE rows[p].status = "none"
        <5>1. <<>> \in Seq(Lines) /\ Len(<<>>) = 0
          OBVIOUS
        <5>2. FirstBrings(<<>>, i, 0) = 0 /\ FirstBrings(<<>>, i, Len(<<>>)) = Brings(<<>>, i)
          BY <5>1, LineEnds
        <5> QED BY <1>10, <2>8, <3>3, <4>1, <5>1, <5>2
      <4>2. CASE rows[p].status = "draft"
        BY <1>10, <2>7, <2>8, <3>3, <4>2
      <4> QED BY <1>10, <4>1, <4>2
    <3>5. PICK c, f : c = PaidForBy(new, i) /\ f = ErrorsBy(new, i)
      OBVIOUS
    <3>6. c = paid - 0 + t /\ f = a - 0 + k /\ B = b - y + s
      BY <2>7, <3>1, <3>2, <3>3, <3>5
    <3> QED BY <2>8, <3>4, <3>5, <3>6
  <2>10. PICK e : e = a * B
    OBVIOUS
  <2>11. e \in Nat /\ a * b <= e /\ a * b \in Nat
    BY <2>8, <2>9, <2>10, ProductGrows
  <2>12. Remains(item[i], paid, e)
    <3>1. item[i] \in MovedItems /\ Remains(item[i], paid, a * b)
      BY <1>7, <2>5, <2>7
    <3> QED BY <2>8, <2>11, <3>1, RemainsMore
  <2>13. Valued(item[i], paid, e)
    <3>1. item[i].hand = 0 => paid = 0
      <4>1. item[i].hand = BroughtBy(rows, i)
        <5>1. BroughtBy(rows, i) \in Nat
          BY <1>9, MeasureType
        <5> QED BY <1>7, <1>8, <2>5, <5>1
      <4> QED BY <1>9, <2>7, <4>1, MeasureType
    <3>2. item[i].hand \in Nat /\ item[i].cost \in Nat \cup {Unknown}
      BY <1>7 DEF MovedItems
    <3>3. item[i].hand > 0 => item[i].cost \in Nat /\ Near(item[i].hand, item[i].cost, paid, e)
      BY <2>6, <2>12, <3>2 DEF Remains
    <3> QED BY <3>1, <3>2, <3>3 DEF Valued
  <2>14. item[i].hand + s <= B
    <3>1. to.hand = item[i].hand + Change(x.kind, s)
      BY <1>3, <1>6, <1>7, <2>1, <2>7, AfterLinesLemma
    <3>2. to.hand = item[i].hand + s
      BY <1>2, <3>1 DEF Change
    <3>3. to.hand = used[i] + BroughtBy(new, i)
      BY <2>1
    <3>4. BroughtBy(new, i) \in Nat /\ BroughtBy(new, i) <= B
      BY <2>7, MeasureType
    <3> QED BY <1>7, <2>5, <2>8, <3>2, <3>3, <3>4
  <2>15. Valued(to, paid + t, e + k * B)
    <3>1. x.kind # "cancel" /\ Brings(lines, i) = s /\ CostOf(lines, i) = t /\ Count(lines, i) = k
      BY <1>2, <2>7
    <3> QED BY <1>3, <1>7, <2>2, <2>8, <2>11, <2>13, <2>14, <3>1, ReceiveLines
  <2>16. e + k * B = (a + k) * B
    BY <2>8, <2>10
  <2>17. to.hand > 0 => to.cost # Unknown
    BY <2>15 DEF Valued, Unknown
  <2>18. Remains(to, paid + t, (a + k) * B)
    <3>1. Remains(to, paid + t, e + k * B)
      BY <2>15 DEF Valued, Remains
    <3> QED BY <2>16, <3>1
  <2> QED BY <2>5, <2>7, <2>9, <2>17, <2>18
<1>12. Fresh(new)
  BY <1>5, <1>9, <1>8 DEF ValueInv, Fresh
<1> QED BY <1>11, <1>12 DEF ValueInv, AveragesKept

\* Every line costs more than the roundings of its item may add up to: half a unit of
\* cost for all the item's lines ever brought, once for each of them that came and once
\* for each that went, and once more.
DearRows(rows) ==
  \A i \in Items, p \in Purchases : \A n \in DOMAIN rows[p].lines :
    rows[p].lines[n].item = i =>
      1000 * rows[p].lines[n].total >= (2 * LinesBy(rows, i) + 1) * VolumeBy(rows, i)

\* So it is of the purchases as they are.
Dear ==
  \A i \in Items, p \in Purchases : \A n \in DOMAIN purchase[p].lines :
    purchase[p].lines[n].item = i =>
      1000 * purchase[p].lines[n].total >= (2 * LinesEver(i) + 1) * Volume(i)

\* What the purchases stand for before and after one of them is cancelled.
Undone(rows, new, lines, i) ==
  /\ PaidForBy(new, i) = PaidForBy(rows, i) - CostOf(lines, i)
  /\ ErrorsBy(new, i) = ErrorsBy(rows, i) + Count(lines, i)
  /\ VolumeBy(new, i) = VolumeBy(rows, i)

\* It is taken back, and every line of it rounded once more.
LEMMA CancelMeasures ==
  ASSUME NEW rows \in [Purchases -> Rows], NEW p \in Purchases, rows[p].status = "confirmed",
         NEW row \in Rows, row.status = "cancelled", row.lines = rows[p].lines,
         NEW new \in [Purchases -> Rows], new[p] = row,
         \A q \in Purchases : q # p => new[q] = rows[q], NEW i \in Items
  PROVE  Undone(rows, new, rows[p].lines, i)
<1>1. /\ rows \in [Purchases -> Rows] /\ new \in [Purchases -> Rows] /\ new[p] = row
      /\ p \in Purchases /\ i \in Items /\ \A q \in Purchases : q # p => new[q] = rows[q]
  OBVIOUS
<1>2. /\ PaidForBy(new, i) = PaidForBy(rows, i) - RowCost(rows[p], i) + RowCost(new[p], i)
      /\ ErrorsBy(new, i) = ErrorsBy(rows, i) - Roundings(rows[p], i) + Roundings(new[p], i)
      /\ VolumeBy(new, i)
           = VolumeBy(rows, i) - Brings(rows[p].lines, i) + Brings(new[p].lines, i)
  BY <1>1, MeasureChange, Zenon
<1>3. PICK a, b, c, t, k, s, lines :
        /\ a = PaidForBy(rows, i) /\ b = ErrorsBy(rows, i) /\ c = VolumeBy(rows, i)
        /\ lines = rows[p].lines
        /\ t = CostOf(lines, i) /\ k = Count(lines, i) /\ s = Brings(lines, i)
  OBVIOUS
<1>4. a \in Nat /\ b \in Nat /\ c \in Nat /\ t \in Nat /\ k \in Nat /\ s \in Nat
  <2>1. lines \in Seq(Lines)
    BY <1>3 DEF Rows
  <2> QED BY <1>3, <2>1, MeasureType, LinesType
<1>5. /\ RowCost(rows[p], i) = t /\ Roundings(rows[p], i) = k
      /\ RowCost(new[p], i) = 0 /\ Roundings(new[p], i) = 2 * k
      /\ Brings(rows[p].lines, i) = s /\ Brings(new[p].lines, i) = s
  BY <1>1, <1>3 DEF RowCost, Roundings
<1>6. PICK d, e, f : d = PaidForBy(new, i) /\ e = ErrorsBy(new, i) /\ f = VolumeBy(new, i)
  OBVIOUS
<1>7. d = a - t + 0 /\ e = b - k + 2 * k /\ f = c - s + s
  BY <1>2, <1>3, <1>5, <1>6
<1>8. d = a - t /\ e = b + k /\ f = c
  BY <1>4, <1>7
<1> QED BY <1>1, <1>3, <1>6, <1>8 DEF Undone

\* A purchase that is cancelled leaves what is known of an average valued at what was paid.
LEMMA CancelValue ==
  ASSUME StoreInv, ValueInv, NEW p \in Purchases, purchase[p].status = "confirmed",
         NEW row \in Rows, row.status = "cancelled", row.lines = purchase[p].lines,
         NEW lines, lines = purchase[p].lines,
         item' = AfterLines("cancel", lines), purchase' = [purchase EXCEPT ![p] = row],
         UNCHANGED used
  PROVE  ValueInv'
<1>1. /\ item \in [Items -> MovedItems] /\ purchase \in [Purchases -> Rows]
      /\ \A i \in Items : item[i].hand \in Nat
      /\ \A i \in Items : item[i].hand = used[i] + BroughtBy(purchase, i)
  BY ExplainedLemma DEF StoreInv, TypeOK, MovedItems, Rows
<1>2. lines \in Seq(Lines)
  BY <1>1 DEF Rows
<1>3. PICK rows, new : rows = purchase /\ new = purchase'
  OBVIOUS
<1>4. /\ rows \in [Purchases -> Rows] /\ new \in [Purchases -> Rows] /\ new[p] = row
      /\ \A q \in Purchases : q # p => new[q] = rows[q]
      /\ rows[p].status = "confirmed" /\ row.lines = rows[p].lines /\ lines = rows[p].lines
  BY <1>1, <1>3
<1>5. ASSUME NEW i \in Items PROVE Priced(item'[i], used'[i], new, i)
  <2>1. PICK to : to = item'[i]
    OBVIOUS
  <2>2. to = After("cancel", lines, item)[Len(lines)][i]
    BY <2>1, AfterLinesIs
  <2>3. SUFFICES ASSUME "entry" \notin to.moved
                 PROVE  /\ used[i] = 0
                        /\ Remains(to, PaidForBy(new, i), ErrorsBy(new, i) * VolumeBy(new, i))
    BY <2>1 DEF Priced
  <2>4. "entry" \notin item[i].moved
    BY <1>1, <1>2, <2>2, <2>3, AfterMoved
  <2>5. used[i] = 0 /\ Remains(item[i], PaidForBy(rows, i), ErrorsBy(rows, i) * VolumeBy(rows, i))
    BY <1>3, <2>4 DEF ValueInv, Priced
  <2>6. PICK paid, a, B, k, t, e : /\ paid = PaidForBy(rows, i) /\ a = ErrorsBy(rows, i)
                                   /\ B = VolumeBy(rows, i) /\ e = a * B
                                   /\ k = Count(lines, i) /\ t = CostOf(lines, i)
    OBVIOUS
  <2>7. paid \in Nat /\ a \in Nat /\ B \in Nat /\ k \in Nat /\ t \in Nat
    BY <1>2, <1>4, <2>6, MeasureType, LinesType
  <2>8. Undone(rows, new, lines, i)
    BY <1>4, CancelMeasures
  <2>9. item[i].hand <= B
    <3>1. BroughtBy(rows, i) \in Nat /\ BroughtBy(rows, i) <= B
      BY <1>4, <2>6, MeasureType
    <3> QED BY <1>1, <1>3, <2>5, <3>1
  <2>10. Remains(to, paid - t, e + k * B)
    <3>1. Remains(item[i], paid, e) /\ e \in Nat /\ paid \in Int
      BY <2>5, <2>6, <2>7, ProductGrows
    <3>2. \A n \in 0..Len(lines) :
            Remains(After("cancel", lines, item)[n][i], paid - FirstCost(lines, i, n),
                    e + FirstCount(lines, i, n) * B)
      BY <1>1, <1>2, <2>7, <2>9, <3>1, ReturnLines
    <3>3. Len(lines) \in 0..Len(lines)
      BY <1>2
    <3>4. FirstCost(lines, i, Len(lines)) = t /\ FirstCount(lines, i, Len(lines)) = k
      BY <1>2, <2>6, LineEnds
    <3> QED BY <2>2, <3>2, <3>3, <3>4
  <2>11. e + k * B = (a + k) * B
    BY <2>6, <2>7
  <2> QED BY <2>5, <2>6, <2>8, <2>10, <2>11 DEF Undone
<1>6. Fresh(new)
  BY <1>3, <1>4 DEF ValueInv, Fresh
<1> QED BY <1>3, <1>5, <1>6 DEF ValueInv

\* As long as all lines are dear, it leaves the averages known.
LEMMA CancelKept ==
  ASSUME StoreInv, ValueInv, AveragesKept, DearRows(purchase), NEW p \in Purchases,
         purchase[p].status = "confirmed", NEW row \in Rows, row.status = "cancelled",
         row.lines = purchase[p].lines, NEW lines, lines = purchase[p].lines,
         item' = AfterLines("cancel", lines), NEW new \in [Purchases -> Rows], new[p] = row,
         \A q \in Purchases : q # p => new[q] = purchase[q],
         \A i \in Items : item'[i].hand = used[i] + BroughtBy(new, i)
  PROVE  AveragesKept'
<1>1. /\ item \in [Items -> MovedItems] /\ purchase \in [Purchases -> Rows]
      /\ \A i \in Items : item[i].hand \in Nat
      /\ \A i \in Items : item[i].hand = used[i] + BroughtBy(purchase, i)
  BY ExplainedLemma DEF StoreInv, TypeOK, MovedItems, Rows
<1>2. lines \in Seq(Lines)
  BY <1>1 DEF Rows
<1>3. PICK rows : rows = purchase
  OBVIOUS
<1>4. /\ rows \in [Purchases -> Rows] /\ new \in [Purchases -> Rows] /\ new[p] = row
      /\ \A q \in Purchases : q # p => new[q] = rows[q]
      /\ rows[p].status = "confirmed" /\ row.lines = rows[p].lines /\ lines = rows[p].lines
      /\ DearRows(rows)
  BY <1>1, <1>3
<1>5. ASSUME NEW i \in Items, "entry" \notin item'[i].moved, item'[i].hand > 0
      PROVE  item'[i].cost # Unknown
  <2>1. PICK to : to = item'[i]
    OBVIOUS
  <2>2. to = After("cancel", lines, item)[Len(lines)][i]
    BY <2>1, AfterLinesIs
  <2>3. "entry" \notin item[i].moved
    BY <1>1, <1>2, <1>5, <2>1, <2>2, AfterMoved
  <2>4. used[i] = 0 /\ Remains(item[i], PaidForBy(rows, i), ErrorsBy(rows, i) * VolumeBy(rows, i))
    BY <1>3, <2>3 DEF ValueInv, Priced
  <2>5. PICK paid, a, B, k, t, s, e, m :
          /\ paid = PaidForBy(rows, i) /\ a = ErrorsBy(rows, i) /\ B = VolumeBy(rows, i)
          /\ e = a * B /\ m = LinesBy(rows, i)
          /\ k = Count(lines, i) /\ t = CostOf(lines, i) /\ s = Brings(lines, i)
    OBVIOUS
  <2>6. /\ paid \in Nat /\ a \in Nat /\ B \in Nat /\ k \in Nat /\ t \in Nat /\ s \in Nat
        /\ m \in Nat
    BY <1>2, <1>4, <2>5, MeasureType, LinesType
  <2>7. new \in [Purchases -> Rows] /\ Undone(rows, new, lines, i)
    BY <1>4, CancelMeasures
  <2>8. item[i].hand <= B /\ to.hand = BroughtBy(new, i) /\ BroughtBy(new, i) \in Nat
    <3>1. BroughtBy(rows, i) \in Nat /\ BroughtBy(rows, i) <= B /\ BroughtBy(new, i) \in Nat
      BY <1>4, <2>5, <2>7, MeasureType
    <3>2. to.hand = 0 + BroughtBy(new, i)
      BY <2>1, <2>4
    <3> QED BY <1>1, <1>3, <2>4, <3>1, <3>2
  <2>9. item[i].hand > 0 /\ item[i].cost # Unknown
    <3>1. to.hand = item[i].hand + Change("cancel", s)
      BY <1>1, <1>2, <2>1, <2>5, AfterLinesLemma
    <3>2. item[i].hand > 0
      BY <1>1, <1>5, <2>1, <2>6, <3>1 DEF Change
    <3> QED BY <2>3, <3>2 DEF AveragesKept
  <2>10. PICK q \in Purchases : new[q].status = "confirmed" /\ Brings(new[q].lines, i) # 0
    <3>1. SUFFICES ASSUME \A q \in Purchases : Worth(new[q], i) = 0 PROVE FALSE
      BY DEF Worth
    <3>2. BroughtBy(new, i) = 0
      <4>1. PICK f : f = [q \in Purchases |-> Worth(new[q], i)]
        OBVIOUS
      <4>2. \A q \in Purchases : f[q] = 0
        BY <3>1, <4>1
      <4> QED BY <4>1, <4>2, SumZero, InventoryAssumption DEF BroughtBy
    <3> QED BY <1>5, <2>1, <2>8, <3>2
  <2>11. q # p /\ rows[q] = new[q] /\ new[q] \in Rows
    BY <1>4, <2>7, <2>10
  <2>12. PICK n \in DOMAIN rows[q].lines : rows[q].lines[n].item = i
    <3>1. SUFFICES ASSUME \A n \in DOMAIN rows[q].lines : rows[q].lines[n].item # i PROVE FALSE
      OBVIOUS
    <3>2. PICK ls : ls = rows[q].lines
      OBVIOUS
    <3>3. ls \in Seq(Lines) /\ DOMAIN ls = 1..Len(ls) /\ IsFiniteSet(DOMAIN ls)
      <4>1. ls \in Seq(Lines)
        BY <2>11, <3>2 DEF Rows
      <4>2. DOMAIN ls = 1..Len(ls) /\ Len(ls) \in Int /\ 1 \in Int
        BY <4>1
      <4>3. IsFiniteSet(1..Len(ls))
        BY <4>2, FS_Interval, Zenon
      <4> QED BY <4>1, <4>2, <4>3
    <3>4. PICK b : b = [n \in DOMAIN ls |-> IF ls[n].item = i THEN ls[n].base ELSE 0]
      OBVIOUS
    <3>5. \A n \in DOMAIN ls : b[n] = 0
      BY <3>1, <3>2, <3>4
    <3>6. Brings(ls, i) = 0
      BY <3>3, <3>4, <3>5, SumZero DEF Brings
    <3> QED BY <2>10, <2>11, <3>2, <3>6
  <2>13. PICK total, d : total = rows[q].lines[n].total /\ d = (2 * m + 1) * B
    OBVIOUS
  <2>14. total \in Nat /\ total <= RowCost(new[q], i) /\ 1000 * total >= d
    <3>1. rows[q].lines \in Seq(Lines)
      BY <1>4 DEF Rows
    <3>2. total \in Nat /\ total <= CostOf(rows[q].lines, i)
      BY <2>12, <2>13, <3>1, LineIn
    <3>3. 1000 * total >= d
      BY <1>4, <2>5, <2>12, <2>13 DEF DearRows
    <3> QED BY <2>10, <2>11, <3>2, <3>3 DEF RowCost
  <2>15. RowCost(new[q], i) <= PaidForBy(new, i)
    <3>1. PICK f : f = [r \in Purchases |-> RowCost(new[r], i)]
      OBVIOUS
    <3>2. \A r \in Purchases : f[r] \in Nat
      BY <2>7, <3>1, RowType
    <3>3. f[q] <= SumOver(f, Purchases)
      BY <3>2, SumElement, InventoryAssumption
    <3> QED BY <3>1, <3>3 DEF PaidForBy
  <2>16. total <= paid - t
    <3>1. PaidForBy(new, i) = paid - t
      BY <2>5, <2>7 DEF Undone
    <3>2. RowCost(new[q], i) \in Nat
      BY <2>11, RowType
    <3> QED BY <2>6, <2>14, <2>15, <3>1, <3>2
  <2>17. d >= e + k * B + B
    <3>1. a + k <= 2 * m
      <4>1. ErrorsBy(new, i) = a + k /\ LinesBy(new, i) = m
        <5>1. ErrorsBy(new, i) = a + k
          BY <2>5, <2>7 DEF Undone
        <5>2. PICK f, g : /\ f = [r \in Purchases |-> Count(rows[r].lines, i)]
                          /\ g = [r \in Purchases |-> Count(new[r].lines, i)]
          OBVIOUS
        <5>3. \A r \in Purchases : g[r] = f[r]
          BY <1>4, <5>2
        <5>4. f = g
          BY <5>2, <5>3
        <5> QED BY <2>5, <5>1, <5>2, <5>4 DEF LinesBy
      <4>2. ErrorsBy(new, i) <= 2 * LinesBy(new, i)
        BY <2>7, MeasureType
      <4> QED BY <4>1, <4>2
    <3>2. (a + k) * B \in Nat /\ (2 * m) * B \in Nat /\ (a + k) * B <= (2 * m) * B
      <4>1. a + k \in Nat /\ 2 * m \in Nat /\ B <= B
        BY <2>6
      <4> QED BY <2>6, <3>1, <4>1, ProductGrows
    <3>3. d = (2 * m) * B + B /\ e + k * B = (a + k) * B
      BY <2>5, <2>6, <2>13
    <3> QED BY <2>6, <3>2, <3>3
  <2>18. 1000 * (paid - CostOf(lines, i)) >= e + Count(lines, i) * B + B
    <3>1. 1000 * (paid - t) >= d
      <4>1. d \in Int
        BY <2>6, <2>13, RoundedNat
      <4> QED BY <2>6, <2>14, <2>16, <4>1
    <3>2. PICK z : z = e + k * B + B
      OBVIOUS
    <3>3. z \in Int /\ d \in Int
      <4>1. e \in Nat /\ k * B \in Nat /\ d \in Int
        BY <2>5, <2>6, <2>13, RoundedNat
      <4> QED BY <2>6, <3>2, <4>1
    <3> QED BY <2>5, <2>6, <2>17, <3>1, <3>2, <3>3
  <2>19. Remains(item[i], paid, e) /\ e \in Nat
    BY <2>4, <2>5, <2>6, ProductGrows
  <2>20. to.cost # Unknown
    <3>1. After("cancel", lines, item)[Len(lines)][i].hand > 0
      BY <1>5, <2>1, <2>2
    <3> QED BY <1>1, <1>2, <2>2, <2>6, <2>8, <2>9, <2>18, <2>19, <3>1, DearLines
  <2> QED BY <2>1, <2>20
<1> QED BY <1>5 DEF AveragesKept

\* What the properties say of the purchases is what their measures say.
LEMMA MeasuresAre ==
  /\ Dear <=> DearRows(purchase)
  /\ \A i \in Items : /\ PaidFor(i) = PaidForBy(purchase, i)
                      /\ LinesEver(i) = LinesBy(purchase, i)
                      /\ Volume(i) = VolumeBy(purchase, i)
<1>1. \A i : /\ PaidFor(i) = PaidForBy(purchase, i)
             /\ LinesEver(i) = LinesBy(purchase, i)
             /\ Volume(i) = VolumeBy(purchase, i)
  BY DEF PaidFor, PaidForBy, RowCost, Confirmed, LinesEver, LinesBy, Volume, VolumeBy
<1> QED BY <1>1 DEF Dear, DearRows

\* An item of which neither the quantity nor the cost nor the movements change.
LEMMA SameValue ==
  ASSUME ValueInv, UNCHANGED <<purchase, used>>,
         \A i \in Items : /\ item'[i].hand = item[i].hand /\ item'[i].cost = item[i].cost
                          /\ item'[i].moved = item[i].moved
  PROVE  ValueInv' /\ (AveragesKept => AveragesKept')
<1>1. AveragesKept => AveragesKept'
  BY DEF AveragesKept
<1>2. ValueInv'
  BY DEF ValueInv, Fresh, Priced, Remains
<1> QED BY <1>1, <1>2

\* A unit that changes changes nothing of the value.
LEMMA SaveUnitValue ==
  ASSUME StoreInv, ValueInv, NEW w \in Workers, SaveUnit(w)
  PROVE  ValueInv' /\ (AveragesKept => AveragesKept')
<1>1. item \in [Items -> ItemRows]
  BY DEF StoreInv, TypeOK, ItemRows
<1>2. PICK i : i = tx[w].item
  OBVIOUS
<1>3. item' = [item EXCEPT ![i].unit = "g"] /\ UNCHANGED <<purchase, used>>
  BY <1>2 DEF SaveUnit
<1>4. \A j \in Items : /\ item'[j].hand = item[j].hand /\ item'[j].cost = item[j].cost
                       /\ item'[j].moved = item[j].moved
  <2>1. \A j \in Items : /\ [item[j] EXCEPT !.unit = "g"].hand = item[j].hand
                         /\ [item[j] EXCEPT !.unit = "g"].cost = item[j].cost
                         /\ [item[j] EXCEPT !.unit = "g"].moved = item[j].moved
    BY <1>1 DEF ItemRows
  <2>2. item' = [j \in Items |-> IF j = i THEN [item[j] EXCEPT !.unit = "g"] ELSE item[j]]
    BY <1>1, <1>3
  <2> QED BY <2>1, <2>2
<1> QED BY <1>3, <1>4, SameValue

\* An entry ends what is said of its item, and leaves the others alone.
LEMMA RecordValue ==
  ASSUME StoreInv, ValueInv, NEW i \in Items, NEW e \in Entries, Record(i, e)
  PROVE  ValueInv' /\ (AveragesKept => AveragesKept')
<1>1. item \in [Items -> ItemRows] /\ used \in [Items -> Int]
  BY DEF StoreInv, TypeOK, ItemRows
<1>2. PICK delta :
        /\ item' = [item EXCEPT ![i].hand = @ + delta, ![i].moved = @ \cup {"entry"}]
        /\ used' = [used EXCEPT ![i] = @ + delta]
  BY DEF Record
<1>3. UNCHANGED purchase
  BY DEF Record
<1>4. PICK row, h, m : /\ h = item[i].hand + delta /\ m = item[i].moved \cup {"entry"}
                       /\ row = [item[i] EXCEPT !.hand = h, !.moved = m]
  OBVIOUS
<1>5. item' = [item EXCEPT ![i] = row]
  BY <1>1, <1>2, <1>4 DEF ItemRows
<1>6. row.moved = m
  BY <1>1, <1>4 DEF ItemRows
<1>7. "entry" \in item'[i].moved
  BY <1>1, <1>4, <1>5, <1>6
<1>8. \A j \in Items : j # i => item'[j] = item[j] /\ used'[j] = used[j]
  BY <1>1, <1>2, <1>5
<1>9. AveragesKept => AveragesKept'
  BY <1>7, <1>8 DEF AveragesKept
<1>10. ValueInv'
  BY <1>3, <1>7, <1>8 DEF ValueInv, Fresh, Priced
<1> QED BY <1>9, <1>10

\* A purchase that is cancelled, or was to be.
LEMMA FinishCancelValue ==
  ASSUME StoreInv, StockExplained', TypeOK', ValueInv, NEW w \in Workers, FinishCancel(w)
  PROVE  ValueInv' /\ (AveragesKept /\ Dear => AveragesKept')
<1>1. PICK x, p, lines : x = tx[w] /\ p = x.purchase /\ lines = x.lines
  OBVIOUS
<1>2. x.kind = "cancel" /\ x.pc = "wallet"
  BY <1>1 DEF FinishCancel
<1>3. /\ p \in Purchases /\ lines \in Seq(Lines) /\ purchase[p] \in Rows
      /\ purchase[p].status = "confirmed" /\ purchase[p].lines = lines
  BY <1>1, <1>2, FoundLemma
<1>4. PICK left : left = AfterLines("cancel", lines)
  OBVIOUS
<1>5. UNCHANGED used
  BY DEF FinishCancel
<1>6. CASE \A i \in Items : left[i].hand >= 0
  <2>1. item' = left /\ purchase' = [purchase EXCEPT ![p].status = "cancelled"]
    BY <1>1, <1>4, <1>6 DEF FinishCancel
  <2>2. PICK row : row = [status |-> "cancelled", lines |-> lines]
    OBVIOUS
  <2>3. row \in Rows /\ row.status = "cancelled" /\ row.lines = purchase[p].lines
    BY <1>3, <2>2 DEF Rows, Statuses
  <2>4. purchase' = [purchase EXCEPT ![p] = row]
    <3>1. [purchase[p] EXCEPT !.status = "cancelled"] = row
      BY <1>3, <2>2 DEF Rows
    <3> QED BY <2>1, <3>1
  <2>5. ValueInv'
    BY <1>3, <1>4, <1>5, <2>1, <2>3, <2>4, CancelValue
  <2>6. ASSUME AveragesKept, Dear PROVE AveragesKept'
    <3>1. PICK new : new = purchase'
      OBVIOUS
    <3>2. new \in [Purchases -> Rows] /\ purchase \in [Purchases -> Rows]
      BY <3>1 DEF StoreInv, TypeOK, Rows
    <3>3. new[p] = row /\ \A q \in Purchases : q # p => new[q] = purchase[q]
      BY <1>3, <2>4, <3>1, <3>2
    <3>4. \A i \in Items : item'[i].hand = used[i] + BroughtBy(new, i)
      BY <1>5, <3>1, ExplainedLemma
    <3>5. DearRows(purchase)
      BY <2>6, MeasuresAre
    <3> QED BY <1>3, <1>4, <2>1, <2>3, <2>6, <3>2, <3>3, <3>4, <3>5, CancelKept
  <2> QED BY <2>5, <2>6
<1>7. CASE ~(\A i \in Items : left[i].hand >= 0)
  <2>1. UNCHANGED <<item, purchase>>
    BY <1>1, <1>4, <1>7 DEF FinishCancel
  <2> QED BY <1>5, <2>1, SameValue
<1> QED BY <1>6, <1>7

\* A step leaves the stock valued at what was paid; and where all lines are dear, it
\* leaves the averages known.
LEMMA ValueStep ==
  ASSUME StoreInv, StoreInv', ValueInv, AveragesKept, [Next]_vars
  PROVE  ValueInv' /\ (Dear => AveragesKept')
<1>1. CASE UNCHANGED <<item, purchase, used>>
  BY <1>1, SameValue
<1>2. ASSUME NEW p \in Purchases, Draft(p) \/ CancelDraft(p)
      PROVE  ValueInv' /\ AveragesKept'
  <2>1. UNCHANGED item
    BY <1>2 DEF Draft, CancelDraft
  <2>2. AveragesKept'
    BY <2>1 DEF AveragesKept
  <2> QED BY <1>2, <2>2, DraftValue
<1>3. ASSUME NEW w \in Workers, FinishConfirm(w)
      PROVE  ValueInv' /\ AveragesKept'
  <2>1. PICK new : new = purchase'
    OBVIOUS
  <2>2. new \in [Purchases -> Rows]
    BY <2>1 DEF StoreInv, TypeOK, Rows
  <2>3. UNCHANGED used
    BY <1>3 DEF FinishConfirm
  <2>4. \A i \in Items : item'[i].hand = used[i] + BroughtBy(new, i)
    BY <2>1, <2>3, ExplainedLemma DEF StoreInv
  <2> QED BY <1>3, <2>1, <2>2, <2>4, ConfirmValue
<1>4. ASSUME NEW w \in Workers, FinishCancel(w)
      PROVE  ValueInv' /\ (Dear => AveragesKept')
  BY <1>4, FinishCancelValue DEF StoreInv
<1>5. ASSUME NEW w \in Workers, SaveUnit(w)
      PROVE  ValueInv' /\ AveragesKept'
  BY <1>5, SaveUnitValue
<1>6. ASSUME NEW i \in Items, NEW e \in Entries, Record(i, e)
      PROVE  ValueInv' /\ AveragesKept'
  BY <1>6, RecordValue
<1>7. ASSUME NEW w \in Workers, NEW p \in Purchases,
             CreateConfirmed(w, p) \/ Confirm(w, p) \/ Cancel(w, p)
      PROVE  UNCHANGED <<item, purchase, used>>
  BY <1>7 DEF CreateConfirmed, Confirm, Cancel, stock
<1>8. ASSUME NEW w \in Workers, TakeMoney(w) \/ TakeItem(w) \/ Victim(w)
      PROVE  UNCHANGED <<item, purchase, used>>
  BY <1>8 DEF TakeMoney, TakeItem, Victim, stock
<1>9. ASSUME NEW w \in Workers, NEW i \in Items, ChangeUnit(w, i)
      PROVE  UNCHANGED <<item, purchase, used>>
  BY <1>9 DEF ChangeUnit, stock
<1>10. UNCHANGED vars => UNCHANGED <<item, purchase, used>>
  BY DEF vars, stock
<1> QED BY <1>1, <1>2, <1>3, <1>4, <1>5, <1>6, <1>7, <1>8, <1>9, <1>10 DEF Next

\* An empty store is worth nothing, and has cost nothing.
LEMMA ValueInit ==
  ASSUME Init
  PROVE  ValueInv /\ AveragesKept
<1>1. \A i \in Items : item[i].hand = 0 /\ used[i] = 0
  BY DEF Init
<1>2. Fresh(purchase)
  BY DEF Init, Fresh
<1>3. \A i \in Items : ~(item[i].hand > 0)
  BY <1>1
<1> QED BY <1>1, <1>2, <1>3 DEF ValueInv, Priced, Remains, AveragesKept

\* Half a unit of cost for what all lines of an item have brought, twice for each line,
\* is what roundings may make up for.
LEMMA ValueMeans ==
  ASSUME StoreInv, ValueInv, AveragesKept
  PROVE  ValueIsPaid
<1>1. SUFFICES ASSUME NEW i \in Items, "entry" \notin item[i].moved, item[i].hand > 0
               PROVE  /\ item[i].cost # Unknown
                      /\ item[i].hand * item[i].cost - 1000 * PaidFor(i)
                           \in (-Tolerance(i))..Tolerance(i)
  BY DEF ValueIsPaid
<1>2. item[i].cost # Unknown
  BY <1>1 DEF AveragesKept
<1>3. PICK rows : rows = purchase
  OBVIOUS
<1>4. rows \in [Purchases -> Rows] /\ item[i] \in ItemRows
  BY <1>3 DEF StoreInv, TypeOK, Rows, ItemRows
<1>5. PICK paid, a, m, B, v : /\ paid = PaidForBy(rows, i) /\ a = ErrorsBy(rows, i)
                              /\ m = LinesBy(rows, i) /\ B = VolumeBy(rows, i)
                              /\ v = item[i].hand * item[i].cost
  OBVIOUS
<1>6. paid \in Nat /\ a \in Nat /\ m \in Nat /\ B \in Nat /\ a <= 2 * m
  BY <1>4, <1>5, MeasureType
<1>7. v \in Nat
  <2>1. item[i].hand \in Nat /\ item[i].cost \in Nat
    BY <1>2, <1>4 DEF ItemRows
  <2> QED BY <1>5, <2>1, RoundedNat
<1>8. PICK e, f : e = a * B /\ f = (2 * m) * B
  OBVIOUS
<1>9. e \in Nat /\ f \in Nat /\ e <= f
  <2>1. 2 * m \in Nat /\ B <= B
    BY <1>6
  <2> QED BY <1>6, <1>8, <2>1, ProductGrows
<1>10. v - 1000 * paid <= e /\ 1000 * paid - v <= e
  BY <1>1, <1>2, <1>3, <1>5, <1>8 DEF ValueInv, Priced, Remains, Near
<1>11. PaidFor(i) = paid /\ Tolerance(i) = f
  BY <1>3, <1>5, <1>8, MeasuresAre DEF Tolerance
<1>12. v - 1000 * paid \in (-f)..f
  BY <1>6, <1>7, <1>9, <1>10
<1> QED BY <1>2, <1>5, <1>11, <1>12

-----------------------------------------------------------------------------
\* The theorems

\* A purchase that is confirmed can only be cancelled, one that is cancelled stays so,
\* and the lines of neither change, whoever confirms and cancels it meanwhile.
THEOREM PurchasesAreFinalTheorem == Spec => PurchasesAreFinal
<1>1. Init => Inv
  BY InitInv
<1>2. Inv /\ [Next]_vars => Inv'
  BY Step DEF vars, stock, Inv, TxShaped, Shaped, PurchaseShaped, Apart, Found
<1>3. Inv /\ [Next]_vars =>
        [\A p \in Purchases :
           /\ purchase[p].status = "cancelled" => purchase'[p] = purchase[p]
           /\ purchase[p].status = "confirmed" =>
                /\ purchase'[p].status \in {"confirmed", "cancelled"}
                /\ purchase'[p].lines = purchase[p].lines]_vars
  BY Step DEF Final
<1> QED BY <1>1, <1>2, <1>3, PTL DEF Spec, PurchasesAreFinal

\* The store is in order whatever happens: every transaction has its purchase to itself
\* and the wallet's money secured, and stock and money are what the purchases say.
THEOREM StoreInvariant == Spec => []StoreInv
<1>1. Init => StoreInv
  BY StoreInit
<1>2. StoreInv /\ [Next]_vars => StoreInv'
  BY StoreStep
<1> QED BY <1>1, <1>2, PTL DEF Spec

\* Neither an item's quantity nor the wallet ever falls below zero, whoever confirms,
\* cancels and uses what meanwhile, and average costs stay costs.
THEOREM TypeCorrect == Spec => []TypeOK
<1>1. StoreInv => TypeOK
  BY DEF StoreInv
<1> QED BY <1>1, StoreInvariant, PTL

\* Stock on hand is what the confirmed purchases have brought and the entries have
\* changed, and the wallet lacks what those purchases cost: nothing is received,
\* returned or paid twice or only in part.
THEOREM StockTheorem == Spec => []StockExplained
<1>1. StoreInv => StockExplained
  BY DEF StoreInv
<1> QED BY <1>1, StoreInvariant, PTL

\* While the averages are known, an item that only purchases have moved is valued at what
\* the confirmed ones have cost of it, up to the roundings.
THEOREM ValueTheorem == Spec /\ []AveragesKept => []ValueIsPaid
<1>1. Init => ValueInv
  BY ValueInit
<1>2. StoreInv /\ StoreInv' /\ ValueInv /\ AveragesKept /\ [Next]_vars => ValueInv'
  BY ValueStep
<1>3. StoreInv /\ ValueInv /\ AveragesKept => ValueIsPaid
  BY ValueMeans
<1> QED BY <1>1, <1>2, <1>3, StoreInvariant, PTL DEF Spec

\* Where every line costs more than the roundings of its item can add up to, the averages
\* stay known, and the stock is valued at what was paid.
THEOREM DearTheorem == Spec /\ []Dear => [](AveragesKept /\ ValueIsPaid)
<1>1. Init => ValueInv /\ AveragesKept
  BY ValueInit
<1>2. /\ StoreInv /\ StoreInv' /\ ValueInv /\ AveragesKept /\ Dear
      /\ [Next]_vars
      => ValueInv' /\ AveragesKept'
  BY ValueStep
<1>3. StoreInv /\ ValueInv /\ AveragesKept => ValueIsPaid
  BY ValueMeans
<1> QED BY <1>1, <1>2, <1>3, StoreInvariant, PTL DEF Spec

-----------------------------------------------------------------------------
\* Only cancellations make circles

\* A transaction under way that waits for nobody.
Unhindered(w) == tx[w].pc # "idle" /\ \A lock \in Wants(w) : Free(w, lock)

\* As long as no purchase is being cancelled, one of the transactions under way finds
\* free what it asks for.
ConfirmingGoesOn ==
  (\E w \in Workers : tx[w].pc # "idle") /\ (\A w \in Workers : tx[w].kind # "cancel")
    => \E w \in Workers : Unhindered(w)

\* Who does nothing holds nothing, and who cancels nothing and has not locked the wallet
\* holds no item.
InOrder(t) ==
  /\ t.pc = "idle" => t.locks = {}
  /\ t.kind # "cancel" /\ "wallet" \notin t.locks => t.locks \subseteq Purchases
  /\ t.kind # "cancel" /\ t.pc = "item" => "wallet" \in t.locks
  /\ t.pc = "save" => t.item \in Items

WalletFirst == \A w \in Workers : InOrder(tx[w])

\* A transaction that begins, goes on or ends.
LEMMA OrderStep ==
  ASSUME Inv, WalletFirst, NEW w \in Workers, NEW t, Continue(w, t), InOrder(t)
  PROVE  WalletFirst'
<1>1. tx'[w] = t /\ \A v \in Workers : v # w => tx'[v] = tx[v]
  BY DEF Inv, TxShaped, Continue
<1> QED BY <1>1 DEF WalletFirst, InOrder

\* Every step keeps it.
LEMMA OrderKept ==
  ASSUME Inv, WalletFirst, [Next]_vars
  PROVE  WalletFirst'
<1>1. CASE UNCHANGED tx
  BY <1>1 DEF WalletFirst, InOrder
<1>2. ASSUME NEW w \in Workers, Continue(w, Idle) PROVE WalletFirst'
  BY <1>2, OrderStep DEF Idle, InOrder
<1>3. ASSUME NEW w \in Workers, NEW p \in Purchases, CreateConfirmed(w, p) PROVE WalletFirst'
  <2>1. PICK t : t = [Idle EXCEPT !.kind = "create", !.pc = "wallet", !.purchase = p,
                                  !.lines = Entered(p), !.locks = {p}]
    OBVIOUS
  <2>2. InOrder(t)
    BY <2>1 DEF Idle, InOrder
  <2>3. Continue(w, t)
    BY <1>3, <2>1 DEF CreateConfirmed
  <2> QED BY <2>2, <2>3, OrderStep
<1>4. ASSUME NEW w \in Workers, NEW p \in Purchases, Confirm(w, p) PROVE WalletFirst'
  <2>1. PICK t : t = [Idle EXCEPT !.kind = "confirm", !.pc = "wallet", !.purchase = p,
                                  !.lines = purchase[p].lines, !.locks = {p}]
    OBVIOUS
  <2>2. InOrder(t)
    BY <2>1 DEF Idle, InOrder
  <2>3. Continue(w, t)
    BY <1>4, <2>1 DEF Confirm
  <2> QED BY <2>2, <2>3, OrderStep
<1>5. ASSUME NEW w \in Workers, NEW p \in Purchases, Cancel(w, p) PROVE WalletFirst'
  <2>1. PICK t : t = [Idle EXCEPT !.kind = "cancel", !.pc = "item", !.purchase = p,
                                  !.lines = purchase[p].lines, !.locks = {p}]
    OBVIOUS
  <2>2. InOrder(t)
    BY <2>1 DEF Idle, InOrder
  <2>3. Continue(w, t)
    BY <1>5, <2>1 DEF Cancel
  <2> QED BY <2>2, <2>3, OrderStep
<1>6. ASSUME NEW w \in Workers, TakeMoney(w) PROVE WalletFirst'
  <2>1. PICK t : /\ t = [tx[w] EXCEPT !.pc = "item", !.locks = @ \cup {"wallet"}]
                 /\ Continue(w, t) \/ Continue(w, Idle)
    BY <1>6 DEF TakeMoney
  <2>2. t.pc = "item" /\ "wallet" \in t.locks
    BY <2>1 DEF Inv, TxShaped, Shaped
  <2>3. InOrder(t)
    BY <2>2 DEF InOrder
  <2> QED BY <1>2, <2>1, <2>3, OrderStep
<1>7. ASSUME NEW w \in Workers, TakeItem(w) PROVE WalletFirst'
  <2>1. PICK pc, t : /\ pc = (IF tx[w].kind = "cancel" /\ tx[w].next = Len(tx[w].lines)
                              THEN "wallet" ELSE "item")
                     /\ t = [tx[w] EXCEPT !.next = @ + 1, !.locks = @ \cup {Line(w).item},
                                          !.pc = pc]
    OBVIOUS
  <2>2. Continue(w, t) \/ Continue(w, Idle)
    BY <1>7, <2>1 DEF TakeItem
  <2>3. /\ t.pc = pc /\ pc # "idle" /\ pc # "save" /\ t.kind = tx[w].kind
        /\ tx[w].locks \subseteq t.locks
    BY <2>1 DEF Inv, TxShaped, Shaped
  <2>4. t.kind = "cancel" \/ "wallet" \in t.locks
    BY <1>7, <2>3 DEF TakeItem, WalletFirst, InOrder
  <2>5. InOrder(t)
    BY <2>3, <2>4 DEF InOrder
  <2> QED BY <1>2, <2>2, <2>5, OrderStep
<1>8. ASSUME NEW w \in Workers, NEW i \in Items, ChangeUnit(w, i) PROVE WalletFirst'
  <2>1. PICK t : /\ t = [Idle EXCEPT !.kind = "unit", !.pc = "save", !.item = i]
                 /\ Continue(w, t)
    BY <1>8 DEF ChangeUnit
  <2>2. InOrder(t)
    BY <2>1 DEF Idle, InOrder
  <2> QED BY <2>1, <2>2, OrderStep
<1>9. ASSUME NEW w \in Workers, FinishConfirm(w) \/ FinishCancel(w) \/ SaveUnit(w) \/ Victim(w)
      PROVE  WalletFirst'
  BY <1>2, <1>9 DEF FinishConfirm, FinishCancel, SaveUnit, Victim
<1>10. ASSUME NEW p \in Purchases, Draft(p) \/ CancelDraft(p) PROVE WalletFirst'
  BY <1>1, <1>10 DEF Draft, CancelDraft
<1>11. ASSUME NEW i \in Items, NEW e \in Entries, Record(i, e) PROVE WalletFirst'
  BY <1>1, <1>11 DEF Record
<1> QED BY <1>1, <1>3, <1>4, <1>5, <1>6, <1>7, <1>8, <1>9, <1>10, <1>11 DEF Next, vars

\* The one that holds the wallet waits for nobody, and if there is none nobody waits.
LEMMA OrderMeans ==
  ASSUME StoreInv, WalletFirst
  PROVE  ConfirmingGoesOn
<1>1. SUFFICES ASSUME NEW w0 \in Workers, tx[w0].pc # "idle",
                      \A w \in Workers : tx[w].kind # "cancel"
               PROVE  \E w \in Workers : Unhindered(w)
  BY DEF ConfirmingGoesOn
<1>2. \A w \in Workers : "wallet" \notin tx[w].locks => tx[w].locks \cap Items = {}
  BY <1>1, InventoryAssumption DEF WalletFirst, InOrder
<1>3. \A v, w \in Workers : v # w /\ "wallet" \in tx[w].locks => "wallet" \notin tx[v].locks
  BY DEF StoreInv, Wallet, OneWallet
<1>4. ASSUME NEW w \in Workers, NEW lock \in Wants(w) PROVE lock = "wallet" \/ lock \in Items
  <2>1. CASE tx[w].pc = "wallet"
    BY <1>4, <2>1 DEF Wants
  <2>2. CASE tx[w].pc = "item" /\ tx[w].next <= Len(tx[w].lines)
    <3>1. tx[w].lines \in Seq(Lines) /\ tx[w].next \in Nat \ {0}
      BY DEF StoreInv, TypeOK, Transactions
    <3>2. Line(w) \in Lines
      BY <2>2, <3>1 DEF Line
    <3>3. lock = Line(w).item
      BY <1>4, <2>2 DEF Wants
    <3> QED BY <3>2, <3>3 DEF Lines
  <2>3. CASE tx[w].pc = "save"
    BY <1>4, <2>3 DEF Wants, WalletFirst, InOrder
  <2>4. CASE /\ tx[w].pc # "wallet" /\ tx[w].pc # "save"
             /\ ~(tx[w].pc = "item" /\ tx[w].next <= Len(tx[w].lines))
    BY <1>4, <2>4 DEF Wants
  <2> QED BY <2>1, <2>2, <2>3, <2>4
<1>5. CASE \E w \in Workers : "wallet" \in tx[w].locks
  <2>1. PICK w \in Workers : "wallet" \in tx[w].locks
    BY <1>5
  <2>2. tx[w].pc # "idle"
    BY <2>1 DEF WalletFirst, InOrder
  <2>3. \A lock \in Wants(w) : Free(w, lock)
    BY <1>2, <1>3, <1>4, <2>1 DEF Free
  <2> QED BY <2>2, <2>3 DEF Unhindered
<1>6. CASE \A w \in Workers : "wallet" \notin tx[w].locks
  <2>1. \A lock \in Wants(w0) : Free(w0, lock)
    BY <1>2, <1>4, <1>6 DEF Free
  <2> QED BY <1>1, <2>1 DEF Unhindered
<1> QED BY <1>5, <1>6

\* Confirmations lock the wallet before their items, so by themselves they are in no
\* circle, whatever the order of their lines, and neither are changes of a unit: a
\* deadlock needs a cancellation, which locks the wallet last.
THEOREM ConfirmingGoesOnTheorem == Spec => []ConfirmingGoesOn
<1>1. Init => WalletFirst
  BY DEF Init, WalletFirst, InOrder, Idle
<1>2. Inv /\ WalletFirst /\ [Next]_vars => WalletFirst'
  BY OrderKept
<1>3. StoreInv => Inv
  BY DEF StoreInv
<1>4. StoreInv /\ WalletFirst => ConfirmingGoesOn
  BY OrderMeans
<1> QED BY <1>1, <1>2, <1>3, <1>4, StoreInvariant, PTL DEF Spec
=============================================================================
