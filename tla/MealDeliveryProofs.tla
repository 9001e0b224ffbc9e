-------------------------- MODULE MealDeliveryProofs --------------------------
(***************************************************************************)
(* Theorems about MealDelivery, for any customers, subscriptions, prices   *)
(* and numbers of workers and of requests about one slot at once.          *)
(***************************************************************************)
EXTENDS MealDelivery, FiniteSetTheorems, TLAPS

-----------------------------------------------------------------------------
\* The inductive invariant

\* Slots, made or about to be, belong to subscriptions that exist and do not
\* precede them.
Known(s) == status[s.sub] # "none" /\ started[s.sub] <= s.day

MadeSlotsKnown ==
  /\ \A s \in Slots : meal[s] # "absent" => Known(s)
  /\ \A w \in Workers, u \in Subs : u \in worker[w].queue => status[u] # "none"
  /\ \A w \in Workers, r \in Rows : r \in worker[w].rows => Known(r.slot)

\* One subscription of a customer had ended when the other started.
EndedBefore(u, v) == status[u] = "cancelled" /\ ended[u] <= started[v]

SubsInTurn ==
  /\ \A u \in Subs : status[u] = "cancelled" => ended[u] <= today
  /\ \A u, v \in Subs :
       (u # v /\ Owner[u] = Owner[v] /\ status[u] # "none" /\ status[v] # "none")
         => EndedBefore(u, v) \/ EndedBefore(v, u)

Accounts ==
  \A c \in Customers :
    /\ IsFiniteSet(Delivered(c))
    /\ balance[c] + Price * Cardinality(Delivered(c)) = Funds[c]

DeliveryInv == TypeOK /\ MadeSlotsKnown /\ SubsInTurn

-----------------------------------------------------------------------------
\* Rows

\* The rows that are built are those of one subscription that have no slot yet,
\* and start with its service.
LEMMA NewRowsLemma ==
  ASSUME NEW u \in Subs, NEW from, NEW day, NEW open, NEW r \in NewRows(u, from, day, open)
  PROVE  r \in Rows /\ r.slot.sub = u /\ meal[r.slot] = "absent" /\ r.slot.day >= from
BY DEF NewRows, Window

\* A row is one of a slot.
LEMMA RowLemma ==
  ASSUME NEW r \in Rows
  PROVE  /\ r.slot \in Slots /\ r.as \in {"scheduled", "skipped"}
         /\ r = [slot |-> r.slot, as |-> r.as]
BY DEF Rows

\* A slot has a subscription, a day and a period.
LEMMA SlotLemma ==
  ASSUME NEW s \in Slots
  PROVE  s.sub \in Subs /\ s.day \in Days /\ s.period \in DayPeriods /\ s.day \in Nat
BY MealDeliveryAssumption DEF Slots, AllSlots, Days

\* Writing rows that do not conflict makes slots that were absent, and no others.
LEMMA WithRowsLemma ==
  ASSUME TypeOK, NEW rows \in SUBSET Rows, \A r \in rows : meal[r.slot] = "absent"
  PROVE  /\ WithRows(rows) \in [Slots -> {"absent", "scheduled", "off", "skipped", "delivered"}]
         /\ \A s \in Slots : WithRows(rows)[s] # meal[s] =>
              /\ meal[s] = "absent" /\ WithRows(rows)[s] \in {"scheduled", "skipped"}
              /\ \E r \in rows : r.slot = s
<1>1. WithRows(rows) \in [Slots -> {"absent", "scheduled", "off", "skipped", "delivered"}]
  BY DEF WithRows, TypeOK
<1>2. ASSUME NEW s \in Slots, WithRows(rows)[s] # meal[s]
      PROVE  /\ meal[s] = "absent" /\ WithRows(rows)[s] \in {"scheduled", "skipped"}
             /\ \E r \in rows : r.slot = s
  <2>1. CASE [slot |-> s, as |-> "scheduled"] \in rows
    BY <2>1 DEF WithRows
  <2>2. CASE [slot |-> s, as |-> "skipped"] \in rows
    BY <2>2 DEF WithRows
  <2>3. CASE /\ [slot |-> s, as |-> "scheduled"] \notin rows
             /\ [slot |-> s, as |-> "skipped"] \notin rows
    BY <1>2, <2>3 DEF WithRows
  <2> QED BY <2>1, <2>2, <2>3
<1> QED BY <1>1, <1>2

\* The steps that make slots make absent ones of the rows they name.
LEMMA InsertLemma ==
  ASSUME TypeOK, NEW w \in Workers, InsertRows(w) \/ CommitPublish(w)
  PROVE  /\ worker[w].rows \in SUBSET Rows
         /\ \A r \in worker[w].rows : meal[r.slot] = "absent"
BY DEF TypeOK, WorkerStates, InsertRows, CommitPublish, Conflict

-----------------------------------------------------------------------------
\* Types

\* Making rows keeps a worker in its domain.
LEMMA ReadRowsTyped ==
  ASSUME TypeOK, NEW w \in Workers, NEW u \in Subs, ReadRows(w, u)
  PROVE  worker' \in [Workers -> WorkerStates]
<1> DEFINE new == NewRows(u, started[u], worker[w].today, OpenFor(w))
           pc == IF worker[w].job = "publish" THEN "next" ELSE "insert"
           state == [worker[w] EXCEPT !.pc = pc, !.queue = @ \ {u}, !.rows = @ \cup new]
<1>1. worker' = [worker EXCEPT ![w] = state]
  BY DEF ReadRows
<1>2. new \in SUBSET Rows
  BY DEF NewRows
<1>3. worker[w] \in WorkerStates
  BY DEF TypeOK
<1>4. state \in WorkerStates
  <2> HIDE DEF new
  <2> QED BY <1>2, <1>3 DEF WorkerStates
<1> HIDE DEF state
<1> QED BY <1>1, <1>4 DEF TypeOK

\* Every step of a worker keeps it in its domain.
LEMMA WorkersTyped ==
  ASSUME TypeOK, Next
  PROVE  worker' \in [Workers -> WorkerStates]
<1> USE DEF WorkerStates
<1>1. Idle \in WorkerStates
  BY MealDeliveryAssumption DEF Idle, Days, Months
<1>2. ASSUME NEW w \in Workers, Ensure(w) PROVE worker' \in [Workers -> WorkerStates]
  <2>1. PICK subs \in {Active} \cup {{u} : u \in Active} :
          worker' = [worker EXCEPT ![w] =
                       [Idle EXCEPT !.pc = "next", !.today = today, !.queue = subs]]
    BY <1>2 DEF Ensure, Begin
  <2>2. subs \in SUBSET Subs
    BY DEF Active
  <2>3. [Idle EXCEPT !.pc = "next", !.today = today, !.queue = subs] \in WorkerStates
    BY <1>1, <2>2 DEF TypeOK
  <2> QED BY <2>1, <2>3 DEF TypeOK
<1>3. ASSUME NEW w \in Workers, Publish(w) PROVE worker' \in [Workers -> WorkerStates]
  <2>1. PICK m \in Months \ published :
          worker' = [worker EXCEPT ![w] =
                       [pc |-> "next", job |-> "publish", month |-> m, today |-> today,
                        queue |-> Active, rows |-> {}]]
    BY <1>3 DEF Publish, Begin
  <2>3. [pc |-> "next", job |-> "publish", month |-> m, today |-> today,
         queue |-> Active, rows |-> {}] \in WorkerStates
    BY DEF TypeOK, Active
  <2> QED BY <2>1, <2>3 DEF TypeOK
<1>4. ASSUME NEW w \in Workers, NEW u \in Subs, ReadRows(w, u)
      PROVE  worker' \in [Workers -> WorkerStates]
  BY <1>4, ReadRowsTyped
<1>5. ASSUME NEW w \in Workers, InsertRows(w) PROVE worker' \in [Workers -> WorkerStates]
  <2>1. worker \in [Workers -> WorkerStates] /\ worker[w] \in WorkerStates
    BY DEF TypeOK
  <2>2. [worker[w] EXCEPT !.pc = "next", !.rows = {}] \in WorkerStates
    BY <2>1
  <2>3. worker' = [worker EXCEPT ![w] = [worker[w] EXCEPT !.pc = "next", !.rows = {}]]
    BY <1>5 DEF InsertRows
  <2> HIDE DEF WorkerStates
  <2> QED BY <2>1, <2>2, <2>3
<1>6. ASSUME NEW w \in Workers, EndLoop(w) \/ CommitPublish(w) \/ Abort(w)
      PROVE  worker' \in [Workers -> WorkerStates]
  <2> HIDE DEF WorkerStates
  <2> QED BY <1>1, <1>6 DEF EndLoop, CommitPublish, Abort, TypeOK
<1>7. CASE UNCHANGED worker
  BY <1>7 DEF TypeOK
<1> QED
  BY <1>2, <1>3, <1>4, <1>5, <1>6, <1>7
     DEF Next, WorkerStep, PassTime, Subscribe, Cancel, Unpublish, Ask, Finish, Refuse

\* Every step keeps the slots in their domain.
LEMMA MealsTyped ==
  ASSUME TypeOK, Next
  PROVE  meal' \in [Slots -> {"absent", "scheduled", "off", "skipped", "delivered"}]
<1> DEFINE States == {"absent", "scheduled", "off", "skipped", "delivered"}
<1>1. ASSUME NEW u \in Subs, Subscribe(u) PROVE meal' \in [Slots -> States]
  <2>1. NewRows(u, today, today, published) \in SUBSET Rows
    BY DEF NewRows
  <2>2. \A r \in NewRows(u, today, today, published) : meal[r.slot] = "absent"
    BY DEF NewRows
  <2> QED BY <1>1, <2>1, <2>2, WithRowsLemma DEF Subscribe
<1>2. ASSUME NEW w \in Workers, InsertRows(w) \/ CommitPublish(w)
      PROVE  meal' \in [Slots -> States]
  <2>1. meal' = WithRows(worker[w].rows)
    BY <1>2 DEF InsertRows, CommitPublish
  <2> QED BY <1>2, <2>1, InsertLemma, WithRowsLemma
<1>3. ASSUME NEW u \in Subs, Cancel(u) PROVE meal' \in [Slots -> States]
  BY <1>3 DEF Cancel, TypeOK
<1>4. ASSUME NEW r \in requests, Finish(r) PROVE meal' \in [Slots -> States]
  <2>1. r.kind \in Kinds
    BY DEF TypeOK
  <2>2. Becomes(r.kind) \in States
    BY <2>1 DEF Becomes, Kinds
  <2> QED BY <1>4, <2>2 DEF Finish, TypeOK
<1>5. CASE UNCHANGED meal
  BY <1>5 DEF TypeOK
<1> QED
  BY <1>1, <1>2, <1>3, <1>4, <1>5
     DEF Next, WorkerStep, PassTime, Ensure, Publish, Begin, ReadRows, EndLoop, Abort,
         Unpublish, Ask, Refuse

\* A wallet is charged with a price it can pay.
LEMMA BalancesTyped ==
  ASSUME TypeOK, Next
  PROVE  balance' \in [Customers -> Nat]
<1>1. ASSUME NEW r \in requests, Finish(r) PROVE balance' \in [Customers -> Nat]
  <2>1. CASE r.kind = "deliver"
    <3>1. r.slot.sub \in Subs
      BY SlotLemma DEF TypeOK
    <3>2. Owner[r.slot.sub] \in Customers
      BY <3>1, MealDeliveryAssumption
    <3>3. balance[Owner[r.slot.sub]] >= Price
      BY <1>1, <2>1 DEF Finish, Allowed, Payable
    <3>4. balance[Owner[r.slot.sub]] - Price \in Nat
      BY <3>2, <3>3, MealDeliveryAssumption DEF TypeOK
    <3> QED BY <1>1, <2>1, <3>4 DEF Finish, TypeOK
  <2>2. CASE r.kind # "deliver"
    BY <1>1, <2>2 DEF Finish, TypeOK
  <2> QED BY <2>1, <2>2
<1>2. CASE UNCHANGED balance
  BY <1>2 DEF TypeOK
<1> QED
  BY <1>1, <1>2
     DEF Next, WorkerStep, PassTime, Subscribe, Cancel, Ensure, Publish, Begin, ReadRows,
         InsertRows, EndLoop, CommitPublish, Abort, Unpublish, Ask, Refuse

\* Days, months, subscriptions and requests stay in their domains.
LEMMA CalendarTyped ==
  ASSUME TypeOK, Next
  PROVE  /\ today' \in Days /\ phase' \in 0..PerDay
         /\ published' \in SUBSET Months
<1>1. CASE PassTime
  BY <1>1, MealDeliveryAssumption DEF PassTime, TypeOK, Days
<1>2. ASSUME NEW w \in Workers, CommitPublish(w)
      PROVE  UNCHANGED clocks /\ published' \in SUBSET Months
  BY <1>2 DEF CommitPublish, TypeOK, WorkerStates
<1>3. ASSUME NEW m \in Months, Unpublish(m)
      PROVE  UNCHANGED clocks /\ published' \in SUBSET Months
  BY <1>3 DEF Unpublish, TypeOK
<1>4. CASE UNCHANGED <<clocks, published>>
  BY <1>4 DEF clocks, TypeOK
<1> QED
  BY <1>1, <1>2, <1>3, <1>4
     DEF clocks, Next, WorkerStep, Subscribe, Cancel, Ensure, Publish, Begin, ReadRows,
         InsertRows, EndLoop, Abort, Ask, Finish, Refuse, TypeOK

\* Subscriptions and requests stay in their domains.
LEMMA SubsTyped ==
  ASSUME TypeOK, Next
  PROVE  /\ status' \in [Subs -> {"none", "active", "cancelled"}]
         /\ started' \in [Subs -> Days] /\ ended' \in [Subs -> Days]
         /\ requests' \in SUBSET [kind : Kinds, slot : Slots]
<1>1. ASSUME NEW u \in Subs, Subscribe(u) \/ Cancel(u)
      PROVE  /\ status' \in [Subs -> {"none", "active", "cancelled"}]
             /\ started' \in [Subs -> Days] /\ ended' \in [Subs -> Days]
             /\ UNCHANGED requests
  BY <1>1 DEF Subscribe, Cancel, TypeOK
<1>2. ASSUME NEW kind \in Kinds, NEW s \in Slots, Ask(kind, s)
      PROVE  /\ UNCHANGED <<status, started, ended>>
             /\ requests' \in SUBSET [kind : Kinds, slot : Slots]
  BY <1>2 DEF Ask, TypeOK
<1>3. ASSUME NEW r \in requests, Finish(r) \/ Refuse(r)
      PROVE  /\ UNCHANGED <<status, started, ended>>
             /\ requests' \in SUBSET [kind : Kinds, slot : Slots]
  BY <1>3 DEF Finish, Refuse, TypeOK
<1>4. CASE UNCHANGED <<status, started, ended, requests>>
  BY <1>4 DEF TypeOK
<1> QED
  BY <1>1, <1>2, <1>3, <1>4
     DEF Next, WorkerStep, PassTime, Ensure, Publish, Begin, ReadRows,
         InsertRows, EndLoop, CommitPublish, Abort, Unpublish, TypeOK

\* The program begins in its domains.
LEMMA InitTyped == Init => TypeOK
<1> SUFFICES ASSUME Init PROVE TypeOK
  OBVIOUS
<1>1. Idle \in WorkerStates
  BY MealDeliveryAssumption DEF Idle, WorkerStates, Days, Months
<1> QED
  BY <1>1, MealDeliveryAssumption DEF Init, TypeOK, Days

\* Days, wallets, slots and every process stay in their domains: no wallet is
\* charged below zero.  (orders/models.py, wallet/services/ledger.py)
THEOREM TypeCorrect == Spec => []TypeOK
<1>1. TypeOK /\ [Next]_vars => TypeOK'
  <2> SUFFICES ASSUME TypeOK, [Next]_vars PROVE TypeOK'
    OBVIOUS
  <2>1. CASE Next
    BY <2>1, WorkersTyped, MealsTyped, BalancesTyped, CalendarTyped, SubsTyped DEF TypeOK
  <2>2. CASE UNCHANGED vars
    BY <2>2 DEF vars, clocks, TypeOK
  <2> QED BY <2>1, <2>2
<1> QED BY InitTyped, <1>1, PTL DEF Spec

-----------------------------------------------------------------------------
\* Subscriptions one after the other

\* Nothing makes a subscription that exists start at another day, or not exist.
LEMMA KnownStaysKnown ==
  ASSUME TypeOK, Next, NEW u \in Subs, status[u] # "none"
  PROVE  status'[u] # "none" /\ started'[u] = started[u]
<1>1. ASSUME NEW v \in Subs, Subscribe(v) \/ Cancel(v)
      PROVE  status'[u] # "none" /\ started'[u] = started[u]
  BY <1>1 DEF Subscribe, Cancel, TypeOK
<1>2. CASE UNCHANGED <<status, started>>
  BY <1>2
<1> QED
  BY <1>1, <1>2
     DEF Next, WorkerStep, PassTime, Ensure, Publish, Begin, ReadRows, InsertRows, EndLoop,
         CommitPublish, Abort, Unpublish, Ask, Finish, Refuse

\* Slots are made for subscriptions that exist, and none before its start.
LEMMA MealsKnown ==
  ASSUME DeliveryInv, Next, NEW s \in Slots, meal'[s] # "absent"
  PROVE  Known(s)'
<1> USE DEF DeliveryInv
<1>0. s.sub \in Subs
  BY SlotLemma
<1>1. CASE meal[s] # "absent"
  <2>1. Known(s)
    BY <1>1 DEF MadeSlotsKnown
  <2> QED BY <1>0, <2>1, KnownStaysKnown DEF Known
<1>2. ASSUME meal[s] = "absent", NEW u \in Subs, Subscribe(u)
      PROVE  Known(s)'
  <2> DEFINE rows == NewRows(u, today, today, published)
  <2>1. rows \in SUBSET Rows /\ \A r \in rows : meal[r.slot] = "absent"
    BY DEF NewRows
  <2>2. meal' = WithRows(rows)
    BY <1>2 DEF Subscribe
  <2>3. \E r \in rows : r.slot = s
    <3> HIDE DEF rows
    <3> QED BY <1>2, <2>1, <2>2, WithRowsLemma
  <2>4. s.sub = u /\ s.day >= today
    BY <2>3, NewRowsLemma
  <2>5. status'[u] = "active" /\ started'[u] = today
    BY <1>2 DEF Subscribe, TypeOK
  <2>6. s.day \in Nat /\ today \in Nat
    BY SlotLemma DEF TypeOK, Days
  <2> QED BY <2>4, <2>5, <2>6 DEF Known
<1>3. ASSUME meal[s] = "absent", NEW w \in Workers, InsertRows(w) \/ CommitPublish(w)
      PROVE  Known(s)'
  <2>1. meal' = WithRows(worker[w].rows)
    BY <1>3 DEF InsertRows, CommitPublish
  <2>2. PICK r \in worker[w].rows : r.slot = s
    BY <1>3, <2>1, InsertLemma, WithRowsLemma
  <2>3. r \in Rows
    BY <1>3, InsertLemma
  <2>4. Known(s)
    BY <2>2, <2>3 DEF MadeSlotsKnown
  <2> QED BY <1>0, <2>4, KnownStaysKnown DEF Known
<1>4. ASSUME meal[s] = "absent", NEW u \in Subs, Cancel(u)
      PROVE  FALSE
  BY <1>4 DEF Cancel
<1>5. ASSUME meal[s] = "absent", NEW r \in requests, Finish(r)
      PROVE  FALSE
  <2>1. r.slot \in Slots /\ r.kind \in Kinds
    BY DEF TypeOK
  <2>2. meal[r.slot] # "absent"
    BY <1>5, <2>1 DEF Finish, Allowed, Kinds
  <2> QED BY <1>5, <2>1, <2>2 DEF Finish, TypeOK
<1>6. ASSUME meal[s] = "absent", UNCHANGED meal
      PROVE  FALSE
  BY <1>6
<1> QED
  BY <1>1, <1>2, <1>3, <1>4, <1>5, <1>6
     DEF Next, WorkerStep, PassTime, Ensure, Publish, Begin, ReadRows, EndLoop, Abort,
         Unpublish, Ask, Refuse

\* A loop runs over subscriptions that exist, and builds rows from their start.
LEMMA WorkersKnown ==
  ASSUME DeliveryInv, Next, NEW v \in Workers
  PROVE  /\ \A u \in Subs : u \in worker'[v].queue => status'[u] # "none"
         /\ \A r \in Rows : r \in worker'[v].rows => Known(r.slot)'
<1> USE DEF DeliveryInv
<1> DEFINE Q == \A u \in Subs : u \in worker'[v].queue => status[u] # "none"
           K == \A r \in Rows : r \in worker'[v].rows => Known(r.slot)
<1>2. ASSUME UNCHANGED worker PROVE Q /\ K
  <2>1. \A u \in Subs : u \in worker[v].queue => status[u] # "none"
    BY DEF MadeSlotsKnown
  <2>2. \A r \in Rows : r \in worker[v].rows => Known(r.slot)
    BY DEF MadeSlotsKnown
  <2> QED BY <1>2, <2>1, <2>2
<1>3. ASSUME NEW w \in Workers, Ensure(w) PROVE Q /\ K
  <2>1. PICK subs \in {Active} \cup {{u} : u \in Active} :
          worker' = [worker EXCEPT ![w] =
                       [Idle EXCEPT !.pc = "next", !.today = today, !.queue = subs]]
    BY <1>3 DEF Ensure, Begin
  <2>2. subs \subseteq Active
    OBVIOUS
  <2>3. CASE v = w
    BY <2>1, <2>2, <2>3 DEF TypeOK, Idle, Active
  <2>4. CASE v # w
    BY <2>1, <2>4 DEF TypeOK, MadeSlotsKnown
  <2> QED BY <2>3, <2>4
<1>4. ASSUME NEW w \in Workers, Publish(w) PROVE Q /\ K
  <2>1. CASE v = w
    BY <1>4, <2>1 DEF Publish, Begin, TypeOK, Active
  <2>2. CASE v # w
    BY <1>4, <2>2 DEF Publish, Begin, TypeOK, MadeSlotsKnown
  <2> QED BY <2>1, <2>2
<1>5. ASSUME NEW w \in Workers, NEW u \in Subs, ReadRows(w, u) PROVE Q /\ K
  <2> DEFINE new == NewRows(u, started[u], worker[w].today, OpenFor(w))
             pc == IF worker[w].job = "publish" THEN "next" ELSE "insert"
             state == [worker[w] EXCEPT !.pc = pc, !.queue = worker[w].queue \ {u},
                                        !.rows = worker[w].rows \cup new]
  <2>1. worker' = [worker EXCEPT ![w] = state] /\ u \in worker[w].queue
    BY <1>5 DEF ReadRows
  <2>2. CASE v = w
    <3>1. status[u] # "none"
      BY <2>1 DEF MadeSlotsKnown
    <3>2. \A r \in new : Known(r.slot)
      <4> SUFFICES ASSUME NEW r \in new PROVE Known(r.slot)
        OBVIOUS
      <4>1. r \in Rows /\ r.slot.sub = u /\ r.slot.day >= started[u]
        BY NewRowsLemma
      <4>2. r.slot.day \in Nat /\ started[u] \in Nat
        BY <4>1, RowLemma, SlotLemma DEF TypeOK, Days
      <4> QED BY <3>1, <4>1, <4>2 DEF Known
    <3>3. worker'[v].rows = worker[w].rows \cup new /\ worker'[v].queue \subseteq worker[w].queue
      <4> HIDE DEF new, pc
      <4> QED BY <2>1, <2>2 DEF TypeOK, WorkerStates
    <3> HIDE DEF new
    <3> QED BY <2>2, <3>2, <3>3 DEF MadeSlotsKnown
  <2>3. CASE v # w
    <3> HIDE DEF state
    <3> QED BY <2>1, <2>3 DEF TypeOK, MadeSlotsKnown
  <2> QED BY <2>2, <2>3
<1>6. ASSUME NEW w \in Workers, InsertRows(w) PROVE Q /\ K
  BY <1>6 DEF InsertRows, TypeOK, WorkerStates, MadeSlotsKnown
<1>7. ASSUME NEW w \in Workers, EndLoop(w) \/ CommitPublish(w) \/ Abort(w) PROVE Q /\ K
  <2>1. worker' = [worker EXCEPT ![w] = Idle]
    BY <1>7 DEF EndLoop, CommitPublish, Abort
  <2> QED BY <2>1 DEF Idle, TypeOK, MadeSlotsKnown
<1>8. Q /\ K
  <2> HIDE DEF Q, K
  <2> QED BY <1>2, <1>3, <1>4, <1>5, <1>6, <1>7
     DEF Next, WorkerStep, PassTime, Subscribe, Cancel, Unpublish, Ask, Finish, Refuse
<1>9. \A r \in Rows : r.slot.sub \in Subs
  BY RowLemma, SlotLemma
<1> QED BY <1>8, <1>9, KnownStaysKnown DEF Known

\* A customer subscribes again only after the end of the last subscription.
LEMMA TurnsKept ==
  ASSUME DeliveryInv, Next
  PROVE  SubsInTurn'
<1> USE DEF DeliveryInv
<1>0. today \in Nat /\ today' \in Nat /\ today <= today'
  <2>1. today \in Nat /\ today' \in Nat
    BY CalendarTyped DEF TypeOK, Days
  <2>2. CASE PassTime
    BY <2>1, <2>2 DEF PassTime
  <2>3. CASE UNCHANGED today
    BY <2>1, <2>3
  <2> QED
    BY <2>1, <2>2, <2>3
       DEF clocks, Next, WorkerStep, Subscribe, Cancel, Ensure, Publish, Begin, ReadRows,
           InsertRows, EndLoop, CommitPublish, Abort, Unpublish, Ask, Finish, Refuse
<1>1. \A u \in Subs : started[u] \in Nat /\ ended[u] \in Nat
  BY DEF TypeOK, Days
<1>2. ASSUME NEW x \in Subs, Subscribe(x) PROVE SubsInTurn'
  <2>1. UNCHANGED <<today, ended>>
    BY <1>2 DEF Subscribe, clocks
  <2>2. \A u \in Subs : u # x => status'[u] = status[u] /\ started'[u] = started[u]
    BY <1>2 DEF Subscribe, TypeOK
  <2>3. status'[x] = "active" /\ started'[x] = today /\ status[x] = "none"
    BY <1>2 DEF Subscribe, TypeOK
  <2>4. ASSUME NEW u \in Subs, u # x, Owner[u] = Owner[x], status[u] # "none"
        PROVE  status[u] = "cancelled" /\ ended[u] <= today
    <3>1. status[u] # "active"
      BY <1>2, <2>4 DEF Subscribe, Active
    <3> QED BY <2>4, <3>1 DEF TypeOK, SubsInTurn
  <2> QED BY <2>1, <2>2, <2>3, <2>4 DEF SubsInTurn, EndedBefore
<1>3. ASSUME NEW x \in Subs, Cancel(x) PROVE SubsInTurn'
  <2>1. UNCHANGED <<today, started>>
    BY <1>3 DEF Cancel, clocks
  <2>2. \A u \in Subs : u # x => status'[u] = status[u] /\ ended'[u] = ended[u]
    BY <1>3 DEF Cancel, TypeOK
  <2>3. status'[x] = "cancelled" /\ ended'[x] = today /\ status[x] = "active"
    BY <1>3 DEF Cancel, TypeOK
  <2> QED BY <1>0, <2>1, <2>2, <2>3 DEF SubsInTurn, EndedBefore
<1>4. CASE UNCHANGED <<status, started, ended>>
  BY <1>0, <1>1, <1>4 DEF SubsInTurn, EndedBefore
<1> QED
  BY <1>2, <1>3, <1>4
     DEF Next, WorkerStep, PassTime, Ensure, Publish, Begin, ReadRows, InsertRows, EndLoop,
         CommitPublish, Abort, Unpublish, Ask, Finish, Refuse

\* The invariant that the subscriptions of a customer, their slots and the rows
\* about to be inserted come one after the other.
THEOREM DeliveryInvariant == Spec => []DeliveryInv
<1>1. Init => DeliveryInv
  <2> SUFFICES ASSUME Init PROVE DeliveryInv
    OBVIOUS
  <2>1. TypeOK
    BY InitTyped
  <2>2. MadeSlotsKnown
    BY DEF Init, MadeSlotsKnown, Idle
  <2>3. SubsInTurn
    BY DEF Init, SubsInTurn
  <2> QED BY <2>1, <2>2, <2>3 DEF DeliveryInv
<1>2. DeliveryInv /\ TypeOK' /\ [Next]_vars => DeliveryInv'
  <2> SUFFICES ASSUME DeliveryInv, TypeOK', [Next]_vars PROVE DeliveryInv'
    OBVIOUS
  <2>1. CASE Next
    <3>1. MadeSlotsKnown'
      BY <2>1, MealsKnown, WorkersKnown DEF MadeSlotsKnown
    <3> QED BY <2>1, <3>1, TurnsKept DEF DeliveryInv
  <2>2. CASE UNCHANGED vars
    BY <2>2 DEF vars, clocks, DeliveryInv, MadeSlotsKnown, Known, SubsInTurn, EndedBefore
  <2> QED BY <2>1, <2>2
<1> QED BY <1>1, <1>2, TypeCorrect, PTL DEF Spec

\* A customer is cooked for twice, for two subscriptions, at most on the day the
\* first of them ended: slots of the second are not older than its start, and
\* the first had ended by then.  (cancel_subscription, live_delivery_q)
THEOREM ServedOnce == Spec => []OneSubscriptionServes
<1>1. DeliveryInv => OneSubscriptionServes
  <2> SUFFICES ASSUME DeliveryInv,
                      NEW s \in Slots, NEW t \in Slots,
                      meal[s] # "absent", meal[t] # "absent", Live(s), Live(t),
                      s.sub # t.sub, Owner[s.sub] = Owner[t.sub], s.day = t.day
               PROVE  s.day = ended[s.sub] \/ s.day = ended[t.sub]
    BY DEF OneSubscriptionServes
  <2> USE DEF DeliveryInv
  <2>1. s.sub \in Subs /\ t.sub \in Subs /\ s.day \in Nat
    BY SlotLemma
  <2>2. Known(s) /\ Known(t)
    BY DEF MadeSlotsKnown
  <2>3. EndedBefore(s.sub, t.sub) \/ EndedBefore(t.sub, s.sub)
    BY <2>1, <2>2 DEF SubsInTurn, Known
  <2>4. \A u \in Subs : started[u] \in Nat /\ ended[u] \in Nat
    BY DEF TypeOK, Days
  <2> QED BY <2>1, <2>2, <2>3, <2>4 DEF EndedBefore, Known, Live
<1> QED BY <1>1, DeliveryInvariant, PTL

-----------------------------------------------------------------------------
\* Final slots and charges

\* What a step may do to a slot: make it, decide one that is scheduled, or turn
\* it on before its cutoff.  Only the request to deliver it makes it delivered.
LEMMA SlotSteps ==
  ASSUME TypeOK, Next, NEW s \in Slots, meal'[s] # meal[s]
  PROVE  /\ ~Final(s)
         /\ meal'[s] = "delivered" =>
              \E r \in requests : r.kind = "deliver" /\ r.slot = s /\ Finish(r)
<1>1. ASSUME NEW u \in Subs, Subscribe(u)
      PROVE  meal[s] = "absent" /\ meal'[s] \in {"scheduled", "skipped"}
  <2>1. NewRows(u, today, today, published) \in SUBSET Rows
    BY DEF NewRows
  <2>2. \A r \in NewRows(u, today, today, published) : meal[r.slot] = "absent"
    BY DEF NewRows
  <2> QED BY <1>1, <2>1, <2>2, WithRowsLemma DEF Subscribe
<1>2. ASSUME NEW w \in Workers, InsertRows(w) \/ CommitPublish(w)
      PROVE  meal[s] = "absent" /\ meal'[s] \in {"scheduled", "skipped"}
  <2>1. meal' = WithRows(worker[w].rows)
    BY <1>2 DEF InsertRows, CommitPublish
  <2> QED BY <1>2, <2>1, InsertLemma, WithRowsLemma
<1>3. ASSUME NEW u \in Subs, Cancel(u)
      PROVE  meal[s] = "scheduled" /\ meal'[s] = "skipped"
  BY <1>3 DEF Cancel
<1>4. ASSUME NEW r \in requests, Finish(r)
      PROVE  /\ r.slot = s
             /\ meal[s] = "scheduled" \/ (meal[s] = "off" /\ ~Past(s))
             /\ meal'[s] = "delivered" => r.kind = "deliver"
  <2>1. r.slot \in Slots /\ r.kind \in Kinds
    BY DEF TypeOK
  <2>2. r.slot = s
    BY <1>4, <2>1 DEF Finish, TypeOK
  <2>3. meal'[s] = Becomes(r.kind)
    BY <1>4, <2>2 DEF Finish, TypeOK
  <2>4. Allowed(r)
    BY <1>4 DEF Finish
  <2>5. meal[s] = "scheduled" \/ (meal[s] = "off" /\ ~Past(s))
    BY <2>1, <2>2, <2>4 DEF Allowed, Kinds
  <2>6. meal'[s] = "delivered" => r.kind = "deliver"
    BY <2>1, <2>3 DEF Becomes, Kinds
  <2> QED BY <2>2, <2>5, <2>6
<1>5. ~UNCHANGED meal
  OBVIOUS
<1>6. CASE \E r \in requests : Finish(r)
  BY <1>4, <1>6 DEF Final
<1>7. CASE ~\E r \in requests : Finish(r)
  <2>1. \/ \E u \in Subs : Subscribe(u) \/ Cancel(u)
        \/ \E w \in Workers : InsertRows(w) \/ CommitPublish(w)
    BY <1>5, <1>7
       DEF Next, WorkerStep, PassTime, Ensure, Publish, Begin, ReadRows, EndLoop, Abort,
           Unpublish, Ask, Refuse
  <2> QED BY <1>1, <1>2, <1>3, <2>1 DEF Final
<1> QED BY <1>6, <1>7

\* A slot that was delivered or skipped, or off at its cutoff, stays so: no
\* request and no loop that read something older brings it back.
\* (mark_delivery, customer_meal_on, ensure_subscription_deliveries)
THEOREM FinalForGood == Spec => FinalStaysFinal
<1>1. TypeOK /\ [Next]_vars => [\A s \in Slots : Final(s) => meal'[s] = meal[s]]_vars
  <2> SUFFICES ASSUME TypeOK, Next
               PROVE  \A s \in Slots : Final(s) => meal'[s] = meal[s]
    BY DEF vars
  <2> QED BY SlotSteps
<1> QED BY <1>1, TypeCorrect, PTL DEF Spec, FinalStaysFinal

\* Finishing a delivery charges its owner, and nobody else.
LEMMA DeliveryCharged ==
  ASSUME TypeOK, Accounts, Next, NEW r \in requests, Finish(r), r.kind = "deliver"
  PROVE  Accounts'
<1> DEFINE s == r.slot
           o == Owner[s.sub]
<1>1. s \in Slots /\ o \in Customers
  BY SlotLemma, MealDeliveryAssumption DEF TypeOK
<1>2. meal[s] = "scheduled" /\ meal' = [meal EXCEPT ![s] = "delivered"]
  BY DEF Finish, Allowed, Becomes
<1>3. balance' = [balance EXCEPT ![o] = @ - Price]
  BY DEF Finish
<1>4. Delivered(o)' = Delivered(o) \cup {s} /\ s \notin Delivered(o)
  BY <1>1, <1>2 DEF Delivered, TypeOK
<1>5. \A c \in Customers : c # o => Delivered(c)' = Delivered(c)
  BY <1>1, <1>2 DEF Delivered, TypeOK
<1>6. /\ IsFiniteSet(Delivered(o)')
      /\ Cardinality(Delivered(o)') = Cardinality(Delivered(o)) + 1
      /\ Cardinality(Delivered(o)) \in Nat
  BY <1>1, <1>4, FS_AddElement, FS_CardinalityType DEF Accounts
<1>7. balance'[o] + Price * Cardinality(Delivered(o)') = Funds[o]
  <2>1. balance[o] + Price * Cardinality(Delivered(o)) = Funds[o]
    BY <1>1 DEF Accounts
  <2>2. balance[o] \in Nat /\ Price \in Nat
    BY <1>1, MealDeliveryAssumption DEF TypeOK
  <2>3. balance'[o] = balance[o] - Price
    BY <1>1, <1>3 DEF TypeOK
  <2>4. Price * (Cardinality(Delivered(o)) + 1) = Price * Cardinality(Delivered(o)) + Price
    BY <1>6, <2>2
  <2> QED BY <1>6, <2>1, <2>2, <2>3, <2>4
<1>8. ASSUME NEW c \in Customers, c # o
      PROVE  balance'[c] = balance[c]
  BY <1>1, <1>3, <1>8 DEF TypeOK
<1> HIDE DEF s, o
<1>9. ASSUME NEW c \in Customers
      PROVE  /\ IsFiniteSet(Delivered(c)')
             /\ balance'[c] + Price * Cardinality(Delivered(c)') = Funds[c]
  <2>1. CASE c = o
    BY <1>6, <1>7, <2>1
  <2>2. CASE c # o
    BY <1>5, <1>8, <2>2 DEF Accounts
  <2> QED BY <2>1, <2>2
<1> QED BY <1>9 DEF Accounts

\* A wallet lacks the price of each meal that was delivered from it, once: a slot
\* becomes delivered only in the transaction that charges it, and only once.
\* (mark_delivery, charge_delivered_meal)
THEOREM ChargesExplainBalance == Spec => []ChargedOnce
<1>1. Init => Accounts
  <2> SUFFICES ASSUME Init, NEW c \in Customers
               PROVE  /\ IsFiniteSet(Delivered(c))
                      /\ balance[c] + Price * Cardinality(Delivered(c)) = Funds[c]
    BY DEF Accounts
  <2>1. Delivered(c) = {}
    BY DEF Init, Delivered
  <2>2. balance[c] = Funds[c] /\ Funds[c] \in Nat /\ Price \in Nat
    BY MealDeliveryAssumption DEF Init
  <2> QED BY <2>1, <2>2, FS_EmptySet
<1>2. TypeOK /\ Accounts /\ [Next]_vars => Accounts'
  <2> SUFFICES ASSUME TypeOK, Accounts, [Next]_vars PROVE Accounts'
    OBVIOUS
  <2>1. ASSUME Next, NEW r \in requests, Finish(r), r.kind = "deliver"
        PROVE  Accounts'
    BY <2>1, DeliveryCharged
  <2>2. CASE Next /\ ~\E r \in requests : r.kind = "deliver" /\ Finish(r)
    <3>1. balance' = balance
      BY <2>2
         DEF Next, WorkerStep, PassTime, Subscribe, Cancel, Ensure, Publish, Begin, ReadRows,
             InsertRows, EndLoop, CommitPublish, Abort, Unpublish, Ask, Finish, Refuse
    <3>2. \A s \in Slots : meal'[s] = "delivered" <=> meal[s] = "delivered"
      BY <2>2, SlotSteps DEF Final
    <3>3. \A c \in Customers : Delivered(c)' = Delivered(c)
      BY <3>2 DEF Delivered
    <3> QED BY <3>1, <3>3 DEF Accounts
  <2>3. CASE UNCHANGED vars
    <3>1. \A c \in Customers : Delivered(c)' = Delivered(c)
      BY <2>3 DEF vars, Delivered
    <3> QED BY <2>3, <3>1 DEF vars, Accounts
  <2> QED BY <2>1, <2>2, <2>3
<1>3. Accounts => ChargedOnce
  BY DEF Accounts, ChargedOnce
<1> QED BY <1>1, <1>2, <1>3, TypeCorrect, PTL DEF Spec

-----------------------------------------------------------------------------
\* Stray slots

\* What a step may do to the requests: add one about a slot that is there and served.
LEMMA RequestSteps ==
  ASSUME TypeOK, Next, NEW r \in requests', r \notin requests
  PROVE  meal[r.slot] # "absent" /\ Live(r.slot) /\ UNCHANGED meal
<1>1. \A q \in requests : Finish(q) \/ Refuse(q) => r \in requests
  BY DEF Finish, Refuse
<1>2. PICK kind \in Kinds, s \in Slots : Ask(kind, s)
  <2>1. \E kind \in Kinds, s \in Slots : Ask(kind, s)
    BY <1>1
       DEF Next, WorkerStep, PassTime, Subscribe, Cancel, Ensure, Publish, Begin, ReadRows,
           InsertRows, EndLoop, CommitPublish, Abort, Unpublish
  <2> QED BY <2>1
<1>3. r = [kind |-> kind, slot |-> s] /\ r.slot = s
  BY <1>2 DEF Ask
<1> QED BY <1>2, <1>3 DEF Ask

\* A row is not deleted.
LEMMA RowsStay ==
  ASSUME TypeOK, Next, NEW s \in Slots, meal[s] # "absent"
  PROVE  meal'[s] # "absent"
<1>1. CASE meal'[s] = meal[s]
  BY <1>1
<1>2. ASSUME NEW u \in Subs, Subscribe(u) PROVE meal'[s] = meal[s]
  <2>1. NewRows(u, today, today, published) \in SUBSET Rows
    BY DEF NewRows
  <2>2. \A r \in NewRows(u, today, today, published) : meal[r.slot] = "absent"
    BY DEF NewRows
  <2> QED BY <1>2, <2>1, <2>2, WithRowsLemma DEF Subscribe
<1>3. ASSUME NEW w \in Workers, InsertRows(w) \/ CommitPublish(w) PROVE meal'[s] = meal[s]
  <2>1. meal' = WithRows(worker[w].rows)
    BY <1>3 DEF InsertRows, CommitPublish
  <2> QED BY <1>3, <2>1, InsertLemma, WithRowsLemma
<1>4. ASSUME NEW u \in Subs, Cancel(u) PROVE meal'[s] # "absent"
  BY <1>4 DEF Cancel
<1>5. ASSUME NEW r \in requests, Finish(r) PROVE meal'[s] # "absent"
  <2>1. r.slot \in Slots /\ r.kind \in Kinds
    BY DEF TypeOK
  <2>2. Becomes(r.kind) # "absent"
    BY <2>1 DEF Becomes, Kinds
  <2> QED BY <1>5, <2>1, <2>2 DEF Finish, TypeOK
<1>6. UNCHANGED meal => meal'[s] = meal[s]
  OBVIOUS
<1>7. CASE \E r \in requests : Finish(r)
  BY <1>5, <1>7
<1>8. CASE ~\E r \in requests : Finish(r)
  <2>1. \/ UNCHANGED meal
        \/ \E u \in Subs : Subscribe(u) \/ Cancel(u)
        \/ \E w \in Workers : InsertRows(w) \/ CommitPublish(w)
    BY <1>8
       DEF Next, WorkerStep, PassTime, Ensure, Publish, Begin, ReadRows, EndLoop, Abort,
           Unpublish, Ask, Refuse
  <2> QED BY <1>1, <1>2, <1>3, <1>4, <1>6, <2>1
<1> QED BY <1>7, <1>8

\* Nobody asks about a slot that is not there.
AskedAreThere == \A r \in requests : meal[r.slot] # "absent"

\* Past the last day of a cancelled subscription.
Beyond(s) == status[s.sub] = "cancelled" /\ s.day > ended[s.sub]

\* Not delivered, and nobody has read the subscription in time to deliver it.
LeftAlone(s) ==
  Beyond(s) /\ meal[s] # "delivered" /\ \A r \in requests : r.slot # s

\* Requests are about slots that are there.
LEMMA AskedStayThere ==
  ASSUME TypeOK, AskedAreThere, [Next]_vars
  PROVE  AskedAreThere'
<1>1. CASE UNCHANGED vars
  BY <1>1 DEF vars, AskedAreThere
<1>2. ASSUME Next, NEW r \in requests' PROVE meal'[r.slot] # "absent"
  <2>1. CASE r \in requests
    <3>1. r.slot \in Slots /\ meal[r.slot] # "absent"
      BY <2>1 DEF TypeOK, AskedAreThere
    <3> QED BY <1>2, <3>1, RowsStay
  <2>2. CASE r \notin requests
    BY <1>2, <2>2, RequestSteps
  <2> QED BY <2>1, <2>2
<1> QED BY <1>1, <1>2 DEF AskedAreThere

\* A cancelled subscription stays cancelled on the day it was.
LEMMA CancelledStays ==
  ASSUME TypeOK, [Next]_vars, NEW s \in Slots, Beyond(s)
  PROVE  Beyond(s)'
<1>1. s.sub \in Subs
  BY SlotLemma
<1>2. status'[s.sub] = "cancelled" /\ ended'[s.sub] = ended[s.sub]
  <2>1. ASSUME NEW u \in Subs, Subscribe(u) \/ Cancel(u)
        PROVE  status'[s.sub] = "cancelled" /\ ended'[s.sub] = ended[s.sub]
    BY <1>1, <2>1 DEF Subscribe, Cancel, Beyond, TypeOK
  <2>2. CASE UNCHANGED <<status, ended>>
    BY <2>2 DEF Beyond
  <2> QED
    BY <2>1, <2>2
       DEF Next, vars, WorkerStep, PassTime, Ensure, Publish, Begin, ReadRows, InsertRows,
           EndLoop, CommitPublish, Abort, Unpublish, Ask, Finish, Refuse
<1> QED BY <1>2 DEF Beyond

\* It stays so.
LEMMA LeftAloneStays ==
  ASSUME TypeOK, [Next]_vars, NEW s \in Slots, LeftAlone(s)
  PROVE  LeftAlone(s)'
<1>1. Beyond(s)'
  BY CancelledStays DEF LeftAlone
<1>2. CASE UNCHANGED vars
  BY <1>1, <1>2 DEF vars, LeftAlone
<1>3. CASE Next
  <2>1. ASSUME NEW r \in requests' PROVE r.slot # s
    <3>1. CASE r \in requests
      BY <3>1 DEF LeftAlone
    <3>2. CASE r \notin requests
      <4>1. Live(r.slot)
        BY <1>3, <3>2, RequestSteps
      <4>2. s.day \in Nat /\ ended[s.sub] \in Nat
        BY SlotLemma DEF TypeOK, Days
      <4>3. ~Live(s)
        BY <4>2 DEF Live, LeftAlone, Beyond
      <4> QED BY <4>1, <4>3
    <3> QED BY <3>1, <3>2
  <2>2. meal'[s] # "delivered"
    <3>1. CASE meal'[s] = meal[s]
      BY <3>1 DEF LeftAlone
    <3>2. CASE meal'[s] # meal[s]
      BY <1>3, <3>2, SlotSteps DEF LeftAlone
    <3> QED BY <3>1, <3>2
  <2> QED BY <1>1, <2>1, <2>2 DEF LeftAlone
<1> QED BY <1>2, <1>3

\* A publication or a backfill that has read the subscription as active may make rows for
\* it when it has been cancelled.  None of those past its last day is ever delivered and
\* charged, whoever marks them: they are lost rows, not lost money.
\* (ensure_subscription_deliveries, live_delivery_q, mark_delivery)
THEOREM StraysUnserved ==
  ASSUME NEW s \in Slots
  PROVE  Spec => [](Beyond(s) /\ meal[s] = "absent" => [](meal[s] # "delivered"))
<1>1. Init => AskedAreThere
  BY DEF Init, AskedAreThere
<1>2. TypeOK /\ AskedAreThere /\ [Next]_vars => AskedAreThere'
  BY AskedStayThere
<1>3. TypeOK /\ LeftAlone(s) /\ [Next]_vars => LeftAlone(s)'
  BY LeftAloneStays
<1>4. AskedAreThere /\ Beyond(s) /\ meal[s] = "absent" => LeftAlone(s)
  BY DEF AskedAreThere, LeftAlone
<1>5. LeftAlone(s) => meal[s] # "delivered"
  BY DEF LeftAlone
<1> QED BY <1>1, <1>2, <1>3, <1>4, <1>5, TypeCorrect, PTL DEF Spec
=============================================================================
