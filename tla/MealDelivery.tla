----------------------------- MODULE MealDelivery -----------------------------
(***************************************************************************)
(* Subscriptions and their delivery slots (orders/services: subscription_  *)
(* service, meal_off, order_delivery, meal_payment; publishing in meals/   *)
(* services/menu_schedule).  A subscription owns one slot per day and meal *)
(* period.  Slots are made ahead of time, for the months whose menu is     *)
(* published, by whoever subscribes, looks at the subscription, runs the   *)
(* backfill or publishes a menu.  Until the cutoff of a slot its customer  *)
(* turns it off and on again; marking it delivered charges the wallet; and *)
(* cancelling the subscription skips the slots that are not past their     *)
(* cutoff.                                                                 *)
(*                                                                         *)
(* Making slots is not atomic: the active subscriptions are read first,    *)
(* the rows a subscription has next, and the missing rows inserted last,   *)
(* with no lock on the subscription.  A request about a slot reads the     *)
(* subscription when it begins and may then wait for the slot's row lock;  *)
(* once it has the lock, it is done before anybody else sees the slot.     *)
(***************************************************************************)
EXTENDS Naturals, FiniteSets

CONSTANTS
  Customers,
  Subs,           (* The subscriptions that may come to be.                *)
  Owner,          (* The customer of every subscription.                   *)
  PerDay,         (* The meal periods of a day: lunch is 0, dinner is 1.   *)
  Periods,        (* The meal periods of every subscription.               *)
  LastDay,        (* Bound: the last service date; the first is day 0.     *)
  Month,          (* The month of every day.                               *)
  Price,          (* The published price of a slot.                        *)
  Minimum,        (* OrderWalletSettings.min_wallet_balance_to_order.      *)
  Funds,          (* The wallet of every customer at the beginning.        *)
  Workers,        (* The processes making slots at the same time.          *)
  MaxRequests     (* Bound: the requests about slots under way at once.    *)

Days == 0..LastDay
DayPeriods == 0..(PerDay - 1)
Months == {Month[d] : d \in Days}

ASSUME MealDeliveryAssumption ==
  /\ Owner \in [Subs -> Customers]
  /\ PerDay \in Nat \ {0} /\ LastDay \in Nat
  /\ Periods \in [Subs -> SUBSET DayPeriods]
  /\ Month \in [Days -> Nat]
  /\ Price \in Nat \ {0} /\ Minimum \in Nat
  /\ Funds \in [Customers -> Nat]
  /\ MaxRequests \in Nat

AllSlots == [sub : Subs, day : Days, period : DayPeriods]
Slots == {s \in AllSlots : s.period \in Periods[s.sub]}

VARIABLES
  today,          (* The business day.                                     *)
  phase,          (* How many of its cutoffs have passed.                  *)
  published,      (* The months with a published menu.                     *)
  status,         (* CustomerSubscription.status, "none" before it exists. *)
  started,        (* CustomerSubscription.started_on.                      *)
  ended,          (* CustomerSubscription.cancel_effective_on.             *)
  meal,           (* OrderDelivery.status, "absent" without a row; a slot  *)
                  (* the customer skipped is "off".                        *)
  balance,        (* The wallet of every customer.                         *)
  requests,       (* Requests that have read the subscription of the slot. *)
  worker          (* The processes making slots.                           *)

clocks == <<today, phase>>
vars ==
  <<clocks, published, status, started, ended, meal, balance, requests, worker>>

Kinds == {"off", "on", "deliver", "skip"}
Rows == [slot : Slots, as : {"scheduled", "skipped"}]
WorkerStates == [pc : {"idle", "next", "insert"}, job : {"ensure", "publish"},
                 month : Months, today : Days, queue : SUBSET Subs, rows : SUBSET Rows]

TypeOK ==
  /\ today \in Days /\ phase \in 0..PerDay
  /\ published \in SUBSET Months
  /\ status \in [Subs -> {"none", "active", "cancelled"}]
  /\ started \in [Subs -> Days] /\ ended \in [Subs -> Days]
  /\ meal \in [Slots -> {"absent", "scheduled", "off", "skipped", "delivered"}]
  /\ balance \in [Customers -> Nat]
  /\ requests \in SUBSET [kind : Kinds, slot : Slots]
  /\ worker \in [Workers -> WorkerStates]

\* The deadline itself still belongs to the customer.
Past(s) == s.day < today \/ (s.day = today /\ s.period < phase)

Active == {u \in Subs : status[u] = "active"}

\* A slot that is served and counted.
Live(s) ==
  \/ status[s.sub] = "active"
  \/ status[s.sub] = "cancelled" /\ s.day <= ended[s.sub]

Idle == [pc |-> "idle", job |-> "ensure", month |-> Month[0], today |-> 0,
         queue |-> {}, rows |-> {}]

Init ==
  /\ today = 0 /\ phase = 0
  /\ published \in SUBSET Months
  /\ status = [u \in Subs |-> "none"]
  /\ started = [u \in Subs |-> 0] /\ ended = [u \in Subs |-> 0]
  /\ meal = [s \in Slots |-> "absent"]
  /\ balance = Funds
  /\ requests = {}
  /\ worker = [w \in Workers |-> Idle]

PassTime ==
  /\ \/ phase < PerDay /\ phase' = phase + 1 /\ UNCHANGED today
     \/ phase = PerDay /\ phase' = 0 /\ today < LastDay /\ today' = today + 1
  /\ UNCHANGED <<published, status, started, ended, meal, balance, requests, worker>>

-----------------------------------------------------------------------------
(***************************************************************************)
(* Making slots: ensure_subscription_deliveries and its callers.           *)
(***************************************************************************)

\* From the later of the start and today to the end of next month.
Window(from, day) == {d \in Days : d >= from /\ d >= day /\ Month[d] <= Month[day] + 1}

\* The rows subscription u lacks, as the months in open allow them.  Those of
\* the present day whose cutoff has passed begin as skipped.
NewRows(u, from, day, open) ==
  {r \in Rows :
     /\ r.slot.sub = u /\ meal[r.slot] = "absent"
     /\ r.slot.day \in Window(from, day)
     /\ Month[r.slot.day] \in open
     /\ r.as = IF r.slot.day = today /\ Past(r.slot) THEN "skipped" ELSE "scheduled"}

WithRows(rows) ==
  [s \in Slots |->
     IF [slot |-> s, as |-> "scheduled"] \in rows THEN "scheduled"
     ELSE IF [slot |-> s, as |-> "skipped"] \in rows THEN "skipped" ELSE meal[s]]

\* subscribe_customer, one transaction with the slots it makes.
Subscribe(u) ==
  /\ status[u] = "none"
  /\ \A v \in Active : Owner[v] # Owner[u]
  /\ balance[Owner[u]] >= Minimum
  /\ status' = [status EXCEPT ![u] = "active"]
  /\ started' = [started EXCEPT ![u] = today]
  /\ meal' = WithRows(NewRows(u, today, today, published))
  /\ UNCHANGED <<clocks, published, ended, balance, requests, worker>>

Begin(w, state) ==
  /\ worker[w].pc = "idle"
  /\ worker' = [worker EXCEPT ![w] = state]
  /\ UNCHANGED <<clocks, published, status, started, ended, meal, balance, requests>>

\* The backfill command reads every active subscription; a look at the current
\* subscription reads one.
Ensure(w) ==
  \E subs \in {Active} \cup {{u} : u \in Active} :
    Begin(w, [Idle EXCEPT !.pc = "next", !.today = today, !.queue = subs])

\* publish_schedule has the lock on its schedule from here to the end.
Publish(w) ==
  \E m \in Months \ published :
    /\ \A v \in Workers : worker[v].job = "publish" => worker[v].month # m
    /\ Begin(w, [pc |-> "next", job |-> "publish", month |-> m, today |-> today,
                 queue |-> Active, rows |-> {}])

OpenFor(w) ==
  IF worker[w].job = "publish" THEN published \cup {worker[w].month} ELSE published

\* The rows of one subscription are read and the missing ones built.  The
\* subscription itself was read when the loop began.  A publication keeps what
\* it inserts to itself until it commits.
ReadRows(w, u) ==
  /\ worker[w].pc = "next" /\ u \in worker[w].queue
  /\ worker' = [worker EXCEPT ![w] =
       [@ EXCEPT !.pc = IF worker[w].job = "publish" THEN "next" ELSE "insert",
                 !.queue = worker[w].queue \ {u},
                 !.rows = worker[w].rows \cup
                            NewRows(u, started[u], worker[w].today, OpenFor(w))]]
  /\ UNCHANGED <<clocks, published, status, started, ended, meal, balance, requests>>

\* The unique constraint on subscription, date and period.
Conflict(w) == \E r \in worker[w].rows : meal[r.slot] # "absent"

\* Mutant: rows that exist are written again.
InsertRowsOver(w) ==
  /\ worker[w].pc = "insert"
  /\ meal' = WithRows(worker[w].rows)
  /\ worker' = [worker EXCEPT ![w] = [@ EXCEPT !.pc = "next", !.rows = {}]]
  /\ UNCHANGED <<clocks, published, status, started, ended, balance, requests>>

InsertRows(w) ==
  /\ worker[w].pc = "insert" /\ ~Conflict(w)
  /\ meal' = WithRows(worker[w].rows)
  /\ worker' = [worker EXCEPT ![w] = [@ EXCEPT !.pc = "next", !.rows = {}]]
  /\ UNCHANGED <<clocks, published, status, started, ended, balance, requests>>

EndLoop(w) ==
  /\ worker[w].pc = "next" /\ worker[w].job = "ensure" /\ worker[w].queue = {}
  /\ worker' = [worker EXCEPT ![w] = Idle]
  /\ UNCHANGED <<clocks, published, status, started, ended, meal, balance, requests>>

CommitPublish(w) ==
  /\ worker[w].pc = "next" /\ worker[w].job = "publish" /\ worker[w].queue = {}
  /\ ~Conflict(w)
  /\ meal' = WithRows(worker[w].rows)
  /\ published' = published \cup {worker[w].month}
  /\ worker' = [worker EXCEPT ![w] = Idle]
  /\ UNCHANGED <<clocks, status, started, ended, balance, requests>>

\* An IntegrityError ends the loop with the subscriptions still in its queue,
\* and takes a publication back as a whole.  Of two that insert the same row the
\* second to commit fails here; the database fails the second to insert.
Abort(w) ==
  /\ worker[w].pc # "idle" /\ Conflict(w)
  /\ worker' = [worker EXCEPT ![w] = Idle]
  /\ UNCHANGED <<clocks, published, status, started, ended, meal, balance, requests>>

\* unpublish_schedule clears the prices as well.
Unpublish(m) ==
  /\ m \in published
  /\ published' = published \ {m}
  /\ UNCHANGED <<clocks, status, started, ended, meal, balance, requests, worker>>

-----------------------------------------------------------------------------
(***************************************************************************)
(* cancel_subscription locks the subscription, then the slots it finds     *)
(* scheduled; those whose cutoff has passed stay as they are.              *)
(***************************************************************************)

\* Mutant: the end is the day after.
CancelTomorrow(u) ==
  /\ status[u] = "active"
  /\ status' = [status EXCEPT ![u] = "cancelled"]
  /\ ended' = [ended EXCEPT ![u] = IF today < LastDay THEN today + 1 ELSE today]
  /\ meal' = [s \in Slots |-> IF s.sub = u /\ meal[s] = "scheduled" /\ ~Past(s)
                              THEN "skipped" ELSE meal[s]]
  /\ UNCHANGED <<clocks, published, started, balance, requests, worker>>

Cancel(u) ==
  /\ status[u] = "active"
  /\ status' = [status EXCEPT ![u] = "cancelled"]
  /\ ended' = [ended EXCEPT ![u] = today]
  /\ meal' = [s \in Slots |-> IF s.sub = u /\ meal[s] = "scheduled" /\ ~Past(s)
                              THEN "skipped" ELSE meal[s]]
  /\ UNCHANGED <<clocks, published, started, balance, requests, worker>>

-----------------------------------------------------------------------------
(***************************************************************************)
(* Requests about a slot: customer_meal_off, customer_meal_on, and         *)
(* mark_delivery by a rider, an admin or the nightly run.                  *)
(***************************************************************************)

\* The statement that locks the slot begins: it reads the subscription at once
\* and waits for the slot.  Requests that are refused whatever comes, about a
\* decided slot or after the cutoff, are left out but for the repeated mark.
Ask(kind, s) ==
  /\ meal[s] \in {"scheduled", "off"} \/ (meal[s] = "delivered" /\ kind = "deliver")
  /\ kind \in {"off", "on"} => ~Past(s)
  /\ Live(s)
  /\ [kind |-> kind, slot |-> s] \notin requests
  /\ Cardinality(requests) < MaxRequests
  /\ requests' = requests \cup {[kind |-> kind, slot |-> s]}
  /\ UNCHANGED <<clocks, published, status, started, ended, meal, balance, worker>>

\* Mutant: the wallet is not looked at.
PayableUnchecked(s) == Month[s.day] \in published

\* Without a published price or with too little in the wallet a meal is not
\* charged, and the mark fails with it.
Payable(s) == Month[s.day] \in published /\ balance[Owner[s.sub]] >= Price

\* Mutant: a slot that is delivered is marked delivered again.
AllowedAgain(r) ==
  CASE r.kind = "off" -> meal[r.slot] = "scheduled" /\ ~Past(r.slot)
    [] r.kind = "on" -> meal[r.slot] = "off" /\ ~Past(r.slot)
    [] r.kind = "deliver" ->
         meal[r.slot] \in {"scheduled", "delivered"} /\ Payable(r.slot)
    [] r.kind = "skip" -> meal[r.slot] = "scheduled"

\* What is looked at under the slot's lock; a slot marked already is refused.
Allowed(r) ==
  CASE r.kind = "off" -> meal[r.slot] = "scheduled" /\ ~Past(r.slot)
    [] r.kind = "on" -> meal[r.slot] = "off" /\ ~Past(r.slot)
    [] r.kind = "deliver" -> meal[r.slot] = "scheduled" /\ Payable(r.slot)
    [] r.kind = "skip" -> meal[r.slot] = "scheduled"

Becomes(kind) ==
  CASE kind = "off" -> "off"
    [] kind = "on" -> "scheduled"
    [] kind = "deliver" -> "delivered"
    [] kind = "skip" -> "skipped"

\* The lock is granted; what is done commits with the charge.
Finish(r) ==
  /\ r \in requests /\ Allowed(r)
  /\ requests' = requests \ {r}
  /\ meal' = [meal EXCEPT ![r.slot] = Becomes(r.kind)]
  /\ balance' = IF r.kind = "deliver"
                THEN [balance EXCEPT ![Owner[r.slot.sub]] = @ - Price] ELSE balance
  /\ UNCHANGED <<clocks, published, status, started, ended, worker>>

Refuse(r) ==
  /\ r \in requests /\ ~Allowed(r)
  /\ requests' = requests \ {r}
  /\ UNCHANGED <<clocks, published, status, started, ended, meal, balance, worker>>

-----------------------------------------------------------------------------
WorkerStep(w) ==
  \/ \E u \in Subs : ReadRows(w, u)
  \/ InsertRows(w) \/ EndLoop(w) \/ CommitPublish(w) \/ Abort(w)

Next ==
  \/ PassTime
  \/ \E u \in Subs : Subscribe(u) \/ Cancel(u)
  \/ \E w \in Workers : Ensure(w) \/ Publish(w) \/ WorkerStep(w)
  \/ \E m \in Months : Unpublish(m)
  \/ \E kind \in Kinds, s \in Slots : Ask(kind, s)
  \/ \E r \in requests : Finish(r) \/ Refuse(r)

Spec == Init /\ [][Next]_vars

-----------------------------------------------------------------------------
(***************************************************************************)
(* Properties.                                                             *)
(***************************************************************************)

Delivered(c) == {s \in Slots : Owner[s.sub] = c /\ meal[s] = "delivered"}

\* What is missing from a wallet is the price of the meals that were delivered
\* from it, each once, whoever marks, cancels, unpublishes or makes slots
\* meanwhile.  (mark_delivery, charge_delivered_meal)
ChargedOnce ==
  \A c \in Customers : balance[c] + Price * Cardinality(Delivered(c)) = Funds[c]

\* The kitchen cooks for a customer twice, for two subscriptions, at most on the
\* day the first one was cancelled, although it goes on serving a cancelled
\* subscription to its end.  (live_delivery_q, cancel_subscription,
\* ensure_subscription_deliveries)
OneSubscriptionServes ==
  \A s, t \in {x \in Slots : meal[x] \in {"scheduled", "delivered"} /\ Live(x)} :
    (s.sub # t.sub /\ Owner[s.sub] = Owner[t.sub] /\ s.day = t.day /\ s.period = t.period)
      => s.day = ended[s.sub] \/ s.day = ended[t.sub]

Final(s) == meal[s] \in {"delivered", "skipped"} \/ (meal[s] = "off" /\ Past(s))

\* A slot that was delivered or skipped, or that its customer had off at the
\* cutoff, stays so, whatever was read before that and arrives late.
\* (ensure_subscription_deliveries, customer_meal_on, mark_delivery)
FinalStaysFinal == [][\A s \in Slots : Final(s) => meal'[s] = meal[s]]_vars

\* "Does not generate after cancel."
\* (subscription_service.py, ensure_subscription_deliveries)
GeneratesOnlyWhileActive ==
  [][\A s \in Slots : (meal[s] = "absent" /\ meal'[s] # "absent") =>
       status'[s.sub] = "active"]_vars
=============================================================================
