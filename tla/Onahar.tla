-------------------------------- MODULE Onahar --------------------------------
(***************************************************************************)
(* The charity campaign (onahar/services).  Every delivered meal earns its *)
(* customer a point for the month of the meal, every full target of points *)
(* donates one meal to a common fund, and staff give the meals of the fund *)
(* away in distributions.  A closed month donates no more: what was left   *)
(* of its points expires.                                                  *)
(*                                                                         *)
(* A point is credited inside the transaction that marks the meal, or by a *)
(* command for meals delivered without one.  Its transaction locks the     *)
(* slot, then the customer's row of the month, which it may have to make,  *)
(* and the settings row if the point completes a target.  A mark keeps     *)
(* these rows while it goes on to commissions and wallets; what it wrote   *)
(* is there when it commits.  Closing a month locks the rows there are     *)
(* when it begins, and waits for those that are locked.                    *)
(***************************************************************************)
EXTENDS Integers, FiniteSets

CONSTANTS
  Customers,
  Slots,          (* Delivery slots.                                       *)
  Owner,          (* The customer of every slot.                           *)
  MonthOf,        (* The month of every slot.                              *)
  LastMonth,      (* Bound: the last month; the first is 0.                *)
  Workers,
  NoSlot,
  Targets,        (* The contribution targets staff may set.               *)
  Distributions,
  Portions,       (* The sizes a distribution may have.                    *)
  MaxCrashes      (* Bound: workers that die.                              *)

Months == 0..LastMonth

ASSUME OnaharAssumption ==
  /\ Owner \in [Slots -> Customers] /\ MonthOf \in [Slots -> Months]
  /\ LastMonth \in Nat /\ MaxCrashes \in Nat
  /\ NoSlot \notin Slots
  /\ Targets \subseteq Nat \ {0} /\ Portions \subseteq Nat \ {0}

VARIABLES
  now,            (* The current month.                                    *)
  delivered,      (* The slots that are delivered.                         *)
  point,          (* The months the credit event of a slot counts for: one *)
                  (* or none.                                              *)
  progress,       (* OnaharMonthlyProgress of every customer and month.    *)
  fund,           (* OnaharSettings: the fund's totals and the target.     *)
  dist,           (* OnaharDistribution rows.                              *)
  tx,             (* The transaction that credits or closes, by worker.    *)
  crashes

rows == <<delivered, point, progress, fund, dist>>
vars == <<now, rows, tx, crashes>>

Progress == [status : {"none", "open", "closed"}, target : Nat \ {0},
             net : Nat, earned : Nat, expired : Nat]
NoProgress == [status |-> "none", target |-> 1, net |-> 0, earned |-> 0, expired |-> 0]

Keys == Customers \X Months

Idle == [kind |-> "mark", pc |-> "idle", slot |-> NoSlot, month |-> 0, target |-> 1,
         locks |-> {}, seen |-> {}]

Transactions ==
  [kind : {"mark", "reconcile", "close"},
   pc : {"idle", "open", "insert", "credit", "credited", "close"},
   slot : Slots \cup {NoSlot}, month : Months, target : Nat \ {0},
   locks : SUBSET Keys, seen : SUBSET Keys]

TypeOK ==
  /\ now \in Months
  /\ delivered \in SUBSET Slots
  /\ point \in [Slots -> SUBSET Months]
  /\ progress \in [Keys -> Progress]
  /\ fund \in [contributed : Nat, distributed : Nat, available : Nat, target : Nat \ {0}]
  /\ dist \in [Distributions ->
                [status : {"none", "draft", "published", "cancelled"}, meals : Nat]]
  /\ tx \in [Workers -> Transactions]
  /\ crashes \in 0..MaxCrashes

Init ==
  /\ now = 0
  /\ delivered = {}
  /\ point = [s \in Slots |-> {}]
  /\ progress = [k \in Keys |-> NoProgress]
  /\ fund \in {[contributed |-> 0, distributed |-> 0, available |-> 0, target |-> t] :
                 t \in Targets}
  /\ dist = [d \in Distributions |-> [status |-> "none", meals |-> 0]]
  /\ tx = [w \in Workers |-> Idle]
  /\ crashes = 0

PassMonth ==
  /\ now < LastMonth
  /\ now' = now + 1
  /\ UNCHANGED <<rows, tx, crashes>>

Free(w, key) == \A v \in Workers \ {w} : key \notin tx[v].locks

SlotFree(w, s) == \A v \in Workers \ {w} : tx[v].slot # s

Continue(w, t) == tx' = [tx EXCEPT ![w] = t]

-----------------------------------------------------------------------------
(***************************************************************************)
(* Points and what they donate.                                            *)
(***************************************************************************)

Key(w) == <<Owner[tx[w].slot], tx[w].month>>

\* A row that is not there is made with the target read before it is inserted.
Existing(key, target) ==
  IF progress[key].status = "none"
  THEN [NoProgress EXCEPT !.status = "open", !.target = target] ELSE progress[key]

\* _issue_missing_contributions leaves a closed month alone.
MissingAnyMonth(p) == (p.net \div p.target) - p.earned

Missing(p) == IF p.status = "open" THEN (p.net \div p.target) - p.earned ELSE 0

PlusPoint(p) == [p EXCEPT !.net = p.net + 1]

\* The row of a transaction's month, with the point it credits.
Pointed(w) == PlusPoint(Existing(Key(w), tx[w].target))

\* A transaction that has given to the fund keeps the settings row.
FundFree == \A w \in Workers : tx[w].pc = "credited" => Missing(Pointed(w)) = 0

Contribute(n) ==
  fund' = [fund EXCEPT !.contributed = fund.contributed + n, !.available = fund.available + n]

-----------------------------------------------------------------------------
(***************************************************************************)
(* credit_for_delivery.                                                    *)
(***************************************************************************)

\* mark_delivery has charged the meal by now, and so holds its customer's wallet:
\* no other meal of the customer is being marked.
Mark(w, s) ==
  /\ tx[w].pc = "idle" /\ s \notin delivered /\ SlotFree(w, s)
  /\ MonthOf[s] <= now
  /\ \A v \in Workers : (tx[v].kind = "mark" /\ tx[v].pc # "idle") => Owner[tx[v].slot] # Owner[s]
  /\ Continue(w, [Idle EXCEPT !.kind = "mark", !.pc = "open", !.slot = s,
                              !.month = MonthOf[s]])
  /\ UNCHANGED <<now, rows, crashes>>

\* The campaign is switched off: the meal is delivered without a point.
MarkUncounted(s) ==
  /\ s \notin delivered /\ MonthOf[s] <= now
  /\ \A w \in Workers : tx[w].slot # s
  /\ delivered' = delivered \cup {s}
  /\ UNCHANGED <<now, point, progress, fund, dist, tx, crashes>>

\* Mutant: the event is not looked for under the slot's lock.
ReconcileBlindly(w, s) ==
  /\ tx[w].pc = "idle" /\ s \in delivered /\ SlotFree(w, s)
  /\ Continue(w, [Idle EXCEPT !.kind = "reconcile", !.pc = "open", !.slot = s,
                              !.month = MonthOf[s]])
  /\ UNCHANGED <<now, rows, crashes>>

\* reconcile_onahar_points; a slot whose event is there by the time its lock is
\* granted needs nothing more.
Reconcile(w, s) ==
  /\ tx[w].pc = "idle" /\ s \in delivered /\ SlotFree(w, s) /\ point[s] = {}
  /\ Continue(w, [Idle EXCEPT !.kind = "reconcile", !.pc = "open", !.slot = s,
                              !.month = MonthOf[s]])
  /\ UNCHANGED <<now, rows, crashes>>

\* _open_or_get_progress.  A closed month sends the point to the current one, whose
\* row is used whatever its status.
Open(w) ==
  /\ tx[w].pc = "open" /\ Free(w, Key(w))
  /\ \/ /\ progress[Key(w)].status = "none"
        /\ Continue(w, [tx[w] EXCEPT !.pc = "insert", !.target = fund.target])
     \/ /\ progress[Key(w)].status = "closed" /\ tx[w].locks = {}
        /\ Continue(w, [tx[w] EXCEPT !.month = now, !.locks = {Key(w)}])
     \/ /\ progress[Key(w)].status # "none"
        /\ progress[Key(w)].status = "closed" => tx[w].locks # {}
        /\ Continue(w, [tx[w] EXCEPT !.pc = "credit", !.locks = tx[w].locks \cup {Key(w)}])
  /\ UNCHANGED <<now, rows, crashes>>

\* A mark goes on without its point when the credit fails; the command ends.
GiveUp(w) ==
  /\ delivered' = IF tx[w].kind = "mark" THEN delivered \cup {tx[w].slot} ELSE delivered
  /\ Continue(w, Idle)

\* The insert waits for whoever else is inserting the row.  If the row is there
\* then, the uniqueness error is caught where the transaction is already lost.
Insert(w) ==
  /\ tx[w].pc = "insert" /\ Free(w, Key(w))
  /\ IF progress[Key(w)].status = "none"
     THEN /\ Continue(w, [tx[w] EXCEPT !.pc = "credit", !.locks = tx[w].locks \cup {Key(w)}])
          /\ UNCHANGED delivered
     ELSE GiveUp(w)
  /\ UNCHANGED <<now, point, progress, fund, dist, crashes>>

\* The event and the point are inserted, and the contributions it completes, for
\* which the settings row is locked.
Credit(w) ==
  /\ tx[w].pc = "credit"
  /\ Missing(Pointed(w)) > 0 => FundFree
  /\ Continue(w, [tx[w] EXCEPT !.pc = "credited"])
  /\ UNCHANGED <<now, rows, crashes>>

\* The mark, or the command's transaction, commits with all its rows still locked.
Commit(w) ==
  LET p == Pointed(w)
  IN  /\ tx[w].pc = "credited"
      /\ point' = [point EXCEPT ![tx[w].slot] = @ \cup {tx[w].month}]
      /\ progress' = [progress EXCEPT ![Key(w)] = [p EXCEPT !.earned = p.earned + Missing(p)]]
      /\ Contribute(Missing(p))
      /\ delivered' = delivered \cup {tx[w].slot}
      /\ Continue(w, Idle)
      /\ UNCHANGED <<now, dist, crashes>>

-----------------------------------------------------------------------------
(***************************************************************************)
(* close_month, by a command, of the last month or of any other.           *)
(***************************************************************************)

\* The statement that locks the rows of the month finds those there are now.
Close(w, m) ==
  /\ tx[w].pc = "idle" /\ m <= now
  /\ Continue(w, [Idle EXCEPT !.kind = "close", !.pc = "close", !.month = m,
       !.seen = {k \in Keys : k[2] = m /\ progress[k].status # "none"}])
  /\ UNCHANGED <<now, rows, crashes>>

Closed(p) ==
  [p EXCEPT !.earned = p.earned + Missing(p), !.expired = p.net % p.target,
            !.status = "closed"]

\* What the rows of a month still owe the fund, a pair for every meal.
MissingOf(keys) == UNION {{k} \X (1..Missing(progress[k])) : k \in keys}

\* It has all its locks, and sees the rows as they are now.
Finalize(w) ==
  LET open == {k \in tx[w].seen : progress[k].status = "open"}
  IN  /\ tx[w].pc = "close" /\ \A k \in tx[w].seen : Free(w, k)
      /\ MissingOf(open) # {} => FundFree
      /\ progress' = [k \in Keys |-> IF k \in open THEN Closed(progress[k]) ELSE progress[k]]
      /\ Contribute(Cardinality(MissingOf(open)))
      /\ Continue(w, Idle)
      /\ UNCHANGED <<now, delivered, point, dist, crashes>>

-----------------------------------------------------------------------------
(***************************************************************************)
(* The target and the distributions: one transaction each, under the lock  *)
(* of the row they begin with.                                             *)
(***************************************************************************)

SetTarget(t) ==
  /\ t # fund.target /\ FundFree
  /\ fund' = [fund EXCEPT !.target = t]
  /\ UNCHANGED <<now, delivered, point, progress, dist, tx, crashes>>

SetDistribution(d, status, meals) ==
  dist' = [dist EXCEPT ![d] = [status |-> status, meals |-> meals]]

Create(d, n) ==
  /\ dist[d].status = "none"
  /\ SetDistribution(d, "draft", n)
  /\ UNCHANGED <<now, delivered, point, progress, fund, tx, crashes>>

\* Mutant: what is published can be edited as well.
EditAnytime(d, n) ==
  /\ dist[d].status \in {"draft", "published"} /\ n # dist[d].meals
  /\ SetDistribution(d, dist[d].status, n)
  /\ UNCHANGED <<now, delivered, point, progress, fund, tx, crashes>>

Edit(d, n) ==
  /\ dist[d].status = "draft" /\ n # dist[d].meals
  /\ SetDistribution(d, "draft", n)
  /\ UNCHANGED <<now, delivered, point, progress, fund, tx, crashes>>

\* Mutant: the fund is not asked.
PublishUnasked(d) ==
  /\ dist[d].status = "draft" /\ FundFree
  /\ fund' = [fund EXCEPT !.distributed = fund.distributed + dist[d].meals,
                           !.available = fund.available - dist[d].meals]
  /\ SetDistribution(d, "published", dist[d].meals)
  /\ UNCHANGED <<now, delivered, point, progress, tx, crashes>>

Publish(d) ==
  /\ dist[d].status = "draft" /\ FundFree /\ dist[d].meals <= fund.available
  /\ fund' = [fund EXCEPT !.distributed = fund.distributed + dist[d].meals,
                           !.available = fund.available - dist[d].meals]
  /\ SetDistribution(d, "published", dist[d].meals)
  /\ UNCHANGED <<now, delivered, point, progress, tx, crashes>>

\* A published distribution gives its meals back.
CancelDistribution(d) ==
  LET back == IF dist[d].status = "published" THEN dist[d].meals ELSE 0
  IN  /\ dist[d].status \in {"draft", "published"}
      /\ dist[d].status = "published" => FundFree
      /\ fund' = [fund EXCEPT !.distributed = fund.distributed - back,
                               !.available = fund.available + back]
      /\ SetDistribution(d, "cancelled", dist[d].meals)
      /\ UNCHANGED <<now, delivered, point, progress, tx, crashes>>

\* A credit or a closing that waits for a row is one of a circle with others, which
\* may go through rows of commissions and wallets, and PostgreSQL breaks it.
Victim(w) ==
  /\ \/ tx[w].pc \in {"open", "insert"} /\ ~Free(w, Key(w))
     \/ tx[w].pc = "credit" /\ ~FundFree
     \/ tx[w].pc = "close" /\ \E k \in tx[w].seen : ~Free(w, k)
  /\ GiveUp(w)
  /\ UNCHANGED <<now, point, progress, fund, dist, crashes>>

\* A worker dies, or a mark fails after its credit: the transaction is rolled back.
Crash(w) ==
  /\ tx[w].pc # "idle" /\ crashes < MaxCrashes
  /\ crashes' = crashes + 1
  /\ Continue(w, Idle)
  /\ UNCHANGED <<now, rows>>

Next ==
  \/ PassMonth
  \/ \E s \in Slots : MarkUncounted(s)
  \/ \E w \in Workers, s \in Slots : Mark(w, s) \/ Reconcile(w, s)
  \/ \E w \in Workers : Open(w) \/ Insert(w) \/ Credit(w) \/ Commit(w) \/ Finalize(w)
                          \/ Victim(w) \/ Crash(w)
  \/ \E w \in Workers, m \in Months : Close(w, m)
  \/ \E t \in Targets : SetTarget(t)
  \/ \E d \in Distributions, n \in Portions : Create(d, n) \/ Edit(d, n)
  \/ \E d \in Distributions : Publish(d) \/ CancelDistribution(d)

Spec == Init /\ [][Next]_vars

-----------------------------------------------------------------------------
(***************************************************************************)
(* Properties.                                                             *)
(***************************************************************************)

PointsOf(k) == {s \in Slots : Owner[s] = k[1] /\ k[2] \in point[s]}

\* A month's points are its credited meals, and every meal is credited once at
\* most, though a mark, a retry and the making of the row compete.
\* (credit_for_delivery, _open_or_get_progress)
PointsAreMeals ==
  /\ \A k \in Keys : progress[k].net = Cardinality(PointsOf(k))
  /\ \A s \in Slots : Cardinality(point[s]) <= 1 /\ (point[s] # {} => s \in delivered)

\* The meals the months have donated, and those that are given away, one pair each.
Donated == UNION {{k} \X (1..progress[k].earned) : k \in Keys}

Given == UNION {{d} \X (1..dist[d].meals) :
                  d \in {x \in Distributions : dist[x].status = "published"}}

\* What the fund was given is what the months have earned, and what it gave away
\* is what is published; a distribution that was edited, published and cancelled
\* leaves nothing behind.  (_apply_ledger, publish_distribution, cancel_distribution)
FundExplained ==
  /\ fund.contributed = Cardinality(Donated)
  /\ fund.distributed = Cardinality(Given)
  /\ fund.available + fund.distributed = fund.contributed

\* An open month has donated all its full targets; one that is closed has not
\* donated more than its points.  (_issue_missing_contributions, close_month)
TargetsDonated ==
  \A k \in Keys :
    /\ progress[k].status = "open" => progress[k].earned = progress[k].net \div progress[k].target
    /\ progress[k].earned * progress[k].target + progress[k].expired <= progress[k].net

\* A month that is closed stays closed, with what it donated and what expired, for
\* a late meal, a second close or a retry.  (close_month)
ClosedMonthsStay ==
  [][\A k \in Keys : progress[k].status = "closed" =>
       /\ progress'[k].status = "closed"
       /\ progress'[k].earned = progress[k].earned
       /\ progress'[k].expired = progress[k].expired]_vars
=============================================================================
