-------------------------------- MODULE Kitchen --------------------------------
(***************************************************************************)
(* What the kitchen is told to cook (orders/services/meal_demand.py), over *)
(* the purchases of Prepaid.  The demand of a slot is the customer's own   *)
(* meal, unless it is turned off or the customer is stopped, and every     *)
(* guest meal.  A command counts the demand of the slots whose cutoff has  *)
(* passed and stores it, with the ingredients it takes, as their history.  *)
(*                                                                         *)
(* The counts of one demand are queries of their own, each of which sees   *)
(* what is committed when it runs: first the guest meals, then the meals   *)
(* of the package, and the catalog last.                                   *)
(***************************************************************************)
EXTENDS Prepaid

CONSTANTS
  Yields,         (* The quantities of an ingredient a person may get.     *)
  None,           (* No snapshot, and no slot.                             *)
  MaxEdits,       (* Bound: how often the catalog is edited.               *)
  MaxToggles,     (* Bound: how often meals are turned off and on.         *)
  MaxRuns         (* Bound: the runs of the command.                       *)

ASSUME KitchenAssumption ==
  /\ Yields \subseteq Nat \ {0} /\ Yields # {}
  /\ None \notin Slots
  /\ MaxEdits \in Nat /\ MaxToggles \in Nat /\ MaxRuns \in Nat

VARIABLES
  off,            (* The slots whose own meal the customer turned off.     *)
  yield,          (* The catalog: kg_per_person.                           *)
  history,        (* The MealDemandSnapshot of every slot.                 *)
  job,            (* The command that stores the snapshots.                *)
  done            (* How much of each bound has been used.                 *)

kitchen == <<off, yield, history, job, done>>
allVars == <<vars, kitchen>>

Snapshot == [expected : Nat, off : Nat, cooking : Nat, kg : Nat]

Jobs == [due : SUBSET Slots, slot : Slots \cup {None}, guests : Nat,
         counts : [expected : Nat, off : Nat, cooking : Nat] \cup {None}]

AtRest == [due |-> {}, slot |-> None, guests |-> 0, counts |-> None]

KitchenTypeOK ==
  /\ off \in SUBSET Slots
  /\ yield \in Yields
  /\ history \in [Slots -> Snapshot \cup {None}]
  /\ job \in Jobs
  /\ done \in [edits : 0..MaxEdits, toggles : 0..MaxToggles, runs : 0..MaxRuns]

KitchenInit ==
  /\ Init
  /\ off = {} /\ yield \in Yields
  /\ history = [s \in Slots |-> None]
  /\ job = AtRest
  /\ done = [edits |-> 0, toggles |-> 0, runs |-> 0]

-----------------------------------------------------------------------------
(***************************************************************************)
(* The customer and the catalog.                                           *)
(***************************************************************************)

Toggle(s) ==
  /\ SlotFree(s) /\ s \notin past \cup delivered
  /\ done.toggles < MaxToggles
  /\ done' = [done EXCEPT !.toggles = @ + 1]
  /\ UNCHANGED <<vars, yield, history, job>>

CustomerMealOff(s) ==
  /\ s \notin off
  /\ off' = off \cup {s}
  /\ Toggle(s)

CustomerMealOn(s) ==
  /\ s \in off
  /\ off' = off \ {s}
  /\ Toggle(s)

EditCatalog(y) ==
  /\ done.edits < MaxEdits /\ y # yield
  /\ yield' = y
  /\ done' = [done EXCEPT !.edits = @ + 1]
  /\ UNCHANGED <<vars, off, history, job>>

-----------------------------------------------------------------------------
(***************************************************************************)
(* get_demand.                                                             *)
(***************************************************************************)

GuestMeals(s) == Cardinality(MealsOf({o \in orders : o.slot = s}))

\* Mutant: the meals that are off are those that are not cooked.
DemandByDifference(s, guests) ==
  LET cooking == (IF s \in off \/ stopped THEN 0 ELSE 1) + guests
  IN  [expected |-> 1 + guests, off |-> 1 - cooking, cooking |-> cooking]

\* Mutant: the guest meals are cooked and not expected.
DemandUnexpected(s, guests) ==
  [expected |-> 1,
   off      |-> IF s \in off /\ ~stopped THEN 1 ELSE 0,
   cooking  |-> (IF s \in off \/ stopped THEN 0 ELSE 1) + guests]

\* The customer's meal is cooked, turned off, or left out because the customer is
\* stopped, whatever its status; guest meals are expected and cooked.
Demand(s, guests) ==
  [expected |-> 1 + guests,
   off      |-> IF s \in off /\ ~stopped THEN 1 ELSE 0,
   cooking  |-> (IF s \in off \/ stopped THEN 0 ELSE 1) + guests]

-----------------------------------------------------------------------------
(***************************************************************************)
(* confirm_and_save_due_snapshots, with upsert_demand_snapshots_for_slot.  *)
(***************************************************************************)

\* Mutant: a slot is due as soon as it has meals.
StartJobEarly ==
  /\ job = AtRest /\ done.runs < MaxRuns
  /\ job' = [AtRest EXCEPT !.due = Slots]
  /\ done' = [done EXCEPT !.runs = @ + 1]
  /\ UNCHANGED <<vars, off, yield, history>>

\* The slots that are due are those past their cutoff when the run begins.
StartJob ==
  /\ job = AtRest /\ done.runs < MaxRuns
  /\ past # {}
  /\ job' = [AtRest EXCEPT !.due = past]
  /\ done' = [done EXCEPT !.runs = @ + 1]
  /\ UNCHANGED <<vars, off, yield, history>>

CountGuests(s) ==
  /\ job.slot = None /\ s \in job.due
  /\ job' = [job EXCEPT !.due = @ \ {s}, !.slot = s, !.guests = GuestMeals(s)]
  /\ UNCHANGED <<vars, off, yield, history, done>>

CountMeals ==
  /\ job.slot # None /\ job.counts = None
  /\ job' = [job EXCEPT !.counts = Demand(job.slot, job.guests)]
  /\ UNCHANGED <<vars, off, yield, history, done>>

NextSlot == job' = [AtRest EXCEPT !.due = job.due]

\* The ingredients of the cooking count, by the catalog of the moment; the row of
\* the slot is replaced if there is one.
SaveSnapshot ==
  /\ job.counts # None
  /\ LET c == job.counts IN
     history' = [history EXCEPT ![job.slot] =
       [expected |-> c.expected, off |-> c.off, cooking |-> c.cooking,
        kg |-> yield * c.cooking]]
  /\ NextSlot
  /\ UNCHANGED <<vars, off, yield, done>>

KillJob ==
  /\ job # AtRest
  /\ job' = AtRest
  /\ UNCHANGED <<vars, off, yield, history, done>>

-----------------------------------------------------------------------------
\* A meal that is turned off cannot be marked delivered.
KitchenNext ==
  \/ Serve /\ UNCHANGED kitchen
  \/ \E w \in Workers, s \in Slots \ off : MarkStop(w, s) /\ UNCHANGED kitchen
  \/ \E s \in Slots : CustomerMealOff(s) \/ CustomerMealOn(s) \/ CountGuests(s)
  \/ \E y \in Yields : EditCatalog(y)
  \/ StartJob \/ CountMeals \/ SaveSnapshot \/ KillJob

KitchenSpec == KitchenInit /\ [][KitchenNext]_allVars

-----------------------------------------------------------------------------
\* A stored demand adds up, though its counts come from queries of different
\* moments: what is expected is cooked, turned off, or one stopped customer's.
SnapshotsAddUp ==
  \A s \in Slots : history[s] # None =>
    LET h == history[s] IN h.expected - (h.cooking + h.off) \in {0, 1}

\* The guest meals of a slot, but for those of the order numbered i.
MealsBut(s, i) == Cardinality(MealsOf({o \in orders : o.slot = s /\ o.id # i}))

\* A stored demand is made of all the guest orders of its slot there are, but for
\* one at most (none has number 0): the purchase that had passed its checks at the
\* cutoff and was inserted after the count.  The guests of all others are expected
\* and cooked for, each once, with or without the customer's own meal.
PurchasesReachKitchen ==
  \A s \in Slots : history[s] # None =>
    \E i \in {0} \cup {o.id : o \in orders} :
      /\ history[s].expected = 1 + MealsBut(s, i)
      /\ history[s].cooking \in {MealsBut(s, i), 1 + MealsBut(s, i)}

\* "Ingredient requirement payloads MUST be frozen at capture time so later catalog
\* price or yield edits do not rewrite historical quantities": as long as a slot's
\* stored meals are the same, so are its stored ingredients.
HistoryIsFrozen ==
  [][\A s \in Slots :
       (history[s] # None /\ history'[s].cooking = history[s].cooking)
         => history'[s].kg = history[s].kg]_allVars
=============================================================================
