------------------------------- MODULE Referral -------------------------------
(***************************************************************************)
(* Referral commissions (referrals/services).  A customer may have been    *)
(* referred by another.  When a meal of the referred customer and the      *)
(* referrer's meal of the same date and period have both been delivered,   *)
(* the platform wallet pays the referrer a commission, which goes to the   *)
(* commission bucket of the referrer's wallet.                             *)
(*                                                                         *)
(* The commission is paid inside the transaction that marks a meal, in a   *)
(* savepoint: whatever goes wrong with it takes back the commission and    *)
(* leaves the mark.  Four kinds of transactions compete for the locks of   *)
(* slots, commission rows, customer wallets and the platform wallet, and   *)
(* take the two kinds of wallets in both orders.  What a transaction has   *)
(* done is in its record until it commits; nobody else sees it before.     *)
(***************************************************************************)
EXTENDS WalletLedger, FiniteSets, Sums

CONSTANTS
  Customers,
  Nobody,         (* The referrer of a customer who came alone.            *)
  Members,        (* The customers who are subscribed at the beginning.    *)
  Meals,          (* Dates with a meal period.                             *)
  Workers,        (* Processes of the web server and of commands.          *)
  NoSlot,
  Price,          (* What every meal costs.                                *)
  Rates,          (* The commissions on a meal that staff may set.         *)
  Funds,          (* The recharge bucket of every wallet at the beginning. *)
  Float,          (* The platform wallet at the beginning.                 *)
  Recharge,       (* What an approved recharge brings.                     *)
  MaxSwitches     (* Bound: changes of settings, and crashes.              *)

Slots == Customers \X Meals
Eater(s) == s[1]
SameMeal(c, s) == <<c, s[2]>>

ASSUME ReferralAssumption ==
  /\ Nobody \notin Customers /\ Members \subseteq Customers /\ IsFiniteSet(Customers)
  /\ NoSlot \notin Slots
  /\ Price \in Nat \ {0} /\ Recharge \in Nat \ {0}
  /\ Rates \in SUBSET Nat
  /\ Funds \in 0..MaxBalance /\ Float \in Nat /\ MaxSwitches \in Nat

VARIABLES
  standing,       (* Of a customer: unknown, without, with or after a      *)
                  (* subscription.                                         *)
  referrer,       (* ReferralRelationship.referrer.                        *)
  rate,           (* The commission on a meal as the settings have it.     *)
  switches,       (* How often a setting was changed or a worker died.     *)
  delivered,      (* The slots that are delivered, and so charged.         *)
  row,            (* The commission row of every slot.                     *)
  wallet,         (* The customers' wallets.                               *)
  admin,          (* The balance of the platform wallet.                   *)
  funded,         (* What every customer has paid in.                      *)
  tx              (* The transaction of every worker.                      *)

settings == <<standing, referrer, rate, switches>>
books == <<delivered, row, wallet, admin, funded>>
vars == <<settings, books, tx>>

\* A "waiting" row is skipped for REFERRER_MEAL_NOT_CONSUMED and may be tried
\* again; a "closed" one is skipped for another reason.
Statuses == {"none", "waiting", "closed", "failed", "success", "reversed"}
NoRow == [status |-> "none", amount |-> 0]
\* Mutant: a commission that was reversed is tried again.
SettledButReversed(r) == r.status \notin {"none", "waiting", "reversed"}

Settled(r) == r.status \notin {"none", "waiting"}

Slot(s) == [kind |-> "slot", of |-> s]
Row(s) == [kind |-> "row", of |-> s]
Purse(c) == [kind |-> "wallet", of |-> c]
Admin == [kind |-> "admin", of |-> Nobody]
Locks == {Slot(s) : s \in Slots} \cup {Row(s) : s \in Slots}
           \cup {Purse(c) : c \in Customers} \cup {Admin}

Writes == [slot : Slots, status : Statuses \cup {"pending"}, amount : Nat]
Kinds == {"mark", "retry", "reverse", "fund"}
Steps == {"idle", "charge", "claim", "assess", "pay", "credit", "look", "others",
          "commit", "debit", "refund"}

\* given and earned are the commissions to the referrer of the slot and to its
\* eater that are paid and not committed.
Transactions ==
  [kind : Kinds, pc : Steps, slot : Slots \cup {NoSlot}, target : Slots \cup {NoSlot},
   payee : Customers \cup {Nobody}, queue : SUBSET Slots, writes : SUBSET Writes,
   given : Nat, earned : Nat, locks : SUBSET Locks, saved : SUBSET Locks]

Idle == [kind |-> "mark", pc |-> "idle", slot |-> NoSlot, target |-> NoSlot,
         payee |-> Nobody, queue |-> {}, writes |-> {}, given |-> 0, earned |-> 0,
         locks |-> {}, saved |-> {}]

TypeOK ==
  /\ standing \in [Customers -> {"unknown", "without", "with", "after"}]
  /\ referrer \in [Customers -> Customers \cup {Nobody}]
  /\ rate \in Rates /\ switches \in 0..MaxSwitches
  /\ delivered \in SUBSET Slots
  /\ row \in [Slots -> [status : Statuses, amount : Nat]]
  /\ wallet \in [Customers -> Wallets]
  /\ admin \in Nat
  /\ funded \in [Customers -> Nat]
  /\ tx \in [Workers -> Transactions]

Init ==
  /\ standing = [c \in Customers |-> IF c \in Members THEN "with" ELSE "unknown"]
  /\ referrer = [c \in Customers |-> Nobody]
  /\ rate \in Rates /\ switches = 0
  /\ delivered = {}
  /\ row = [s \in Slots |-> NoRow]
  /\ wallet = [c \in Customers |-> [NewWallet EXCEPT !.recharge = Funds]]
  /\ admin = Float
  /\ funded = [c \in Customers |-> Funds]
  /\ tx = [w \in Workers |-> Idle]

Free(w, lock) == \A v \in Workers \ {w} : lock \notin tx[v].locks

Continue(w, t) == tx' = [tx EXCEPT ![w] = t]

-----------------------------------------------------------------------------
(***************************************************************************)
(* What decides about commissions from outside.                            *)
(***************************************************************************)

Switch == switches < MaxSwitches /\ switches' = switches + 1

\* attribute_on_signup, in the registration's transaction.  The code is one of
\* an active subscriber; without a code nobody is the referrer.
SignUp(c, r) ==
  /\ standing[c] = "unknown"
  /\ r # Nobody => r # c /\ standing[r] = "with"
  /\ standing' = [standing EXCEPT ![c] = "without"]
  /\ referrer' = [referrer EXCEPT ![c] = r]
  /\ UNCHANGED <<rate, switches, books, tx>>

Subscribe(c) ==
  /\ standing[c] \in {"without", "after"}
  /\ standing[c] = "after" => Switch
  /\ standing[c] = "without" => UNCHANGED switches
  /\ standing' = [standing EXCEPT ![c] = "with"]
  /\ UNCHANGED <<referrer, rate, books, tx>>

Cancel(c) ==
  /\ standing[c] = "with"
  /\ Switch
  /\ standing' = [standing EXCEPT ![c] = "after"]
  /\ UNCHANGED <<referrer, rate, books, tx>>

SetRate(x) ==
  /\ x # rate
  /\ Switch
  /\ rate' = x
  /\ UNCHANGED <<standing, referrer, books, tx>>

\* The Django form of a wallet; the update waits for the row.
SetWalletStatus(c, s) ==
  /\ wallet[c].status # s
  /\ \A w \in Workers : Purse(c) \notin tx[w].locks
  /\ Switch
  /\ wallet' = [wallet EXCEPT ![c].status = s]
  /\ UNCHANGED <<standing, referrer, rate, delivered, row, admin, funded, tx>>

-----------------------------------------------------------------------------
(***************************************************************************)
(* mark_delivery: the slot, the charge, then the commissions.              *)
(***************************************************************************)

Mark(w, s) ==
  /\ tx[w].pc = "idle" /\ Free(w, Slot(s))
  /\ standing[Eater(s)] \in {"with", "after"} /\ s \notin delivered
  /\ Continue(w, [Idle EXCEPT !.kind = "mark", !.pc = "charge", !.slot = s,
                              !.target = s, !.locks = {Slot(s)}])
  /\ UNCHANGED <<settings, books>>

Payable(c) == wallet[c].status = "active" /\ Balance(wallet[c]) >= Price

\* From here on the locks held now are kept, whatever the commission comes to.
\* A customer who came alone earns nobody a commission.
Charge(w) ==
  LET c == Eater(tx[w].slot)
      held == tx[w].locks \cup {Purse(c)}
  IN  /\ tx[w].pc = "charge" /\ Free(w, Purse(c))
      /\ IF Payable(c)
         THEN Continue(w, [tx[w] EXCEPT
                             !.pc = IF referrer[c] = Nobody THEN "look" ELSE "assess",
                             !.locks = held, !.saved = held])
         ELSE Continue(w, Idle)
      /\ UNCHANGED <<settings, books>>

-----------------------------------------------------------------------------
(***************************************************************************)
(* credit_referral_commission_for_delivery for the slot tx[w].target.      *)
(***************************************************************************)

\* A transaction sees its own mark and those that are committed.
Eaten(w) == delivered \cup (IF tx[w].kind = "mark" THEN {tx[w].slot} ELSE {})

Subscribed(c) == standing[c] = "with"

BothSubscribed(s) == Subscribed(Eater(s)) /\ Subscribed(referrer[Eater(s)])

\* Mutant: the referrer's own meal is not asked for.
EatenByOne(w, s) == s \in Eaten(w)

EatenByBoth(w, s) == SameMeal(referrer[Eater(s)], s) \in Eaten(w)

\* Where the transaction goes when it is done with its target.
Onward(w) ==
  CASE tx[w].kind = "mark" /\ tx[w].target = tx[w].slot -> "look"
    [] tx[w].kind = "mark" /\ tx[w].target # tx[w].slot -> "others"
    [] OTHER -> "commit"

Pending(w) == {x \in tx[w].writes : x.status = "pending"}

\* An exception goes back to the savepoint, and its locks with it.  Of a mark's
\* own commission it also ends what mark_delivery tries for other slots; of a
\* command it ends the transaction.
GiveUp(w) ==
  IF tx[w].kind = "retry" THEN Continue(w, Idle)
  ELSE Continue(w, [tx[w] EXCEPT
         !.pc = IF tx[w].target = tx[w].slot THEN "commit" ELSE "others",
         !.writes = tx[w].writes \ Pending(w), !.locks = tx[w].saved])

\* The slot of another customer is locked first.
Claim(w) ==
  /\ tx[w].pc = "claim" /\ Free(w, Slot(tx[w].target))
  /\ Continue(w, [tx[w] EXCEPT !.pc = "assess",
                               !.locks = tx[w].locks \cup {Slot(tx[w].target)}])
  /\ UNCHANGED <<settings, books>>

Write(w, status, amount) ==
  tx[w].writes \cup {[slot |-> tx[w].target, status |-> status, amount |-> amount]}

\* A row that exists is locked.  Unless it is settled it is decided anew: skipped
\* for good, skipped until the referrer's meal is delivered, or paid.
Assess(w) ==
  LET s == tx[w].target
      held == IF row[s].status = "none" THEN tx[w].locks
              ELSE tx[w].locks \cup {Row(s)}
      Skip(status) == [tx[w] EXCEPT !.pc = Onward(w), !.locks = held,
                                    !.writes = Write(w, status, 0)]
  IN  /\ tx[w].pc = "assess"
      /\ row[s].status # "none" => Free(w, Row(s))
      /\ CASE Settled(row[s]) ->
                Continue(w, [tx[w] EXCEPT !.pc = Onward(w), !.locks = held])
           [] ~Settled(row[s]) /\ ~BothSubscribed(s) ->
                Continue(w, Skip("closed"))
           [] ~Settled(row[s]) /\ BothSubscribed(s) /\ ~EatenByBoth(w, s) ->
                Continue(w, Skip("waiting"))
           [] ~Settled(row[s]) /\ BothSubscribed(s) /\ EatenByBoth(w, s) ->
                IF rate = 0 THEN Continue(w, Skip("closed"))
                ELSE Continue(w, [tx[w] EXCEPT !.pc = "pay", !.locks = held,
                                    !.payee = referrer[Eater(s)],
                                    !.writes = Write(w, "pending", rate)])
      /\ UNCHANGED <<settings, books>>

\* Mutant: a failed payment is noted as made.
ResolvedAnyhow(w, status) ==
  (tx[w].writes \ Pending(w)) \cup {[x EXCEPT !.status = "success"] : x \in Pending(w)}

Resolved(w, status) ==
  (tx[w].writes \ Pending(w)) \cup {[x EXCEPT !.status = status] : x \in Pending(w)}

\* What the pending row of w is worth.
Due(w) == IF Pending(w) = {} THEN 0 ELSE (CHOOSE x \in Pending(w) : TRUE).amount

\* Mutant: nobody asks what the platform wallet holds.
PayUnfunded(w) ==
  /\ tx[w].pc = "pay" /\ Free(w, Admin)
  /\ Continue(w, [tx[w] EXCEPT !.pc = "credit", !.locks = tx[w].locks \cup {Admin}])
  /\ UNCHANGED <<settings, books>>

\* The platform wallet is debited first.  Too little in it is no exception but a
\* failed row, and gives its lock back.
Pay(w) ==
  /\ tx[w].pc = "pay" /\ Free(w, Admin)
  /\ IF admin - tx[w].given - tx[w].earned >= Due(w)
     THEN Continue(w, [tx[w] EXCEPT !.pc = "credit", !.locks = tx[w].locks \cup {Admin}])
     ELSE Continue(w, [tx[w] EXCEPT !.pc = Onward(w), !.writes = Resolved(w, "failed")])
  /\ UNCHANGED <<settings, books>>

\* What the wallet of c is when w commits.
Outcome(w, c) ==
  LET own == tx[w].kind = "mark" /\ c = Eater(tx[w].slot)
      left == IF own THEN ApplyDebit(wallet[c], Price, "commission_first") ELSE wallet[c]
      commission == IF own THEN tx[w].earned
                    ELSE IF c = referrer[Eater(tx[w].slot)] THEN tx[w].given ELSE 0
  IN  ApplyCredit(left, commission, "commission")

Creditable(w, c) ==
  wallet[c].status = "active"
    /\ FitsColumn(ApplyCredit(Outcome(w, c), Due(w), "commission"))

\* Then the referrer's wallet is credited.  A frozen one raises.
Credit(w) ==
  LET own == tx[w].kind = "mark" /\ tx[w].payee = Eater(tx[w].slot)
  IN  /\ tx[w].pc = "credit" /\ Free(w, Purse(tx[w].payee))
      /\ IF Creditable(w, tx[w].payee)
         THEN Continue(w, [tx[w] EXCEPT
                !.pc = Onward(w),
                !.locks = tx[w].locks \cup {Purse(tx[w].payee)},
                !.given = tx[w].given + (IF own THEN 0 ELSE Due(w)),
                !.earned = tx[w].earned + (IF own THEN Due(w) ELSE 0),
                !.writes = Resolved(w, "success")])
         ELSE GiveUp(w)
      /\ UNCHANGED <<settings, books>>

-----------------------------------------------------------------------------
(***************************************************************************)
(* credit_pending_commissions_after_referrer_meal, of a mark: the eater    *)
(* may be the referrer whose meal others' commissions wait for.            *)
(***************************************************************************)

Look(w) ==
  /\ tx[w].pc = "look"
  /\ Continue(w, [tx[w] EXCEPT
       !.pc = "others",
       !.queue = {s \in delivered : /\ referrer[Eater(s)] = Eater(tx[w].slot)
                                    /\ s[2] = tx[w].slot[2]}])
  /\ UNCHANGED <<settings, books>>

\* The code goes by the number of the slot; here any order.  The row is read
\* without a lock first.
TryOther(w, s) ==
  /\ tx[w].pc = "others" /\ s \in tx[w].queue
  /\ Continue(w, [tx[w] EXCEPT
       !.queue = tx[w].queue \ {s}, !.saved = tx[w].locks,
       !.pc = IF Settled(row[s]) THEN "others" ELSE "claim",
       !.target = IF Settled(row[s]) THEN tx[w].target ELSE s])
  /\ UNCHANGED <<settings, books>>

Written(w, s) == {x \in tx[w].writes : x.slot = s}

Commit(w) ==
  /\ tx[w].pc = "commit" \/ (tx[w].pc = "others" /\ tx[w].queue = {})
  /\ delivered' = Eaten(w)
  /\ row' = [s \in Slots |->
               IF Written(w, s) = {} THEN row[s]
               ELSE LET x == CHOOSE x \in Written(w, s) : TRUE
                    IN  [status |-> x.status, amount |-> x.amount]]
  /\ wallet' = [c \in Customers |-> Outcome(w, c)]
  /\ admin' = admin - tx[w].given - tx[w].earned
  /\ Continue(w, Idle)
  /\ UNCHANGED <<settings, funded>>

-----------------------------------------------------------------------------
(***************************************************************************)
(* The command reconcile_referral_commissions tries a delivered slot       *)
(* again.  A failed row it deletes first, in a transaction of its own.     *)
(***************************************************************************)

Retry(w, s) ==
  /\ tx[w].pc = "idle" /\ s \in delivered /\ referrer[Eater(s)] # Nobody
  /\ ~Settled(row[s])
  /\ Continue(w, [Idle EXCEPT !.kind = "retry", !.pc = "claim", !.slot = s, !.target = s])
  /\ UNCHANGED <<settings, books>>

RetryFailed(w, s) ==
  /\ tx[w].pc = "idle" /\ row[s].status = "failed"
  /\ Free(w, Row(s))
  /\ row' = [row EXCEPT ![s] = NoRow]
  /\ Continue(w, [Idle EXCEPT !.kind = "retry", !.pc = "claim", !.slot = s, !.target = s])
  /\ UNCHANGED <<settings, delivered, wallet, admin, funded>>

-----------------------------------------------------------------------------
(***************************************************************************)
(* reverse_referral_commission, and the approval of a recharge, which      *)
(* takes the same locks in the same order: the customer's wallet first.    *)
(***************************************************************************)

Reverse(w, s) ==
  /\ tx[w].pc = "idle" /\ row[s].status = "success" /\ Free(w, Row(s))
  /\ Continue(w, [Idle EXCEPT !.kind = "reverse", !.pc = "debit", !.slot = s,
                              !.payee = referrer[Eater(s)], !.locks = {Row(s)}])
  /\ UNCHANGED <<settings, books>>

Fund(w, c) ==
  /\ tx[w].pc = "idle" /\ standing[c] # "unknown"
  /\ Continue(w, [Idle EXCEPT !.kind = "fund", !.pc = "debit", !.payee = c])
  /\ UNCHANGED <<settings, books>>

\* A reversal takes what was paid, from the commission bucket alone.
Moved(w) ==
  IF tx[w].kind = "fund" THEN ApplyCredit(wallet[tx[w].payee], Recharge, "recharge")
  ELSE ApplyDebit(wallet[tx[w].payee], row[tx[w].slot].amount, "commission_only")

Movable(w) ==
  IF tx[w].kind = "fund" THEN FitsColumn(Moved(w))
  ELSE /\ wallet[tx[w].payee].status = "active"
       /\ row[tx[w].slot].amount <= Spendable(wallet[tx[w].payee], "commission_only")

Debit(w) ==
  /\ tx[w].pc = "debit" /\ Free(w, Purse(tx[w].payee))
  /\ IF Movable(w)
     THEN Continue(w, [tx[w] EXCEPT !.pc = "refund",
                                    !.locks = tx[w].locks \cup {Purse(tx[w].payee)}])
     ELSE Continue(w, Idle)
  /\ UNCHANGED <<settings, books>>

\* The platform wallet last; then nothing more is waited for.
Refund(w) ==
  LET c == tx[w].payee
      s == tx[w].slot
  IN  /\ tx[w].pc = "refund" /\ Free(w, Admin)
      /\ wallet' = [wallet EXCEPT ![c] = Moved(w)]
      /\ \/ /\ tx[w].kind = "fund"
            /\ admin' = admin + Recharge
            /\ funded' = [funded EXCEPT ![c] = @ + Recharge]
            /\ UNCHANGED row
         \/ /\ tx[w].kind = "reverse"
            /\ admin' = admin + row[s].amount
            /\ row' = [row EXCEPT ![s].status = "reversed"]
            /\ UNCHANGED funded
      /\ Continue(w, Idle)
      /\ UNCHANGED <<settings, delivered>>

-----------------------------------------------------------------------------
(***************************************************************************)
(* Circular waits and crashes.                                             *)
(***************************************************************************)

\* The lock a transaction asks for next.
Wants(w) ==
  CASE tx[w].pc = "charge" -> {Purse(Eater(tx[w].slot))}
    [] tx[w].pc = "claim" -> {Slot(tx[w].target)}
    [] tx[w].pc = "assess" /\ row[tx[w].target].status # "none" -> {Row(tx[w].target)}
    [] tx[w].pc \in {"pay", "refund"} -> {Admin}
    [] tx[w].pc \in {"credit", "debit"} -> {Purse(tx[w].payee)}
    [] OTHER -> {}

WaitsFor(w, v) == v # w /\ Wants(w) \cap tx[v].locks # {}

\* PostgreSQL looks for a cycle of waiting transactions.
Deadlocked(w) ==
  \E ring \in SUBSET Workers :
    /\ w \in ring
    /\ \A v \in ring : (\E u \in ring : WaitsFor(v, u)) /\ (\E u \in ring : WaitsFor(u, v))

\* Mutant: without the savepoint, the mark falls with the commission.
VictimWhole(w) ==
  /\ Deadlocked(w)
  /\ Continue(w, Idle)
  /\ UNCHANGED <<settings, books>>

\* The one it aborts loses what it did since the savepoint, if it is in one.
Victim(w) ==
  /\ Deadlocked(w)
  /\ IF tx[w].pc \in {"claim", "assess", "pay", "credit"} THEN GiveUp(w)
     ELSE Continue(w, Idle)
  /\ UNCHANGED <<settings, books>>

\* A worker dies, and its transaction is rolled back.
Crash(w) ==
  /\ tx[w].pc # "idle"
  /\ Switch
  /\ Continue(w, Idle)
  /\ UNCHANGED <<standing, referrer, rate, books>>

-----------------------------------------------------------------------------
Run(w) ==
  \/ Charge(w) \/ Claim(w) \/ Assess(w) \/ Pay(w) \/ Credit(w) \/ Look(w)
  \/ \E s \in Slots : TryOther(w, s)
  \/ Commit(w) \/ Debit(w) \/ Refund(w) \/ Victim(w)

Begin(w) ==
  \/ \E s \in Slots : Mark(w, s) \/ Retry(w, s) \/ RetryFailed(w, s) \/ Reverse(w, s)
  \/ \E c \in Customers : Fund(w, c)

Next ==
  \/ \E c \in Customers, r \in Customers \cup {Nobody} : SignUp(c, r)
  \/ \E c \in Customers : Subscribe(c) \/ Cancel(c)
  \/ \E x \in Rates : SetRate(x)
  \/ \E c \in Customers, s \in WalletStatuses : SetWalletStatus(c, s)
  \/ \E w \in Workers : Begin(w) \/ Run(w) \/ Crash(w)

Spec == Init /\ [][Next]_vars

-----------------------------------------------------------------------------
(***************************************************************************)
(* Properties.                                                             *)
(***************************************************************************)

Meant(c) == {s \in Slots : referrer[Eater(s)] = c /\ row[s].status = "success"}

Paid(slots) == SumOver([s \in Slots |-> row[s].amount], slots)

Recharged == SumOver([c \in Customers |-> funded[c] - Funds], Customers)

EatenBy(c) == {s \in delivered : Eater(s) = c}

\* Every commission is paid once, by the platform to the referrer, and taken back
\* once; however often it is tried, and whatever savepoint, deadlock or crash
\* comes between its two movements.  (_apply_money_movement, mark_delivery,
\* reverse_referral_commission, reconcile_referral_commissions)
CommissionsExplainMoney ==
  /\ \A c \in Customers :
       Balance(wallet[c]) + Price * Cardinality(EatenBy(c)) = funded[c] + Paid(Meant(c))
  /\ admin + Paid({s \in Slots : row[s].status = "success"}) = Float + Recharged

\* A commission that was paid, failed or reversed is for a meal that both customers
\* had: the referrer's slot may be delivered by another mark, which has to commit
\* before this one counts it.  Whether both subscribed is not part of it: that is
\* read without a lock, and a cancel may come before the commission commits.
\* (referrer_has_matching_delivered_meal)
PaidWhenBothAte ==
  \A s \in Slots : row[s].status \in {"success", "failed", "reversed"} =>
     s \in delivered /\ SameMeal(referrer[Eater(s)], s) \in delivered

\* Money that was paid for a slot stays as it is or is reversed, what was reversed
\* is never paid again, and a slot that was turned down is not reopened, by a mark,
\* a retry or a reversal that began before.  (_existing_non_pending)
DecisionsStand ==
  [][\A s \in Slots :
       /\ row[s].status \in {"closed", "reversed"} => row'[s] = row[s]
       /\ row[s].status = "success" =>
            row'[s] \in {row[s], [row[s] EXCEPT !.status = "reversed"]}]_vars

\* "Never block": whatever happens to a commission, a meal that was charged is
\* marked in the end, unless its worker dies.  (mark_delivery)
ChargedMealsAreMarked ==
  [][\A w \in Workers :
       (tx[w].kind = "mark" /\ tx[w].pc \notin {"idle", "charge"} /\ tx'[w].pc = "idle")
         => tx[w].slot \in delivered' \/ switches' # switches]_vars
=============================================================================
