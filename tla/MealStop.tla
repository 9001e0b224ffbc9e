------------------------------ MODULE MealStop ------------------------------
(***************************************************************************)
(* The low-balance meal stop (orders/services/wallet_balance_thresholds.py)*)
(* and everything that runs concurrently with it.  A customer whose wallet *)
(* is below a threshold has the flag meal_service_blocked_low_balance set, *)
(* and is not cooked for until the flag is cleared.  Six kinds of writer   *)
(* touch the flag, the wallet and today's meal slots:                      *)
(*   - marking a slot delivered, which charges the wallet and then         *)
(*     evaluates the stop, in one database transaction;                    *)
(*   - a reviewed credit (approve_recharge, reject_withdraw), which resumes*)
(*     the customer inside its transaction;                                *)
(*   - any other credit (credit_wallet), which resumes the customer from an*)
(*     on_commit callback, statement by statement and without a lock;      *)
(*   - a debit other than for a meal, of which a delivery fee evaluates the*)
(*     stop, and a withdrawal or a commission taken back does not;         *)
(*   - the twice-daily threshold check, working from rows it read earlier; *)
(*   - the customer editing the profile, which saves the whole row.        *)
(*                                                                         *)
(* A database transaction is a process with a program counter.  Row locks  *)
(* are taken as the code takes them and released at the commit, and what a *)
(* transaction wrote becomes visible to others only there (READ COMMITTED).*)
(* The slots of the model are today's: resuming a customer skips those     *)
(* whose meal-off cutoff has passed, as the kitchen has not cooked them.   *)
(***************************************************************************)
EXTENDS Naturals, FiniteSets

CONSTANTS
  Customers,
  Slots,          (* Today's slots.                                        *)
  Later,          (* The slots whose cutoff passes during the behaviour.   *)
  Owner,          (* The customer of every slot.                           *)
  Subscribers,    (* The customers with an active subscription.            *)
  Verified,       (* Those with a verified address and an active account.  *)
  Threshold,      (* OrderWalletSettings.meal_stop_threshold.              *)
  Price,          (* The published price of a slot.                        *)
  Credits,        (* The amounts credited to wallets.                      *)
  Debits,         (* The amounts taken from wallets, other than for a meal.*)
  Hooks,          (* The on_commit callbacks that may be running at once.  *)
  Cron,           (* The process of the threshold check.                   *)
  Free,           (* The holder of a row lock nobody holds.                *)
  MaxBalance,     (* Bound: the largest balance.                           *)
  MaxCredits,     (* Bound: how many credits happen.                       *)
  MaxDebits,      (* Bound: how many debits other than for a meal happen.  *)
  MaxEdits,       (* Bound: how many profile edits happen.                 *)
  MaxCrashes      (* Bound: how many processes are killed.                 *)

ASSUME MealStopAssumption ==
  /\ Owner \in [Slots -> Customers]
  /\ Subscribers \subseteq Customers /\ Verified \subseteq Customers
  /\ Later \subseteq Slots
  /\ Threshold \in Nat /\ Price \in Nat \ {0}
  /\ Credits \subseteq Nat \ {0} /\ Debits \subseteq Nat \ {0}
  /\ MaxBalance \in Nat /\ MaxCredits \in Nat /\ MaxDebits \in Nat
  /\ MaxEdits \in Nat /\ MaxCrashes \in Nat
  /\ Customers \cap Slots = {}
  /\ Cron \notin Customers \cup Slots
  /\ Free \notin Customers \cup Slots \cup {Cron}

VARIABLES
  balance,        (* The committed Wallet.balance of every customer.       *)
  blocked,        (* The committed meal_service_blocked_low_balance flags. *)
  slot,           (* The committed status of every slot.                   *)
  past,           (* The slots whose cutoff has passed.                    *)
  wallets,        (* The holder of the lock on every wallet row.           *)
  profiles,       (* The holder of the lock on every profile row.          *)
  rows,           (* The holder of the lock on every slot row.             *)
  mark,           (* The transaction marking a slot.                       *)
  review,         (* The transaction crediting a reviewed request.         *)
  hook,           (* The on_commit callbacks.                              *)
  cron,           (* The threshold check.                                  *)
  edit,           (* The flag each customer's profile request has read.    *)
  spent           (* How much of each bound has been used.                 *)

locks == <<wallets, profiles, rows>>
vars == <<balance, blocked, slot, past, locks, mark, review, hook, cron, edit, spent>>

\* Slots stand for their mark_delivery transaction and customers for the
\* review of one of their requests when they hold a lock: a second transaction
\* of the same kind waits for the lock on the first one's row.
Holders == Slots \cup Customers \cup {Cron}

LateSlots(c) == {s \in past : Owner[s] = c}

Low(b) == b < Threshold

ReviewStates == [pc : {"idle", "credited", "recovered", "skipping", "done"},
                 amount : Credits \cup {0}, todo : SUBSET Slots]
HookStates == [pc : {"idle", "started", "stopped", "recovered", "skipping"},
               customer : Customers, todo : SUBSET Slots]
Seen == [balance : 0..MaxBalance, blocked : BOOLEAN]
CronStates == [pc : {"idle", "running", "locked", "skipping"},
               queue : SUBSET Customers, seen : [Customers -> Seen],
               at : Customers, todo : SUBSET Slots]

TypeOK ==
  /\ balance \in [Customers -> 0..MaxBalance]
  /\ blocked \in [Customers -> BOOLEAN]
  /\ slot \in [Slots -> {"scheduled", "delivered", "skipped"}]
  /\ past \in SUBSET Slots
  /\ wallets \in [Customers -> Holders \cup {Free}]
  /\ profiles \in [Customers -> Holders \cup {Free}]
  /\ rows \in [Slots -> Holders \cup {Free}]
  /\ mark \in [Slots -> {"idle", "open", "charged"}]
  /\ review \in [Customers -> ReviewStates]
  /\ hook \in [Hooks -> HookStates]
  /\ cron \in CronStates
  /\ edit \in [Customers -> {"none", "blocked", "clear"}]
  /\ spent \in [credits : 0..MaxCredits, debits : 0..MaxDebits,
                edits : 0..MaxEdits, crashes : 0..MaxCrashes]

Idle(c) == [pc |-> "idle", amount |-> 0, todo |-> {}]

Snapshot == [c \in Customers |-> [balance |-> balance[c], blocked |-> blocked[c]]]

Init ==
  /\ balance \in [Customers -> 0..MaxBalance]
  /\ blocked = [c \in Customers |-> Low(balance[c])]
  /\ slot = [s \in Slots |-> "scheduled"]
  /\ past = Slots \ Later
  /\ wallets = [c \in Customers |-> Free]
  /\ profiles = [c \in Customers |-> Free]
  /\ rows = [s \in Slots |-> Free]
  /\ mark = [s \in Slots |-> "idle"]
  /\ review = [c \in Customers |-> Idle(c)]
  /\ \E c \in Customers :
       /\ hook = [h \in Hooks |-> [pc |-> "idle", customer |-> c, todo |-> {}]]
       /\ cron = [pc |-> "idle", queue |-> {}, seen |-> Snapshot, at |-> c, todo |-> {}]
  /\ edit = [c \in Customers |-> "none"]
  /\ spent = [credits |-> 0, debits |-> 0, edits |-> 0, crashes |-> 0]

-----------------------------------------------------------------------------
PassCutoff(s) ==
  /\ s \notin past
  /\ past' = past \cup {s}
  /\ UNCHANGED <<balance, blocked, slot, locks, mark, review, hook, cron, edit, spent>>

-----------------------------------------------------------------------------
(***************************************************************************)
(* mark_delivery, with charge_delivered_meal inside it.                    *)
(***************************************************************************)

ReleaseSlot(s) ==
  /\ mark' = [mark EXCEPT ![s] = "idle"]
  /\ rows' = [rows EXCEPT ![s] = Free]
  /\ wallets' = [c \in Customers |-> IF wallets[c] = s THEN Free ELSE wallets[c]]

OpenMark(s) ==
  /\ mark[s] = "idle" /\ rows[s] = Free /\ slot[s] = "scheduled"
  /\ mark' = [mark EXCEPT ![s] = "open"]
  /\ rows' = [rows EXCEPT ![s] = s]
  /\ UNCHANGED <<past, balance, blocked, slot, wallets, profiles, review, hook, cron, edit, spent>>

MarkSkipped(s) ==
  /\ mark[s] = "open"
  /\ slot' = [slot EXCEPT ![s] = "skipped"]
  /\ ReleaseSlot(s)
  /\ UNCHANGED <<past, balance, blocked, profiles, review, hook, cron, edit, spent>>

\* Mutant: the wallet is charged without looking at its balance.
ChargeMealUnchecked(s) ==
  /\ mark[s] = "open" /\ wallets[Owner[s]] = Free
  /\ mark' = [mark EXCEPT ![s] = "charged"]
  /\ wallets' = [wallets EXCEPT ![Owner[s]] = s]
  /\ UNCHANGED <<past, balance, blocked, slot, profiles, rows, review, hook, cron, edit, spent>>

\* The debit is not visible to others before the transaction commits.
ChargeMeal(s) ==
  /\ mark[s] = "open" /\ wallets[Owner[s]] = Free
  /\ balance[Owner[s]] >= Price
  /\ mark' = [mark EXCEPT ![s] = "charged"]
  /\ wallets' = [wallets EXCEPT ![Owner[s]] = s]
  /\ UNCHANGED <<past, balance, blocked, slot, profiles, rows, review, hook, cron, edit, spent>>

\* WALLET_INSUFFICIENT_FOR_MEAL: the slot stays scheduled.
RefuseMeal(s) ==
  /\ mark[s] = "open" /\ wallets[Owner[s]] = Free
  /\ balance[Owner[s]] < Price
  /\ ReleaseSlot(s)
  /\ UNCHANGED <<past, balance, blocked, slot, profiles, review, hook, cron, edit, spent>>

AfterMeal(s) == balance[Owner[s]] - Price

\* Mutant: a flag that reads as set already is not locked.
DeliverMealUnlocked(s) ==
  /\ mark[s] = "charged"
  /\ (Low(AfterMeal(s)) /\ ~blocked[Owner[s]]) => profiles[Owner[s]] = Free
  /\ balance' = [balance EXCEPT ![Owner[s]] = @ - Price]
  /\ blocked' = [blocked EXCEPT ![Owner[s]] = @ \/ Low(AfterMeal(s))]
  /\ slot' = [slot EXCEPT ![s] = "delivered"]
  /\ ReleaseSlot(s)
  /\ UNCHANGED <<past, profiles, review, hook, cron, edit, spent>>

\* evaluate_meal_stop_after_debit locks the profile when the balance it leaves
\* is low, and sets the flag; then the transaction commits.
DeliverMeal(s) ==
  /\ mark[s] = "charged"
  /\ Low(AfterMeal(s)) => profiles[Owner[s]] = Free
  /\ balance' = [balance EXCEPT ![Owner[s]] = @ - Price]
  /\ blocked' = [blocked EXCEPT ![Owner[s]] = @ \/ Low(AfterMeal(s))]
  /\ slot' = [slot EXCEPT ![s] = "delivered"]
  /\ ReleaseSlot(s)
  /\ UNCHANGED <<past, profiles, review, hook, cron, edit, spent>>

-----------------------------------------------------------------------------
(***************************************************************************)
(* approve_recharge and reject_withdraw: the wallet is credited and the    *)
(* customer resumed in one transaction.                                    *)
(***************************************************************************)

Credited(c, amount) ==
  /\ wallets[c] = Free
  /\ balance[c] + amount <= MaxBalance
  /\ spent.credits < MaxCredits
  /\ spent' = [spent EXCEPT !.credits = @ + 1]

CreditReviewed(c, amount) ==
  /\ review[c].pc = "idle"
  /\ Credited(c, amount)
  /\ wallets' = [wallets EXCEPT ![c] = c]
  /\ review' = [review EXCEPT ![c] = [pc |-> "credited", amount |-> amount, todo |-> {}]]
  /\ UNCHANGED <<past, balance, blocked, slot, profiles, rows, mark, hook, cron, edit>>

\* maybe_resume_after_wallet_credit reads the flag again, without a lock.
ReadStop(c) ==
  /\ review[c].pc = "credited"
  /\ review' = [review EXCEPT ![c].pc =
                  IF blocked[c] /\ ~Low(balance[c] + review[c].amount)
                  THEN "recovered" ELSE "done"]
  /\ UNCHANGED <<past, balance, blocked, slot, locks, mark, hook, cron, edit, spent>>

\* Mutant: the flag is cleared and the late slots are left as they are.
ClearStopOnly(c) ==
  /\ review[c].pc = "recovered" /\ profiles[c] = Free
  /\ profiles' = [profiles EXCEPT ![c] = c]
  /\ review' = [review EXCEPT ![c].pc = "skipping"]
  /\ UNCHANGED <<past, balance, blocked, slot, wallets, rows, mark, hook, cron, edit, spent>>

ClearStop(c) ==
  /\ review[c].pc = "recovered" /\ profiles[c] = Free
  /\ profiles' = [profiles EXCEPT ![c] = c]
  /\ review' = [review EXCEPT ![c] = [@ EXCEPT !.pc = "skipping", !.todo = LateSlots(c)]]
  /\ UNCHANGED <<past, balance, blocked, slot, wallets, rows, mark, hook, cron, edit, spent>>

\* One UPDATE of system_skip_past_cutoff_deliveries_for_customer: it waits for
\* whoever has locked the row, and skips it only if it is still scheduled.
LockScheduled(s, holder) ==
  IF slot[s] = "scheduled"
  THEN rows[s] = Free /\ rows' = [rows EXCEPT ![s] = holder]
  ELSE UNCHANGED rows

SkipReviewed(c, s) ==
  /\ review[c].pc = "skipping" /\ s \in review[c].todo
  /\ LockScheduled(s, c)
  /\ review' = [review EXCEPT ![c].todo = @ \ {s}]
  /\ UNCHANGED <<past, balance, blocked, slot, wallets, profiles, mark, hook, cron, edit, spent>>

\* What a transaction wrote under its locks becomes visible when it commits.
CommitResume(holder) ==
  /\ blocked' = [c \in Customers |-> blocked[c] /\ profiles[c] # holder]
  /\ slot' = [s \in Slots |-> IF rows[s] = holder THEN "skipped" ELSE slot[s]]

Release(holder) ==
  /\ wallets' = [c \in Customers |-> IF wallets[c] = holder THEN Free ELSE wallets[c]]
  /\ profiles' = [c \in Customers |-> IF profiles[c] = holder THEN Free ELSE profiles[c]]
  /\ rows' = [s \in Slots |-> IF rows[s] = holder THEN Free ELSE rows[s]]

CommitReview(c) ==
  /\ review[c].pc \in {"done", "skipping"} /\ review[c].todo = {}
  /\ balance' = [balance EXCEPT ![c] = @ + review[c].amount]
  /\ CommitResume(c)
  /\ Release(c)
  /\ review' = [review EXCEPT ![c] = Idle(c)]
  /\ UNCHANGED <<past, mark, hook, cron, edit, spent>>

-----------------------------------------------------------------------------
(***************************************************************************)
(* credit_wallet: the transaction that pays commits, and its on_commit     *)
(* callback then resumes the customer in autocommit mode.                  *)
(***************************************************************************)

CreditWallet(h, c, amount) ==
  /\ hook[h].pc = "idle"
  /\ Credited(c, amount)
  /\ balance' = [balance EXCEPT ![c] = @ + amount]
  /\ hook' = [hook EXCEPT ![h] = [pc |-> "started", customer |-> c, todo |-> {}]]
  /\ UNCHANGED <<past, blocked, slot, locks, mark, review, cron, edit>>

HookReadsFlag(h) ==
  /\ hook[h].pc = "started"
  /\ hook' = [hook EXCEPT ![h].pc = IF blocked[hook[h].customer] THEN "stopped" ELSE "idle"]
  /\ UNCHANGED <<past, balance, blocked, slot, locks, mark, review, cron, edit, spent>>

HookReadsBalance(h) ==
  /\ hook[h].pc = "stopped"
  /\ hook' = [hook EXCEPT ![h].pc =
                IF Low(balance[hook[h].customer]) THEN "idle" ELSE "recovered"]
  /\ UNCHANGED <<past, balance, blocked, slot, locks, mark, review, cron, edit, spent>>

HookClearsFlag(h) ==
  /\ hook[h].pc = "recovered" /\ profiles[hook[h].customer] = Free
  /\ blocked' = [blocked EXCEPT ![hook[h].customer] = FALSE]
  /\ hook' = [hook EXCEPT ![h] = [@ EXCEPT !.pc = "skipping",
                                           !.todo = LateSlots(hook[h].customer)]]
  /\ UNCHANGED <<past, balance, slot, locks, mark, review, cron, edit, spent>>

\* Mutant: the status of the slot is not compared again.
HookSkipsAnyStatus(h, s) ==
  /\ hook[h].pc = "skipping" /\ s \in hook[h].todo
  /\ rows[s] = Free
  /\ slot' = [slot EXCEPT ![s] = "skipped"]
  /\ hook' = [hook EXCEPT ![h].todo = @ \ {s}]
  /\ UNCHANGED <<past, balance, blocked, locks, mark, review, cron, edit, spent>>

HookSkips(h, s) ==
  /\ hook[h].pc = "skipping" /\ s \in hook[h].todo
  /\ slot[s] = "scheduled" => rows[s] = Free
  /\ slot' = [slot EXCEPT ![s] = IF @ = "scheduled" THEN "skipped" ELSE @]
  /\ hook' = [hook EXCEPT ![h].todo = @ \ {s}]
  /\ UNCHANGED <<past, balance, blocked, locks, mark, review, cron, edit, spent>>

HookEnds(h) ==
  /\ hook[h].pc = "skipping" /\ hook[h].todo = {}
  /\ hook' = [hook EXCEPT ![h].pc = "idle"]
  /\ UNCHANGED <<past, balance, blocked, slot, locks, mark, review, cron, edit, spent>>

-----------------------------------------------------------------------------
(***************************************************************************)
(* Debits other than for a meal: transactions that lock the wallet alone,  *)
(* or the wallet and then the profile.                                     *)
(***************************************************************************)

Debited(c, amount) ==
  /\ wallets[c] = Free /\ amount <= balance[c]
  /\ balance' = [balance EXCEPT ![c] = @ - amount]
  /\ spent.debits < MaxDebits
  /\ spent' = [spent EXCEPT !.debits = @ + 1]
  /\ UNCHANGED <<past, slot, locks, mark, review, hook, cron, edit>>

\* reverse_referral_commission, and a negative manual_adjust_referral_commission:
\* nobody evaluates the stop.
TakeBack(c, amount) ==
  /\ Debited(c, amount)
  /\ UNCHANGED blocked

\* request_withdraw and create_guest_meal_order: a subscriber keeps the threshold.
Spend(c, amount) ==
  /\ Debited(c, amount)
  /\ c \in Subscribers => ~Low(balance[c] - amount)
  /\ UNCHANGED blocked

\* charge_delivery_fee evaluates the stop as the charge of a meal does.
PayFee(c, amount) ==
  /\ Debited(c, amount)
  /\ Low(balance[c] - amount) => profiles[c] = Free
  /\ blocked' = [blocked EXCEPT ![c] = @ \/ Low(balance[c] - amount)]

-----------------------------------------------------------------------------
(***************************************************************************)
(* run_wallet_threshold_check: the rows of all candidates are read by the  *)
(* query that opens the run, and acted upon one customer at a time.        *)
(***************************************************************************)

\* Mutant: only subscribers are looked at.
CandidatesSubscribed == Verified \cap Subscribers

Candidates == {c \in Verified : c \in Subscribers \/ blocked[c]}

CronReads ==
  /\ cron.pc = "idle" /\ Candidates # {}
  /\ cron' = [cron EXCEPT !.pc = "running", !.queue = Candidates, !.seen = Snapshot]
  /\ UNCHANGED <<past, balance, blocked, slot, locks, mark, review, hook, edit, spent>>

\* The run stops a customer on the balance it saw; only the flag is read again.
CronStops(c) ==
  /\ cron.pc = "running" /\ c \in cron.queue
  /\ Low(cron.seen[c].balance) /\ profiles[c] = Free
  /\ blocked' = [blocked EXCEPT ![c] = TRUE]
  /\ cron' = [cron EXCEPT !.queue = @ \ {c}]
  /\ UNCHANGED <<past, balance, slot, locks, mark, review, hook, edit, spent>>

CronPasses(c) ==
  /\ cron.pc = "running" /\ c \in cron.queue
  /\ ~Low(cron.seen[c].balance) /\ ~cron.seen[c].blocked
  /\ cron' = [cron EXCEPT !.queue = @ \ {c}]
  /\ UNCHANGED <<past, balance, blocked, slot, locks, mark, review, hook, edit, spent>>

CronLocks(c) ==
  /\ cron.pc = "running" /\ c \in cron.queue
  /\ ~Low(cron.seen[c].balance) /\ cron.seen[c].blocked
  /\ profiles[c] = Free
  /\ profiles' = [profiles EXCEPT ![c] = Cron]
  /\ cron' = [cron EXCEPT !.pc = "locked", !.queue = @ \ {c}, !.at = c]
  /\ UNCHANGED <<past, balance, blocked, slot, wallets, rows, mark, review, hook, edit, spent>>

\* The locked row is read again, and with it the wallet.
CronDecides ==
  /\ cron.pc = "locked"
  /\ IF blocked[cron.at] /\ ~Low(balance[cron.at])
     THEN /\ cron' = [cron EXCEPT !.pc = "skipping", !.todo = LateSlots(cron.at)]
          /\ UNCHANGED profiles
     ELSE /\ cron' = [cron EXCEPT !.pc = "running"]
          /\ profiles' = [profiles EXCEPT ![cron.at] = Free]
  /\ UNCHANGED <<past, balance, blocked, slot, wallets, rows, mark, review, hook, edit, spent>>

CronSkips(s) ==
  /\ cron.pc = "skipping" /\ s \in cron.todo
  /\ LockScheduled(s, Cron)
  /\ cron' = [cron EXCEPT !.todo = @ \ {s}]
  /\ UNCHANGED <<past, balance, blocked, slot, wallets, profiles, mark, review, hook, edit, spent>>

CronCommits ==
  /\ cron.pc = "skipping" /\ cron.todo = {}
  /\ CommitResume(Cron)
  /\ Release(Cron)
  /\ cron' = [cron EXCEPT !.pc = "running"]
  /\ UNCHANGED <<past, balance, mark, review, hook, edit, spent>>

CronEnds ==
  /\ cron.pc = "running" /\ cron.queue = {}
  /\ cron' = [cron EXCEPT !.pc = "idle"]
  /\ UNCHANGED <<past, balance, blocked, slot, locks, mark, review, hook, edit, spent>>

-----------------------------------------------------------------------------
(***************************************************************************)
(* PATCH of the customer profile: the request reads the row, and           *)
(* update_customer_onboarding_profile saves every column of it.            *)
(***************************************************************************)

ReadProfile(c) ==
  /\ edit[c] = "none" /\ spent.edits < MaxEdits
  /\ edit' = [edit EXCEPT ![c] = IF blocked[c] THEN "blocked" ELSE "clear"]
  /\ spent' = [spent EXCEPT !.edits = @ + 1]
  /\ UNCHANGED <<past, balance, blocked, slot, locks, mark, review, hook, cron>>

SaveProfile(c) ==
  /\ edit[c] # "none" /\ profiles[c] = Free
  /\ blocked' = [blocked EXCEPT ![c] = (edit[c] = "blocked")]
  /\ edit' = [edit EXCEPT ![c] = "none"]
  /\ UNCHANGED <<past, balance, slot, locks, mark, review, hook, cron, spent>>

-----------------------------------------------------------------------------
(***************************************************************************)
(* Transactions that end without committing: PostgreSQL breaks a circular  *)
(* wait by aborting one of the waiting transactions, and a worker process  *)
(* can be killed at any point.                                             *)
(***************************************************************************)

Waits(p, q) ==
  \/ p \in Slots /\ mark[p] = "open" /\ q = wallets[Owner[p]]
  \/ p \in Slots /\ mark[p] = "charged" /\ Low(AfterMeal(p)) /\ q = profiles[Owner[p]]
  \/ p \in Customers /\ review[p].pc = "recovered" /\ q = profiles[p]
  \/ p \in Customers /\ review[p].pc = "skipping"
       /\ \E s \in review[p].todo : slot[s] = "scheduled" /\ q = rows[s]
  \/ p = Cron /\ cron.pc = "skipping"
       /\ \E s \in cron.todo : slot[s] = "scheduled" /\ q = rows[s]

Deadlocked(p) ==
  \E P \in SUBSET Holders :
    /\ p \in P
    /\ \A q \in P : (\E r \in P : Waits(q, r)) /\ (\E r \in P : Waits(r, q))

Killed ==
  /\ spent.crashes < MaxCrashes
  /\ spent' = [spent EXCEPT !.crashes = @ + 1]

\* A transaction is a deadlock victim, or its process is killed.
Dies(p) == (Deadlocked(p) /\ UNCHANGED spent) \/ Killed

AbortMark(s) ==
  /\ mark[s] # "idle" /\ Dies(s)
  /\ ReleaseSlot(s)
  /\ UNCHANGED <<past, balance, blocked, slot, profiles, review, hook, cron, edit>>

AbortReview(c) ==
  /\ review[c].pc # "idle" /\ Dies(c)
  /\ Release(c)
  /\ review' = [review EXCEPT ![c] = Idle(c)]
  /\ UNCHANGED <<past, balance, blocked, slot, mark, hook, cron, edit>>

\* The run counts an error and goes on with the next customer.
AbortCron ==
  /\ cron.pc \in {"locked", "skipping"} /\ Dies(Cron)
  /\ Release(Cron)
  /\ cron' = [cron EXCEPT !.pc = "running", !.todo = {}]
  /\ UNCHANGED <<past, balance, blocked, slot, mark, review, hook, edit>>

KillCron ==
  /\ cron.pc # "idle" /\ Killed
  /\ Release(Cron)
  /\ cron' = [cron EXCEPT !.pc = "idle", !.queue = {}, !.todo = {}]
  /\ UNCHANGED <<past, balance, blocked, slot, mark, review, hook, edit>>

KillHook(h) ==
  /\ hook[h].pc # "idle" /\ Killed
  /\ hook' = [hook EXCEPT ![h] = [@ EXCEPT !.pc = "idle", !.todo = {}]]
  /\ UNCHANGED <<past, balance, blocked, slot, locks, mark, review, cron, edit>>

-----------------------------------------------------------------------------
MarkStep(s) ==
  MarkSkipped(s) \/ ChargeMeal(s) \/ RefuseMeal(s) \/ DeliverMeal(s) \/ AbortMark(s)

ReviewStep(c) ==
  \/ ReadStop(c) \/ ClearStop(c) \/ CommitReview(c) \/ AbortReview(c)
  \/ \E s \in Slots : SkipReviewed(c, s)

HookStep(h) ==
  \/ HookReadsFlag(h) \/ HookReadsBalance(h) \/ HookClearsFlag(h) \/ HookEnds(h)
  \/ \E s \in Slots : HookSkips(h, s)

CronStep ==
  \/ CronReads \/ CronDecides \/ CronCommits \/ CronEnds \/ AbortCron
  \/ \E c \in Customers : CronStops(c) \/ CronPasses(c) \/ CronLocks(c)
  \/ \E s \in Slots : CronSkips(s)

Next ==
  \/ \E s \in Slots : PassCutoff(s) \/ OpenMark(s) \/ MarkStep(s)
  \/ \E c \in Customers : \E amount \in Credits : CreditReviewed(c, amount)
  \/ \E c \in Customers : ReviewStep(c) \/ ReadProfile(c) \/ SaveProfile(c)
  \/ \E h \in Hooks : \E c \in Customers : \E amount \in Credits : CreditWallet(h, c, amount)
  \/ \E c \in Customers : \E amount \in Debits :
       TakeBack(c, amount) \/ Spend(c, amount) \/ PayFee(c, amount)
  \/ \E h \in Hooks : HookStep(h) \/ KillHook(h)
  \/ CronStep \/ KillCron

Spec == Init /\ [][Next]_vars

\* What has begun goes on, and crontab starts the threshold check again and
\* again; nobody has to order, pay or review.  PostgreSQL hands a row lock to its
\* waiters in turn, so a step that waits for one is strongly fair.
Fairness ==
  /\ \A s \in Slots :
       WF_vars(MarkStep(s)) /\ SF_vars(ChargeMeal(s) \/ RefuseMeal(s)) /\ SF_vars(DeliverMeal(s))
  /\ \A c \in Customers : WF_vars(ReviewStep(c))
  /\ SF_vars(\E c \in Customers :
               ClearStop(c) \/ SaveProfile(c) \/ \E s \in Slots : SkipReviewed(c, s))
  /\ \A h \in Hooks :
       WF_vars(HookStep(h)) /\ SF_vars(HookClearsFlag(h) \/ \E s \in Slots : HookSkips(h, s))
  /\ WF_vars(CronStep)
  /\ SF_vars(\E c \in Customers : CronStops(c) \/ CronLocks(c))
  /\ SF_vars(\E s \in Slots : CronSkips(s))

FairSpec == Spec /\ Fairness

-----------------------------------------------------------------------------
\* The writes of the flag that are not made under the profile lock together with
\* what they were decided on: the on_commit resume and the profile edit.
UnlockedWrite(c) ==
  \/ \E h \in Hooks : hook[h].customer = c /\ HookClearsFlag(h)
  \/ SaveProfile(c)

\* The debits that lock the wallet and nothing else.
WalletOnly(c) == \E amount \in Debits : TakeBack(c, amount) \/ Spend(c, amount)

\* The steps that hold one of a customer's two rows and write what depends on both.
HalfLocked(c) == UnlockedWrite(c) \/ WalletOnly(c) \/ (cron.at = c /\ CronCommits)

\* A step that holds both rows, the wallet and the profile, leaves no customer
\* with a low wallet unstopped: the charge of a meal or a fee sets the flag in the
\* transaction that takes the money, and the resume of a review is still right
\* when it commits.  While somebody holds the profile, no charge makes the wallet
\* low, as it waits for the flag it has to set; only a debit that looks at the
\* wallet alone does, and so makes a resume of the threshold check wrong.
LockedStepsStopTheLow ==
  [][\A c \in Customers :
       /\ (Low(balance[c]) => blocked[c]) =>
            (Low(balance'[c]) => blocked'[c]) \/ HalfLocked(c)
       /\ profiles[c] # Free /\ ~Low(balance[c]) => ~Low(balance'[c]) \/ WalletOnly(c)]_vars

\* A delivered slot stays delivered and a skipped one stays skipped, whichever
\* of marking, resuming and skipping came first.
MarkedOnce ==
  [][\A s \in Slots : slot[s] # "scheduled" => slot'[s] = slot[s]]_vars

\* Once money has stopped moving, the threshold check brings the flags of all
\* verified subscribers in line with their wallets, and no verified customer
\* without a subscription stays stopped with enough money.
FlagsConverge ==
  <>[](\A c \in Verified :
         IF c \in Subscribers THEN blocked[c] <=> Low(balance[c])
                              ELSE blocked[c] => Low(balance[c]))

\* A meal the kitchen left out because its customer was stopped at the cutoff is
\* not asked for afterwards: a locked resume skips it in the same step.  Slots
\* whose cutoff passes during the resume itself are left aside.
NoLateMeals ==
  [][\A s \in Slots \ Later :
       (slot[s] = "scheduled" /\ blocked[Owner[s]] /\ ~blocked'[Owner[s]])
          => slot'[s] # "scheduled" \/ UnlockedWrite(Owner[s])]_vars
=============================================================================
