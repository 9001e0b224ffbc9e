--------------------------- MODULE MealStopProofs ---------------------------
(***************************************************************************)
(* Theorems about MealStop, for every set of customers, slots and callbacks*)
(* and every threshold, price and bound.                                   *)
(***************************************************************************)
EXTENDS MealStop, TLAPS

-----------------------------------------------------------------------------
\* The inductive invariant

\* Who holds the lock on a profile, and until when: a review from the moment it
\* clears the flag, the threshold check from the moment it looks again.
ProfileLocks ==
  \A c \in Customers :
    /\ profiles[c] \in {Free, c, Cron}
    /\ profiles[c] = c <=> review[c].pc = "skipping"
    /\ profiles[c] = Cron <=> (cron.pc \in {"locked", "skipping"} /\ cron.at = c)

\* A wallet is locked by the review of its customer, or by the charge of a slot.
WalletLocks ==
  \A c \in Customers :
    /\ wallets[c] \in Slots \cup {Free, c}
    /\ wallets[c] = c <=> review[c].pc # "idle"

\* A charge keeps the wallet locked until it commits, and can be paid from it.
Charges ==
  \A s \in Slots :
    mark[s] = "charged" => wallets[Owner[s]] = s /\ Price <= balance[Owner[s]]

\* A locked slot is still scheduled, and a slot being marked is locked by its mark.
SlotLocks ==
  /\ \A s \in Slots : rows[s] # Free => slot[s] = "scheduled"
  /\ \A s \in Slots : mark[s] # "idle" => rows[s] = s

\* What a review decided on holds as long as it keeps the wallet.
Decisions ==
  /\ \A c \in Customers :
       review[c].pc # "idle" => balance[c] + review[c].amount <= MaxBalance
  /\ \A c \in Customers :
       review[c].pc \in {"recovered", "skipping"} => ~Low(balance[c] + review[c].amount)

\* What a resume still has to do with a slot: it is left to skip, locked by the
\* resume, or decided.
Settled(s, holder, todo) == s \in todo \/ rows[s] = holder \/ slot[s] # "scheduled"

\* A resume that has begun to skip knows every slot whose cutoff passed before it.
ResumesSeeLate ==
  /\ Slots \ Later \subseteq past
  /\ \A c \in Customers, s \in Slots \ Later :
       review[c].pc = "skipping" /\ Owner[s] = c => Settled(s, c, review[c].todo)
  /\ \A s \in Slots \ Later :
       cron.pc = "skipping" /\ Owner[s] = cron.at => Settled(s, Cron, cron.todo)

LockInv == TypeOK /\ ProfileLocks /\ WalletLocks /\ Charges /\ SlotLocks /\ Decisions

\* Who holds the locks, and the committed data, in their domains.
LockTypes ==
  /\ wallets \in [Customers -> Holders \cup {Free}]
  /\ profiles \in [Customers -> Holders \cup {Free}]
  /\ rows \in [Slots -> Holders \cup {Free}]
  /\ mark \in [Slots -> {"idle", "open", "charged"}]
  /\ edit \in [Customers -> {"none", "blocked", "clear"}]
DataTypes ==
  /\ balance \in [Customers -> 0..MaxBalance]
  /\ blocked \in [Customers -> BOOLEAN]
  /\ slot \in [Slots -> {"scheduled", "delivered", "skipped"}]
  /\ past \in SUBSET Slots
  /\ spent \in [credits : 0..MaxCredits, debits : 0..MaxDebits,
                edits : 0..MaxEdits, crashes : 0..MaxCrashes]

-----------------------------------------------------------------------------
\* Amounts of credits are natural numbers, and so is that of no credit.
LEMMA AmountsAreNaturals == Credits \cup {0} \subseteq Nat
BY MealStopAssumption

\* A debit takes what the wallet has from a wallet nobody has locked, and moves
\* nothing else but, for a fee, the flag.
LEMMA DebitMoves ==
  ASSUME LockInv, NEW c \in Customers, NEW amount \in Debits,
         TakeBack(c, amount) \/ Spend(c, amount) \/ PayFee(c, amount)
  PROVE  /\ wallets[c] = Free /\ balance[c] - amount \in 0..MaxBalance
         /\ balance' = [balance EXCEPT ![c] = balance[c] - amount]
         /\ blocked' \in [Customers -> BOOLEAN]
         /\ spent' \in [credits : 0..MaxCredits, debits : 0..MaxDebits,
                        edits : 0..MaxEdits, crashes : 0..MaxCrashes]
         /\ UNCHANGED <<past, slot, wallets, profiles, rows, mark, review, hook, cron, edit>>
<1>1. Debited(c, amount)
  BY DEF TakeBack, Spend, PayFee
<1>2. amount \in Nat /\ MaxBalance \in Nat /\ MaxDebits \in Nat /\ balance[c] \in 0..MaxBalance
  BY MealStopAssumption DEF LockInv, TypeOK
<1>3. balance[c] - amount \in 0..MaxBalance
  BY <1>1, <1>2 DEF Debited
<1>4. blocked' \in [Customers -> BOOLEAN]
  BY DEF TakeBack, Spend, PayFee, Low, LockInv, TypeOK
<1>5. spent' \in [credits : 0..MaxCredits, debits : 0..MaxDebits,
                  edits : 0..MaxEdits, crashes : 0..MaxCrashes]
  BY <1>1, <1>2 DEF Debited, LockInv, TypeOK
<1> QED
  BY <1>1, <1>3, <1>4, <1>5 DEF Debited, locks

\* Who is writing the stop of a customer holds that profile's lock, after any step.
LEMMA ProfileLocksKept ==
  ASSUME LockInv, Next
  PROVE  ProfileLocks'
<1>1. ASSUME NEW s \in Slots,
            \/ PassCutoff(s)
            \/ OpenMark(s)
            \/ MarkSkipped(s)
            \/ ChargeMeal(s)
            \/ RefuseMeal(s)
            \/ DeliverMeal(s)
            \/ AbortMark(s)
     PROVE  ProfileLocks'
  BY <1>1, MealStopAssumption
  DEF LockInv, ProfileLocks, TypeOK,
      ReviewStates, CronStates, PassCutoff, OpenMark, MarkSkipped, ChargeMeal,
      RefuseMeal, DeliverMeal, AbortMark, ReleaseSlot, AfterMeal, Low, locks,
      Dies, Killed
<1>2. ASSUME NEW c \in Customers, NEW amount \in Credits,
            CreditReviewed(c, amount)
     PROVE  ProfileLocks'
  BY <1>2, MealStopAssumption
  DEF LockInv, ProfileLocks, TypeOK,
      ReviewStates, CronStates, CreditReviewed, Credited, Idle
<1>3. ASSUME NEW c \in Customers, ReadStop(c)
     PROVE  ProfileLocks'
  BY <1>3, MealStopAssumption
  DEF LockInv, ProfileLocks, TypeOK,
      ReviewStates, CronStates, ReadStop, Low, locks
<1>4. ASSUME NEW c \in Customers, ClearStop(c)
     PROVE  ProfileLocks'
  BY <1>4, MealStopAssumption
  DEF LockInv, ProfileLocks, TypeOK,
      ReviewStates, CronStates, ClearStop, LateSlots
<1>5. ASSUME NEW c \in Customers, CommitReview(c)
     PROVE  ProfileLocks'
  BY <1>5, MealStopAssumption
  DEF LockInv, ProfileLocks, TypeOK,
      ReviewStates, CronStates, CommitReview, CommitResume, Release, Idle
<1>6. ASSUME NEW c \in Customers, AbortReview(c)
     PROVE  ProfileLocks'
  BY <1>6, MealStopAssumption
  DEF LockInv, ProfileLocks, TypeOK,
      ReviewStates, CronStates, AbortReview, Release, Idle, Dies, Killed
<1>7. ASSUME NEW c \in Customers, ReadProfile(c) \/ SaveProfile(c)
     PROVE  ProfileLocks'
  BY <1>7, MealStopAssumption
  DEF LockInv, ProfileLocks, TypeOK,
      ReviewStates, CronStates, ReadProfile, SaveProfile, locks
<1>8. ASSUME NEW c \in Customers, NEW s \in Slots, SkipReviewed(c, s)
     PROVE  ProfileLocks'
  BY <1>8, MealStopAssumption
  DEF LockInv, ProfileLocks, TypeOK,
      ReviewStates, CronStates, SkipReviewed, LockScheduled
<1>9. ASSUME NEW h \in Hooks, NEW c \in Customers, NEW amount \in Credits,
            CreditWallet(h, c, amount)
     PROVE  ProfileLocks'
  BY <1>9, MealStopAssumption
  DEF LockInv, ProfileLocks, TypeOK,
      ReviewStates, CronStates, CreditWallet, Credited, locks
<1>10. ASSUME NEW h \in Hooks,
            \/ HookReadsFlag(h)
            \/ HookReadsBalance(h)
            \/ HookClearsFlag(h)
            \/ HookEnds(h)
            \/ KillHook(h)
     PROVE  ProfileLocks'
  BY <1>10, MealStopAssumption
  DEF LockInv, ProfileLocks, TypeOK,
      ReviewStates, CronStates, HookReadsFlag, HookReadsBalance,
      HookClearsFlag, HookEnds, KillHook, LateSlots, locks, Killed
<1>11. ASSUME NEW h \in Hooks, NEW s \in Slots, HookSkips(h, s)
     PROVE  ProfileLocks'
  BY <1>11, MealStopAssumption
  DEF LockInv, ProfileLocks, TypeOK,
      ReviewStates, CronStates, HookSkips, locks
<1>12. CASE CronReads
  BY <1>12, MealStopAssumption
  DEF LockInv, ProfileLocks, TypeOK,
      ReviewStates, CronStates, CronReads, locks, Candidates, Snapshot
<1>13. CASE CronDecides
  <2>1. CASE blocked[cron.at] /\ ~Low(balance[cron.at])
    <3>1. /\ cron.pc = "locked" /\ cron'.pc = "skipping" /\ cron'.at = cron.at
          /\ UNCHANGED <<profiles, review>>
      <4>1. /\ cron.pc = "locked" /\ UNCHANGED <<profiles, review>>
            /\ cron' = [cron EXCEPT !.pc = "skipping", !.todo = LateSlots(cron.at)]
        BY <1>13, <2>1 DEF CronDecides
      <4>2. cron \in CronStates
        BY DEF LockInv, TypeOK
      <4> QED BY <4>1, <4>2 DEF CronStates
    <3>2. QED
      BY <3>1 DEF LockInv, ProfileLocks
  <2>2. CASE ~(blocked[cron.at] /\ ~Low(balance[cron.at]))
    <3>1. /\ cron.pc = "locked" /\ cron'.pc = "running" /\ cron'.at = cron.at
          /\ cron.at \in Customers /\ UNCHANGED review
          /\ \A c \in Customers :
               profiles'[c] = IF c = cron.at THEN Free ELSE profiles[c]
      BY <1>13, <2>2 DEF LockInv, TypeOK, CronStates, CronDecides
    <3>2. profiles[cron.at] = Cron /\ review[cron.at].pc # "skipping"
      BY <3>1, MealStopAssumption DEF LockInv, ProfileLocks
    <3>3. \A c \in Customers : c # cron.at => profiles[c] # Cron
      BY <3>1 DEF LockInv, ProfileLocks
    <3> QED BY <3>1, <3>2, <3>3, MealStopAssumption DEF LockInv, ProfileLocks
  <2>3. QED
    BY <2>1, <2>2
<1>14. CASE CronCommits
  BY <1>14, MealStopAssumption
  DEF LockInv, ProfileLocks, TypeOK,
      ReviewStates, CronStates, CronCommits, CommitResume, Release
<1>15. CASE AbortCron
  BY <1>15, MealStopAssumption
  DEF LockInv, ProfileLocks, TypeOK,
      ReviewStates, CronStates, AbortCron, Release, Dies, Killed
<1>16. CASE KillCron
  BY <1>16, MealStopAssumption
  DEF LockInv, ProfileLocks, TypeOK,
      ReviewStates, CronStates, KillCron, Release, Killed
<1>17. CASE CronEnds
  BY <1>17, MealStopAssumption
  DEF LockInv, ProfileLocks, TypeOK,
      ReviewStates, CronStates, CronEnds, locks
<1>18. ASSUME NEW c \in Customers, CronLocks(c)
     PROVE  ProfileLocks'
  BY <1>18, MealStopAssumption
  DEF LockInv, ProfileLocks, TypeOK,
      ReviewStates, CronStates, CronLocks
<1>19. ASSUME NEW c \in Customers, CronStops(c) \/ CronPasses(c)
     PROVE  ProfileLocks'
  BY <1>19, MealStopAssumption
  DEF LockInv, ProfileLocks, TypeOK,
      ReviewStates, CronStates, CronStops, CronPasses, locks
<1>20. ASSUME NEW s \in Slots, CronSkips(s)
     PROVE  ProfileLocks'
  BY <1>20, MealStopAssumption
  DEF LockInv, ProfileLocks, TypeOK,
      ReviewStates, CronStates, CronSkips, LockScheduled
<1>21. ASSUME NEW c \in Customers, NEW amount \in Debits,
            TakeBack(c, amount) \/ Spend(c, amount) \/ PayFee(c, amount)
     PROVE  ProfileLocks'
  BY <1>21, DebitMoves DEF LockInv, ProfileLocks
<1>22. QED
  BY <1>1, <1>2, <1>3, <1>4, <1>5, <1>6, <1>7, <1>8, <1>9, <1>10,
      <1>11, <1>12, <1>13, <1>14, <1>15, <1>16, <1>17, <1>18, <1>19, <1>20, <1>21
  DEF Next, MarkStep, ReviewStep, HookStep, CronStep

\* Who is charging or crediting a customer holds that wallet's lock, after any step.
LEMMA WalletLocksKept ==
  ASSUME LockInv, Next
  PROVE  WalletLocks'
<1>1. ASSUME NEW s \in Slots, MarkSkipped(s)
     PROVE  WalletLocks'
  BY <1>1, MealStopAssumption
  DEF LockInv, WalletLocks, TypeOK,
      ReviewStates, MarkSkipped, ReleaseSlot
<1>2. ASSUME NEW s \in Slots, ChargeMeal(s)
     PROVE  WalletLocks'
  BY <1>2, MealStopAssumption
  DEF LockInv, WalletLocks, TypeOK,
      ReviewStates, ChargeMeal
<1>3. ASSUME NEW s \in Slots, RefuseMeal(s)
     PROVE  WalletLocks'
  BY <1>3, MealStopAssumption
  DEF LockInv, WalletLocks, TypeOK,
      ReviewStates, RefuseMeal, ReleaseSlot
<1>4. ASSUME NEW s \in Slots, DeliverMeal(s)
     PROVE  WalletLocks'
  BY <1>4, MealStopAssumption
  DEF LockInv, WalletLocks, TypeOK,
      ReviewStates, DeliverMeal, ReleaseSlot, AfterMeal, Low
<1>5. ASSUME NEW s \in Slots, AbortMark(s)
     PROVE  WalletLocks'
  BY <1>5, MealStopAssumption
  DEF LockInv, WalletLocks, TypeOK,
      ReviewStates, AbortMark, ReleaseSlot, Dies, Killed
<1>6. ASSUME NEW s \in Slots, PassCutoff(s) \/ OpenMark(s)
     PROVE  WalletLocks'
  BY <1>6, MealStopAssumption
  DEF LockInv, WalletLocks, TypeOK,
      ReviewStates, PassCutoff, OpenMark, locks
<1>7. ASSUME NEW c \in Customers, NEW amount \in Credits,
            CreditReviewed(c, amount)
     PROVE  WalletLocks'
  BY <1>7, MealStopAssumption
  DEF LockInv, WalletLocks, TypeOK,
      ReviewStates, CreditReviewed, Credited, Idle
<1>8. ASSUME NEW c \in Customers, ReadStop(c)
     PROVE  WalletLocks'
  BY <1>8, MealStopAssumption
  DEF LockInv, WalletLocks, TypeOK,
      ReviewStates, ReadStop, Low, locks
<1>9. ASSUME NEW c \in Customers, ClearStop(c)
     PROVE  WalletLocks'
  BY <1>9, MealStopAssumption
  DEF LockInv, WalletLocks, TypeOK,
      ReviewStates, ClearStop, LateSlots
<1>10. ASSUME NEW c \in Customers, CommitReview(c)
     PROVE  WalletLocks'
  BY <1>10, MealStopAssumption
  DEF LockInv, WalletLocks, TypeOK,
      ReviewStates, CommitReview, CommitResume, Release, Idle
<1>11. ASSUME NEW c \in Customers, AbortReview(c)
     PROVE  WalletLocks'
  BY <1>11, MealStopAssumption
  DEF LockInv, WalletLocks, TypeOK,
      ReviewStates, AbortReview, Release, Idle, Dies, Killed
<1>12. ASSUME NEW c \in Customers, ReadProfile(c) \/ SaveProfile(c)
     PROVE  WalletLocks'
  BY <1>12, MealStopAssumption
  DEF LockInv, WalletLocks, TypeOK,
      ReviewStates, ReadProfile, SaveProfile, locks
<1>13. ASSUME NEW c \in Customers, NEW s \in Slots, SkipReviewed(c, s)
     PROVE  WalletLocks'
  BY <1>13, MealStopAssumption
  DEF LockInv, WalletLocks, TypeOK,
      ReviewStates, SkipReviewed, LockScheduled
<1>14. ASSUME NEW h \in Hooks, NEW c \in Customers, NEW amount \in Credits,
            CreditWallet(h, c, amount)
     PROVE  WalletLocks'
  BY <1>14, MealStopAssumption
  DEF LockInv, WalletLocks, TypeOK,
      ReviewStates, CreditWallet, Credited, locks
<1>15. ASSUME NEW h \in Hooks,
            \/ HookReadsFlag(h)
            \/ HookReadsBalance(h)
            \/ HookClearsFlag(h)
            \/ HookEnds(h)
            \/ KillHook(h)
     PROVE  WalletLocks'
  BY <1>15, MealStopAssumption
  DEF LockInv, WalletLocks, TypeOK,
      ReviewStates, HookReadsFlag, HookReadsBalance, HookClearsFlag, HookEnds,
      KillHook, LateSlots, locks, Killed
<1>16. ASSUME NEW h \in Hooks, NEW s \in Slots, HookSkips(h, s)
     PROVE  WalletLocks'
  BY <1>16, MealStopAssumption
  DEF LockInv, WalletLocks, TypeOK,
      ReviewStates, HookSkips, locks
<1>17. CASE CronReads
  BY <1>17, MealStopAssumption
  DEF LockInv, WalletLocks, TypeOK,
      ReviewStates, CronReads, locks, Candidates, Snapshot
<1>18. CASE CronDecides
  BY <1>18, MealStopAssumption
  DEF LockInv, WalletLocks, TypeOK,
      ReviewStates, CronDecides, LateSlots, Low
<1>19. CASE CronCommits
  BY <1>19, MealStopAssumption
  DEF LockInv, WalletLocks, TypeOK,
      ReviewStates, CronCommits, CommitResume, Release
<1>20. CASE AbortCron
  BY <1>20, MealStopAssumption
  DEF LockInv, WalletLocks, TypeOK,
      ReviewStates, AbortCron, Release, Dies, Killed
<1>21. CASE KillCron
  BY <1>21, MealStopAssumption
  DEF LockInv, WalletLocks, TypeOK,
      ReviewStates, KillCron, Release, Killed
<1>22. CASE CronEnds
  BY <1>22, MealStopAssumption
  DEF LockInv, WalletLocks, TypeOK,
      ReviewStates, CronEnds, locks
<1>23. ASSUME NEW c \in Customers, CronLocks(c)
     PROVE  WalletLocks'
  BY <1>23, MealStopAssumption
  DEF LockInv, WalletLocks, TypeOK,
      ReviewStates, CronLocks
<1>24. ASSUME NEW c \in Customers, CronStops(c) \/ CronPasses(c)
     PROVE  WalletLocks'
  BY <1>24, MealStopAssumption
  DEF LockInv, WalletLocks, TypeOK,
      ReviewStates, CronStops, CronPasses, locks
<1>25. ASSUME NEW s \in Slots, CronSkips(s)
     PROVE  WalletLocks'
  BY <1>25, MealStopAssumption
  DEF LockInv, WalletLocks, TypeOK,
      ReviewStates, CronSkips, LockScheduled
<1>26. ASSUME NEW c \in Customers, NEW amount \in Debits,
            TakeBack(c, amount) \/ Spend(c, amount) \/ PayFee(c, amount)
     PROVE  WalletLocks'
  BY <1>26, DebitMoves DEF LockInv, WalletLocks
<1>27. QED
  BY <1>1, <1>2, <1>3, <1>4, <1>5, <1>6, <1>7, <1>8, <1>9, <1>10,
      <1>11, <1>12, <1>13, <1>14, <1>15, <1>16, <1>17, <1>18, <1>19, <1>20,
      <1>21, <1>22, <1>23, <1>24, <1>25, <1>26
  DEF Next, MarkStep, ReviewStep, HookStep, CronStep

\* No step charges more than the wallet holds.
LEMMA ChargesKept ==
  ASSUME LockInv, Next
  PROVE  Charges'
<1>1. ASSUME NEW s \in Slots, MarkSkipped(s)
     PROVE  Charges'
  <2>1. /\ balance \in [Customers -> 0..MaxBalance]
        /\ wallets \in [Customers -> Holders \cup {Free}]
        /\ mark \in [Slots -> {"idle", "open", "charged"}]
        /\ Owner \in [Slots -> Customers]
        /\ Free \notin Slots
    BY MealStopAssumption DEF LockInv, TypeOK
  <2>2. QED
    BY <1>1, <2>1
    DEF LockInv, Charges, MarkSkipped, ReleaseSlot
<1>2. ASSUME NEW s \in Slots, ChargeMeal(s)
     PROVE  Charges'
  <2>1. /\ balance \in [Customers -> 0..MaxBalance]
        /\ wallets \in [Customers -> Holders \cup {Free}]
        /\ mark \in [Slots -> {"idle", "open", "charged"}]
        /\ Owner \in [Slots -> Customers]
        /\ Free \notin Slots
    BY MealStopAssumption DEF LockInv, TypeOK
  <2>2. QED
    BY <1>2, <2>1
    DEF LockInv, Charges, ChargeMeal
<1>3. ASSUME NEW s \in Slots, RefuseMeal(s)
     PROVE  Charges'
  <2>1. /\ balance \in [Customers -> 0..MaxBalance]
        /\ wallets \in [Customers -> Holders \cup {Free}]
        /\ mark \in [Slots -> {"idle", "open", "charged"}]
        /\ Owner \in [Slots -> Customers]
        /\ Free \notin Slots
    BY MealStopAssumption DEF LockInv, TypeOK
  <2>2. QED
    BY <1>3, <2>1
    DEF LockInv, Charges, RefuseMeal, ReleaseSlot
<1>4. ASSUME NEW s \in Slots, DeliverMeal(s)
     PROVE  Charges'
  <2>1. /\ balance \in [Customers -> 0..MaxBalance]
        /\ wallets \in [Customers -> Holders \cup {Free}]
        /\ mark \in [Slots -> {"idle", "open", "charged"}]
        /\ Owner \in [Slots -> Customers]
        /\ Free \notin Slots
    BY MealStopAssumption DEF LockInv, TypeOK
  <2>2. QED
    BY <1>4, <2>1
    DEF LockInv, Charges, DeliverMeal, ReleaseSlot
<1>5. ASSUME NEW s \in Slots, AbortMark(s)
     PROVE  Charges'
  <2>1. /\ balance \in [Customers -> 0..MaxBalance]
        /\ wallets \in [Customers -> Holders \cup {Free}]
        /\ mark \in [Slots -> {"idle", "open", "charged"}]
        /\ Owner \in [Slots -> Customers]
        /\ Free \notin Slots
    BY MealStopAssumption DEF LockInv, TypeOK
  <2>2. QED
    BY <1>5, <2>1
    DEF LockInv, Charges, AbortMark, ReleaseSlot
<1>6. ASSUME NEW s \in Slots, PassCutoff(s) \/ OpenMark(s)
     PROVE  Charges'
  BY <1>6, MealStopAssumption
  DEF LockInv, WalletLocks, Charges, TypeOK,
      ReviewStates, PassCutoff, OpenMark, locks
<1>7. ASSUME NEW c \in Customers, NEW amount \in Credits,
            CreditReviewed(c, amount)
     PROVE  Charges'
  BY <1>7, MealStopAssumption
  DEF LockInv, WalletLocks, Charges, TypeOK,
      ReviewStates, CreditReviewed, Credited, Idle
<1>8. ASSUME NEW c \in Customers, CommitReview(c)
     PROVE  Charges'
  BY <1>8, MealStopAssumption
  DEF LockInv, WalletLocks, Charges, TypeOK,
      ReviewStates, CommitReview, CommitResume, Release, Idle
<1>9. ASSUME NEW c \in Customers,
            \/ ReadStop(c)
            \/ ClearStop(c)
            \/ AbortReview(c)
            \/ ReadProfile(c)
            \/ SaveProfile(c)
     PROVE  Charges'
  BY <1>9, MealStopAssumption
  DEF LockInv, WalletLocks, Charges, TypeOK,
      ReviewStates, ReadStop, ClearStop, AbortReview, ReadProfile,
      SaveProfile, Release, LateSlots, Idle, Low, locks, Dies, Killed
<1>10. ASSUME NEW c \in Customers, NEW s \in Slots, SkipReviewed(c, s)
     PROVE  Charges'
  BY <1>10, MealStopAssumption
  DEF LockInv, WalletLocks, Charges, TypeOK,
      ReviewStates, SkipReviewed, LockScheduled
<1>11. ASSUME NEW h \in Hooks, NEW c \in Customers, NEW amount \in Credits,
            CreditWallet(h, c, amount)
     PROVE  Charges'
  BY <1>11, MealStopAssumption
  DEF LockInv, WalletLocks, Charges, TypeOK,
      ReviewStates, CreditWallet, Credited, locks
<1>12. ASSUME NEW h \in Hooks,
            \/ HookReadsFlag(h)
            \/ HookReadsBalance(h)
            \/ HookClearsFlag(h)
            \/ HookEnds(h)
            \/ KillHook(h)
     PROVE  Charges'
  BY <1>12, MealStopAssumption
  DEF LockInv, WalletLocks, Charges, TypeOK,
      ReviewStates, HookReadsFlag, HookReadsBalance, HookClearsFlag, HookEnds,
      KillHook, LateSlots, locks, Killed
<1>13. ASSUME NEW h \in Hooks, NEW s \in Slots, HookSkips(h, s)
     PROVE  Charges'
  BY <1>13, MealStopAssumption
  DEF LockInv, WalletLocks, Charges, TypeOK,
      ReviewStates, HookSkips, locks
<1>14. CASE CronReads \/ CronDecides \/ CronCommits \/ CronEnds \/ AbortCron \/ KillCron
  BY <1>14, MealStopAssumption
  DEF LockInv, WalletLocks, Charges, TypeOK,
      ReviewStates, CronReads, CronDecides, CronCommits, CronEnds, AbortCron,
      KillCron, CommitResume, Release, LateSlots, Low, locks, Candidates,
      Dies, Killed, Snapshot
<1>15. ASSUME NEW c \in Customers,
            CronStops(c) \/ CronPasses(c) \/ CronLocks(c)
     PROVE  Charges'
  BY <1>15, MealStopAssumption
  DEF LockInv, WalletLocks, Charges, TypeOK,
      ReviewStates, CronStops, CronPasses, CronLocks, locks
<1>16. ASSUME NEW s \in Slots, CronSkips(s)
     PROVE  Charges'
  BY <1>16, MealStopAssumption
  DEF LockInv, WalletLocks, Charges, TypeOK,
      ReviewStates, CronSkips, LockScheduled
<1>17. ASSUME NEW c \in Customers, NEW amount \in Debits,
            TakeBack(c, amount) \/ Spend(c, amount) \/ PayFee(c, amount)
     PROVE  Charges'
  <2>1. Free \notin Slots /\ Owner \in [Slots -> Customers]
        /\ balance \in [Customers -> 0..MaxBalance]
    BY MealStopAssumption DEF LockInv, TypeOK
  <2>2. QED
    BY <1>17, <2>1, DebitMoves DEF LockInv, Charges
<1>18. QED
  BY <1>1, <1>2, <1>3, <1>4, <1>5, <1>6, <1>7, <1>8, <1>9, <1>10,
      <1>11, <1>12, <1>13, <1>14, <1>15, <1>16, <1>17
  DEF Next, MarkStep, ReviewStep, HookStep, CronStep

\* Who is deciding a slot holds that slot's lock, after any step.
LEMMA SlotLocksKept ==
  ASSUME LockInv, Next
  PROVE  SlotLocks'
<1>1. ASSUME NEW s \in Slots,
            \/ PassCutoff(s)
            \/ OpenMark(s)
            \/ MarkSkipped(s)
            \/ ChargeMeal(s)
            \/ RefuseMeal(s)
            \/ DeliverMeal(s)
            \/ AbortMark(s)
     PROVE  SlotLocks'
  BY <1>1, MealStopAssumption
  DEF LockInv, SlotLocks, TypeOK, PassCutoff,
      OpenMark, MarkSkipped, ChargeMeal, RefuseMeal, DeliverMeal, AbortMark,
      ReleaseSlot, AfterMeal, Low, locks, Dies, Killed
<1>2. ASSUME NEW c \in Customers, NEW amount \in Credits,
            CreditReviewed(c, amount)
     PROVE  SlotLocks'
  BY <1>2, MealStopAssumption
  DEF LockInv, SlotLocks, TypeOK,
      CreditReviewed, Credited, Idle
<1>3. ASSUME NEW c \in Customers,
            \/ ReadStop(c)
            \/ ClearStop(c)
            \/ CommitReview(c)
            \/ AbortReview(c)
            \/ ReadProfile(c)
            \/ SaveProfile(c)
     PROVE  SlotLocks'
  BY <1>3, MealStopAssumption
  DEF LockInv, SlotLocks, TypeOK, ReadStop,
      ClearStop, CommitReview, AbortReview, ReadProfile, SaveProfile,
      CommitResume, Release, LateSlots, Idle, Low, locks, Dies, Killed
<1>4. ASSUME NEW c \in Customers, NEW s \in Slots, SkipReviewed(c, s)
     PROVE  SlotLocks'
  BY <1>4, MealStopAssumption
  DEF LockInv, SlotLocks, TypeOK, SkipReviewed,
      LockScheduled
<1>5. ASSUME NEW h \in Hooks, NEW c \in Customers, NEW amount \in Credits,
            CreditWallet(h, c, amount)
     PROVE  SlotLocks'
  BY <1>5, MealStopAssumption
  DEF LockInv, SlotLocks, TypeOK, CreditWallet,
      Credited, locks
<1>6. ASSUME NEW h \in Hooks,
            \/ HookReadsFlag(h)
            \/ HookReadsBalance(h)
            \/ HookClearsFlag(h)
            \/ HookEnds(h)
            \/ KillHook(h)
     PROVE  SlotLocks'
  BY <1>6, MealStopAssumption
  DEF LockInv, SlotLocks, TypeOK, HookReadsFlag,
      HookReadsBalance, HookClearsFlag, HookEnds, KillHook, LateSlots, locks,
      Killed
<1>7. ASSUME NEW h \in Hooks, NEW s \in Slots, HookSkips(h, s)
     PROVE  SlotLocks'
  BY <1>7, MealStopAssumption
  DEF LockInv, SlotLocks, TypeOK, HookSkips,
      locks
<1>8. CASE CronReads \/ CronDecides \/ CronCommits \/ CronEnds \/ AbortCron \/ KillCron
  BY <1>8, MealStopAssumption
  DEF LockInv, SlotLocks, TypeOK, CronReads,
      CronDecides, CronCommits, CronEnds, AbortCron, KillCron, CommitResume,
      Release, LateSlots, Low, locks, Candidates, Dies, Killed, Snapshot
<1>9. ASSUME NEW c \in Customers,
            CronStops(c) \/ CronPasses(c) \/ CronLocks(c)
     PROVE  SlotLocks'
  BY <1>9, MealStopAssumption
  DEF LockInv, SlotLocks, TypeOK, CronStops,
      CronPasses, CronLocks, locks
<1>10. ASSUME NEW s \in Slots, CronSkips(s)
     PROVE  SlotLocks'
  BY <1>10, MealStopAssumption
  DEF LockInv, SlotLocks, TypeOK, CronSkips,
      LockScheduled
<1>11. ASSUME NEW c \in Customers, NEW amount \in Debits,
            TakeBack(c, amount) \/ Spend(c, amount) \/ PayFee(c, amount)
     PROVE  SlotLocks'
  BY <1>11, DebitMoves DEF LockInv, SlotLocks
<1>12. QED
  BY <1>1, <1>2, <1>3, <1>4, <1>5, <1>6, <1>7, <1>8, <1>9, <1>10, <1>11
  DEF Next, MarkStep, ReviewStep, HookStep, CronStep

\* A review is still right about the wallet it holds, after any step.
LEMMA DecisionsKept ==
  ASSUME LockInv, Next
  PROVE  Decisions'
<1>1. ASSUME NEW s \in Slots, DeliverMeal(s)
     PROVE  Decisions'
  BY <1>1, MealStopAssumption
  DEF LockInv, ProfileLocks, WalletLocks,
      Charges, Decisions, Low, TypeOK, ReviewStates, CronStates, DeliverMeal,
      ReleaseSlot, AfterMeal, Low
<1>2. ASSUME NEW s \in Slots,
            \/ PassCutoff(s)
            \/ OpenMark(s)
            \/ MarkSkipped(s)
            \/ ChargeMeal(s)
            \/ RefuseMeal(s)
            \/ AbortMark(s)
     PROVE  Decisions'
  BY <1>2, MealStopAssumption
  DEF LockInv, ProfileLocks, WalletLocks,
      Charges, Decisions, Low, TypeOK, ReviewStates, CronStates, PassCutoff,
      OpenMark, MarkSkipped, ChargeMeal, RefuseMeal, AbortMark, ReleaseSlot,
      locks, Dies, Killed
<1>3. ASSUME NEW c \in Customers, NEW amount \in Credits,
            CreditReviewed(c, amount)
     PROVE  Decisions'
  BY <1>3, MealStopAssumption
  DEF LockInv, ProfileLocks, WalletLocks,
      Charges, Decisions, Low, TypeOK, ReviewStates, CronStates,
      CreditReviewed, Credited, Idle
<1>4. ASSUME NEW c \in Customers, ReadStop(c)
     PROVE  Decisions'
  BY <1>4, MealStopAssumption
  DEF LockInv, ProfileLocks, WalletLocks,
      Charges, Decisions, Low, TypeOK, ReviewStates, CronStates, ReadStop,
      Low, locks
<1>5. ASSUME NEW c \in Customers, ClearStop(c)
     PROVE  Decisions'
  BY <1>5, MealStopAssumption
  DEF LockInv, ProfileLocks, WalletLocks,
      Charges, Decisions, Low, TypeOK, ReviewStates, CronStates, ClearStop,
      LateSlots
<1>6. ASSUME NEW c \in Customers, CommitReview(c)
     PROVE  Decisions'
  <2>1. review[c].amount \in Nat /\ Threshold \in Nat /\ cron.at \in Customers
    <3>1. review[c] \in ReviewStates /\ cron \in CronStates
      BY <1>6 DEF LockInv, TypeOK
    <3>2. review[c].amount \in Credits \cup {0} /\ cron.at \in Customers
      BY <3>1 DEF ReviewStates, CronStates
    <3>3. QED
      BY <3>2, AmountsAreNaturals, MealStopAssumption
  <2>2. \A d \in Customers : balance[d] \in Nat
    BY MealStopAssumption DEF LockInv, TypeOK
  <2>3. /\ \A d \in Customers : balance'[d] = IF d = c THEN balance[c] + review[c].amount
                                                    ELSE balance[d]
        /\ \A d \in Customers : review'[d] = IF d = c THEN Idle(c) ELSE review[d]
        /\ cron' = cron
    BY <1>6 DEF LockInv, TypeOK, CommitReview
  <2>5. QED
    BY <2>1, <2>3 DEF LockInv, Decisions, Idle
<1>7. ASSUME NEW c \in Customers, AbortReview(c)
     PROVE  Decisions'
  BY <1>7, MealStopAssumption
  DEF LockInv, ProfileLocks, WalletLocks,
      Charges, Decisions, Low, TypeOK, ReviewStates, CronStates, AbortReview,
      Release, Idle, Dies, Killed
<1>8. ASSUME NEW c \in Customers, ReadProfile(c) \/ SaveProfile(c)
     PROVE  Decisions'
  BY <1>8, MealStopAssumption
  DEF LockInv, ProfileLocks, WalletLocks,
      Charges, Decisions, Low, TypeOK, ReviewStates, CronStates, ReadProfile,
      SaveProfile, locks
<1>9. ASSUME NEW c \in Customers, NEW s \in Slots, SkipReviewed(c, s)
     PROVE  Decisions'
  BY <1>9, MealStopAssumption
  DEF LockInv, ProfileLocks, WalletLocks,
      Charges, Decisions, Low, TypeOK, ReviewStates, CronStates, SkipReviewed,
      LockScheduled
<1>10. ASSUME NEW h \in Hooks, NEW c \in Customers, NEW amount \in Credits,
            CreditWallet(h, c, amount)
     PROVE  Decisions'
  BY <1>10, MealStopAssumption
  DEF LockInv, ProfileLocks, WalletLocks,
      Charges, Decisions, Low, TypeOK, ReviewStates, CronStates, CreditWallet,
      Credited, locks
<1>11. ASSUME NEW h \in Hooks,
            \/ HookReadsFlag(h)
            \/ HookReadsBalance(h)
            \/ HookClearsFlag(h)
            \/ HookEnds(h)
            \/ KillHook(h)
     PROVE  Decisions'
  BY <1>11, MealStopAssumption
  DEF LockInv, ProfileLocks, WalletLocks,
      Charges, Decisions, Low, TypeOK, ReviewStates, CronStates,
      HookReadsFlag, HookReadsBalance, HookClearsFlag, HookEnds, KillHook,
      LateSlots, locks, Killed
<1>12. ASSUME NEW h \in Hooks, NEW s \in Slots, HookSkips(h, s)
     PROVE  Decisions'
  BY <1>12, MealStopAssumption
  DEF LockInv, ProfileLocks, WalletLocks,
      Charges, Decisions, Low, TypeOK, ReviewStates, CronStates, HookSkips,
      locks
<1>13. CASE CronReads
  BY <1>13, MealStopAssumption
  DEF LockInv, ProfileLocks, WalletLocks,
      Charges, Decisions, Low, TypeOK, ReviewStates, CronStates, CronReads,
      locks, Candidates, Snapshot
<1>14. CASE CronDecides
  <2>1. CASE blocked[cron.at] /\ ~Low(balance[cron.at])
    BY <1>14, <2>1
    DEF LockInv, TypeOK, CronStates, Decisions, Low, CronDecides
  <2>2. CASE ~(blocked[cron.at] /\ ~Low(balance[cron.at]))
    BY <1>14, <2>2, MealStopAssumption
    DEF LockInv, TypeOK, CronStates, Decisions, Low, CronDecides
  <2>3. QED
    BY <2>1, <2>2
<1>15. CASE CronCommits
  BY <1>15, MealStopAssumption
  DEF LockInv, ProfileLocks, WalletLocks,
      Charges, Decisions, Low, TypeOK, ReviewStates, CronStates, CronCommits,
      CommitResume, Release
<1>16. CASE AbortCron
  BY <1>16, MealStopAssumption
  DEF LockInv, ProfileLocks, WalletLocks,
      Charges, Decisions, Low, TypeOK, ReviewStates, CronStates, AbortCron,
      Release, Dies, Killed
<1>17. CASE KillCron
  BY <1>17, MealStopAssumption
  DEF LockInv, ProfileLocks, WalletLocks,
      Charges, Decisions, Low, TypeOK, ReviewStates, CronStates, KillCron,
      Release, Killed
<1>18. CASE CronEnds
  BY <1>18, MealStopAssumption
  DEF LockInv, ProfileLocks, WalletLocks,
      Charges, Decisions, Low, TypeOK, ReviewStates, CronStates, CronEnds,
      locks
<1>19. ASSUME NEW c \in Customers, CronLocks(c)
     PROVE  Decisions'
  BY <1>19, MealStopAssumption
  DEF LockInv, ProfileLocks, WalletLocks,
      Charges, Decisions, Low, TypeOK, ReviewStates, CronStates, CronLocks
<1>20. ASSUME NEW c \in Customers, CronStops(c) \/ CronPasses(c)
     PROVE  Decisions'
  BY <1>20, MealStopAssumption
  DEF LockInv, ProfileLocks, WalletLocks,
      Charges, Decisions, Low, TypeOK, ReviewStates, CronStates, CronStops,
      CronPasses, locks
<1>21. ASSUME NEW s \in Slots, CronSkips(s)
     PROVE  Decisions'
  BY <1>21, MealStopAssumption
  DEF LockInv, ProfileLocks, WalletLocks,
      Charges, Decisions, Low, TypeOK, ReviewStates, CronStates, CronSkips,
      LockScheduled
<1>22. ASSUME NEW c \in Customers, NEW amount \in Debits,
            TakeBack(c, amount) \/ Spend(c, amount) \/ PayFee(c, amount)
     PROVE  Decisions'
  <2>1. wallets[c] = Free /\ review[c].pc = "idle"
    BY <1>22, DebitMoves, MealStopAssumption DEF LockInv, WalletLocks
  <2>2. balance \in [Customers -> 0..MaxBalance]
    BY DEF LockInv, TypeOK
  <2>3. QED
    BY <1>22, <2>1, <2>2, DebitMoves DEF LockInv, Decisions, Low
<1>23. QED
  BY <1>1, <1>2, <1>3, <1>4, <1>5, <1>6, <1>7, <1>8, <1>9, <1>10,
      <1>11, <1>12, <1>13, <1>14, <1>15, <1>16, <1>17, <1>18, <1>19, <1>20,
      <1>21, <1>22
  DEF Next, MarkStep, ReviewStep, HookStep, CronStep

-----------------------------------------------------------------------------
\* Type correctness

\* The threshold check is the only writer of its own state, and so are the
\* reviews and the callbacks.
LEMMA Writers ==
  ASSUME Next
  PROVE  /\ \/ UNCHANGED review
            \/ \E c \in Customers : ReviewStep(c)
            \/ \E c \in Customers : \E amount \in Credits : CreditReviewed(c, amount)
         /\ \/ UNCHANGED hook
            \/ \E h \in Hooks : HookStep(h) \/ KillHook(h)
            \/ \E h \in Hooks : \E c \in Customers : \E amount \in Credits :
                 CreditWallet(h, c, amount)
         /\ UNCHANGED cron \/ CronStep \/ KillCron
<1>1. ASSUME NEW s \in Slots, PassCutoff(s) \/ OpenMark(s) \/ MarkStep(s)
      PROVE  UNCHANGED <<review, hook, cron>>
  BY <1>1 DEF MarkStep, PassCutoff, OpenMark, MarkSkipped, ChargeMeal, RefuseMeal,
              DeliverMeal, AbortMark, ReleaseSlot
<1>2. ASSUME NEW c \in Customers, NEW amount \in Credits, CreditReviewed(c, amount)
      PROVE  UNCHANGED <<hook, cron>>
  BY <1>2 DEF CreditReviewed
<1>3. ASSUME NEW c \in Customers, ReviewStep(c)
      PROVE  UNCHANGED <<hook, cron>>
  BY <1>3 DEF ReviewStep, ReadStop, ClearStop, CommitReview, AbortReview, SkipReviewed
<1>4. ASSUME NEW c \in Customers, ReadProfile(c) \/ SaveProfile(c)
      PROVE  UNCHANGED <<review, hook, cron>>
  BY <1>4 DEF ReadProfile, SaveProfile
<1>5. ASSUME NEW h \in Hooks, NEW c \in Customers, NEW amount \in Credits,
             CreditWallet(h, c, amount)
      PROVE  UNCHANGED <<review, cron>>
  BY <1>5 DEF CreditWallet
<1>6. ASSUME NEW h \in Hooks, HookStep(h) \/ KillHook(h)
      PROVE  UNCHANGED <<review, cron>>
  BY <1>6 DEF HookStep, HookReadsFlag, HookReadsBalance, HookClearsFlag, HookSkips,
              HookEnds, KillHook
<1>7. ASSUME CronStep \/ KillCron
      PROVE  UNCHANGED <<review, hook>>
  BY <1>7 DEF CronStep, CronReads, CronStops, CronPasses, CronLocks, CronDecides,
              CronSkips, CronCommits, CronEnds, AbortCron, KillCron
<1>8. ASSUME NEW c \in Customers, NEW amount \in Debits,
             TakeBack(c, amount) \/ Spend(c, amount) \/ PayFee(c, amount)
      PROVE  UNCHANGED <<review, hook, cron>>
  BY <1>8 DEF TakeBack, Spend, PayFee, Debited
<1>9. QED
  BY <1>1, <1>2, <1>3, <1>4, <1>5, <1>6, <1>7, <1>8 DEF Next

\* A process record stays one when a field of it, or two together, are set.
LEMMA ReviewMove ==
  ASSUME NEW r \in ReviewStates, NEW pc \in {"recovered", "done"}
  PROVE  [r EXCEPT !.pc = pc] \in ReviewStates
BY DEF ReviewStates

\* A review that goes on to skip late meals is a review.
LEMMA ReviewUpdate ==
  ASSUME NEW r \in ReviewStates, NEW todo \in SUBSET Slots
  PROVE  [r EXCEPT !.pc = "skipping", !.todo = todo] \in ReviewStates
BY DEF ReviewStates

\* A callback that goes on, or has ended, is a callback.
LEMMA HookUpdate ==
  ASSUME NEW r \in HookStates, NEW pc \in {"idle", "skipping"}, NEW todo \in SUBSET Slots
  PROVE  [r EXCEPT !.pc = pc, !.todo = todo] \in HookStates
BY DEF HookStates

\* Reviews keep their type.
LEMMA ReviewTypes ==
  ASSUME TypeOK, Next
  PROVE  review' \in [Customers -> ReviewStates]
<1>1. CASE UNCHANGED review
  BY <1>1 DEF TypeOK
<1>2. ASSUME NEW c \in Customers, NEW amount \in Credits, CreditReviewed(c, amount)
      PROVE  review' \in [Customers -> ReviewStates]
  BY <1>2 DEF TypeOK, ReviewStates, CreditReviewed
<1>3. ASSUME NEW c \in Customers, ReadStop(c)
      PROVE  review' \in [Customers -> ReviewStates]
  <2>1. PICK pc \in {"recovered", "done"} :
          review' = [review EXCEPT ![c] = [review[c] EXCEPT !.pc = pc]]
    BY <1>3 DEF ReadStop
  <2>2. review[c] \in ReviewStates
    BY <1>3 DEF TypeOK
  <2>3. QED
    BY <1>3, <2>1, <2>2, ReviewMove DEF TypeOK
<1>4. ASSUME NEW c \in Customers, ClearStop(c)
      PROVE  review' \in [Customers -> ReviewStates]
  <2>1. LateSlots(c) \in SUBSET Slots /\ review[c] \in ReviewStates
    BY <1>4 DEF TypeOK, LateSlots
  <2>2. QED
    BY <1>4, <2>1, ReviewUpdate DEF TypeOK, ClearStop
<1>5. ASSUME NEW c \in Customers, NEW s \in Slots, SkipReviewed(c, s)
      PROVE  review' \in [Customers -> ReviewStates]
  <2>1. PICK r : r = [review[c] EXCEPT !.todo = review[c].todo \ {s}]
    OBVIOUS
  <2>2. review \in [Customers -> ReviewStates] /\ review[c] \in ReviewStates
    BY <1>5 DEF TypeOK
  <2>3. review' = [review EXCEPT ![c] = r]
    BY <1>5, <2>1, <2>2 DEF SkipReviewed
  <2>4. r \in ReviewStates
    BY <2>1, <2>2 DEF ReviewStates
  <2>5. QED
    BY <2>2, <2>3, <2>4
<1>6. ASSUME NEW c \in Customers, CommitReview(c) \/ AbortReview(c)
      PROVE  review' \in [Customers -> ReviewStates]
  <2>1. Idle(c) \in ReviewStates /\ review' = [review EXCEPT ![c] = Idle(c)]
    BY <1>6 DEF ReviewStates, CommitReview, AbortReview, Idle
  <2>2. QED
    BY <1>6, <2>1 DEF TypeOK
<1>7. QED
  BY <1>1, <1>2, <1>3, <1>4, <1>5, <1>6, Writers DEF ReviewStep

\* Callbacks keep their type.
LEMMA HookTypes ==
  ASSUME TypeOK, Next
  PROVE  hook' \in [Hooks -> HookStates]
<1>1. CASE UNCHANGED hook
  BY <1>1 DEF TypeOK
<1>2. ASSUME NEW h \in Hooks, NEW c \in Customers, NEW amount \in Credits,
             CreditWallet(h, c, amount)
      PROVE  hook' \in [Hooks -> HookStates]
  BY <1>2 DEF TypeOK, HookStates, CreditWallet
<1>3. ASSUME NEW h \in Hooks, HookReadsFlag(h) \/ HookReadsBalance(h) \/ HookEnds(h)
      PROVE  hook' \in [Hooks -> HookStates]
  BY <1>3 DEF TypeOK, HookStates, HookReadsFlag, HookReadsBalance, HookEnds
<1>4. ASSUME NEW h \in Hooks, HookClearsFlag(h)
      PROVE  hook' \in [Hooks -> HookStates]
  <2>1. LateSlots(hook[h].customer) \in SUBSET Slots /\ hook[h] \in HookStates
    BY <1>4 DEF TypeOK, LateSlots
  <2>2. QED
    BY <1>4, <2>1, HookUpdate DEF TypeOK, HookClearsFlag
<1>5. ASSUME NEW h \in Hooks, NEW s \in Slots, HookSkips(h, s)
      PROVE  hook' \in [Hooks -> HookStates]
  BY <1>5 DEF TypeOK, HookStates, HookSkips
<1>6. ASSUME NEW h \in Hooks, KillHook(h)
      PROVE  hook' \in [Hooks -> HookStates]
  BY <1>6, HookUpdate DEF TypeOK, KillHook
<1>7. QED
  BY <1>1, <1>2, <1>3, <1>4, <1>5, <1>6, Writers DEF HookStep

\* The threshold check keeps its type.
LEMMA CronTypes ==
  ASSUME TypeOK, Next
  PROVE  cron' \in CronStates
<1>1. CASE UNCHANGED cron
  BY <1>1 DEF TypeOK
<1>2. CASE CronReads
  <2>1. Candidates \subseteq Customers /\ Snapshot \in [Customers -> Seen]
    BY MealStopAssumption DEF Candidates, Snapshot, Seen, TypeOK
  <2>2. QED
    BY <1>2, <2>1 DEF TypeOK, CronStates, CronReads
<1>3. ASSUME NEW c \in Customers, CronStops(c) \/ CronPasses(c) \/ CronLocks(c)
      PROVE  cron' \in CronStates
  <2>1. CASE CronStops(c) \/ CronPasses(c)
    BY <2>1 DEF TypeOK, CronStates, CronStops, CronPasses
  <2>2. CASE CronLocks(c)
    BY <1>3, <2>2 DEF TypeOK, CronStates, CronLocks
  <2>3. QED
    BY <1>3, <2>1, <2>2
<1>4. CASE CronDecides
  <2>1. CASE cron' = [cron EXCEPT !.pc = "skipping", !.todo = LateSlots(cron.at)]
    BY <2>1 DEF TypeOK, CronStates, LateSlots
  <2>2. CASE cron' = [cron EXCEPT !.pc = "running"]
    BY <2>2 DEF TypeOK, CronStates
  <2>3. QED
    BY <1>4, <2>1, <2>2 DEF CronDecides
<1>5. ASSUME NEW s \in Slots, CronSkips(s)
      PROVE  cron' \in CronStates
  BY <1>5 DEF TypeOK, CronStates, CronSkips
<1>6. CASE CronCommits \/ CronEnds
  BY <1>6 DEF TypeOK, CronStates, CronCommits, CronEnds
<1>7. CASE AbortCron \/ KillCron
  BY <1>7 DEF TypeOK, CronStates, AbortCron, KillCron
<1>8. QED
  BY <1>1, <1>2, <1>3, <1>4, <1>5, <1>6, <1>7, Writers DEF CronStep

\* Locks keep their types.
LEMMA LockTypesKept ==
  ASSUME LockInv, Next
  PROVE  LockTypes'
<1>1. ASSUME NEW s \in Slots,
            \/ PassCutoff(s)
            \/ OpenMark(s)
            \/ MarkSkipped(s)
            \/ ChargeMeal(s)
            \/ RefuseMeal(s)
            \/ DeliverMeal(s)
            \/ AbortMark(s)
     PROVE  LockTypes'
  BY <1>1, MealStopAssumption
  DEF LockInv, TypeOK, LockTypes, Holders,
      PassCutoff, OpenMark, MarkSkipped, ChargeMeal, RefuseMeal, DeliverMeal,
      AbortMark, ReleaseSlot, AfterMeal, Low, locks, Dies, Killed
<1>2. ASSUME NEW c \in Customers, NEW amount \in Credits,
            CreditReviewed(c, amount)
     PROVE  LockTypes'
  BY <1>2, MealStopAssumption
  DEF LockInv, TypeOK, LockTypes, Holders,
      CreditReviewed, Credited, Idle
<1>3. ASSUME NEW c \in Customers,
            \/ ReadStop(c)
            \/ ClearStop(c)
            \/ CommitReview(c)
            \/ AbortReview(c)
            \/ ReadProfile(c)
            \/ SaveProfile(c)
     PROVE  LockTypes'
  BY <1>3, MealStopAssumption
  DEF LockInv, TypeOK, LockTypes, Holders,
      ReadStop, ClearStop, CommitReview, AbortReview, ReadProfile,
      SaveProfile, CommitResume, Release, LateSlots, Idle, Low, locks, Dies,
      Killed
<1>4. ASSUME NEW c \in Customers, NEW s \in Slots, SkipReviewed(c, s)
     PROVE  LockTypes'
  BY <1>4, MealStopAssumption
  DEF LockInv, TypeOK, LockTypes, Holders,
      SkipReviewed, LockScheduled
<1>5. ASSUME NEW h \in Hooks, NEW c \in Customers, NEW amount \in Credits,
            CreditWallet(h, c, amount)
     PROVE  LockTypes'
  BY <1>5, MealStopAssumption
  DEF LockInv, TypeOK, LockTypes, Holders,
      CreditWallet, Credited, locks
<1>6. ASSUME NEW h \in Hooks,
            \/ HookReadsFlag(h)
            \/ HookReadsBalance(h)
            \/ HookClearsFlag(h)
            \/ HookEnds(h)
            \/ KillHook(h)
     PROVE  LockTypes'
  BY <1>6, MealStopAssumption
  DEF LockInv, TypeOK, LockTypes, Holders,
      HookReadsFlag, HookReadsBalance, HookClearsFlag, HookEnds, KillHook,
      LateSlots, locks, Killed
<1>7. ASSUME NEW h \in Hooks, NEW s \in Slots, HookSkips(h, s)
     PROVE  LockTypes'
  BY <1>7, MealStopAssumption
  DEF LockInv, TypeOK, LockTypes, Holders,
      HookSkips, locks
<1>8. CASE CronReads \/ CronDecides \/ CronCommits \/ CronEnds \/ AbortCron \/ KillCron
  BY <1>8, MealStopAssumption
  DEF LockInv, TypeOK, LockTypes, Holders,
      CronReads, CronDecides, CronCommits, CronEnds, AbortCron, KillCron,
      CommitResume, Release, LateSlots, Low, locks, Candidates, Dies, Killed,
      Snapshot
<1>9. ASSUME NEW c \in Customers,
            CronStops(c) \/ CronPasses(c) \/ CronLocks(c)
     PROVE  LockTypes'
  BY <1>9, MealStopAssumption
  DEF LockInv, TypeOK, LockTypes, Holders,
      CronStops, CronPasses, CronLocks, locks
<1>10. ASSUME NEW s \in Slots, CronSkips(s)
     PROVE  LockTypes'
  BY <1>10, MealStopAssumption
  DEF LockInv, TypeOK, LockTypes, Holders,
      CronSkips, LockScheduled
<1>11. ASSUME NEW c \in Customers, NEW amount \in Debits,
            TakeBack(c, amount) \/ Spend(c, amount) \/ PayFee(c, amount)
     PROVE  LockTypes'
  BY <1>11, DebitMoves DEF LockInv, TypeOK, LockTypes
<1>12. QED
  BY <1>1, <1>2, <1>3, <1>4, <1>5, <1>6, <1>7, <1>8, <1>9, <1>10, <1>11
  DEF Next, MarkStep, ReviewStep, HookStep, CronStep

\* Balances, slots and flags keep their types.
LEMMA DataTypesKept ==
  ASSUME LockInv, Next
  PROVE  DataTypes'
<1>1. ASSUME NEW s \in Slots, DeliverMeal(s)
     PROVE  DataTypes'
  <2>1. balance[Owner[s]] \in 0..MaxBalance /\ Price \in Nat /\ Price <= balance[Owner[s]]
    BY <1>1, MealStopAssumption DEF LockInv, TypeOK, Charges, DeliverMeal
  <2>2. balance[Owner[s]] - Price \in 0..MaxBalance
    BY <2>1, MealStopAssumption
  <2>3. QED
    BY <1>1, <2>2 DEF LockInv, TypeOK, DataTypes, DeliverMeal
<1>2. ASSUME NEW s \in Slots,
            \/ PassCutoff(s)
            \/ OpenMark(s)
            \/ MarkSkipped(s)
            \/ ChargeMeal(s)
            \/ RefuseMeal(s)
            \/ AbortMark(s)
     PROVE  DataTypes'
  BY <1>2, MealStopAssumption
  DEF LockInv, TypeOK, Decisions, Charges,
      DataTypes, PassCutoff, OpenMark, MarkSkipped, ChargeMeal, RefuseMeal,
      AbortMark, ReleaseSlot, locks, Dies, Killed
<1>3. ASSUME NEW c \in Customers, NEW amount \in Credits,
            CreditReviewed(c, amount)
     PROVE  DataTypes'
  BY <1>3, MealStopAssumption
  DEF LockInv, TypeOK, Decisions, Charges,
      DataTypes, CreditReviewed, Credited, Idle
<1>4. ASSUME NEW c \in Customers, CommitReview(c)
     PROVE  DataTypes'
  <2>1. review[c].pc # "idle" /\ review[c].amount \in Credits \cup {0}
    BY <1>4 DEF LockInv, TypeOK, ReviewStates, CommitReview
  <2>2. review[c].amount \in Nat
    BY <2>1, AmountsAreNaturals
  <2>3. balance[c] \in 0..MaxBalance
    BY <1>4 DEF LockInv, TypeOK
  <2>4. balance[c] + review[c].amount \in 0..MaxBalance
    BY <1>4, <2>1, <2>2, <2>3, MealStopAssumption DEF LockInv, Decisions
  <2>5. QED
    BY <1>4, <2>4 DEF LockInv, TypeOK, DataTypes, CommitReview, CommitResume
<1>5. ASSUME NEW c \in Customers, AbortReview(c)
     PROVE  DataTypes'
  BY <1>5, MealStopAssumption
  DEF LockInv, TypeOK, Decisions, Charges,
      DataTypes, AbortReview, Release, Idle, Dies, Killed
<1>6. ASSUME NEW c \in Customers, ReadProfile(c)
     PROVE  DataTypes'
  BY <1>6, MealStopAssumption
  DEF LockInv, TypeOK, Decisions, Charges,
      DataTypes, ReadProfile, locks
<1>7. ASSUME NEW c \in Customers, SaveProfile(c)
     PROVE  DataTypes'
  BY <1>7, MealStopAssumption
  DEF LockInv, TypeOK, Decisions, Charges,
      DataTypes, SaveProfile, locks
<1>8. ASSUME NEW c \in Customers, ReadStop(c) \/ ClearStop(c)
     PROVE  DataTypes'
  BY <1>8, MealStopAssumption
  DEF LockInv, TypeOK, Decisions, Charges,
      DataTypes, ReadStop, ClearStop, LateSlots, Low, locks
<1>9. ASSUME NEW c \in Customers, NEW s \in Slots, SkipReviewed(c, s)
     PROVE  DataTypes'
  BY <1>9, MealStopAssumption
  DEF LockInv, TypeOK, Decisions, Charges,
      DataTypes, SkipReviewed, LockScheduled
<1>10. ASSUME NEW h \in Hooks, NEW c \in Customers, NEW amount \in Credits,
            CreditWallet(h, c, amount)
     PROVE  DataTypes'
  BY <1>10, MealStopAssumption
  DEF LockInv, TypeOK, Decisions, Charges,
      DataTypes, CreditWallet, Credited, locks
<1>11. ASSUME NEW h \in Hooks, HookClearsFlag(h)
     PROVE  DataTypes'
  BY <1>11, MealStopAssumption
  DEF LockInv, TypeOK, Decisions, Charges,
      DataTypes, HookClearsFlag, LateSlots, locks
<1>12. ASSUME NEW h \in Hooks, KillHook(h)
     PROVE  DataTypes'
  BY <1>12, MealStopAssumption
  DEF LockInv, TypeOK, Decisions, Charges,
      DataTypes, KillHook, locks, Killed
<1>13. ASSUME NEW h \in Hooks,
            HookReadsFlag(h) \/ HookReadsBalance(h) \/ HookEnds(h)
     PROVE  DataTypes'
  BY <1>13, MealStopAssumption
  DEF LockInv, TypeOK, Decisions, Charges,
      DataTypes, HookReadsFlag, HookReadsBalance, HookEnds, locks
<1>14. ASSUME NEW h \in Hooks, NEW s \in Slots, HookSkips(h, s)
     PROVE  DataTypes'
  BY <1>14, MealStopAssumption
  DEF LockInv, TypeOK, Decisions, Charges,
      DataTypes, HookSkips, locks
<1>15. CASE CronReads
  BY <1>15, MealStopAssumption
  DEF LockInv, TypeOK, Decisions, Charges,
      DataTypes, CronReads, locks, Candidates, Snapshot
<1>16. CASE CronCommits
  BY <1>16, MealStopAssumption
  DEF LockInv, TypeOK, Decisions, Charges,
      DataTypes, CronCommits, CommitResume, Release
<1>17. CASE AbortCron
  BY <1>17, MealStopAssumption
  DEF LockInv, TypeOK, Decisions, Charges,
      DataTypes, AbortCron, Release, Dies, Killed
<1>18. CASE KillCron
  BY <1>18, MealStopAssumption
  DEF LockInv, TypeOK, Decisions, Charges,
      DataTypes, KillCron, Release, Killed
<1>19. CASE CronDecides \/ CronEnds
  BY <1>19, MealStopAssumption
  DEF LockInv, TypeOK, Decisions, Charges,
      DataTypes, CronDecides, CronEnds, LateSlots, Low, locks
<1>20. ASSUME NEW c \in Customers, CronStops(c)
     PROVE  DataTypes'
  BY <1>20, MealStopAssumption
  DEF LockInv, TypeOK, Decisions, Charges,
      DataTypes, CronStops, locks
<1>21. ASSUME NEW c \in Customers, CronPasses(c) \/ CronLocks(c)
     PROVE  DataTypes'
  BY <1>21, MealStopAssumption
  DEF LockInv, TypeOK, Decisions, Charges,
      DataTypes, CronPasses, CronLocks, locks
<1>22. ASSUME NEW s \in Slots, CronSkips(s)
     PROVE  DataTypes'
  BY <1>22, MealStopAssumption
  DEF LockInv, TypeOK, Decisions, Charges,
      DataTypes, CronSkips, LockScheduled
<1>23. ASSUME NEW c \in Customers, NEW amount \in Debits,
            TakeBack(c, amount) \/ Spend(c, amount) \/ PayFee(c, amount)
     PROVE  DataTypes'
  BY <1>23, DebitMoves DEF LockInv, TypeOK, DataTypes
<1>24. QED
  BY <1>1, <1>2, <1>3, <1>4, <1>5, <1>6, <1>7, <1>8, <1>9, <1>10,
      <1>11, <1>12, <1>13, <1>14, <1>15, <1>16, <1>17, <1>18, <1>19, <1>20,
      <1>21, <1>22, <1>23
  DEF Next, MarkStep, ReviewStep, HookStep, CronStep

-----------------------------------------------------------------------------
\* The steps that can decide a slot, and those that move money or flags.
LEMMA SlotWriters ==
  ASSUME Next
  PROVE  \/ UNCHANGED slot
         \/ \E s \in Slots : MarkSkipped(s) \/ DeliverMeal(s)
         \/ \E c \in Customers : CommitReview(c)
         \/ \E h \in Hooks : \E s \in Slots : HookSkips(h, s)
         \/ CronCommits
BY DEF Next, MarkStep, ReviewStep, HookStep, CronStep, PassCutoff, OpenMark, ChargeMeal,
       RefuseMeal, AbortMark, CreditReviewed, ReadStop, ClearStop, SkipReviewed,
       AbortReview, CreditWallet, HookReadsFlag, HookReadsBalance, HookClearsFlag,
       HookEnds, KillHook, CronReads, CronStops, CronPasses, CronLocks, CronDecides,
       CronSkips, CronEnds, AbortCron, KillCron, ReadProfile, SaveProfile, TakeBack, Spend, PayFee,
       Debited, locks

\* The only steps that touch a balance or a stop flag.
LEMMA FlagWriters ==
  ASSUME Next
  PROVE  \/ UNCHANGED <<balance, blocked>>
         \/ \E s \in Slots : DeliverMeal(s)
         \/ \E c \in Customers : CommitReview(c) \/ CronStops(c) \/ SaveProfile(c)
         \/ \E h \in Hooks : \/ HookClearsFlag(h)
                             \/ \E c \in Customers : \E amount \in Credits : CreditWallet(h, c, amount)
         \/ \E c \in Customers : \E amount \in Debits :
              TakeBack(c, amount) \/ Spend(c, amount) \/ PayFee(c, amount)
         \/ CronCommits
BY DEF Next, MarkStep, ReviewStep, HookStep, CronStep, PassCutoff, OpenMark, MarkSkipped,
       ChargeMeal, RefuseMeal, AbortMark, CreditReviewed, ReadStop, ClearStop, SkipReviewed,
       AbortReview, HookReadsFlag, HookReadsBalance, HookSkips, HookEnds, KillHook, CronReads,
       CronPasses, CronLocks, CronDecides, CronSkips, CronEnds, AbortCron, KillCron, ReadProfile

-----------------------------------------------------------------------------
\* The theorems

\* The lock invariant holds initially.
LEMMA LockInvInit == Init => LockInv
<1> SUFFICES ASSUME Init PROVE LockInv
  OBVIOUS
<1>1. PICK c \in Customers :
        /\ hook = [h \in Hooks |-> [pc |-> "idle", customer |-> c, todo |-> {}]]
        /\ cron = [pc |-> "idle", queue |-> {}, seen |-> Snapshot, at |-> c, todo |-> {}]
  BY DEF Init
<1>2. TypeOK
  <2>1. LockTypes /\ DataTypes
    BY MealStopAssumption DEF Init, Low, LockTypes, DataTypes
  <2>2. review \in [Customers -> ReviewStates]
    BY DEF Init, Idle, ReviewStates
  <2>3. hook \in [Hooks -> HookStates]
    BY <1>1 DEF HookStates
  <2>4. Snapshot \in [Customers -> Seen]
    BY <2>1 DEF Snapshot, Seen, DataTypes
  <2>5. cron \in CronStates
    BY <1>1, <2>4 DEF CronStates
  <2>6. QED
    BY <2>1, <2>2, <2>3, <2>5 DEF TypeOK, LockTypes, DataTypes
<1>3. ProfileLocks /\ WalletLocks /\ Charges /\ SlotLocks /\ Decisions
  BY <1>1, MealStopAssumption
  DEF Init, Idle, ProfileLocks, WalletLocks, Charges, SlotLocks, Decisions
<1>4. QED
  BY <1>2, <1>3 DEF LockInv

\* Every step keeps the lock invariant.
LEMMA LockInvNext == LockInv /\ [Next]_vars => LockInv'
<1>1. CASE Next
  <2>1. ASSUME LockInv
        PROVE  TypeOK'
    BY <1>1, <2>1, ReviewTypes, HookTypes, CronTypes, LockTypesKept, DataTypesKept
    DEF LockInv, TypeOK, LockTypes, DataTypes
  <2>2. QED
    BY <1>1, <2>1, ProfileLocksKept, WalletLocksKept, ChargesKept, SlotLocksKept, DecisionsKept
    DEF LockInv
<1>2. CASE UNCHANGED vars
  BY <1>2 DEF vars, locks, LockInv, TypeOK, ProfileLocks, WalletLocks, Charges, SlotLocks, Decisions
<1>3. QED
  BY <1>1, <1>2

\* The locks are kept as the code takes them: a row lock is held by the
\* transaction that took it and by no other, and what a charge or a review read
\* of its wallet (mark_delivery, approve_recharge, reject_withdraw) is still so
\* when it commits.
THEOREM LockInvariant == Spec => []LockInv
BY LockInvInit, LockInvNext, PTL DEF Spec

\* Every row and every process stays in its domain: no charge overdraws a wallet
\* (charge_delivered_meal), however it interleaves with credits.
THEOREM TypeCorrect == Spec => []TypeOK
<1>1. LockInv => TypeOK
  BY DEF LockInv
<1>2. QED
  BY <1>1, LockInvariant, PTL

\* A step leaves a decided slot as it is.
LEMMA DecidedStays ==
  ASSUME LockInv, Next, NEW s \in Slots, slot[s] # "scheduled"
  PROVE  slot'[s] = slot[s]
<1>1. rows[s] = Free /\ mark[s] = "idle"
  BY MealStopAssumption DEF LockInv, SlotLocks, TypeOK
<1>2. ASSUME NEW t \in Slots, MarkSkipped(t) \/ DeliverMeal(t)
      PROVE  slot'[s] = slot[s]
  BY <1>1, <1>2 DEF MarkSkipped, DeliverMeal, LockInv, TypeOK
<1>3. ASSUME NEW c \in Customers, CommitReview(c)
      PROVE  slot'[s] = slot[s]
  BY <1>1, <1>3, MealStopAssumption DEF CommitReview, CommitResume
<1>4. ASSUME NEW h \in Hooks, NEW t \in Slots, HookSkips(h, t)
      PROVE  slot'[s] = slot[s]
  BY <1>4 DEF HookSkips, LockInv, TypeOK
<1>5. CASE CronCommits
  BY <1>1, <1>5, MealStopAssumption DEF CronCommits, CommitResume
<1> QED
  BY <1>2, <1>3, <1>4, <1>5, SlotWriters

\* A slot is decided once (mark_delivery,
\* system_skip_past_cutoff_deliveries_for_customer).
THEOREM SlotsDecidedOnce == Spec => MarkedOnce
<1>1. LockInv /\ [Next]_vars => [\A s \in Slots : slot[s] # "scheduled" => slot'[s] = slot[s]]_vars
  BY DecidedStays
<1> QED
  BY <1>1, LockInvariant, PTL DEF Spec, MarkedOnce

\* A step that holds wallet and profile leaves no low customer unstopped.
LEMMA StepStopsTheLow ==
  ASSUME LockInv, Next, NEW c \in Customers, Low(balance[c]) => blocked[c], ~HalfLocked(c)
  PROVE  Low(balance'[c]) => blocked'[c]
<1>1. ASSUME NEW s \in Slots, DeliverMeal(s)
      PROVE  Low(balance'[c]) => blocked'[c]
  BY <1>1, MealStopAssumption DEF DeliverMeal, AfterMeal, LockInv, TypeOK, Low
<1>2. ASSUME NEW d \in Customers, CommitReview(d)
      PROVE  Low(balance'[c]) => blocked'[c]
  <2>1. review[d].amount \in Nat /\ balance[c] \in Nat /\ Threshold \in Nat
    <3>1. review[d].amount \in Credits \cup {0}
      BY <1>2 DEF LockInv, TypeOK, ReviewStates
    <3>2. balance[c] \in Nat
      BY MealStopAssumption DEF LockInv, TypeOK
    <3>3. QED
      BY <3>1, <3>2, AmountsAreNaturals, MealStopAssumption
  <2>2. balance'[c] = IF c = d THEN balance[d] + review[d].amount ELSE balance[c]
    BY <1>2 DEF CommitReview, LockInv, TypeOK
  <2>3. CASE profiles[c] = d
    <3>1. c = d /\ review[d].pc = "skipping"
      BY <1>2, <2>3, MealStopAssumption DEF LockInv, ProfileLocks
    <3>2. QED
      BY <2>2, <3>1 DEF LockInv, Decisions
  <2>4. CASE profiles[c] # d
    <3>1. blocked'[c] = blocked[c]
      BY <1>2, <2>4 DEF CommitReview, CommitResume, LockInv, TypeOK
    <3>2. Low(balance'[c]) => Low(balance[c])
      BY <2>1, <2>2 DEF Low
    <3>3. QED
      BY <3>1, <3>2
  <2>5. QED
    BY <2>3, <2>4
<1>3. ASSUME NEW h \in Hooks, NEW d \in Customers, NEW amount \in Credits,
             CreditWallet(h, d, amount)
      PROVE  Low(balance'[c]) => blocked'[c]
  <2>1. amount \in Nat /\ balance[c] \in Nat /\ Threshold \in Nat
    BY <1>3, MealStopAssumption DEF LockInv, TypeOK
  <2>2. QED
    BY <1>3, <2>1 DEF CreditWallet, LockInv, TypeOK, Low
<1>4. ASSUME NEW d \in Customers, CronStops(d)
      PROVE  Low(balance'[c]) => blocked'[c]
  BY <1>4 DEF CronStops, LockInv, TypeOK
<1>5. CASE CronCommits
  BY <1>5 DEF CronCommits, CommitResume, HalfLocked, LockInv, ProfileLocks, TypeOK
<1>6. ASSUME NEW h \in Hooks, HookClearsFlag(h)
      PROVE  Low(balance'[c]) => blocked'[c]
  BY <1>6 DEF HookClearsFlag, UnlockedWrite, HalfLocked, LockInv, TypeOK
<1>7. ASSUME NEW d \in Customers, SaveProfile(d)
      PROVE  Low(balance'[c]) => blocked'[c]
  BY <1>7 DEF SaveProfile, UnlockedWrite, HalfLocked, LockInv, TypeOK
<1>8. ASSUME NEW d \in Customers, NEW amount \in Debits,
             TakeBack(d, amount) \/ Spend(d, amount)
      PROVE  Low(balance'[c]) => blocked'[c]
  <2>1. c # d
    BY <1>8 DEF HalfLocked, WalletOnly
  <2>2. balance'[c] = balance[c] /\ blocked' = blocked
    BY <1>8, <2>1 DEF TakeBack, Spend, Debited, LockInv, TypeOK
  <2>3. QED
    BY <2>2
<1>9. ASSUME NEW d \in Customers, NEW amount \in Debits, PayFee(d, amount)
      PROVE  Low(balance'[c]) => blocked'[c]
  BY <1>9 DEF PayFee, Debited, LockInv, TypeOK, Low
<1>10. QED
  BY <1>1, <1>2, <1>3, <1>4, <1>5, <1>6, <1>7, <1>8, <1>9, FlagWriters

\* While somebody holds a profile, no charge makes that customer's wallet low.
LEMMA StepWaitsForProfile ==
  ASSUME LockInv, Next, NEW c \in Customers, profiles[c] # Free, ~Low(balance[c]),
         ~WalletOnly(c)
  PROVE  ~Low(balance'[c])
<1>1. ASSUME NEW s \in Slots, DeliverMeal(s)
      PROVE  ~Low(balance'[c])
  BY <1>1, MealStopAssumption DEF DeliverMeal, AfterMeal, LockInv, TypeOK, Low
<1>2. ASSUME NEW d \in Customers, CommitReview(d)
      PROVE  ~Low(balance'[c])
  <2>1. review[d].amount \in Nat /\ balance[c] \in Nat /\ Threshold \in Nat
    <3>1. review[d].amount \in Credits \cup {0}
      BY <1>2 DEF LockInv, TypeOK, ReviewStates
    <3>2. balance[c] \in Nat
      BY MealStopAssumption DEF LockInv, TypeOK
    <3>3. QED
      BY <3>1, <3>2, AmountsAreNaturals, MealStopAssumption
  <2>2. balance'[c] = IF c = d THEN balance[d] + review[d].amount ELSE balance[c]
    BY <1>2 DEF CommitReview, LockInv, TypeOK
  <2>3. QED
    BY <2>1, <2>2 DEF Low
<1>3. ASSUME NEW h \in Hooks, NEW d \in Customers, NEW amount \in Credits,
             CreditWallet(h, d, amount)
      PROVE  ~Low(balance'[c])
  <2>1. amount \in Nat /\ balance[c] \in Nat /\ Threshold \in Nat
    BY <1>3, MealStopAssumption DEF LockInv, TypeOK
  <2>2. QED
    BY <1>3, <2>1 DEF CreditWallet, LockInv, TypeOK, Low
<1>4. ASSUME NEW d \in Customers, NEW amount \in Debits,
             TakeBack(d, amount) \/ Spend(d, amount)
      PROVE  ~Low(balance'[c])
  <2>1. c # d
    BY <1>4 DEF WalletOnly
  <2>2. QED
    BY <1>4, <2>1 DEF TakeBack, Spend, Debited, LockInv, TypeOK
<1>5. ASSUME NEW d \in Customers, NEW amount \in Debits, PayFee(d, amount)
      PROVE  ~Low(balance'[c])
  BY <1>5 DEF PayFee, Debited, LockInv, TypeOK, Low
<1>6. ASSUME \/ UNCHANGED <<balance, blocked>>
             \/ \E d \in Customers : CronStops(d) \/ SaveProfile(d)
             \/ \E h \in Hooks : HookClearsFlag(h)
             \/ CronCommits
      PROVE  ~Low(balance'[c])
  BY <1>6 DEF CronStops, SaveProfile, HookClearsFlag, CronCommits
<1>7. QED
  BY <1>1, <1>2, <1>3, <1>4, <1>5, <1>6, FlagWriters

\* A step that holds wallet and profile leaves no low customer unstopped, and a
\* charge waits for a resume to end (evaluate_meal_stop_after_debit,
\* approve_recharge, run_wallet_threshold_check).
THEOREM LowStaysStopped == Spec => LockedStepsStopTheLow
<1>1. LockInv /\ [Next]_vars =>
        [\A c \in Customers :
           /\ (Low(balance[c]) => blocked[c]) =>
                (Low(balance'[c]) => blocked'[c]) \/ HalfLocked(c)
           /\ profiles[c] # Free /\ ~Low(balance[c]) =>
                ~Low(balance'[c]) \/ WalletOnly(c)]_vars
  BY StepStopsTheLow, StepWaitsForProfile
<1>2. QED
  BY <1>1, LockInvariant, PTL DEF Spec, LockedStepsStopTheLow

-----------------------------------------------------------------------------
\* What a resume leaves of today's slots

\* A cutoff that has passed has passed.
LEMMA PastGrows == ASSUME Next PROVE past \subseteq past'
BY DEF Next, MarkStep, ReviewStep, HookStep, CronStep, PassCutoff, OpenMark, MarkSkipped,
       ChargeMeal, RefuseMeal, DeliverMeal, AbortMark, CreditReviewed, ReadStop, ClearStop,
       SkipReviewed, CommitReview, AbortReview, CreditWallet, HookReadsFlag, HookReadsBalance,
       HookClearsFlag, HookSkips, HookEnds, KillHook, CronReads, CronStops, CronPasses,
       CronLocks, CronDecides, CronSkips, CronCommits, CronEnds, AbortCron, KillCron,
       ReadProfile, SaveProfile, TakeBack, Spend, PayFee,
       Debited, locks

\* The steps after which the review of a customer may be skipping slots.
LEMMA ReviewSkips ==
  ASSUME LockInv, Next, NEW c \in Customers, review'[c].pc = "skipping"
  PROVE  \/ review'[c] = review[c]
         \/ ClearStop(c)
         \/ \E s \in Slots : SkipReviewed(c, s)
<1>1. review \in [Customers -> ReviewStates]
  BY DEF LockInv, TypeOK
<1>2. ASSUME NEW d \in Customers, NEW amount \in Credits, CreditReviewed(d, amount)
      PROVE  review'[c] = review[c]
  BY <1>1, <1>2 DEF CreditReviewed
<1>3. ASSUME NEW d \in Customers, ReviewStep(d)
      PROVE  \/ review'[c] = review[c]
             \/ ClearStop(c)
             \/ \E s \in Slots : SkipReviewed(c, s)
  <2>1. CASE d = c
    BY <1>1, <1>3, <2>1
    DEF ReviewStep, ReadStop, CommitReview, AbortReview, Idle, ReviewStates
  <2>2. CASE d # c
    BY <1>1, <1>3, <2>2
    DEF ReviewStep, ReadStop, ClearStop, SkipReviewed, CommitReview, AbortReview
  <2> QED BY <2>1, <2>2
<1>4. CASE UNCHANGED review
  BY <1>4
<1> QED
  BY <1>2, <1>3, <1>4
  DEF Next, MarkStep, HookStep, CronStep, PassCutoff, OpenMark, MarkSkipped,
      ChargeMeal, RefuseMeal, DeliverMeal, AbortMark, CreditWallet, HookReadsFlag,
      HookReadsBalance, HookClearsFlag, HookSkips, HookEnds, KillHook, CronReads, CronStops,
      CronPasses, CronLocks, CronDecides, CronSkips, CronCommits, CronEnds, AbortCron,
      KillCron, ReadProfile, SaveProfile, TakeBack, Spend, PayFee, Debited

\* The steps after which the threshold check may be skipping slots.
LEMMA CronSkipping ==
  ASSUME LockInv, Next, cron'.pc = "skipping"
  PROVE  cron' = cron \/ CronDecides \/ \E s \in Slots : CronSkips(s)
<1>1. cron \in CronStates
  BY DEF LockInv, TypeOK
<1>2. CASE CronStep
  BY <1>1, <1>2
  DEF CronStep, CronReads, CronStops, CronPasses, CronLocks, CronCommits, CronEnds, AbortCron,
      CronStates
<1>3. CASE KillCron
  BY <1>1, <1>3 DEF KillCron, CronStates
<1>4. CASE UNCHANGED cron
  BY <1>4
<1> QED
  BY <1>2, <1>3, <1>4
  DEF Next, MarkStep, ReviewStep, HookStep, PassCutoff, OpenMark, MarkSkipped, ChargeMeal,
      RefuseMeal, DeliverMeal, AbortMark, CreditReviewed, ReadStop, ClearStop, SkipReviewed,
      CommitReview, AbortReview, CreditWallet, HookReadsFlag, HookReadsBalance,
      HookClearsFlag, HookSkips, HookEnds, KillHook, ReadProfile, SaveProfile, TakeBack, Spend, PayFee, Debited

\* A resume keeps the slots it has locked until it commits or ends.
LEMMA RowStaysLocked ==
  ASSUME LockInv, Next, NEW s \in Slots, rows[s] \in Customers \cup {Cron}
  PROVE  \/ rows'[s] = rows[s]
         \/ rows[s] \in Customers /\ review'[rows[s]].pc = "idle"
         \/ rows[s] = Cron /\ cron'.pc # "skipping"
<1>1. /\ rows[s] # Free /\ rows[s] # s
      /\ rows \in [Slots -> Holders \cup {Free}] /\ review \in [Customers -> ReviewStates]
      /\ cron \in CronStates
      /\ \A t \in Slots : mark[t] # "idle" => rows[t] = t
  BY MealStopAssumption DEF LockInv, TypeOK, SlotLocks
<1>2. ASSUME NEW t \in Slots, PassCutoff(t) \/ OpenMark(t) \/ MarkStep(t)
      PROVE  rows'[s] = rows[s]
  BY <1>1, <1>2
  DEF PassCutoff, OpenMark, MarkStep, MarkSkipped, ChargeMeal, RefuseMeal, DeliverMeal,
      AbortMark, ReleaseSlot, locks
<1>3. ASSUME NEW c \in Customers, NEW amount \in Credits, CreditReviewed(c, amount)
      PROVE  rows'[s] = rows[s]
  BY <1>3 DEF CreditReviewed
<1>4. ASSUME NEW c \in Customers, CommitReview(c) \/ AbortReview(c)
      PROVE  rows'[s] = rows[s] \/ (rows[s] \in Customers /\ review'[rows[s]].pc = "idle")
  BY <1>1, <1>4 DEF CommitReview, AbortReview, Release, Idle
<1>5. ASSUME NEW c \in Customers,
             \/ ReadStop(c) \/ ClearStop(c) \/ ReadProfile(c) \/ SaveProfile(c)
             \/ \E t \in Slots : SkipReviewed(c, t)
      PROVE  rows'[s] = rows[s]
  BY <1>1, <1>5
  DEF ReadStop, ClearStop, ReadProfile, SaveProfile, SkipReviewed, LockScheduled, locks
<1>6. ASSUME NEW h \in Hooks,
             \/ HookStep(h) \/ KillHook(h)
             \/ \E c \in Customers, amount \in Credits : CreditWallet(h, c, amount)
      PROVE  rows'[s] = rows[s]
  BY <1>6
  DEF HookStep, KillHook, CreditWallet, HookReadsFlag, HookReadsBalance, HookClearsFlag,
      HookSkips, HookEnds, locks
<1>7. CASE CronCommits \/ AbortCron \/ KillCron
  <2>1. /\ rows'[s] = IF rows[s] = Cron THEN Free ELSE rows[s]
        /\ cron'.pc = "running" \/ cron'.pc = "idle"
    <3>1. CASE CronCommits
      BY <1>1, <3>1 DEF CronCommits, Release, CronStates
    <3>2. CASE AbortCron
      BY <1>1, <3>2 DEF AbortCron, Release, CronStates
    <3>3. CASE KillCron
      BY <1>1, <3>3 DEF KillCron, Release, CronStates
    <3> QED BY <1>7, <3>1, <3>2, <3>3
  <2> QED BY <2>1
<1>8. CASE CronReads \/ CronDecides \/ CronEnds
           \/ (\E c \in Customers : CronStops(c) \/ CronPasses(c) \/ CronLocks(c))
           \/ (\E t \in Slots : CronSkips(t))
  BY <1>1, <1>8
  DEF CronReads, CronDecides, CronEnds, CronStops, CronPasses, CronLocks, CronSkips,
      LockScheduled, locks
<1>9. ASSUME NEW c \in Customers, NEW amount \in Debits,
             TakeBack(c, amount) \/ Spend(c, amount) \/ PayFee(c, amount)
      PROVE  rows'[s] = rows[s]
  BY <1>9, DebitMoves
<1> QED
  BY <1>2, <1>3, <1>4, <1>5, <1>6, <1>7, <1>8, <1>9 DEF Next, ReviewStep, CronStep

\* What a resume still has to do it does before it commits.
LEMMA SettledStays ==
  ASSUME LockInv, Next, NEW s \in Slots, NEW holder \in Customers \cup {Cron},
         rows[s] = holder \/ slot[s] # "scheduled",
         holder \in Customers => review'[holder].pc = "skipping",
         holder = Cron => cron'.pc = "skipping"
  PROVE  rows'[s] = holder \/ slot'[s] # "scheduled"
BY DecidedStays, RowStaysLocked

\* A resume goes on knowing the slots it has to skip.
LEMMA ResumesSeeLateKept ==
  ASSUME LockInv, ResumesSeeLate, Next
  PROVE  ResumesSeeLate'
<1>1. Slots \ Later \subseteq past'
  BY PastGrows DEF ResumesSeeLate
<1>2. ASSUME NEW c \in Customers, NEW s \in Slots \ Later,
             review'[c].pc = "skipping", Owner[s] = c
      PROVE  Settled(s, c, review[c].todo)'
  <2>0. review \in [Customers -> ReviewStates] /\ s \in past /\ c # Cron
    BY <1>2, MealStopAssumption DEF LockInv, TypeOK, ResumesSeeLate
  <2>1. CASE review'[c] = review[c]
    <3>1. Settled(s, c, review[c].todo)
      BY <1>2, <2>1 DEF ResumesSeeLate
    <3> QED BY <1>2, <2>0, <2>1, <3>1, SettledStays DEF Settled
  <2>2. CASE ClearStop(c)
    BY <1>2, <2>0, <2>2 DEF ClearStop, LateSlots, Settled, ReviewStates
  <2>3. ASSUME NEW t \in Slots, SkipReviewed(c, t)
        PROVE  Settled(s, c, review[c].todo)'
    <3>1. /\ review[c].pc = "skipping" /\ review'[c].todo = review[c].todo \ {t}
          /\ rows'[t] = c \/ slot'[t] # "scheduled"
      BY <2>0, <2>3 DEF SkipReviewed, LockScheduled, ReviewStates, LockInv, TypeOK
    <3>2. Settled(s, c, review[c].todo)
      BY <1>2, <3>1 DEF ResumesSeeLate
    <3> QED BY <1>2, <2>0, <3>1, <3>2, SettledStays DEF Settled
  <2> QED BY <1>2, <2>1, <2>2, <2>3, ReviewSkips
<1>3. ASSUME NEW s \in Slots \ Later, cron'.pc = "skipping", Owner[s] = cron'.at
      PROVE  Settled(s, Cron, cron.todo)'
  <2>0. cron \in CronStates /\ s \in past /\ Cron \notin Customers
    BY <1>3, MealStopAssumption DEF LockInv, TypeOK, ResumesSeeLate
  <2>1. CASE cron' = cron
    <3>1. Settled(s, Cron, cron.todo)
      BY <1>3, <2>1 DEF ResumesSeeLate
    <3> QED BY <1>3, <2>0, <2>1, <3>1, SettledStays DEF Settled
  <2>2. CASE CronDecides
    <3>1. cron' = [cron EXCEPT !.pc = "skipping", !.todo = LateSlots(cron.at)]
      BY <1>3, <2>0, <2>2 DEF CronDecides, CronStates
    <3>2. cron'.at = cron.at /\ cron'.todo = LateSlots(cron.at)
      BY <2>0, <3>1 DEF CronStates
    <3> QED BY <1>3, <2>0, <3>2 DEF LateSlots, Settled
  <2>3. ASSUME NEW t \in Slots, CronSkips(t)
        PROVE  Settled(s, Cron, cron.todo)'
    <3>1. /\ cron.pc = "skipping" /\ cron'.at = cron.at /\ cron'.todo = cron.todo \ {t}
          /\ rows'[t] = Cron \/ slot'[t] # "scheduled"
      BY <2>0, <2>3 DEF CronSkips, LockScheduled, CronStates, LockInv, TypeOK
    <3>2. Settled(s, Cron, cron.todo)
      BY <1>3, <3>1 DEF ResumesSeeLate
    <3> QED BY <1>3, <2>0, <3>1, <3>2, SettledStays DEF Settled
  <2> QED BY <1>3, <2>1, <2>2, <2>3, CronSkipping
<1> QED BY <1>1, <1>2, <1>3 DEF ResumesSeeLate

\* A locked resume leaves none of today's late slots scheduled.
LEMMA StepSkipsTheLate ==
  ASSUME LockInv, ResumesSeeLate, Next, NEW s \in Slots \ Later,
         slot[s] = "scheduled", blocked[Owner[s]], ~blocked'[Owner[s]],
         ~UnlockedWrite(Owner[s])
  PROVE  slot'[s] # "scheduled"
<1> DEFINE c == Owner[s]
<1>0. /\ c \in Customers /\ blocked \in [Customers -> BOOLEAN] /\ c # Cron /\ c # Free
      /\ Cron # Free
  BY MealStopAssumption DEF LockInv, TypeOK
<1>1. ASSUME NEW d \in Customers, CommitReview(d)
      PROVE  slot'[s] # "scheduled"
  <2>1. profiles[c] = d
    BY <1>0, <1>1 DEF CommitReview, CommitResume
  <2>2. d = c /\ review[c].pc = "skipping" /\ review[c].todo = {}
    BY <1>0, <1>1, <2>1, MealStopAssumption DEF LockInv, ProfileLocks, CommitReview
  <2>3. rows[s] = c
    BY <1>0, <2>2 DEF ResumesSeeLate, Settled
  <2> QED BY <1>1, <2>2, <2>3 DEF CommitReview, CommitResume
<1>2. CASE CronCommits
  <2>1. profiles[c] = Cron
    BY <1>0, <1>2 DEF CronCommits, CommitResume
  <2>2. cron.at = c /\ cron.pc = "skipping" /\ cron.todo = {}
    BY <1>0, <1>2, <2>1 DEF LockInv, ProfileLocks, CronCommits
  <2>3. rows[s] = Cron
    BY <1>0, <2>2 DEF ResumesSeeLate, Settled
  <2> QED BY <1>2, <2>3 DEF CronCommits, CommitResume
<1>3. ASSUME NEW t \in Slots, DeliverMeal(t) PROVE FALSE
  BY <1>0, <1>3 DEF DeliverMeal
<1>4. ASSUME NEW d \in Customers, CronStops(d) PROVE FALSE
  BY <1>0, <1>4 DEF CronStops
<1>5. ASSUME NEW d \in Customers, SaveProfile(d) PROVE FALSE
  BY <1>0, <1>5 DEF SaveProfile, UnlockedWrite
<1>6. ASSUME NEW h \in Hooks, HookClearsFlag(h) PROVE FALSE
  BY <1>0, <1>6 DEF HookClearsFlag, UnlockedWrite
<1>7. ASSUME NEW h \in Hooks, NEW d \in Customers, NEW amount \in Credits,
             CreditWallet(h, d, amount)
      PROVE  FALSE
  BY <1>0, <1>7 DEF CreditWallet
<1>8. ASSUME NEW d \in Customers, NEW amount \in Debits,
             TakeBack(d, amount) \/ Spend(d, amount) \/ PayFee(d, amount)
      PROVE  FALSE
  BY <1>0, <1>8 DEF TakeBack, Spend, PayFee, Low
<1> QED
  BY <1>0, <1>1, <1>2, <1>3, <1>4, <1>5, <1>6, <1>7, <1>8, FlagWriters

\* What a resume under way still has to skip is never forgotten, for every
\* interleaving with markings, callbacks, deadlocks and crashes.
THEOREM LateInvariant == Spec => []ResumesSeeLate
<1>1. Init => ResumesSeeLate
  BY DEF Init, Idle, ResumesSeeLate
<1>2. LockInv /\ ResumesSeeLate /\ [Next]_vars => ResumesSeeLate'
  <2>1. ASSUME ResumesSeeLate, UNCHANGED vars PROVE ResumesSeeLate'
    BY <2>1 DEF vars, locks, ResumesSeeLate, Settled
  <2> QED BY <2>1, ResumesSeeLateKept
<1> QED BY <1>1, <1>2, LockInvariant, PTL DEF Spec

\* A meal that was left out is not asked for when its customer is resumed under
\* the locks (system_skip_past_cutoff_deliveries_for_customer).
THEOREM NoMealComesLate == Spec => NoLateMeals
<1>1. LockInv /\ ResumesSeeLate /\ [Next]_vars =>
        [\A s \in Slots \ Later :
           (slot[s] = "scheduled" /\ blocked[Owner[s]] /\ ~blocked'[Owner[s]])
              => slot'[s] # "scheduled" \/ UnlockedWrite(Owner[s])]_vars
  BY StepSkipsTheLate
<1> QED BY <1>1, LockInvariant, LateInvariant, PTL DEF Spec, NoLateMeals
=============================================================================
