---------------------------- MODULE ReferralProofs ----------------------------
(***************************************************************************)
(* Theorems about Referral, for any customers, meals, rates and numbers of *)
(* workers: decisions about commissions stand, a commission means that     *)
(* both ate, a meal that was charged is marked, and the money is explained *)
(* to the last paisa.                                                      *)
(*                                                                         *)
(* The first inductive invariant, Inv, is about locks and decisions.  The  *)
(* second, Accounts, is about money: what an open transaction will move    *)
(* when it commits is the sum of its decisions, and the wallets it has     *)
(* locked can still move it.                                               *)
(***************************************************************************)
EXTENDS Referral, SumsProofs

-----------------------------------------------------------------------------
\* The inductive invariant

Trying == {"claim", "assess", "pay", "credit"}
Earned == {"pending", "success", "failed", "reversed"}

\* The meals that are eaten, for a transaction that sees its own mark.
EatenIn(t) == delivered \cup (IF t.kind = "mark" THEN {t.slot} ELSE {})

\* What the kind of a transaction says of its step.
Placed(t) ==
  /\ t.kind = "mark" => t.pc \notin {"debit", "refund"}
  /\ (t.kind = "mark" /\ t.pc # "idle") =>
       t.slot \in Slots /\ standing[Eater(t.slot)] # "unknown"
  /\ t.kind = "retry" => t.pc \in Trying \cup {"commit"}
  /\ t.kind \in {"fund", "reverse"} => t.pc \in {"debit", "refund"}
  /\ t.kind = "reverse" =>
       t.slot \in Slots /\ Row(t.slot) \in t.locks /\ row[t.slot].status = "success"

\* The slot a transaction is deciding about, and the ones it will look at.
Aimed(t) ==
  /\ t.pc = "charge" =>
       /\ t.kind = "mark" /\ t.target = t.slot /\ t.writes = {} /\ t.queue = {}
       /\ Slot(t.slot) \in t.locks
  /\ t.pc = "idle" => t.kind = "mark" /\ t.writes = {}
  /\ t.pc \in Trying => t.target \in Slots /\ t.target \in EatenIn(t)
  /\ t.pc \in {"assess", "pay", "credit"} => Slot(t.target) \in t.locks
  /\ t.pc \in {"pay", "credit", "debit", "refund"} => t.payee \in Customers
  /\ t.queue \subseteq delivered

\* A decision is written under the lock of its slot, and of a row that is open.
Decided(t) ==
  \A x \in t.writes :
    /\ Slot(x.slot) \in t.locks /\ ~Settled(row[x.slot])
    /\ x.status = "pending" => t.pc \in {"pay", "credit"}
    /\ (t.kind = "mark" /\ t.pc \in Trying /\ x.status # "pending")
         => Slot(x.slot) \in t.saved
    /\ x.status \in Earned =>
         x.slot \in EatenIn(t) /\ SameMeal(referrer[Eater(x.slot)], x.slot) \in EatenIn(t)

Sound(t) ==
  /\ t.saved \subseteq t.locks
  /\ Placed(t) /\ Aimed(t) /\ Decided(t)

Shaped ==
  /\ standing \in [Customers -> {"unknown", "without", "with", "after"}]
  /\ referrer \in [Customers -> Customers \cup {Nobody}]
  /\ rate \in Rates
  /\ delivered \in SUBSET Slots
  /\ row \in [Slots -> [status : Statuses, amount : Nat]]
  /\ tx \in [Workers -> Transactions]

\* A lock is one transaction's.
Exclusive ==
  \A v, w \in Workers : v # w => tx[v].locks \cap tx[w].locks = {}

EatersKnown == \A s \in delivered : standing[Eater(s)] # "unknown"

Inv ==
  /\ Shaped /\ Exclusive /\ EatersKnown /\ PaidWhenBothAte
  /\ \A w \in Workers : Sound(tx[w])

-----------------------------------------------------------------------------
\* Slots, locks and the idle transaction

\* The meal of a slot is somebody's.
LEMMA SlotLemma ==
  ASSUME NEW s \in Slots
  PROVE  Eater(s) \in Customers
BY DEF Slots, Eater

\* Different things have different locks.
LEMMA LockLemma ==
  /\ \A s, t : Slot(s) = Slot(t) => s = t
  /\ \A s, t : Row(s) = Row(t) => s = t
  /\ \A s, t : Row(s) # Slot(t)
<1>1. \A s : Slot(s).kind = "slot" /\ Slot(s).of = s
  BY DEF Slot
<1>2. \A s : Row(s).kind = "row" /\ Row(s).of = s
  BY DEF Row
<1> QED BY <1>1, <1>2

\* Slots, rows, purses and the platform's wallet are what is locked.
LEMMA LockTypes ==
  /\ \A s \in Slots : Slot(s) \in Locks /\ Row(s) \in Locks
  /\ \A c \in Customers : Purse(c) \in Locks
  /\ Admin \in Locks
BY DEF Locks

\* A process at rest is a sound transaction.
LEMMA IdleLemma ==
  /\ Idle \in Transactions /\ Idle.locks = {} /\ Idle.pc = "idle"
  /\ Sound(Idle)
<1>1. Idle \in Transactions /\ Idle.locks = {} /\ Idle.pc = "idle"
  BY DEF Idle, Transactions, Kinds, Steps
<1>2. Sound(Idle)
  BY DEF Idle, Sound, Placed, Aimed, Decided, Trying
<1> QED BY <1>1, <1>2

\* Every transaction is one, and sound.
LEMMA TxLemma ==
  ASSUME Inv, NEW w \in Workers
  PROVE  tx[w] \in Transactions /\ Sound(tx[w])
BY DEF Inv, Shaped

\* A step of one process leaves the others where they are.
LEMMA ContinueLemma ==
  ASSUME Shaped, NEW w \in Workers, NEW t \in Transactions, Continue(w, t)
  PROVE  /\ tx' \in [Workers -> Transactions] /\ tx'[w] = t
         /\ \A v \in Workers : v # w => tx'[v] = tx[v]
BY DEF Shaped, Continue

\* The invariant holds before anybody has signed up.
LEMMA InitInv == Init => Inv
<1> SUFFICES ASSUME Init PROVE Inv
  OBVIOUS
<1>1. Shaped
  <2>1. standing \in [Customers -> {"unknown", "without", "with", "after"}]
    BY DEF Init
  <2>2. referrer \in [Customers -> Customers \cup {Nobody}] /\ rate \in Rates
    BY DEF Init
  <2>3. row \in [Slots -> [status : Statuses, amount : Nat]]
    BY DEF Init, NoRow, Statuses
  <2>4. tx \in [Workers -> Transactions]
    BY IdleLemma DEF Init
  <2> QED BY <2>1, <2>2, <2>3, <2>4 DEF Init, Shaped
<1>2. \A w \in Workers : tx[w] = Idle
  BY DEF Init
<1>3. Exclusive
  BY <1>2, IdleLemma DEF Exclusive
<1>4. EatersKnown /\ PaidWhenBothAte
  BY DEF Init, EatersKnown, PaidWhenBothAte, NoRow
<1> QED BY <1>1, <1>2, <1>3, <1>4, IdleLemma DEF Inv

-----------------------------------------------------------------------------
\* Steps that change no row and no mark

\* A step of one transaction that leaves what it is about alone.
LEMMA StepLemma ==
  ASSUME Inv, NEW w \in Workers, NEW t \in Transactions, Continue(w, t), Sound(t),
         \A v \in Workers : v # w => tx[v].locks \cap t.locks = {},
         UNCHANGED <<standing, referrer, rate, delivered, row>>
  PROVE  Inv' /\ tx'[w] = t
<1>1. /\ tx' \in [Workers -> Transactions] /\ tx'[w] = t
      /\ \A v \in Workers : v # w => tx'[v] = tx[v]
  BY ContinueLemma DEF Inv
<1>2. \A u : Sound(u) => Sound(u)'
  BY DEF Sound, Placed, Aimed, Decided, EatenIn
<1>3. \A v \in Workers : Sound(tx'[v])
  BY <1>1 DEF Inv
<1>4. \A v \in Workers : Sound(tx[v])'
  BY <1>3 DEF Sound, Placed, Aimed, Decided, EatenIn
<1>5. Exclusive'
  BY <1>1 DEF Inv, Exclusive
<1>6. Shaped' /\ EatersKnown' /\ PaidWhenBothAte'
  BY <1>1 DEF Inv, Shaped, EatersKnown, PaidWhenBothAte
<1> QED BY <1>1, <1>4, <1>5, <1>6 DEF Inv

\* What a transaction holds already, others do not.
LEMMA HeldLemma ==
  ASSUME Inv, NEW w \in Workers, NEW held, held \subseteq tx[w].locks
  PROVE  \A v \in Workers : v # w => tx[v].locks \cap held = {}
BY DEF Inv, Exclusive

\* Nor what it takes when it is free.
LEMMA TakeLemma ==
  ASSUME Inv, NEW w \in Workers, NEW lock, Free(w, lock)
  PROVE  \A v \in Workers : v # w => tx[v].locks \cap (tx[w].locks \cup {lock}) = {}
BY DEF Inv, Exclusive, Free

\* A transaction that ends with nothing done.
LEMMA EndLemma ==
  ASSUME Inv, NEW w \in Workers, Continue(w, Idle),
         UNCHANGED <<standing, referrer, rate, delivered, row>>
  PROVE  Inv'
BY IdleLemma, StepLemma

\* Locking the slot to mark keeps the invariant.
LEMMA MarkInv ==
  ASSUME Inv, NEW w \in Workers, NEW s \in Slots, Mark(w, s)
  PROVE  Inv'
<1> DEFINE t == [Idle EXCEPT !.kind = "mark", !.pc = "charge", !.slot = s,
                             !.target = s, !.locks = {Slot(s)}]
<1>0. t = [Idle EXCEPT !.kind = "mark", !.pc = "charge", !.slot = s,
                       !.target = s, !.locks = {Slot(s)}]
  OBVIOUS
<1> HIDE DEF t
<1>1. t = [kind |-> "mark", pc |-> "charge", slot |-> s, target |-> s, payee |-> Nobody,
           queue |-> {}, writes |-> {}, given |-> 0, earned |-> 0,
           locks |-> {Slot(s)}, saved |-> {}]
  BY <1>0 DEF Idle
<1>2. t \in Transactions
  BY <1>1, LockTypes DEF Transactions, Kinds, Steps
<1>3. Sound(t)
  BY <1>1, Zenon DEF Mark, Sound, Placed, Aimed, Decided, Trying
<1>4. \A v \in Workers : v # w => tx[v].locks \cap t.locks = {}
  BY <1>1 DEF Mark, Free
<1>5. Continue(w, t) /\ UNCHANGED <<standing, referrer, rate, delivered, row>>
  BY DEF Mark, settings, books, t
<1> QED BY <1>2, <1>3, <1>4, <1>5, StepLemma

\* Charging the meal keeps the invariant.
LEMMA ChargeInv ==
  ASSUME Inv, NEW w \in Workers, Charge(w)
  PROVE  Inv'
<1> DEFINE c == Eater(tx[w].slot)
           held == tx[w].locks \cup {Purse(c)}
           t == [tx[w] EXCEPT !.pc = IF referrer[c] = Nobody THEN "look" ELSE "assess",
                              !.locks = held, !.saved = held]
<1>1. tx[w] \in Transactions /\ Sound(tx[w]) /\ tx[w].pc = "charge"
  BY TxLemma DEF Charge
<1>2. tx[w].kind = "mark" /\ tx[w].slot \in Slots /\ tx[w].target = tx[w].slot
      /\ tx[w].writes = {} /\ tx[w].queue = {} /\ Slot(tx[w].slot) \in tx[w].locks
      /\ standing[c] # "unknown"
  BY <1>1 DEF Sound, Aimed, Placed
<1>3. c \in Customers
  BY <1>2, SlotLemma
<1>0. t = [tx[w] EXCEPT !.pc = IF referrer[c] = Nobody THEN "look" ELSE "assess",
                        !.locks = held, !.saved = held]
  OBVIOUS
<1> HIDE DEF t
<1>4. t = [kind |-> tx[w].kind, pc |-> IF referrer[c] = Nobody THEN "look" ELSE "assess",
           slot |-> tx[w].slot, target |-> tx[w].target, payee |-> tx[w].payee,
           queue |-> tx[w].queue, writes |-> tx[w].writes, given |-> tx[w].given,
           earned |-> tx[w].earned, locks |-> held, saved |-> held]
  BY <1>0, <1>1 DEF Transactions
<1>5. held \subseteq Locks
  BY <1>1, <1>3, LockTypes DEF Transactions
<1>6. t \in Transactions
  BY <1>1, <1>4, <1>5 DEF Transactions, Steps
<1>7. Sound(t)
  BY <1>2, <1>4 DEF Sound, Placed, Aimed, Decided, Trying, EatenIn
<1>8. \A v \in Workers : v # w => tx[v].locks \cap t.locks = {}
  BY <1>4, TakeLemma DEF Charge
<1>9. Continue(w, t) \/ Continue(w, Idle)
  BY DEF Charge, t
<1>10. UNCHANGED <<standing, referrer, rate, delivered, row>>
  BY DEF Charge, settings, books
<1> QED BY <1>6, <1>7, <1>8, <1>9, <1>10, StepLemma, EndLemma

\* Locking the row of a commission keeps the invariant.
LEMMA ClaimInv ==
  ASSUME Inv, NEW w \in Workers, Claim(w)
  PROVE  Inv'
<1> DEFINE t == [tx[w] EXCEPT !.pc = "assess",
                              !.locks = tx[w].locks \cup {Slot(tx[w].target)}]
<1>1. tx[w] \in Transactions /\ Sound(tx[w]) /\ tx[w].pc = "claim"
  BY TxLemma DEF Claim
<1>2. tx[w].target \in Slots
  BY <1>1 DEF Sound, Aimed, Trying
<1>0. t = [tx[w] EXCEPT !.pc = "assess",
                        !.locks = tx[w].locks \cup {Slot(tx[w].target)}]
  OBVIOUS
<1> HIDE DEF t
<1>3. t = [kind |-> tx[w].kind, pc |-> "assess", slot |-> tx[w].slot,
           target |-> tx[w].target, payee |-> tx[w].payee, queue |-> tx[w].queue,
           writes |-> tx[w].writes, given |-> tx[w].given, earned |-> tx[w].earned,
           locks |-> tx[w].locks \cup {Slot(tx[w].target)}, saved |-> tx[w].saved]
  BY <1>0, <1>1 DEF Transactions
<1>4. t \in Transactions
  BY <1>1, <1>2, <1>3, LockTypes DEF Transactions, Steps
<1>5. Sound(t)
  BY <1>1, <1>2, <1>3 DEF Sound, Placed, Aimed, Decided, Trying, EatenIn
<1>6. \A v \in Workers : v # w => tx[v].locks \cap t.locks = {}
  BY <1>3, TakeLemma DEF Claim
<1>7. Continue(w, t) /\ UNCHANGED <<standing, referrer, rate, delivered, row>>
  BY DEF Claim, settings, books, t
<1> QED BY <1>4, <1>5, <1>6, <1>7, StepLemma

\* The locks of a transaction that has looked at its commission.
HeldToAssess(w) ==
  IF row[tx[w].target].status = "none" THEN tx[w].locks
  ELSE tx[w].locks \cup {Row(tx[w].target)}

\* What a transaction takes when it looks at the row of its slot.
LEMMA HoldsRowLemma ==
  ASSUME Inv, NEW w \in Workers, Assess(w)
  PROVE  /\ tx[w].locks \subseteq HeldToAssess(w) /\ HeldToAssess(w) \subseteq Locks
         /\ \A v \in Workers : v # w => tx[v].locks \cap HeldToAssess(w) = {}
<1>1. tx[w] \in Transactions /\ Sound(tx[w]) /\ tx[w].pc = "assess"
  BY TxLemma DEF Assess
<1>2. tx[w].target \in Slots /\ tx[w].locks \subseteq Locks
  BY <1>1 DEF Sound, Aimed, Trying, Transactions
<1>3. Row(tx[w].target) \in Locks
  BY <1>2, LockTypes
<1>4. CASE row[tx[w].target].status = "none"
  BY <1>2, <1>4, HeldLemma DEF HeldToAssess
<1>5. CASE row[tx[w].target].status # "none"
  <2>1. Free(w, Row(tx[w].target))
    BY <1>5 DEF Assess
  <2> QED BY <1>2, <1>3, <1>5, <2>1, TakeLemma DEF HeldToAssess
<1> QED BY <1>4, <1>5

\* How a transaction goes on from its decision.
Assessed(w, held, pc, payee, writes) ==
  [tx[w] EXCEPT !.pc = pc, !.locks = held, !.payee = payee, !.writes = writes]

\* A decision about the slot at hand, or none, and where it leads.
Decision(w, pc, writes) ==
  \/ writes = tx[w].writes /\ pc = Onward(w)
  \/ \E status \in {"closed", "waiting"} :
       writes = Write(w, status, 0) /\ pc = Onward(w) /\ ~Settled(row[tx[w].target])
  \/ /\ writes = Write(w, "pending", rate) /\ pc = "pay"
     /\ ~Settled(row[tx[w].target]) /\ EatenByBoth(w, tx[w].target)

\* What an assessment writes is a sound decision.
LEMMA AssessLemma ==
  ASSUME Inv, NEW w \in Workers, Assess(w),
         NEW held, tx[w].locks \subseteq held, held \subseteq Locks,
         NEW pc \in Steps, NEW payee \in Customers \cup {Nobody}, NEW writes,
         Decision(w, pc, writes), pc = "pay" => payee \in Customers
  PROVE  /\ Assessed(w, held, pc, payee, writes) \in Transactions
         /\ Sound(Assessed(w, held, pc, payee, writes))
         /\ Assessed(w, held, pc, payee, writes).locks = held
<1>0. PICK t : t = Assessed(w, held, pc, payee, writes)
  OBVIOUS
<1>1. tx[w] \in Transactions /\ Sound(tx[w]) /\ tx[w].pc = "assess"
  BY TxLemma DEF Assess
<1>2. tx[w].target \in Slots /\ tx[w].target \in EatenIn(tx[w])
      /\ Slot(tx[w].target) \in tx[w].locks
  BY <1>1 DEF Sound, Aimed, Trying
<1>3. t = [kind |-> tx[w].kind, pc |-> pc, slot |-> tx[w].slot,
           target |-> tx[w].target, payee |-> payee, queue |-> tx[w].queue,
           writes |-> writes, given |-> tx[w].given, earned |-> tx[w].earned,
           locks |-> held, saved |-> tx[w].saved]
  BY <1>0, <1>1 DEF Transactions, Assessed
<1>4. rate \in Nat
  BY ReferralAssumption DEF Inv, Shaped
<1>5. writes \subseteq Writes
  BY <1>1, <1>2, <1>4 DEF Transactions, Writes, Write, Statuses, Decision
<1>6. t \in Transactions
  BY <1>1, <1>3, <1>5 DEF Transactions
<1>7. tx[w].kind \in {"mark", "retry"}
  BY <1>1 DEF Sound, Placed, Transactions, Kinds
<1>8. /\ pc \in {"look", "others", "commit", "pay"}
      /\ tx[w].kind = "retry" => pc \in {"commit", "pay"}
  BY <1>7 DEF Onward, Decision
<1>9. EatenIn(t) = EatenIn(tx[w]) /\ EatenIn(tx[w]) = Eaten(w)
  BY <1>3 DEF EatenIn, Eaten
<1>10. Placed(t)
  BY <1>1, <1>3, <1>7, <1>8 DEF Sound, Placed, Trying
<1>11. Aimed(t)
  BY <1>1, <1>2, <1>3, <1>8, <1>9 DEF Sound, Aimed, Trying
<1>12. \A x \in tx[w].writes :
         /\ Slot(x.slot) \in tx[w].locks /\ ~Settled(row[x.slot])
         /\ x.status # "pending"
         /\ tx[w].kind = "mark" => Slot(x.slot) \in tx[w].saved
         /\ x.status \in Earned =>
              x.slot \in EatenIn(t) /\ SameMeal(referrer[Eater(x.slot)], x.slot) \in EatenIn(t)
  BY <1>1, <1>9 DEF Sound, Decided, Trying
<1>13. \A x \in writes : x \in tx[w].writes \/
         /\ x.slot = tx[w].target /\ ~Settled(row[tx[w].target])
         /\ \/ x.status \in {"closed", "waiting"} /\ pc = Onward(w)
            \/ x.status = "pending" /\ pc = "pay" /\ EatenByBoth(w, tx[w].target)
  BY DEF Write, Decision
<1>14. pc = Onward(w) => pc \notin Trying
  BY <1>7 DEF Onward, Trying
<1>15. \A x \in writes :
         /\ Slot(x.slot) \in held /\ ~Settled(row[x.slot])
         /\ x.status = "pending" => pc = "pay"
         /\ (tx[w].kind = "mark" /\ pc \in Trying /\ x.status # "pending")
              => Slot(x.slot) \in tx[w].saved
         /\ x.status \in Earned =>
              x.slot \in EatenIn(t) /\ SameMeal(referrer[Eater(x.slot)], x.slot) \in EatenIn(t)
  BY <1>2, <1>9, <1>12, <1>13, <1>14 DEF EatenByBoth, Earned
<1>16. Decided(t)
  BY <1>3, <1>15 DEF Decided
<1>17. t.saved \subseteq t.locks
  BY <1>1, <1>3 DEF Sound
<1> QED BY <1>0, <1>3, <1>6, <1>10, <1>11, <1>16, <1>17 DEF Sound

\* Assessing a commission keeps the invariant.
LEMMA AssessInv ==
  ASSUME Inv, NEW w \in Workers, Assess(w)
  PROVE  Inv'
<1> DEFINE s == tx[w].target
<1>1. tx[w] \in Transactions /\ Sound(tx[w]) /\ tx[w].pc = "assess"
  BY TxLemma DEF Assess
<1>2. s \in Slots /\ tx[w].kind \in {"mark", "retry"}
  BY <1>1 DEF Sound, Aimed, Placed, Trying, Transactions, Kinds
<1>3. Onward(w) \in Steps /\ "pay" \in Steps
  BY <1>2 DEF Onward, Steps
<1>4. tx[w].payee \in Customers \cup {Nobody} /\ referrer[Eater(s)] \in Customers \cup {Nobody}
  BY <1>1, <1>2, SlotLemma DEF Transactions, Inv, Shaped
<1>5. PICK held : held = IF row[s].status = "none" THEN tx[w].locks
                         ELSE tx[w].locks \cup {Row(s)}
  OBVIOUS
<1>6. /\ tx[w].locks \subseteq held /\ held \subseteq Locks
      /\ \A v \in Workers : v # w => tx[v].locks \cap held = {}
  <2>1. held = HeldToAssess(w)
    BY <1>5 DEF HeldToAssess
  <2> HIDE DEF s
  <2> QED BY <2>1, HoldsRowLemma
<1>7. UNCHANGED <<standing, referrer, rate, delivered, row>>
  BY DEF Assess, settings, books
<1>8. ASSUME NEW u \in Transactions, Sound(u), u.locks = held, Continue(w, u)
      PROVE  Inv'
  BY <1>6, <1>7, <1>8, StepLemma
<1>9. \/ Settled(row[s]) /\ Continue(w, [tx[w] EXCEPT !.pc = Onward(w), !.locks = held])
      \/ /\ ~Settled(row[s])
         /\ \E status \in {"closed", "waiting"} :
              Continue(w, [tx[w] EXCEPT !.pc = Onward(w), !.locks = held,
                                        !.writes = Write(w, status, 0)])
      \/ /\ ~Settled(row[s]) /\ EatenByBoth(w, s)
         /\ Continue(w, [tx[w] EXCEPT !.pc = "pay", !.locks = held,
                                      !.payee = referrer[Eater(s)],
                                      !.writes = Write(w, "pending", rate)])
  BY <1>5, Zenon DEF Assess
<1>10. CASE Settled(row[s]) /\ Continue(w, [tx[w] EXCEPT !.pc = Onward(w), !.locks = held])
  <2> DEFINE t == Assessed(w, held, Onward(w), tx[w].payee, tx[w].writes)
  <2>1. t = [tx[w] EXCEPT !.pc = Onward(w), !.locks = held]
    BY <1>1 DEF Transactions, Assessed
  <2>2. Decision(w, Onward(w), tx[w].writes)
    BY DEF Decision
  <2>3. t \in Transactions /\ Sound(t) /\ t.locks = held
    BY <1>2, <1>3, <1>4, <1>6, <2>2, AssessLemma DEF Onward
  <2> QED BY <1>8, <1>10, <2>1, <2>3
<1>11. ASSUME ~Settled(row[s]), NEW status \in {"closed", "waiting"},
              Continue(w, [tx[w] EXCEPT !.pc = Onward(w), !.locks = held,
                                        !.writes = Write(w, status, 0)])
       PROVE  Inv'
  <2> DEFINE t == Assessed(w, held, Onward(w), tx[w].payee, Write(w, status, 0))
  <2>1. t = [tx[w] EXCEPT !.pc = Onward(w), !.locks = held, !.writes = Write(w, status, 0)]
    BY <1>1 DEF Transactions, Assessed
  <2>2. Decision(w, Onward(w), Write(w, status, 0))
    BY <1>11 DEF Decision
  <2>3. t \in Transactions /\ Sound(t) /\ t.locks = held
    BY <1>2, <1>3, <1>4, <1>6, <2>2, AssessLemma DEF Onward
  <2> QED BY <1>8, <1>11, <2>1, <2>3
<1>12. CASE /\ ~Settled(row[s]) /\ EatenByBoth(w, s)
            /\ Continue(w, [tx[w] EXCEPT !.pc = "pay", !.locks = held,
                                         !.payee = referrer[Eater(s)],
                                         !.writes = Write(w, "pending", rate)])
  <2> DEFINE t == Assessed(w, held, "pay", referrer[Eater(s)], Write(w, "pending", rate))
  <2>1. Decision(w, "pay", Write(w, "pending", rate))
    BY <1>12 DEF Decision
  <2>2. referrer[Eater(s)] \in Customers
    <3>1. SameMeal(referrer[Eater(s)], s) \in Slots
      BY <1>1, <1>12 DEF EatenByBoth, Eaten, Inv, Shaped, Sound, Placed
    <3> QED BY <3>1 DEF SameMeal, Slots
  <2>3. t \in Transactions /\ Sound(t) /\ t.locks = held
    BY <1>3, <1>4, <1>6, <2>1, <2>2, AssessLemma
  <2>4. Continue(w, t)
    BY <1>12 DEF Assessed
  <2> QED BY <1>8, <2>3, <2>4
<1> QED BY <1>9, <1>10, <1>11, <1>12

\* The savepoint of a mark is left with what was decided before it.
LEMMA GiveUpInv ==
  ASSUME Inv, NEW w \in Workers, tx[w].pc \in Trying, GiveUp(w),
         UNCHANGED <<standing, referrer, rate, delivered, row>>
  PROVE  Inv'
<1> DEFINE pc == IF tx[w].target = tx[w].slot THEN "commit" ELSE "others"
           t == [tx[w] EXCEPT !.pc = pc, !.writes = tx[w].writes \ Pending(w),
                              !.locks = tx[w].saved]
<1>1. tx[w] \in Transactions /\ Sound(tx[w])
  BY TxLemma
<1>2. tx[w].kind \in {"mark", "retry"}
  BY <1>1 DEF Sound, Placed, Trying, Transactions, Kinds
<1>3. CASE tx[w].kind = "retry"
  BY <1>3, EndLemma DEF GiveUp
<1>4. CASE tx[w].kind = "mark"
  <2>0. t = [tx[w] EXCEPT !.pc = pc, !.writes = tx[w].writes \ Pending(w),
                          !.locks = tx[w].saved]
    OBVIOUS
  <2>1. Continue(w, t)
    BY <1>4 DEF GiveUp
  <2> HIDE DEF t
  <2>2. t = [kind |-> tx[w].kind, pc |-> pc, slot |-> tx[w].slot,
             target |-> tx[w].target, payee |-> tx[w].payee, queue |-> tx[w].queue,
             writes |-> tx[w].writes \ Pending(w), given |-> tx[w].given,
             earned |-> tx[w].earned, locks |-> tx[w].saved, saved |-> tx[w].saved]
    BY <1>1, <2>0 DEF Transactions
  <2>3. t \in Transactions
    BY <1>1, <2>2 DEF Transactions, Steps
  <2>4. \A x \in tx[w].writes \ Pending(w) : x \in tx[w].writes /\ x.status # "pending"
    BY DEF Pending
  <2>5. Sound(t)
    BY <1>1, <1>4, <2>2, <2>4 DEF Sound, Placed, Aimed, Decided, Trying, EatenIn
  <2>6. \A v \in Workers : v # w => tx[v].locks \cap t.locks = {}
    BY <1>1, <2>2, HeldLemma DEF Sound
  <2> QED BY <2>1, <2>3, <2>5, <2>6, StepLemma
<1> QED BY <1>2, <1>3, <1>4

\* How a transaction goes on when a payment has come to an end.
Ended(w, status, held, given, earned) ==
  [tx[w] EXCEPT !.pc = Onward(w), !.locks = held, !.given = given, !.earned = earned,
                !.writes = Resolved(w, status)]

\* What a transaction at hand becomes once the commission is decided is sound.
LEMMA ResolveLemma ==
  ASSUME Inv, NEW w \in Workers, tx[w].pc \in {"pay", "credit"},
         NEW status \in {"success", "failed"},
         NEW held, tx[w].locks \subseteq held, held \subseteq Locks,
         NEW given \in Nat, NEW earned \in Nat
  PROVE  /\ Ended(w, status, held, given, earned) \in Transactions
         /\ Sound(Ended(w, status, held, given, earned))
         /\ Ended(w, status, held, given, earned).locks = held
<1>0. PICK t : t = Ended(w, status, held, given, earned)
  OBVIOUS
<1>1. tx[w] \in Transactions /\ Sound(tx[w])
  BY TxLemma
<1>2. tx[w].kind \in {"mark", "retry"}
  BY <1>1 DEF Sound, Placed, Transactions, Kinds
<1>3. /\ Onward(w) \in {"look", "others", "commit"}
      /\ tx[w].kind = "retry" => Onward(w) = "commit"
  BY <1>2 DEF Onward
<1>4. t = [kind |-> tx[w].kind, pc |-> Onward(w), slot |-> tx[w].slot,
           target |-> tx[w].target, payee |-> tx[w].payee, queue |-> tx[w].queue,
           writes |-> Resolved(w, status), given |-> given, earned |-> earned,
           locks |-> held, saved |-> tx[w].saved]
  BY <1>0, <1>1 DEF Transactions, Ended
<1>5. \A x \in Resolved(w, status) :
        /\ x \in Writes /\ x.status # "pending"
        /\ \E y \in tx[w].writes : /\ x.slot = y.slot
                                   /\ x.status \in Earned => y.status \in Earned
  <2> SUFFICES ASSUME NEW x \in Resolved(w, status)
               PROVE  /\ x \in Writes /\ x.status # "pending"
                      /\ \E y \in tx[w].writes :
                           x.slot = y.slot /\ (x.status \in Earned => y.status \in Earned)
    OBVIOUS
  <2>1. tx[w].writes \subseteq Writes
    BY <1>1 DEF Transactions
  <2>2. CASE x \in tx[w].writes \ Pending(w)
    BY <2>1, <2>2 DEF Pending
  <2>3. ASSUME NEW y \in Pending(w), x = [y EXCEPT !.status = status]
        PROVE  /\ x \in Writes /\ x.status # "pending"
               /\ \E z \in tx[w].writes :
                    x.slot = z.slot /\ (x.status \in Earned => z.status \in Earned)
    <3>1. y \in tx[w].writes /\ y \in Writes /\ y.status = "pending"
      BY <2>1 DEF Pending
    <3>2. x \in Writes /\ x.status = status /\ x.slot = y.slot
      BY <2>3, <3>1 DEF Writes, Statuses
    <3> QED BY <3>1, <3>2 DEF Earned
  <2>4. x \in tx[w].writes \ Pending(w) \/ \E y \in Pending(w) : x = [y EXCEPT !.status = status]
    BY DEF Resolved
  <2> QED BY <2>2, <2>3, <2>4
<1>6. t \in Transactions
  BY <1>1, <1>3, <1>4, <1>5 DEF Transactions, Steps
<1>7. EatenIn(t) = EatenIn(tx[w])
  BY <1>4 DEF EatenIn
<1>8. Placed(t) /\ Aimed(t)
  BY <1>1, <1>3, <1>4, <1>7 DEF Sound, Placed, Aimed, Trying
<1>9. Decided(t)
  <2>1. \A y \in tx[w].writes :
          /\ Slot(y.slot) \in tx[w].locks /\ ~Settled(row[y.slot])
          /\ y.status \in Earned =>
               /\ y.slot \in EatenIn(tx[w])
               /\ SameMeal(referrer[Eater(y.slot)], y.slot) \in EatenIn(tx[w])
    BY <1>1 DEF Sound, Decided
  <2> QED BY <1>3, <1>4, <1>5, <1>7, <2>1 DEF Decided, Trying
<1>10. t.saved \subseteq t.locks
  BY <1>1, <1>4 DEF Sound
<1> QED BY <1>0, <1>4, <1>6, <1>8, <1>9, <1>10 DEF Sound

\* What a pending commission is worth is a number.
LEMMA DueLemma ==
  ASSUME Inv, NEW w \in Workers
  PROVE  Due(w) \in Nat
<1>1. tx[w].writes \subseteq Writes
  BY TxLemma DEF Transactions
<1>2. Pending(w) \subseteq Writes
  BY <1>1 DEF Pending
<1>3. CASE Pending(w) = {}
  BY <1>3 DEF Due
<1>4. CASE Pending(w) # {}
  <2>1. (CHOOSE x \in Pending(w) : TRUE) \in Pending(w)
    BY <1>4
  <2>2. (CHOOSE x \in Pending(w) : TRUE) \in Writes
    BY <1>2, <2>1
  <2>3. (CHOOSE x \in Pending(w) : TRUE).amount \in Nat
    BY <2>2 DEF Writes
  <2> QED BY <1>4, <2>3 DEF Due
<1> QED BY <1>3, <1>4

\* Debiting the platform's wallet keeps the invariant.
LEMMA PayInv ==
  ASSUME Inv, NEW w \in Workers, Pay(w)
  PROVE  Inv'
<1>1. tx[w] \in Transactions /\ Sound(tx[w]) /\ tx[w].pc = "pay"
  BY TxLemma DEF Pay
<1>2. UNCHANGED <<standing, referrer, rate, delivered, row>>
  BY DEF Pay, settings, books
<1>3. ASSUME Continue(w, [tx[w] EXCEPT !.pc = "credit", !.locks = tx[w].locks \cup {Admin}])
      PROVE  Inv'
  <2>1. PICK t : t = [tx[w] EXCEPT !.pc = "credit", !.locks = tx[w].locks \cup {Admin}]
    OBVIOUS
  <2>2. t = [kind |-> tx[w].kind, pc |-> "credit", slot |-> tx[w].slot,
             target |-> tx[w].target, payee |-> tx[w].payee, queue |-> tx[w].queue,
             writes |-> tx[w].writes, given |-> tx[w].given, earned |-> tx[w].earned,
             locks |-> tx[w].locks \cup {Admin}, saved |-> tx[w].saved]
    BY <1>1, <2>1 DEF Transactions
  <2>3. t \in Transactions
    BY <1>1, <2>2, LockTypes DEF Transactions, Steps
  <2>4. Sound(t)
    BY <1>1, <2>2 DEF Sound, Placed, Aimed, Decided, Trying, EatenIn
  <2>5. \A v \in Workers : v # w => tx[v].locks \cap t.locks = {}
    BY <2>2, TakeLemma DEF Pay
  <2> QED BY <1>2, <1>3, <2>1, <2>3, <2>4, <2>5, StepLemma
<1>4. ASSUME Continue(w, [tx[w] EXCEPT !.pc = Onward(w), !.writes = Resolved(w, "failed")])
      PROVE  Inv'
  <2> DEFINE t == Ended(w, "failed", tx[w].locks, tx[w].given, tx[w].earned)
  <2>1. t = [tx[w] EXCEPT !.pc = Onward(w), !.writes = Resolved(w, "failed")]
    BY <1>1 DEF Transactions, Ended
  <2>2. tx[w].locks \subseteq Locks /\ tx[w].given \in Nat /\ tx[w].earned \in Nat
    BY <1>1 DEF Transactions
  <2>3. t \in Transactions /\ Sound(t) /\ t.locks = tx[w].locks
    BY <1>1, <2>2, ResolveLemma
  <2>4. Continue(w, t)
    BY <1>4, <2>1
  <2> HIDE DEF t
  <2>5. \A v \in Workers : v # w => tx[v].locks \cap t.locks = {}
    BY <2>3, HeldLemma
  <2> QED BY <1>2, <2>3, <2>4, <2>5, StepLemma
<1> QED BY <1>3, <1>4 DEF Pay

\* Crediting the referrer keeps the invariant.
LEMMA CreditInv ==
  ASSUME Inv, NEW w \in Workers, Credit(w)
  PROVE  Inv'
<1> DEFINE own == tx[w].kind = "mark" /\ tx[w].payee = Eater(tx[w].slot)
           held == tx[w].locks \cup {Purse(tx[w].payee)}
           given == tx[w].given + (IF own THEN 0 ELSE Due(w))
           earned == tx[w].earned + (IF own THEN Due(w) ELSE 0)
<1>1. tx[w] \in Transactions /\ Sound(tx[w]) /\ tx[w].pc = "credit"
  BY TxLemma DEF Credit
<1>2. UNCHANGED <<standing, referrer, rate, delivered, row>>
  BY DEF Credit, settings, books
<1>3. ASSUME GiveUp(w) PROVE Inv'
  BY <1>1, <1>2, <1>3, GiveUpInv DEF Trying
<1>4. ASSUME Creditable(w, tx[w].payee),
             Continue(w, [tx[w] EXCEPT !.pc = Onward(w), !.locks = held, !.given = given,
                                       !.earned = earned, !.writes = Resolved(w, "success")])
      PROVE  Inv'
  <2>1. tx[w].given \in Nat /\ tx[w].earned \in Nat /\ tx[w].locks \subseteq Locks
        /\ tx[w].payee \in Customers \cup {Nobody}
    BY <1>1 DEF Transactions
  <2>2. given \in Nat /\ earned \in Nat
    BY <2>1, DueLemma
  <2>3. Free(w, Purse(tx[w].payee))
    BY DEF Credit
  <2>4. tx[w].payee \in Customers
    BY <1>1 DEF Sound, Aimed
  <2>5. held \subseteq Locks /\ tx[w].locks \subseteq held
    BY <2>1, <2>4, LockTypes
  <2> DEFINE t == Ended(w, "success", held, given, earned)
  <2>6. Continue(w, t)
    BY <1>4 DEF Ended
  <2>7. \A v \in Workers : v # w => tx[v].locks \cap held = {}
    BY <2>3, TakeLemma
  <2> HIDE DEF own, held, given, earned
  <2>8. t \in Transactions /\ Sound(t) /\ t.locks = held
    BY <1>1, <2>2, <2>5, ResolveLemma
  <2> HIDE DEF t
  <2> QED BY <1>2, <2>6, <2>7, <2>8, StepLemma
<1> QED BY <1>3, <1>4 DEF Credit

\* Listing the commissions that wait for the meal keeps the invariant.
LEMMA LookInv ==
  ASSUME Inv, NEW w \in Workers, Look(w)
  PROVE  Inv'
<1>1. tx[w] \in Transactions /\ Sound(tx[w]) /\ tx[w].pc = "look"
  BY TxLemma DEF Look
<1>2. PICK queue : queue = {s \in delivered : /\ referrer[Eater(s)] = Eater(tx[w].slot)
                                              /\ s[2] = tx[w].slot[2]}
  OBVIOUS
<1>3. queue \subseteq delivered /\ queue \subseteq Slots
  BY <1>2 DEF Inv, Shaped
<1>4. PICK t : t = [tx[w] EXCEPT !.pc = "others", !.queue = queue]
  OBVIOUS
<1>5. t = [kind |-> tx[w].kind, pc |-> "others", slot |-> tx[w].slot,
           target |-> tx[w].target, payee |-> tx[w].payee, queue |-> queue,
           writes |-> tx[w].writes, given |-> tx[w].given, earned |-> tx[w].earned,
           locks |-> tx[w].locks, saved |-> tx[w].saved]
  BY <1>1, <1>4 DEF Transactions
<1>6. t \in Transactions
  BY <1>1, <1>3, <1>5 DEF Transactions, Steps
<1>7. Sound(t)
  BY <1>1, <1>3, <1>5 DEF Sound, Placed, Aimed, Decided, Trying, EatenIn
<1>8. \A v \in Workers : v # w => tx[v].locks \cap t.locks = {}
  BY <1>5, HeldLemma
<1>9. Continue(w, t) /\ UNCHANGED <<standing, referrer, rate, delivered, row>>
  BY <1>2, <1>4 DEF Look, settings, books
<1> QED BY <1>6, <1>7, <1>8, <1>9, StepLemma

\* Taking up the next of them keeps the invariant.
LEMMA TryOtherInv ==
  ASSUME Inv, NEW w \in Workers, NEW s \in Slots, TryOther(w, s)
  PROVE  Inv'
<1>1. tx[w] \in Transactions /\ Sound(tx[w]) /\ tx[w].pc = "others" /\ s \in tx[w].queue
  BY TxLemma DEF TryOther
<1>2. tx[w].kind = "mark" /\ s \in delivered
  BY <1>1 DEF Sound, Placed, Aimed, Trying, Transactions, Kinds
<1>3. PICK pc : pc = IF Settled(row[s]) THEN "others" ELSE "claim"
  OBVIOUS
<1>4. PICK target : target = IF Settled(row[s]) THEN tx[w].target ELSE s
  OBVIOUS
<1>5. PICK t : t = [tx[w] EXCEPT !.queue = tx[w].queue \ {s}, !.saved = tx[w].locks,
                                 !.pc = pc, !.target = target]
  OBVIOUS
<1>6. t = [kind |-> tx[w].kind, pc |-> pc, slot |-> tx[w].slot,
           target |-> target, payee |-> tx[w].payee, queue |-> tx[w].queue \ {s},
           writes |-> tx[w].writes, given |-> tx[w].given, earned |-> tx[w].earned,
           locks |-> tx[w].locks, saved |-> tx[w].locks]
  BY <1>1, <1>5 DEF Transactions
<1>7. pc \in {"others", "claim"} /\ (pc = "claim" => target = s)
  BY <1>3, <1>4
<1>8. t \in Transactions
  BY <1>1, <1>4, <1>6, <1>7 DEF Transactions, Steps
<1>9. Sound(t)
  BY <1>1, <1>2, <1>6, <1>7 DEF Sound, Placed, Aimed, Decided, Trying, EatenIn
<1>10. \A v \in Workers : v # w => tx[v].locks \cap t.locks = {}
  BY <1>6, HeldLemma
<1>11. Continue(w, t) /\ UNCHANGED <<standing, referrer, rate, delivered, row>>
  BY <1>3, <1>4, <1>5 DEF TryOther, settings, books
<1> QED BY <1>8, <1>9, <1>10, <1>11, StepLemma

-----------------------------------------------------------------------------
\* Steps that begin or end a transaction without a change of the books

\* What the command, a reversal and a recharge begin with.
LEMMA BeginLemma ==
  ASSUME Inv, NEW w \in Workers,
         \/ \E s \in Slots : Retry(w, s) \/ Reverse(w, s)
         \/ \E c \in Customers : Fund(w, c)
  PROVE  Inv'
<1>1. UNCHANGED <<standing, referrer, rate, delivered, row>>
  BY DEF Retry, Reverse, Fund, settings, books
<1>2. ASSUME NEW s \in Slots, Retry(w, s) PROVE Inv'
  <2>1. PICK t : t = [Idle EXCEPT !.kind = "retry", !.pc = "claim", !.slot = s, !.target = s]
    OBVIOUS
  <2>2. t = [kind |-> "retry", pc |-> "claim", slot |-> s, target |-> s, payee |-> Nobody,
             queue |-> {}, writes |-> {}, given |-> 0, earned |-> 0,
             locks |-> {}, saved |-> {}]
    BY <2>1 DEF Idle
  <2>3. t \in Transactions
    BY <2>2 DEF Transactions, Kinds, Steps
  <2>4. s \in delivered
    BY <1>2 DEF Retry
  <2>5. Sound(t)
    <3>1. t.kind = "retry" /\ t.pc = "claim" /\ t.target = s /\ t.queue = {} /\ t.writes = {}
          /\ t.saved = {}
      BY <2>2
    <3>2. Placed(t)
      BY <3>1 DEF Placed, Trying
    <3>3. Aimed(t) /\ Decided(t)
      BY <2>4, <3>1 DEF Aimed, Decided, EatenIn, Trying
    <3> QED BY <3>1, <3>2, <3>3 DEF Sound
  <2>6. Continue(w, t)
    BY <1>2, <2>1 DEF Retry
  <2>7. \A v \in Workers : v # w => tx[v].locks \cap t.locks = {}
    BY <2>2
  <2> QED BY <1>1, <2>3, <2>5, <2>6, <2>7, StepLemma
<1>3. ASSUME NEW s \in Slots, Reverse(w, s) PROVE Inv'
  <2>1. PICK t : t = [Idle EXCEPT !.kind = "reverse", !.pc = "debit", !.slot = s,
                                  !.payee = referrer[Eater(s)], !.locks = {Row(s)}]
    OBVIOUS
  <2>2. t = [kind |-> "reverse", pc |-> "debit", slot |-> s, target |-> NoSlot,
             payee |-> referrer[Eater(s)], queue |-> {}, writes |-> {}, given |-> 0,
             earned |-> 0, locks |-> {Row(s)}, saved |-> {}]
    BY <2>1 DEF Idle
  <2>3. row[s].status = "success" /\ Free(w, Row(s))
    BY <1>3 DEF Reverse
  <2>4. referrer[Eater(s)] \in Customers
    <3>1. SameMeal(referrer[Eater(s)], s) \in Slots
      BY <2>3 DEF Inv, Shaped, PaidWhenBothAte
    <3> QED BY <3>1 DEF SameMeal, Slots
  <2>5. t \in Transactions
    BY <2>2, <2>4, LockTypes DEF Transactions, Kinds, Steps
  <2>6. Sound(t)
    <3>1. t.kind = "reverse" /\ t.pc = "debit" /\ t.slot = s /\ t.queue = {} /\ t.writes = {}
          /\ t.saved = {} /\ t.locks = {Row(s)} /\ t.payee = referrer[Eater(s)]
      BY <2>2
    <3>2. Placed(t)
      BY <2>3, <3>1 DEF Placed, Trying
    <3>3. Aimed(t) /\ Decided(t)
      BY <2>4, <3>1 DEF Aimed, Decided, Trying
    <3> QED BY <3>1, <3>2, <3>3 DEF Sound
  <2>7. Continue(w, t)
    BY <1>3, <2>1 DEF Reverse
  <2>8. \A v \in Workers : v # w => tx[v].locks \cap t.locks = {}
    BY <2>2, <2>3 DEF Free
  <2> QED BY <1>1, <2>5, <2>6, <2>7, <2>8, StepLemma
<1>4. ASSUME NEW c \in Customers, Fund(w, c) PROVE Inv'
  <2>1. PICK t : t = [Idle EXCEPT !.kind = "fund", !.pc = "debit", !.payee = c]
    OBVIOUS
  <2>2. t = [kind |-> "fund", pc |-> "debit", slot |-> NoSlot, target |-> NoSlot,
             payee |-> c, queue |-> {}, writes |-> {}, given |-> 0, earned |-> 0,
             locks |-> {}, saved |-> {}]
    BY <2>1 DEF Idle
  <2>3. t \in Transactions
    BY <2>2 DEF Transactions, Kinds, Steps
  <2>4. Sound(t)
    <3>1. t.kind = "fund" /\ t.pc = "debit" /\ t.queue = {} /\ t.writes = {}
          /\ t.saved = {} /\ t.payee = c
      BY <2>2
    <3>2. Placed(t)
      BY <3>1 DEF Placed, Trying
    <3>3. Aimed(t) /\ Decided(t)
      BY <3>1 DEF Aimed, Decided, Trying
    <3> QED BY <3>1, <3>2, <3>3 DEF Sound
  <2>5. Continue(w, t)
    BY <1>4, <2>1 DEF Fund
  <2>6. \A v \in Workers : v # w => tx[v].locks \cap t.locks = {}
    BY <2>2
  <2> QED BY <1>1, <2>3, <2>4, <2>5, <2>6, StepLemma
<1> QED BY <1>2, <1>3, <1>4

\* Reversing the referrer's credit keeps the invariant.
LEMMA DebitInv ==
  ASSUME Inv, NEW w \in Workers, Debit(w)
  PROVE  Inv'
<1>1. tx[w] \in Transactions /\ Sound(tx[w]) /\ tx[w].pc = "debit"
  BY TxLemma DEF Debit
<1>2. UNCHANGED <<standing, referrer, rate, delivered, row>>
  BY DEF Debit, settings, books
<1>3. CASE Movable(w)
  <2>1. PICK t : t = [tx[w] EXCEPT !.pc = "refund",
                                   !.locks = tx[w].locks \cup {Purse(tx[w].payee)}]
    OBVIOUS
  <2>2. t = [kind |-> tx[w].kind, pc |-> "refund", slot |-> tx[w].slot,
             target |-> tx[w].target, payee |-> tx[w].payee, queue |-> tx[w].queue,
             writes |-> tx[w].writes, given |-> tx[w].given, earned |-> tx[w].earned,
             locks |-> tx[w].locks \cup {Purse(tx[w].payee)}, saved |-> tx[w].saved]
    BY <1>1, <2>1 DEF Transactions
  <2>3. tx[w].payee \in Customers
    BY <1>1 DEF Sound, Aimed
  <2>4. t \in Transactions
    BY <1>1, <2>2, <2>3, LockTypes DEF Transactions, Steps
  <2>5. Sound(t)
    BY <1>1, <2>2 DEF Sound, Placed, Aimed, Decided, Trying, EatenIn
  <2>6. \A v \in Workers : v # w => tx[v].locks \cap t.locks = {}
    BY <2>2, TakeLemma DEF Debit
  <2>7. Continue(w, t)
    BY <1>3, <2>1 DEF Debit
  <2> QED BY <1>2, <2>4, <2>5, <2>6, <2>7, StepLemma
<1>4. CASE ~Movable(w)
  BY <1>2, <1>4, EndLemma DEF Debit
<1> QED BY <1>3, <1>4

\* A transaction aborted by the database or by a crash leaves the invariant.
LEMMA StopsInv ==
  ASSUME Inv, NEW w \in Workers, Victim(w) \/ Crash(w)
  PROVE  Inv'
<1>1. UNCHANGED <<standing, referrer, rate, delivered, row>>
  BY DEF Victim, Crash, settings, books
<1>2. Continue(w, Idle) \/ (tx[w].pc \in Trying /\ GiveUp(w))
  BY DEF Victim, Crash, Trying
<1> QED BY <1>1, <1>2, EndLemma, GiveUpInv

-----------------------------------------------------------------------------
\* Steps that change rows, marks or settings

\* Another transaction does not notice a change of rows that it neither decides
\* about nor reverses.
LEMMA OthersLemma ==
  ASSUME NEW u, Sound(u), UNCHANGED <<standing, referrer>>, delivered \subseteq delivered',
         \A x \in u.writes : ~Settled(row'[x.slot]),
         u.kind = "reverse" => row'[u.slot].status = "success"
  PROVE  Sound(u)'
<1>1. EatenIn(u) \subseteq EatenIn(u)'
  BY DEF EatenIn
<1>2. Placed(u)'
  BY DEF Sound, Placed
<1>3. Aimed(u)'
  BY <1>1 DEF Sound, Aimed
<1>4. Decided(u)'
  BY <1>1 DEF Sound, Decided
<1> QED BY <1>2, <1>3, <1>4 DEF Sound

\* The end of a transaction with changed rows or marks.
LEMMA BooksLemma ==
  ASSUME Inv, NEW w \in Workers, NEW t \in Transactions, Continue(w, t), t.locks = {}, Sound(t)',
         UNCHANGED <<standing, referrer, rate>>,
         delivered \subseteq delivered', delivered' \subseteq Slots,
         row' \in [Slots -> [status : Statuses, amount : Nat]],
         EatersKnown', PaidWhenBothAte',
         \A v \in Workers : v # w =>
           /\ \A x \in tx[v].writes : ~Settled(row'[x.slot])
           /\ tx[v].kind = "reverse" => row'[tx[v].slot].status = "success"
  PROVE  Inv'
<1>1. /\ tx' \in [Workers -> Transactions] /\ tx'[w] = t
      /\ \A v \in Workers : v # w => tx'[v] = tx[v]
  BY ContinueLemma DEF Inv
<1>2. \A u : Sound(u)' <=> /\ u.saved \subseteq u.locks
                           /\ Placed(u)' /\ Aimed(u)' /\ Decided(u)'
  BY DEF Sound
<1>3. ASSUME NEW v \in Workers PROVE Sound(tx[v])'
  <2>1. PICK u : u = tx'[v]
    OBVIOUS
  <2>2. Sound(u)'
    <3>1. CASE v = w
      BY <1>1, <2>1, <3>1
    <3>2. CASE v # w
      <4>1. u = tx[v]
        BY <1>1, <2>1, <3>2
      <4>2. Sound(u)
        BY <4>1 DEF Inv
      <4> QED BY <3>2, <4>1, <4>2, OthersLemma
    <3> QED BY <3>1, <3>2
  <2> QED BY <2>1, <2>2 DEF Sound, Placed, Aimed, Decided, EatenIn
<1>4. Exclusive'
  BY <1>1 DEF Inv, Exclusive
<1>5. Shaped'
  BY <1>1 DEF Inv, Shaped
<1> QED BY <1>3, <1>4, <1>5 DEF Inv

\* What a row is after the commit of w.
LEMMA CommitRow ==
  ASSUME Inv, NEW w \in Workers, Commit(w), NEW s \in Slots
  PROVE  /\ row'[s] \in [status : Statuses, amount : Nat]
         /\ \/ row'[s] = row[s]
            \/ \E x \in tx[w].writes : /\ x.slot = s /\ row'[s].status = x.status
                                       /\ ~Settled(row[s]) /\ Slot(s) \in tx[w].locks
<1>1. tx[w] \in Transactions /\ Sound(tx[w]) /\ tx[w].pc \in {"commit", "others"}
  BY TxLemma DEF Commit
<1>2. \A x \in tx[w].writes :
        /\ x \in Writes /\ x.status # "pending"
        /\ Slot(x.slot) \in tx[w].locks /\ ~Settled(row[x.slot])
  BY <1>1 DEF Transactions, Sound, Decided
<1>3. row'[s] = IF Written(w, s) = {} THEN row[s]
                ELSE LET x == CHOOSE x \in Written(w, s) : TRUE
                     IN  [status |-> x.status, amount |-> x.amount]
  BY DEF Commit
<1>4. CASE Written(w, s) = {}
  BY <1>3, <1>4 DEF Inv, Shaped
<1>5. CASE Written(w, s) # {}
  <2>1. PICK x : x = CHOOSE y \in Written(w, s) : TRUE
    OBVIOUS
  <2>2. x \in Written(w, s)
    BY <1>5, <2>1
  <2>3. x \in tx[w].writes /\ x.slot = s
    BY <2>2 DEF Written
  <2>4. row'[s] = [status |-> x.status, amount |-> x.amount]
    BY <1>3, <1>5, <2>1
  <2>5. x.status \in Statuses /\ x.amount \in Nat
    BY <1>2, <2>3 DEF Writes
  <2> QED BY <1>2, <2>3, <2>4, <2>5
<1> QED BY <1>4, <1>5

\* A commit publishes the decisions, and keeps the invariant.
LEMMA CommitInv ==
  ASSUME Inv, NEW w \in Workers, Commit(w)
  PROVE  Inv'
<1>1. tx[w] \in Transactions /\ Sound(tx[w]) /\ tx[w].pc \in {"commit", "others"}
  BY TxLemma DEF Commit
<1>2. Continue(w, Idle) /\ UNCHANGED <<standing, referrer, rate>>
  BY DEF Commit, settings
<1>3. delivered' = EatenIn(tx[w])
  BY DEF Commit, Eaten, EatenIn
<1>4. delivered \subseteq delivered' /\ delivered' \subseteq Slots
  BY <1>1, <1>3 DEF EatenIn, Sound, Placed, Inv, Shaped
<1>5. row' \in [Slots -> [status : Statuses, amount : Nat]]
  <2>1. row' = [s \in Slots |-> row'[s]]
    BY DEF Commit
  <2> QED BY <2>1, CommitRow
<1>6. EatersKnown'
  <2> SUFFICES ASSUME NEW s \in delivered' PROVE standing[Eater(s)] # "unknown"
    BY <1>2 DEF EatersKnown
  <2>1. s \in delivered \/ (tx[w].kind = "mark" /\ s = tx[w].slot)
    BY <1>3 DEF EatenIn
  <2> QED BY <1>1, <2>1 DEF Inv, EatersKnown, Sound, Placed
<1>7. PaidWhenBothAte'
  <2> SUFFICES ASSUME NEW s \in Slots, row'[s].status \in {"success", "failed", "reversed"}
               PROVE  s \in delivered' /\ SameMeal(referrer[Eater(s)], s) \in delivered'
    BY <1>2 DEF PaidWhenBothAte
  <2>1. CASE row'[s] = row[s]
    BY <1>4, <2>1 DEF Inv, PaidWhenBothAte
  <2>2. ASSUME NEW x \in tx[w].writes, x.slot = s, row'[s].status = x.status
        PROVE  s \in delivered' /\ SameMeal(referrer[Eater(s)], s) \in delivered'
    BY <1>1, <1>3, <2>2 DEF Sound, Decided, Earned
  <2> QED BY <2>1, <2>2, CommitRow
<1>8. ASSUME NEW v \in Workers, v # w
      PROVE  /\ \A x \in tx[v].writes : ~Settled(row'[x.slot])
             /\ tx[v].kind = "reverse" => row'[tx[v].slot].status = "success"
  <2>1. tx[v] \in Transactions /\ Sound(tx[v])
    BY TxLemma
  <2>2. ASSUME NEW x \in tx[v].writes PROVE ~Settled(row'[x.slot])
    <3>1. x.slot \in Slots /\ Slot(x.slot) \in tx[v].locks /\ ~Settled(row[x.slot])
      BY <2>1 DEF Sound, Decided, Transactions, Writes
    <3>2. Slot(x.slot) \notin tx[w].locks
      BY <1>8, <3>1 DEF Inv, Exclusive
    <3> QED BY <3>1, <3>2, CommitRow
  <2>3. ASSUME tx[v].kind = "reverse" PROVE row'[tx[v].slot].status = "success"
    <3>1. tx[v].slot \in Slots /\ row[tx[v].slot].status = "success"
      BY <2>1, <2>3 DEF Sound, Placed
    <3>2. Settled(row[tx[v].slot])
      BY <3>1 DEF Settled
    <3> QED BY <3>1, <3>2, CommitRow
  <2> QED BY <2>2, <2>3
<1>9. Sound(Idle)'
  BY DEF Idle, Sound, Placed, Aimed, Decided, Trying
<1> QED BY <1>2, <1>4, <1>5, <1>6, <1>7, <1>8, <1>9, IdleLemma, BooksLemma

\* Claiming a failed commission again keeps the invariant.
LEMMA RetryFailedInv ==
  ASSUME Inv, NEW w \in Workers, NEW s \in Slots, RetryFailed(w, s)
  PROVE  Inv'
<1>1. row' = [row EXCEPT ![s] = NoRow] /\ row[s].status = "failed"
      /\ UNCHANGED <<standing, referrer, rate, delivered>>
  BY DEF RetryFailed, settings
<1>2. s \in delivered
  BY <1>1 DEF Inv, PaidWhenBothAte
<1>3. PICK t : t = [Idle EXCEPT !.kind = "retry", !.pc = "claim", !.slot = s, !.target = s]
  OBVIOUS
<1>4. t = [kind |-> "retry", pc |-> "claim", slot |-> s, target |-> s, payee |-> Nobody,
           queue |-> {}, writes |-> {}, given |-> 0, earned |-> 0,
           locks |-> {}, saved |-> {}]
  BY <1>3 DEF Idle
<1>5. t \in Transactions /\ t.locks = {}
  BY <1>4 DEF Transactions, Kinds, Steps
<1>6. Sound(t)'
  <2>1. t.kind = "retry" /\ t.pc = "claim" /\ t.target = s /\ t.queue = {} /\ t.writes = {}
        /\ t.saved = {}
    BY <1>4
  <2>2. Placed(t)'
    BY <2>1 DEF Placed, Trying
  <2>3. Aimed(t)' /\ Decided(t)'
    BY <1>1, <1>2, <2>1 DEF Aimed, Decided, EatenIn, Trying
  <2> QED BY <2>1, <2>2, <2>3 DEF Sound
<1>7. row' \in [Slots -> [status : Statuses, amount : Nat]]
  BY <1>1 DEF Inv, Shaped, NoRow, Statuses
<1>8. \A r \in Slots : row'[r] = row[r] \/ (row'[r] = NoRow /\ r = s)
  BY <1>1 DEF Inv, Shaped
<1>9. EatersKnown' /\ PaidWhenBothAte'
  BY <1>1, <1>8 DEF Inv, EatersKnown, PaidWhenBothAte, NoRow
<1>10. ASSUME NEW v \in Workers, v # w
       PROVE  /\ \A x \in tx[v].writes : ~Settled(row'[x.slot])
              /\ tx[v].kind = "reverse" => row'[tx[v].slot].status = "success"
  <2>1. tx[v] \in Transactions /\ Sound(tx[v])
    BY TxLemma
  <2>2. \A x \in tx[v].writes : x.slot \in Slots /\ ~Settled(row[x.slot])
    BY <2>1 DEF Sound, Decided, Transactions, Writes
  <2>3. tx[v].kind = "reverse" => tx[v].slot \in Slots /\ row[tx[v].slot].status = "success"
    BY <2>1 DEF Sound, Placed
  <2> QED BY <1>1, <1>8, <2>2, <2>3 DEF Settled, NoRow
<1>11. Continue(w, t)
  BY <1>3 DEF RetryFailed
<1>12. delivered \subseteq delivered' /\ delivered' \subseteq Slots
  BY <1>1 DEF Inv, Shaped
<1> QED BY <1>1, <1>5, <1>6, <1>7, <1>9, <1>10, <1>11, <1>12, BooksLemma

\* Returning a reversed commission to the platform keeps the invariant.
LEMMA RefundInv ==
  ASSUME Inv, NEW w \in Workers, Refund(w)
  PROVE  Inv'
<1>1. tx[w] \in Transactions /\ Sound(tx[w]) /\ tx[w].pc = "refund"
  BY TxLemma DEF Refund
<1>2. Continue(w, Idle) /\ UNCHANGED <<standing, referrer, rate, delivered>>
  BY DEF Refund, settings
<1>3. CASE UNCHANGED row
  BY <1>2, <1>3, EndLemma
<1>4. CASE tx[w].kind = "reverse" /\ row' = [row EXCEPT ![tx[w].slot].status = "reversed"]
  <2>1. tx[w].slot \in Slots /\ Row(tx[w].slot) \in tx[w].locks
        /\ row[tx[w].slot].status = "success"
    BY <1>1, <1>4 DEF Sound, Placed
  <2>2. row[tx[w].slot] \in [status : Statuses, amount : Nat]
    BY <2>1 DEF Inv, Shaped
  <2>3. /\ row' \in [Slots -> [status : Statuses, amount : Nat]]
        /\ row'[tx[w].slot].status = "reversed"
        /\ \A s \in Slots : s # tx[w].slot => row'[s] = row[s]
    BY <1>4, <2>1, <2>2 DEF Inv, Shaped, Statuses
  <2>4. EatersKnown'
    BY <1>2 DEF Inv, EatersKnown
  <2>5. PaidWhenBothAte'
    BY <1>2, <2>1, <2>3 DEF Inv, PaidWhenBothAte
  <2>6. ASSUME NEW v \in Workers, v # w
        PROVE  /\ \A x \in tx[v].writes : ~Settled(row'[x.slot])
               /\ tx[v].kind = "reverse" => row'[tx[v].slot].status = "success"
    <3>1. tx[v] \in Transactions /\ Sound(tx[v])
      BY TxLemma
    <3>2. \A x \in tx[v].writes : x.slot \in Slots /\ ~Settled(row[x.slot])
      BY <3>1 DEF Sound, Decided, Transactions, Writes
    <3>3. Settled(row[tx[w].slot])
      BY <2>1 DEF Settled
    <3>4. ASSUME tx[v].kind = "reverse" PROVE row'[tx[v].slot].status = "success"
      <4>1. tx[v].slot \in Slots /\ Row(tx[v].slot) \in tx[v].locks
            /\ row[tx[v].slot].status = "success"
        BY <3>1, <3>4 DEF Sound, Placed
      <4>2. tx[v].slot # tx[w].slot
        BY <2>1, <2>6, <4>1 DEF Inv, Exclusive
      <4> QED BY <2>3, <4>1, <4>2
    <3> QED BY <2>3, <3>2, <3>3, <3>4
  <2>7. Sound(Idle)'
    BY DEF Idle, Sound, Placed, Aimed, Decided, Trying
  <2>8. delivered \subseteq delivered' /\ delivered' \subseteq Slots
    BY <1>2 DEF Inv, Shaped
  <2> QED BY <1>2, <2>3, <2>4, <2>5, <2>6, <2>7, <2>8, IdleLemma, BooksLemma
<1> QED BY <1>3, <1>4 DEF Refund

\* Whoever is known keeps the one who referred them.
LEMMA SettingsLemma ==
  ASSUME Inv, standing' \in [Customers -> {"unknown", "without", "with", "after"}],
         referrer' \in [Customers -> Customers \cup {Nobody}], rate' \in Rates,
         \A c \in Customers : standing[c] # "unknown" =>
           standing'[c] # "unknown" /\ referrer'[c] = referrer[c],
         UNCHANGED <<delivered, row, tx>>
  PROVE  Inv'
<1>1. Shaped' /\ Exclusive'
  BY DEF Inv, Shaped, Exclusive
<1>2. delivered \subseteq Slots
  BY DEF Inv, Shaped
<1>3. \A s \in delivered : standing[Eater(s)] # "unknown" /\ Eater(s) \in Customers
  BY <1>2, SlotLemma DEF Inv, EatersKnown
<1>4. EatersKnown'
  BY <1>3 DEF EatersKnown
<1>5. PaidWhenBothAte'
  BY <1>3 DEF Inv, PaidWhenBothAte
<1>6. ASSUME NEW w \in Workers PROVE Sound(tx[w])'
  <2>1. PICK u : u = tx[w]
    OBVIOUS
  <2>2. u \in Transactions /\ Sound(u)
    BY <2>1, TxLemma
  <2>3. (u.kind = "mark" /\ u.pc # "idle") =>
          /\ u.slot \in Slots /\ Eater(u.slot) \in Customers
          /\ standing[Eater(u.slot)] # "unknown"
    BY <2>2, SlotLemma DEF Sound, Placed
  <2>4. Placed(u)'
    BY <2>2, <2>3 DEF Sound, Placed
  <2>5. Aimed(u)'
    BY <2>2 DEF Sound, Aimed, EatenIn
  <2>6. ASSUME NEW x \in u.writes, x.slot \in EatenIn(u)
        PROVE  referrer'[Eater(x.slot)] = referrer[Eater(x.slot)]
    <3>1. u.pc # "idle"
      BY <2>2, <2>6 DEF Sound, Aimed
    <3>2. x.slot \in delivered \/ (u.kind = "mark" /\ x.slot = u.slot)
      BY <2>6 DEF EatenIn
    <3> QED BY <1>3, <2>3, <3>1, <3>2
  <2>7. Decided(u)'
    BY <2>2, <2>6 DEF Sound, Decided, EatenIn
  <2>8. Sound(u)'
    BY <2>2, <2>4, <2>5, <2>7 DEF Sound
  <2> QED BY <2>1, <2>8 DEF Sound, Placed, Aimed, Decided, EatenIn
<1> QED BY <1>1, <1>4, <1>5, <1>6 DEF Inv

\* Sign-ups, subscriptions and settings keep the invariant: they touch no commission.
LEMMA SettingsInv ==
  ASSUME Inv,
         \/ \E c \in Customers, r \in Customers \cup {Nobody} : SignUp(c, r)
         \/ \E c \in Customers : Subscribe(c) \/ Cancel(c)
         \/ \E x \in Rates : SetRate(x)
         \/ \E c \in Customers, s \in WalletStatuses : SetWalletStatus(c, s)
  PROVE  Inv'
<1>0. /\ standing \in [Customers -> {"unknown", "without", "with", "after"}]
      /\ referrer \in [Customers -> Customers \cup {Nobody}] /\ rate \in Rates
  BY DEF Inv, Shaped
<1>1. ASSUME NEW c \in Customers, NEW r \in Customers \cup {Nobody}, SignUp(c, r) PROVE Inv'
  BY <1>0, <1>1, SettingsLemma DEF SignUp, books
<1>2. ASSUME NEW c \in Customers, Subscribe(c) PROVE Inv'
  BY <1>0, <1>2, SettingsLemma DEF Subscribe, books
<1>3. ASSUME NEW c \in Customers, Cancel(c) PROVE Inv'
  BY <1>0, <1>3, SettingsLemma DEF Cancel, books
<1>4. ASSUME NEW x \in Rates, SetRate(x) PROVE Inv'
  BY <1>0, <1>4, SettingsLemma DEF SetRate, books
<1>5. ASSUME NEW c \in Customers, NEW s \in WalletStatuses, SetWalletStatus(c, s) PROVE Inv'
  BY <1>0, <1>5, SettingsLemma DEF SetWalletStatus
<1> QED BY <1>1, <1>2, <1>3, <1>4, <1>5

\* What the invariant says holds after every step.
LEMMA InvKept == Inv /\ [Next]_vars => Inv'
<1> SUFFICES ASSUME Inv, [Next]_vars PROVE Inv'
  OBVIOUS
<1>1. CASE UNCHANGED vars
  BY <1>1, SettingsLemma DEF vars, settings, books, Inv, Shaped
<1>2. ASSUME NEW w \in Workers, Begin(w) PROVE Inv'
  BY <1>2, MarkInv, BeginLemma, RetryFailedInv DEF Begin
<1>3. ASSUME NEW w \in Workers, Run(w) PROVE Inv'
  <2>1. ASSUME NEW s \in Slots, TryOther(w, s) PROVE Inv'
    BY <2>1, TryOtherInv
  <2>2. CASE Charge(w) \/ Claim(w) \/ Assess(w) \/ Pay(w) \/ Credit(w) \/ Look(w)
    BY <2>2, ChargeInv, ClaimInv, AssessInv, PayInv, CreditInv, LookInv
  <2>3. CASE Commit(w) \/ Debit(w) \/ Refund(w) \/ Victim(w)
    BY <2>3, CommitInv, DebitInv, RefundInv, StopsInv
  <2> QED BY <1>3, <2>1, <2>2, <2>3 DEF Run
<1>4. ASSUME NEW w \in Workers, Crash(w) PROVE Inv'
  BY <1>4, StopsInv
<1> QED BY <1>1, <1>2, <1>3, <1>4, SettingsInv DEF Next

-----------------------------------------------------------------------------
\* What follows

\* In every state a transaction holds the slot of what it decides, no two hold the
\* same lock, and what is decided is open.  (referrals/services)
THEOREM InvTheorem == Spec => []Inv
<1> QED BY InitInv, InvKept, PTL DEF Spec

\* A commission is paid, or owed, only for two meals that were both delivered.
\* (evaluate_accrual_party_eligibility)
THEOREM PaidTheorem == Spec => []PaidWhenBothAte
<1>1. Inv => PaidWhenBothAte
  BY DEF Inv
<1> QED BY <1>1, InvTheorem, PTL

\* What a step may do to a row.
RowStands(s) ==
  /\ row[s].status \in {"closed", "reversed"} => row'[s] = row[s]
  /\ row[s].status = "success" =>
       row'[s] \in {row[s], [row[s] EXCEPT !.status = "reversed"]}

\* No step changes a settled commission, but for a reversal of a credited one.
LEMMA DecisionsStandStep ==
  ASSUME Inv, [Next]_vars, NEW s \in Slots
  PROVE  RowStands(s)
<1>1. CASE UNCHANGED row
  BY <1>1 DEF RowStands
<1>2. ASSUME NEW w \in Workers, Commit(w) PROVE RowStands(s)
  <2>1. row'[s] = row[s] \/ ~Settled(row[s])
    BY <1>2, CommitRow
  <2> QED BY <2>1 DEF RowStands, Settled
<1>3. ASSUME NEW w \in Workers, NEW r \in Slots, RetryFailed(w, r) PROVE RowStands(s)
  <2>1. row' = [row EXCEPT ![r] = NoRow] /\ row[r].status = "failed"
    BY <1>3 DEF RetryFailed
  <2>2. s = r \/ row'[s] = row[s]
    BY <2>1 DEF Inv, Shaped
  <2> QED BY <2>1, <2>2 DEF RowStands
<1>4. ASSUME NEW w \in Workers, Refund(w) PROVE RowStands(s)
  <2>1. CASE UNCHANGED row
    BY <2>1 DEF RowStands
  <2>2. CASE tx[w].kind = "reverse" /\ row' = [row EXCEPT ![tx[w].slot].status = "reversed"]
    <3>1. tx[w].slot \in Slots /\ row[tx[w].slot].status = "success"
      BY <2>2, TxLemma DEF Sound, Placed
    <3>2. IF s = tx[w].slot THEN row'[s] = [row[s] EXCEPT !.status = "reversed"]
          ELSE row'[s] = row[s]
      BY <2>2, <3>1 DEF Inv, Shaped
    <3> QED BY <3>1, <3>2 DEF RowStands
  <2> QED BY <1>4, <2>1, <2>2 DEF Refund
<1>5. \/ UNCHANGED row
      \/ \E w \in Workers : Commit(w) \/ Refund(w) \/ \E r \in Slots : RetryFailed(w, r)
  <2>1. ASSUME NEW w \in Workers, Begin(w)
        PROVE  UNCHANGED row \/ \E r \in Slots : RetryFailed(w, r)
    BY <2>1 DEF Begin, Mark, Retry, Reverse, Fund, books
  <2>2. ASSUME NEW w \in Workers, Run(w)
        PROVE  UNCHANGED row \/ Commit(w) \/ Refund(w)
    BY <2>2 DEF Run, Charge, Claim, Assess, Pay, Credit, Look, TryOther, Debit, Victim, books
  <2>3. ASSUME NEW w \in Workers, Crash(w) PROVE UNCHANGED row
    BY <2>3 DEF Crash, books
  <2>4. CASE UNCHANGED vars
    BY <2>4 DEF vars, books
  <2>5. CASE \/ \E c \in Customers, r \in Customers \cup {Nobody} : SignUp(c, r)
             \/ \E c \in Customers : Subscribe(c) \/ Cancel(c)
             \/ \E x \in Rates : SetRate(x)
             \/ \E c \in Customers, x \in WalletStatuses : SetWalletStatus(c, x)
    BY <2>5 DEF SignUp, Subscribe, Cancel, SetRate, SetWalletStatus, books
  <2> QED BY <2>1, <2>2, <2>3, <2>4, <2>5 DEF Next
<1> QED BY <1>1, <1>2, <1>3, <1>4, <1>5

\* What was paid stays paid or is reversed once, what was reversed or turned down
\* stays so, whatever marks, retries and reversals overlap.
\* (_existing_non_pending, reverse_referral_commission)
THEOREM DecisionsStandTheorem == Spec => DecisionsStand
<1>1. Inv /\ [Next]_vars =>
        [\A s \in Slots :
           /\ row[s].status \in {"closed", "reversed"} => row'[s] = row[s]
           /\ row[s].status = "success" =>
                row'[s] \in {row[s], [row[s] EXCEPT !.status = "reversed"]}]_vars
  BY DecisionsStandStep DEF RowStands
<1> QED BY <1>1, InvTheorem, PTL DEF Spec, DecisionsStand

\* The switches are counted.
Counted == switches \in Nat

\* The counter of changed settings bounds them and steers nothing.
LEMMA CountedStep ==
  ASSUME Counted, [Next]_vars
  PROVE  Counted' /\ (switches' = switches \/ Switch)
<1>1. switches' = switches \/ Switch
  <2>1. ASSUME NEW w \in Workers, Begin(w) PROVE switches' = switches
    BY <2>1 DEF Begin, Mark, Retry, RetryFailed, Reverse, Fund, settings
  <2>2. ASSUME NEW w \in Workers, Run(w) PROVE switches' = switches
    BY <2>2 DEF Run, Charge, Claim, Assess, Pay, Credit, Look, TryOther, Commit, Debit, Refund,
                Victim, settings
  <2>3. ASSUME NEW w \in Workers, Crash(w) PROVE Switch
    BY <2>3 DEF Crash
  <2>4. CASE UNCHANGED vars
    BY <2>4 DEF vars, settings
  <2>5. CASE \/ \E c \in Customers, r \in Customers \cup {Nobody} : SignUp(c, r)
             \/ \E c \in Customers : Subscribe(c) \/ Cancel(c)
             \/ \E x \in Rates : SetRate(x)
             \/ \E c \in Customers, x \in WalletStatuses : SetWalletStatus(c, x)
    BY <2>5 DEF SignUp, Subscribe, Cancel, SetRate, SetWalletStatus
  <2> QED BY <2>1, <2>2, <2>3, <2>4, <2>5 DEF Next
<1> QED BY <1>1 DEF Counted, Switch

\* A step that ends a mark past its charge.
LEMMA MarkedStep ==
  ASSUME Inv, Counted, [Next]_vars, NEW w \in Workers,
         tx[w].kind = "mark", tx[w].pc \notin {"idle", "charge"}, tx'[w].pc = "idle"
  PROVE  tx[w].slot \in delivered' \/ switches' # switches
<1>1. tx[w] \in Transactions /\ Sound(tx[w])
  BY TxLemma
<1>2. tx[w].pc \notin {"idle", "charge", "debit", "refund"}
  BY <1>1 DEF Sound, Placed
<1>3. tx' # tx
  OBVIOUS
<1>4. ASSUME NEW v \in Workers, NEW t, Continue(v, t) PROVE v = w /\ t.pc = "idle"
  BY <1>2, <1>4 DEF Continue, Inv, Shaped
<1>5. ASSUME NEW v \in Workers, Begin(v) PROVE FALSE
  <2>1. tx[v].pc = "idle"
    BY <1>5 DEF Begin, Mark, Retry, RetryFailed, Reverse, Fund
  <2>2. \E t : Continue(v, t)
    BY <1>5 DEF Begin, Mark, Retry, RetryFailed, Reverse, Fund
  <2> QED BY <1>2, <1>4, <2>1, <2>2
<1>6. ASSUME NEW v \in Workers, GiveUp(v), tx[v].pc \in Trying PROVE FALSE
  <2>1. \E t : Continue(v, t)
    BY <1>6 DEF GiveUp
  <2>2. v = w
    BY <1>4, <2>1
  <2>3. PICK t : t = [tx[w] EXCEPT !.pc = IF tx[w].target = tx[w].slot THEN "commit" ELSE "others",
                                   !.writes = tx[w].writes \ Pending(w), !.locks = tx[w].saved]
    OBVIOUS
  <2>4. t.pc # "idle"
    BY <1>1, <2>3 DEF Transactions
  <2>5. Continue(w, t)
    BY <1>6, <2>2, <2>3 DEF GiveUp
  <2> QED BY <1>4, <2>4, <2>5
<1>7. ASSUME Commit(w) PROVE tx[w].slot \in delivered'
  BY <1>7 DEF Commit, Eaten
<1>8. ASSUME NEW v \in Workers, Commit(v) PROVE v = w
  BY <1>4, <1>8 DEF Commit
<1>9. ASSUME NEW v \in Workers, Crash(v) PROVE switches' # switches
  BY <1>9 DEF Crash, Switch, Counted
<1>10. ASSUME NEW v \in Workers, Victim(v) PROVE FALSE
  <2>1. tx[v].pc \notin Trying /\ Continue(v, Idle) /\ Deadlocked(v)
    BY <1>6, <1>10 DEF Victim, Trying
  <2>2. v = w
    BY <1>4, <2>1
  <2>3. Wants(w) = {}
    BY <1>2, <2>1, <2>2 DEF Wants, Trying
  <2>4. \E u \in Workers : WaitsFor(w, u)
    BY <2>1, <2>2 DEF Deadlocked
  <2> QED BY <2>3, <2>4 DEF WaitsFor
<1>11. ASSUME NEW v \in Workers, Charge(v) \/ Debit(v) \/ Refund(v) PROVE FALSE
  <2>1. tx[v].pc \in {"charge", "debit", "refund"} /\ \E t : Continue(v, t)
    BY <1>11 DEF Charge, Debit, Refund
  <2> QED BY <1>2, <1>4, <2>1
<1>12. ASSUME NEW v \in Workers, Claim(v) \/ Look(v) PROVE FALSE
  <2>1. tx[v] \in Transactions
    BY TxLemma
  <2>2. \E t : Continue(v, t) /\ t.pc \in {"assess", "others"}
    <3>1. [tx[v] EXCEPT !.pc = "assess",
                        !.locks = tx[v].locks \cup {Slot(tx[v].target)}].pc = "assess"
      BY <2>1 DEF Transactions
    <3>2. ASSUME NEW q PROVE [tx[v] EXCEPT !.pc = "others", !.queue = q].pc = "others"
      BY <2>1 DEF Transactions
    <3> QED BY <1>12, <3>1, <3>2 DEF Claim, Look
  <2> QED BY <1>4, <2>2
<1>13. Onward(w) # "idle"
  BY DEF Onward
<1>14. ASSUME NEW v \in Workers, Assess(v) \/ Pay(v) \/ Credit(v) PROVE FALSE
  <2>1. tx[v].pc \in Trying
    BY <1>14 DEF Assess, Pay, Credit, Trying
  <2>2. ~GiveUp(v)
    BY <1>6, <2>1
  <2>4. tx[v] \in Transactions
    BY TxLemma
  <2>5. ASSUME NEW l PROVE [tx[v] EXCEPT !.pc = Onward(v), !.locks = l].pc = Onward(v)
    BY <2>4 DEF Transactions
  <2>6. ASSUME NEW l, NEW x
        PROVE  [tx[v] EXCEPT !.pc = Onward(v), !.locks = l, !.writes = x].pc = Onward(v)
    BY <2>4 DEF Transactions
  <2>7. ASSUME NEW l, NEW x, NEW c
        PROVE  [tx[v] EXCEPT !.pc = "pay", !.locks = l, !.payee = c, !.writes = x].pc = "pay"
    BY <2>4 DEF Transactions
  <2>8. ASSUME NEW x PROVE [tx[v] EXCEPT !.pc = Onward(v), !.writes = x].pc = Onward(v)
    BY <2>4 DEF Transactions
  <2>9. ASSUME NEW l PROVE [tx[v] EXCEPT !.pc = "credit", !.locks = l].pc = "credit"
    BY <2>4 DEF Transactions
  <2>10. ASSUME NEW l, NEW x, NEW g, NEW e
         PROVE  [tx[v] EXCEPT !.pc = Onward(v), !.locks = l, !.given = g, !.earned = e,
                              !.writes = x].pc = Onward(v)
    BY <2>4 DEF Transactions
  <2>11. \E t : Continue(v, t) /\ t.pc \in {"pay", "credit", Onward(v)}
    <3>1. CASE Assess(v)
      <4>1. \/ \E l : Continue(v, [tx[v] EXCEPT !.pc = Onward(v), !.locks = l])
            \/ \E l, x : Continue(v, [tx[v] EXCEPT !.pc = Onward(v), !.locks = l, !.writes = x])
            \/ \E l, x, c : Continue(v, [tx[v] EXCEPT !.pc = "pay", !.locks = l, !.payee = c,
                                                      !.writes = x])
        BY <3>1, Zenon DEF Assess
      <4>2. ASSUME NEW l, Continue(v, [tx[v] EXCEPT !.pc = Onward(v), !.locks = l])
            PROVE  \E t : Continue(v, t) /\ t.pc \in {"pay", "credit", Onward(v)}
        <5> WITNESS [tx[v] EXCEPT !.pc = Onward(v), !.locks = l]
        <5> QED BY <4>2, <2>5
      <4>3. ASSUME NEW l, NEW x,
                   Continue(v, [tx[v] EXCEPT !.pc = Onward(v), !.locks = l, !.writes = x])
            PROVE  \E t : Continue(v, t) /\ t.pc \in {"pay", "credit", Onward(v)}
        <5> WITNESS [tx[v] EXCEPT !.pc = Onward(v), !.locks = l, !.writes = x]
        <5> QED BY <4>3, <2>6
      <4>4. ASSUME NEW l, NEW x, NEW c,
                   Continue(v, [tx[v] EXCEPT !.pc = "pay", !.locks = l, !.payee = c, !.writes = x])
            PROVE  \E t : Continue(v, t) /\ t.pc \in {"pay", "credit", Onward(v)}
        <5> WITNESS [tx[v] EXCEPT !.pc = "pay", !.locks = l, !.payee = c, !.writes = x]
        <5> QED BY <4>4, <2>7
      <4> QED BY <4>1, <4>2, <4>3, <4>4, Zenon
    <3>2. CASE Pay(v)
      BY <3>2, <2>8, <2>9 DEF Pay
    <3>3. CASE Credit(v)
      <4>1. \E l, g, e, x : Continue(v, [tx[v] EXCEPT !.pc = Onward(v), !.locks = l, !.given = g,
                                                       !.earned = e, !.writes = x])
        BY <3>3, <2>2, Zenon DEF Credit
      <4>2. ASSUME NEW l, NEW g, NEW e, NEW x,
                   Continue(v, [tx[v] EXCEPT !.pc = Onward(v), !.locks = l, !.given = g,
                                             !.earned = e, !.writes = x])
            PROVE  \E t : Continue(v, t) /\ t.pc \in {"pay", "credit", Onward(v)}
        <5> WITNESS [tx[v] EXCEPT !.pc = Onward(v), !.locks = l, !.given = g,
                                  !.earned = e, !.writes = x]
        <5> QED BY <4>2, <2>10
      <4> QED BY <4>1, <4>2, Zenon
    <3> QED BY <1>14, <3>1, <3>2, <3>3
  <2> QED BY <1>4, <1>13, <2>11
<1>15. ASSUME NEW v \in Workers, NEW s \in Slots, TryOther(v, s) PROVE FALSE
  <2>1. PICK t : t = [tx[v] EXCEPT !.queue = tx[v].queue \ {s}, !.saved = tx[v].locks,
                                   !.pc = IF Settled(row[s]) THEN "others" ELSE "claim",
                                   !.target = IF Settled(row[s]) THEN tx[v].target ELSE s]
    OBVIOUS
  <2>2. tx[v] \in Transactions
    BY TxLemma
  <2>3. t.pc # "idle"
    BY <2>1, <2>2 DEF Transactions
  <2>4. Continue(v, t)
    BY <1>15, <2>1 DEF TryOther
  <2> QED BY <1>4, <2>3, <2>4
<1>16. ASSUME NEW v \in Workers, Run(v)
       PROVE  tx[w].slot \in delivered'
  BY <1>7, <1>8, <1>10, <1>11, <1>12, <1>14, <1>15, <1>16 DEF Run
<1>17. tx' = tx \/ \E v \in Workers : Begin(v) \/ Run(v) \/ Crash(v)
  BY DEF Next, vars, SignUp, Subscribe, Cancel, SetRate, SetWalletStatus
<1> QED BY <1>3, <1>5, <1>9, <1>16, <1>17

\* A meal that was charged is marked, whatever happens to commissions, unless its
\* worker dies.  (mark_delivery)
THEOREM MarkedTheorem == Spec => ChargedMealsAreMarked
<1>1. Init => Counted
  BY DEF Init, Counted
<1>2. Counted /\ [Next]_vars => Counted'
  BY CountedStep
<1>3. Spec => []Counted
  BY <1>1, <1>2, PTL DEF Spec
<1>4. Inv /\ Counted /\ [Next]_vars =>
        [\A w \in Workers :
           (tx[w].kind = "mark" /\ tx[w].pc \notin {"idle", "charge"} /\ tx'[w].pc = "idle")
             => tx[w].slot \in delivered' \/ switches' # switches]_vars
  BY MarkedStep
<1> QED BY <1>3, <1>4, InvTheorem, PTL DEF Spec, ChargedMealsAreMarked

-----------------------------------------------------------------------------
\* The inductive invariant of the money

\* The locks a transaction has left if what it tries is taken back.
Kept(t) == IF t.pc \in Trying THEN t.saved ELSE t.locks

Charged(t) == t.kind = "mark" /\ t.pc \notin {"idle", "charge"}

\* The kind of a transaction says what it is about.
Purposeful(t) ==
  /\ t.kind = "mark" /\ t.pc # "idle" => t.slot \notin delivered /\ Slot(t.slot) \in Kept(t)
  /\ Charged(t) => Purse(Eater(t.slot)) \in Kept(t)
  /\ t.kind = "retry" => t.slot \in delivered /\ t.target = t.slot /\ t.queue = {}
  /\ t.kind = "reverse" => t.payee = referrer[Eater(t.slot)]
  /\ t.kind \in {"fund", "reverse"} \/ t.pc \in {"idle", "charge"} => t.given = 0 /\ t.earned = 0

\* A slot whose commission goes to the eater of t's own slot.
Owed(t, s) == s \in delivered /\ referrer[Eater(s)] = Eater(t.slot)

\* A transaction decides about its own slot, and a mark then about others of which
\* its eater is the referrer; about each of them once.
Focused(t) ==
  /\ t.pc \in Trying /\ t.target # t.slot => t.kind = "mark" /\ Owed(t, t.target)
  /\ (t.pc \in Trying /\ t.target = t.slot) \/ t.pc = "look" =>
       \A x \in t.writes : x.slot = t.slot
  /\ t.pc \in Trying /\ t.target = t.slot => t.given = 0 /\ t.earned = 0
  /\ \A s \in t.queue : Owed(t, s)
  /\ \A x \in t.writes : x.slot # t.slot => t.kind = "mark" /\ Owed(t, x.slot)
  /\ \A x, y \in t.writes : x.slot = y.slot => x = y
  /\ \A x \in t.writes : x.slot \notin t.queue
  /\ t.pc \in Trying => t.target \notin t.queue
  /\ t.pc \in {"claim", "assess"} => \A x \in t.writes : x.slot # t.target
  /\ t.pc \in {"pay", "credit"} =>
       /\ t.payee = referrer[Eater(t.target)]
       /\ \E x \in t.writes : x.slot = t.target /\ x.status = "pending"
  /\ \A x \in t.writes : x.status = "pending" => x.slot = t.target

DecidedOn(t, s) == {x \in t.writes : x.slot = s}

\* The slots whose commission t has paid, and what it paid.
Won(t) == {s \in Slots : \E x \in t.writes : x.slot = s /\ x.status = "success"}
Worth(t) == [s \in Slots |-> (CHOOSE x \in DecidedOn(t, s) : TRUE).amount]

\* What t paid is what it has credited, to the referrer of its slot and to its eater.
Tallied(t) ==
  /\ t.given = IF t.slot \in Won(t) THEN Worth(t)[t.slot] ELSE 0
  /\ t.earned = SumOver(Worth(t), Won(t) \ {t.slot})

OutcomeOf(t, c) ==
  LET own == t.kind = "mark" /\ c = Eater(t.slot)
      left == IF own THEN ApplyDebit(wallet[c], Price, "commission_first") ELSE wallet[c]
      commission == IF own THEN t.earned
                    ELSE IF c = referrer[Eater(t.slot)] THEN t.given ELSE 0
  IN  ApplyCredit(left, commission, "commission")

\* What a transaction takes is there, and what it gives fits, until it commits.
Covered(t) ==
  /\ t.given + t.earned <= admin
  /\ t.given + t.earned > 0 => Admin \in Kept(t)
  /\ t.pc = "credit" =>
       /\ Admin \in t.locks
       /\ \A x \in t.writes : x.status = "pending" => t.given + t.earned + x.amount <= admin
  /\ t.given > 0 => Purse(referrer[Eater(t.slot)]) \in Kept(t)
  /\ Charged(t) => Price <= Balance(wallet[Eater(t.slot)])
  /\ Charged(t) \/ t.kind = "retry" => \A c \in Customers : OutcomeOf(t, c) \in Wallets
  /\ t.pc = "refund" =>
       /\ Purse(t.payee) \in t.locks
       /\ t.kind = "fund" => Balance(wallet[t.payee]) + Recharge <= MaxBalance
       /\ t.kind = "reverse" => row[t.slot].amount <= wallet[t.payee].commission

Honest(t) == Purposeful(t) /\ Focused(t) /\ Tallied(t) /\ Covered(t)

\* No customer is their own referrer.
ReferredByOthers == \A c \in Customers : referrer[c] # c

\* The books are right, and every open transaction will leave them so.
Accounts ==
  /\ IsFiniteSet(delivered)
  /\ wallet \in [Customers -> Wallets] /\ admin \in Nat
  /\ funded \in [Customers -> Nat] /\ \A c \in Customers : funded[c] >= Funds
  /\ ReferredByOthers /\ CommissionsExplainMoney
  /\ \A w \in Workers : Honest(tx[w])

-----------------------------------------------------------------------------
\* What a transaction has paid

\* A transaction that has decided nothing has paid nothing.
LEMMA FreshTally ==
  ASSUME NEW t, t.writes = {}, t.given = 0, t.earned = 0
  PROVE  Tallied(t)
<1>1. Won(t) = {}
  BY DEF Won
<1>2. Won(t) \ {t.slot} = {}
  BY <1>1
<1>3. SumOver(Worth(t), {}) = 0
  BY SumEmpty
<1> QED BY <1>1, <1>2, <1>3 DEF Tallied

\* What a paid commission is worth is a number, and what was decided.
LEMMA WorthLemma ==
  ASSUME NEW t, t.writes \subseteq Writes, NEW s \in Slots,
         \E x \in t.writes : x.slot = s
  PROVE  /\ Worth(t)[s] \in Nat
         /\ \E x \in t.writes : x.slot = s /\ Worth(t)[s] = x.amount
<1>1. PICK x : x = CHOOSE y \in DecidedOn(t, s) : TRUE
  OBVIOUS
<1>2. x \in DecidedOn(t, s)
  BY <1>1 DEF DecidedOn
<1>3. x \in t.writes /\ x.slot = s /\ x.amount \in Nat
  BY <1>2 DEF DecidedOn, Writes
<1>4. Worth(t)[s] = x.amount
  BY <1>1 DEF Worth
<1> QED BY <1>3, <1>4

\* A transaction pays for slots it decided about, finitely many.
LEMMA WonLemma ==
  ASSUME NEW t \in Transactions, Focused(t), IsFiniteSet(delivered)
  PROVE  /\ IsFiniteSet(Won(t)) /\ Won(t) \subseteq Slots
         /\ IsFiniteSet(Won(t) \ {t.slot})
         /\ \A s \in Won(t) : Worth(t)[s] \in Nat
<1>1. Won(t) \subseteq delivered \cup {t.slot}
  BY DEF Won, Focused, Owed
<1>2. IsFiniteSet(delivered \cup {t.slot})
  BY FS_AddElement
<1>3. IsFiniteSet(Won(t))
  BY <1>1, <1>2, FS_Subset
<1>4. IsFiniteSet(Won(t) \ {t.slot})
  BY <1>3, FS_RemoveElement
<1>5. \A s \in Won(t) : s \in Slots /\ Worth(t)[s] \in Nat
  BY WorthLemma DEF Won, Transactions
<1> QED BY <1>3, <1>4, <1>5

\* Who decides the same of what is paid has paid the same.
LEMMA SameTally ==
  ASSUME NEW t \in Transactions, NEW u, Tallied(t), Focused(t), IsFiniteSet(delivered),
         u.slot = t.slot, u.given = t.given, u.earned = t.earned, Won(u) = Won(t),
         \A s \in Won(t) : DecidedOn(u, s) = DecidedOn(t, s)
  PROVE  Tallied(u)
<1>1. \A s \in Won(t) : s \in Slots
  BY DEF Won
<1>2. ASSUME NEW s \in Won(t) PROVE Worth(u)[s] = Worth(t)[s]
  <2>1. DecidedOn(u, s) = DecidedOn(t, s) /\ s \in Slots
    BY <1>1
  <2>2. PICK D : D = DecidedOn(t, s)
    OBVIOUS
  <2>3. Worth(u)[s] = (CHOOSE x \in D : TRUE).amount
    BY <2>1, <2>2 DEF Worth
  <2>4. Worth(t)[s] = (CHOOSE x \in D : TRUE).amount
    BY <2>1, <2>2 DEF Worth
  <2> QED BY <2>3, <2>4
<1>3. SumOver(Worth(u), Won(t) \ {t.slot}) = SumOver(Worth(t), Won(t) \ {t.slot})
  BY <1>2, WonLemma, SumSame
<1> QED BY <1>2, <1>3 DEF Tallied

\* The idle transaction owes nothing.
LEMMA IdleHonest == ASSUME admin \in Nat PROVE Honest(Idle)
<1>1. /\ Idle.kind = "mark" /\ Idle.pc = "idle" /\ Idle.writes = {} /\ Idle.given = 0
      /\ Idle.earned = 0 /\ Idle.queue = {}
  BY DEF Idle
<1>2. Tallied(Idle)
  BY <1>1, FreshTally
<1>3. Purposeful(Idle)
  BY <1>1 DEF Purposeful, Charged
<1>4. Focused(Idle)
  BY <1>1 DEF Focused, Trying
<1>5. Covered(Idle)
  BY <1>1 DEF Covered, Charged
<1> QED BY <1>2, <1>3, <1>4, <1>5 DEF Honest

-----------------------------------------------------------------------------
\* Steps that leave the books alone

\* Every transaction is sound and honest.
LEMMA HonestLemma ==
  ASSUME Inv, Accounts, NEW w \in Workers
  PROVE  /\ tx[w] \in Transactions /\ Sound(tx[w])
         /\ Purposeful(tx[w]) /\ Focused(tx[w]) /\ Tallied(tx[w]) /\ Covered(tx[w])
         /\ IsFiniteSet(delivered) /\ admin \in Nat /\ wallet \in [Customers -> Wallets]
         /\ delivered \subseteq Slots
BY TxLemma DEF Accounts, Honest, Inv, Shaped

\* What is said of a transaction is said of the one a worker has.
LEMMA HonestPrimed ==
  ASSUME NEW v \in Workers, NEW u, u = tx'[v], Honest(u)'
  PROVE  Honest(tx[v])'
<1>1. Purposeful(tx[v])'
  BY DEF Honest, Purposeful, Charged, Kept
<1>2. Focused(tx[v])'
  BY DEF Honest, Focused, Owed
<1>3. Tallied(tx[v])'
  BY DEF Honest, Tallied, Won, Worth, DecidedOn
<1>4. Covered(tx[v])'
  BY DEF Honest, Covered, OutcomeOf, Charged, Kept
<1> QED BY <1>1, <1>2, <1>3, <1>4 DEF Honest

\* A step of one transaction that leaves the books alone.
LEMMA QuietStep ==
  ASSUME Inv, Accounts, NEW w \in Workers, NEW t, Continue(w, t), Honest(t),
         UNCHANGED <<settings, books>>
  PROVE  Accounts'
<1>1. \A v \in Workers : tx'[v] = IF v = w THEN t ELSE tx[v]
  BY DEF Inv, Shaped, Continue
<1>2. UNCHANGED <<referrer, delivered, row, wallet, admin, funded>>
  BY DEF settings, books
<1>3. ASSUME NEW u, Honest(u) PROVE Honest(u)'
  <2>1. Purposeful(u)'
    BY <1>2, <1>3 DEF Honest, Purposeful
  <2>2. Focused(u)'
    BY <1>2, <1>3 DEF Honest, Focused, Owed
  <2>3. Tallied(u)'
    BY <1>3 DEF Honest
  <2>4. Covered(u)'
    BY <1>2, <1>3 DEF Honest, Covered, OutcomeOf
  <2> QED BY <2>1, <2>2, <2>3, <2>4 DEF Honest
<1>4. \A v \in Workers : Honest(tx'[v])
  BY <1>1 DEF Accounts
<1>5. ASSUME NEW v \in Workers PROVE Honest(tx[v])'
  <2>1. PICK u : u = tx'[v]
    OBVIOUS
  <2>2. Honest(u)'
    BY <1>3, <1>4, <2>1
  <2> QED BY <2>1, <2>2, HonestPrimed
<1>6. CommissionsExplainMoney' /\ ReferredByOthers'
  BY <1>2 DEF Accounts, CommissionsExplainMoney, ReferredByOthers, Meant, Paid, EatenBy, Recharged
<1> QED BY <1>2, <1>5, <1>6 DEF Accounts

\* A transaction that ends with nothing done.
LEMMA EndHonest ==
  ASSUME Inv, Accounts, NEW w \in Workers, Continue(w, Idle), UNCHANGED <<settings, books>>
  PROVE  Accounts'
BY IdleHonest, QuietStep DEF Accounts

\* What a debit leaves, and what a credit brings.
LEMMA WalletLemma ==
  ASSUME NEW x \in Wallets, NEW n \in Nat
  PROVE  /\ Balance(x) \in Nat
         /\ ApplyCredit(x, 0, "commission") = x
         /\ Balance(ApplyCredit(x, n, "commission")) = Balance(x) + n
         /\ Balance(x) + n <= MaxBalance => ApplyCredit(x, n, "commission") \in Wallets
         /\ n <= Balance(x) => /\ ApplyDebit(x, n, "commission_first") \in Wallets
                               /\ Balance(ApplyDebit(x, n, "commission_first")) = Balance(x) - n
<1>1. PICK r, c : r = x.recharge /\ c = x.commission
  OBVIOUS
<1>2. /\ x = [recharge |-> r, commission |-> c, status |-> x.status]
      /\ r \in 0..MaxBalance /\ c \in 0..MaxBalance /\ x.status \in WalletStatuses
  BY <1>1 DEF Wallets
<1>3. MaxBalance \in Nat /\ r \in Nat /\ c \in Nat /\ r <= MaxBalance /\ c <= MaxBalance
  BY <1>2, MaxBalanceAssumption
<1>4. \A m \in Nat : ApplyCredit(x, m, "commission")
                       = [recharge |-> r, commission |-> c + m, status |-> x.status]
  BY <1>2 DEF ApplyCredit
<1>5. Balance(x) = r + c /\ Balance(ApplyCredit(x, n, "commission")) = r + (c + n)
  BY <1>1, <1>4 DEF Balance
<1>6. Balance(x) + n <= MaxBalance => ApplyCredit(x, n, "commission") \in Wallets
  BY <1>2, <1>3, <1>4, <1>5 DEF Wallets
<1>7. ApplyCredit(x, 0, "commission") = x
  BY <1>2, <1>3, <1>4
<1>8. ASSUME n <= Balance(x)
      PROVE  /\ ApplyDebit(x, n, "commission_first") \in Wallets
             /\ Balance(ApplyDebit(x, n, "commission_first")) = Balance(x) - n
  <2>1. PICK f : f = FromCommission(x, n, "commission_first")
    OBVIOUS
  <2>2. f = IF c < n THEN c ELSE n
    BY <1>1, <2>1 DEF FromCommission
  <2>3. PICK d : d = ApplyDebit(x, n, "commission_first")
    OBVIOUS
  <2>4. d = [x EXCEPT !.commission = @ - f, !.recharge = @ - (n - f)]
    BY <2>1, <2>3 DEF ApplyDebit
  <2>5. /\ r - (n - f) \in 0..MaxBalance /\ c - f \in 0..MaxBalance
        /\ (r - (n - f)) + (c - f) = r + c - n
    BY <1>3, <1>5, <1>8, <2>2
  <2>6. d \in Wallets /\ d.recharge = r - (n - f) /\ d.commission = c - f
    BY <1>1, <2>4, <2>5 DEF Wallets
  <2>7. Balance(d) = Balance(x) - n
    BY <1>1, <1>3, <2>2, <2>5, <2>6 DEF Balance
  <2> QED BY <2>3, <2>6, <2>7
<1> QED BY <1>3, <1>5, <1>6, <1>7, <1>8

\* A wallet to which nothing was moved yet.
LEMMA NoOutcome ==
  ASSUME Accounts, NEW t, t.given = 0, t.earned = 0, NEW c \in Customers,
         (t.kind = "mark" /\ c = Eater(t.slot)) => Price <= Balance(wallet[c])
  PROVE  OutcomeOf(t, c) \in Wallets
<1>1. wallet[c] \in Wallets
  BY DEF Accounts
<1>2. Price \in Nat
  BY ReferralAssumption
<1>3. CASE t.kind = "mark" /\ c = Eater(t.slot)
  <2>1. PICK y : y = ApplyDebit(wallet[c], Price, "commission_first")
    OBVIOUS
  <2>2. OutcomeOf(t, c) = ApplyCredit(y, 0, "commission")
    BY <1>3, <2>1 DEF OutcomeOf
  <2>3. y \in Wallets
    BY <1>1, <1>2, <1>3, <2>1, WalletLemma
  <2> QED BY <1>2, <2>2, <2>3, WalletLemma
<1>4. CASE ~(t.kind = "mark" /\ c = Eater(t.slot))
  <2>1. OutcomeOf(t, c) = ApplyCredit(wallet[c], 0, "commission")
    BY <1>4 DEF OutcomeOf
  <2> QED BY <1>1, <2>1, <1>2, WalletLemma
<1> QED BY <1>3, <1>4

\* A transaction that goes on keeps its purpose.
LEMMA SamePurpose ==
  ASSUME NEW t, NEW u, Purposeful(t), t.pc \notin {"idle", "charge"},
         u.pc \notin {"idle", "charge"}, u.kind = t.kind, u.slot = t.slot, Kept(t) \subseteq Kept(u),
         t.kind = "retry" => u.target = t.target /\ u.queue = t.queue,
         t.kind = "reverse" => u.payee = t.payee,
         t.kind \in {"fund", "reverse"} => u.given = t.given /\ u.earned = t.earned
  PROVE  Purposeful(u)
BY DEF Purposeful, Charged

\* A transaction that moves nothing is covered as before.
LEMMA SameCover ==
  ASSUME NEW t, NEW u, Covered(t), t.pc \notin {"idle", "charge"}, u.pc \notin {"credit", "refund"},
         u.kind = t.kind, u.slot = t.slot, u.given = t.given, u.earned = t.earned,
         Kept(t) \subseteq Kept(u)
  PROVE  Covered(u)
<1>1. \A c : OutcomeOf(u, c) = OutcomeOf(t, c)
  BY DEF OutcomeOf
<1>2. Charged(u) => Charged(t)
  BY DEF Charged
<1> QED BY <1>1, <1>2 DEF Covered

\* Locking the slot to mark is honest.
LEMMA MarkHonest ==
  ASSUME Inv, Accounts, NEW w \in Workers, NEW s \in Slots, Mark(w, s)
  PROVE  Accounts'
<1>1. PICK t : t = [Idle EXCEPT !.kind = "mark", !.pc = "charge", !.slot = s,
                                !.target = s, !.locks = {Slot(s)}]
  OBVIOUS
<1>2. /\ t.kind = "mark" /\ t.pc = "charge" /\ t.slot = s /\ t.target = s /\ t.writes = {}
      /\ t.queue = {} /\ t.given = 0 /\ t.earned = 0 /\ t.locks = {Slot(s)}
  BY <1>1 DEF Idle
<1>3. Continue(w, t) /\ s \notin delivered /\ UNCHANGED <<settings, books>>
  BY <1>1 DEF Mark
<1>4. Purposeful(t)
  BY <1>2, <1>3 DEF Purposeful, Charged, Kept, Trying
<1>5. Focused(t)
  BY <1>2 DEF Focused, Trying
<1>6. Tallied(t)
  BY <1>2, FreshTally
<1>7. Covered(t)
  BY <1>2 DEF Covered, Charged, Accounts
<1>8. Honest(t)
  BY <1>4, <1>5, <1>6, <1>7 DEF Honest
<1> QED BY <1>3, <1>8, QuietStep

\* Charging the meal is honest: the money is there, and stays.
LEMMA ChargeHonest ==
  ASSUME Inv, Accounts, NEW w \in Workers, Charge(w)
  PROVE  Accounts'
<1>1. PICK x : x = tx[w]
  OBVIOUS
<1>2. /\ x \in Transactions /\ Sound(x) /\ Purposeful(x) /\ x.pc = "charge"
  BY <1>1, HonestLemma DEF Charge
<1>3. /\ x.kind = "mark" /\ x.target = x.slot /\ x.writes = {} /\ x.queue = {}
      /\ x.slot \in Slots /\ x.given = 0 /\ x.earned = 0
  BY <1>2 DEF Sound, Aimed, Placed, Purposeful
<1>4. PICK c : c = Eater(x.slot)
  OBVIOUS
<1>5. c \in Customers
  BY <1>3, <1>4, SlotLemma
<1>6. PICK held : held = x.locks \cup {Purse(c)}
  OBVIOUS
<1>7. PICK pc : pc = IF referrer[c] = Nobody THEN "look" ELSE "assess"
  OBVIOUS
<1>8. PICK t : t = [x EXCEPT !.pc = pc, !.locks = held, !.saved = held]
  OBVIOUS
<1>9. /\ t.kind = "mark" /\ t.pc = pc /\ t.slot = x.slot /\ t.target = x.slot /\ t.writes = {}
      /\ t.queue = {} /\ t.given = 0 /\ t.earned = 0 /\ t.locks = held /\ t.saved = held
  BY <1>2, <1>3, <1>8 DEF Transactions
<1>10. UNCHANGED <<settings, books>>
  BY DEF Charge
<1>11. CASE Payable(c)
  <2>1. Continue(w, t)
    BY <1>1, <1>4, <1>6, <1>7, <1>8, <1>11 DEF Charge
  <2>2. Purposeful(t)
    BY <1>2, <1>3, <1>4, <1>6, <1>7, <1>9 DEF Purposeful, Charged, Kept, Trying
  <2>3. Focused(t)
    BY <1>7, <1>9 DEF Focused, Trying
  <2>4. Tallied(t)
    BY <1>9, FreshTally
  <2>5. Price <= Balance(wallet[c]) /\ Price \in Nat /\ Balance(wallet[c]) \in Nat
    BY <1>5, <1>11, WalletLemma, ReferralAssumption DEF Payable, Accounts
  <2>6. \A d \in Customers : OutcomeOf(t, d) \in Wallets
    BY <1>4, <1>9, <2>5, NoOutcome
  <2>7. Covered(t)
    BY <1>4, <1>7, <1>9, <2>5, <2>6 DEF Covered, Accounts
  <2> QED BY <1>10, <2>1, <2>2, <2>3, <2>4, <2>7, QuietStep DEF Honest
<1>12. CASE ~Payable(c)
  BY <1>1, <1>4, <1>10, <1>12, EndHonest DEF Charge
<1> QED BY <1>11, <1>12

\* Locking the slot of another customer is honest.
LEMMA ClaimHonest ==
  ASSUME Inv, Accounts, NEW w \in Workers, Claim(w)
  PROVE  Accounts'
<1>1. PICK x : x = tx[w]
  OBVIOUS
<1>2. /\ x \in Transactions /\ Sound(x) /\ Purposeful(x) /\ Focused(x) /\ Tallied(x) /\ Covered(x)
      /\ x.pc = "claim"
  BY <1>1, HonestLemma DEF Claim
<1>3. PICK t : t = [x EXCEPT !.pc = "assess", !.locks = x.locks \cup {Slot(x.target)}]
  OBVIOUS
<1>4. /\ t.kind = x.kind /\ t.pc = "assess" /\ t.slot = x.slot /\ t.target = x.target
      /\ t.writes = x.writes /\ t.queue = x.queue /\ t.given = x.given /\ t.earned = x.earned
      /\ t.saved = x.saved /\ t.payee = x.payee
  BY <1>2, <1>3 DEF Transactions
<1>5. Kept(t) = Kept(x)
  BY <1>2, <1>4 DEF Kept, Trying
<1>6. Purposeful(t) /\ Covered(t)
  BY <1>2, <1>4, <1>5, SamePurpose, SameCover
<1>7. Focused(t)
  BY <1>2, <1>4 DEF Focused, Trying, Owed
<1>8. Tallied(t)
  BY <1>2, <1>4 DEF Tallied, Won, Worth, DecidedOn
<1>9. Continue(w, t) /\ UNCHANGED <<settings, books>>
  BY <1>1, <1>3 DEF Claim
<1> QED BY <1>6, <1>7, <1>8, <1>9, QuietStep DEF Honest

-----------------------------------------------------------------------------
\* Decisions

\* The pending decision of a transaction that pays is the one about its target.
LEMMA PendingLemma ==
  ASSUME NEW w \in Workers, tx[w] \in Transactions, Focused(tx[w]), tx[w].pc \in {"pay", "credit"}
  PROVE  \E p \in tx[w].writes :
           /\ p \in Writes /\ p.slot = tx[w].target /\ p.status = "pending"
           /\ Pending(w) = {p} /\ Due(w) = p.amount
<1>1. PICK p \in tx[w].writes : p.slot = tx[w].target /\ p.status = "pending"
  BY DEF Focused
<1>2. Pending(w) = {p}
  BY <1>1 DEF Pending, Focused
<1>3. PICK D : D = Pending(w)
  OBVIOUS
<1>4. PICK d : d = CHOOSE x \in D : TRUE
  OBVIOUS
<1>5. D = {p} /\ d = p
  BY <1>2, <1>3, <1>4
<1>6. Due(w) = d.amount
  BY <1>3, <1>4, <1>5 DEF Due
<1> QED BY <1>1, <1>2, <1>5, <1>6 DEF Transactions

\* What is decided once a payment has come to an end.
LEMMA ResolvedLemma ==
  ASSUME NEW w \in Workers, tx[w] \in Transactions, Focused(tx[w]), tx[w].pc \in {"pay", "credit"},
         NEW status \in {"success", "failed"}
  PROVE  \E n : /\ n.slot = tx[w].target /\ n.status = status /\ n.amount = Due(w)
                /\ n \in Writes
                /\ n \in Resolved(w, status)
                /\ \A x \in Resolved(w, status) :
                     x = n \/ (x \in tx[w].writes /\ x.slot # tx[w].target)
                /\ \A x \in tx[w].writes : x.slot # tx[w].target => x \in Resolved(w, status)
<1>1. PICK p \in tx[w].writes :
        /\ p \in Writes /\ p.slot = tx[w].target /\ p.status = "pending"
        /\ Pending(w) = {p} /\ Due(w) = p.amount
  BY PendingLemma
<1>2. PICK n : n = [p EXCEPT !.status = status]
  OBVIOUS
<1>3. n \in Writes /\ n.slot = p.slot /\ n.status = status /\ n.amount = p.amount
  BY <1>1, <1>2 DEF Writes, Statuses
<1>4. Resolved(w, status) = (tx[w].writes \ {p}) \cup {n}
  BY <1>1, <1>2 DEF Resolved
<1>5. \A x \in tx[w].writes : x.slot = p.slot => x = p
  BY <1>1 DEF Focused
<1> QED BY <1>1, <1>3, <1>4, <1>5

\* Skipping a commission, or finding it settled, is honest; so is deciding to pay it.
LEMMA AssessedHonest ==
  ASSUME Inv, Accounts, NEW w \in Workers, Assess(w),
         NEW held, tx[w].locks \subseteq held,
         NEW pc \in Steps, NEW payee, NEW writes, Decision(w, pc, writes),
         pc = "pay" => payee = referrer[Eater(tx[w].target)]
  PROVE  Honest(Assessed(w, held, pc, payee, writes))
<1>1. PICK x : x = tx[w]
  OBVIOUS
<1>2. /\ x \in Transactions /\ Sound(x) /\ Purposeful(x) /\ Focused(x) /\ Tallied(x) /\ Covered(x)
      /\ x.pc = "assess" /\ IsFiniteSet(delivered)
  BY <1>1, HonestLemma DEF Assess
<1>3. PICK t : t = Assessed(w, held, pc, payee, writes)
  OBVIOUS
<1>4. /\ t.kind = x.kind /\ t.pc = pc /\ t.slot = x.slot /\ t.target = x.target
      /\ t.writes = writes /\ t.queue = x.queue /\ t.given = x.given /\ t.earned = x.earned
      /\ t.saved = x.saved /\ t.locks = held /\ t.payee = payee
  BY <1>1, <1>2, <1>3 DEF Transactions, Assessed
<1>5. x.kind \in {"mark", "retry"} /\ x.saved \subseteq x.locks /\ x.target \in Slots
  BY <1>2 DEF Sound, Placed, Aimed, Trying, Transactions, Kinds
<1>6. /\ pc \in {"look", "others", "commit", "pay"}
      /\ pc = "look" => x.target = x.slot
      /\ pc # "pay" => pc = Onward(w)
  BY <1>1, <1>5 DEF Decision, Onward
<1>7. Kept(x) \subseteq Kept(t)
  BY <1>1, <1>2, <1>4, <1>5, <1>6 DEF Kept, Trying
<1>8. Purposeful(t) /\ Covered(t)
  BY <1>2, <1>4, <1>5, <1>6, <1>7, SamePurpose, SameCover
<1>9. /\ \A y \in writes : y \in x.writes \/ (y.slot = x.target /\ y.status # "success")
      /\ \A y, z \in writes : y \notin x.writes /\ z \notin x.writes => y = z
      /\ \A y \in x.writes : y \in writes
      /\ \A y \in writes : y \notin x.writes /\ y.status = "pending" => pc = "pay"
      /\ pc = "pay" => \E y \in writes : y.slot = x.target /\ y.status = "pending"
  <2>1. Onward(w) # "pay"
    BY <1>1, <1>5 DEF Onward
  <2>2. \/ writes = x.writes /\ pc # "pay"
        \/ \E status \in {"closed", "waiting"} : \E amount :
             writes = Write(w, status, amount) /\ pc # "pay"
        \/ writes = Write(w, "pending", rate) /\ pc = "pay"
    BY <1>1, <2>1 DEF Decision
  <2>3. \/ writes = x.writes /\ pc # "pay"
        \/ \E n : /\ writes = x.writes \cup {n} /\ n.slot = x.target /\ n.status # "success"
                  /\ n.status = "pending" <=> pc = "pay"
    <3>1. ASSUME NEW status, NEW amount, writes = Write(w, status, amount)
          PROVE  \E n : writes = x.writes \cup {n} /\ n.slot = x.target /\ n.status = status
      <4>1. PICK n : n = [slot |-> x.target, status |-> status, amount |-> amount]
        OBVIOUS
      <4>2. writes = x.writes \cup {n} /\ n.slot = x.target /\ n.status = status
        BY <1>1, <3>1, <4>1 DEF Write
      <4> QED BY <4>2
    <3> QED BY <2>2, <3>1
  <2> QED BY <2>3
<1>10. \A y \in x.writes : y.slot # x.target /\ y.status # "pending"
  BY <1>2 DEF Focused, Sound, Decided
<1>11. x.target # x.slot => x.kind = "mark" /\ Owed(x, x.target)
  BY <1>2 DEF Focused, Trying
<1>12. x.target = x.slot => x.given = 0 /\ x.earned = 0 /\ \A y \in x.writes : y.slot = x.slot
  BY <1>2 DEF Focused, Trying
<1>13. /\ \A s \in x.queue : Owed(x, s)
       /\ \A y \in x.writes : y.slot # x.slot => x.kind = "mark" /\ Owed(x, y.slot)
       /\ \A y, z \in x.writes : y.slot = z.slot => y = z
       /\ \A y \in x.writes : y.slot \notin x.queue
       /\ x.target \notin x.queue
  BY <1>2 DEF Focused, Trying
<1>14. \A s : Owed(t, s) <=> Owed(x, s)
  BY <1>4 DEF Owed
<1>15. Focused(t)
  <2>1. \A y \in writes : y \notin x.writes => y.slot = x.target
    BY <1>9
  <2>2. \A y, z \in writes : y.slot = z.slot => y = z
    BY <1>9, <1>10, <1>13
  <2>3. \A y \in writes : y.slot \notin x.queue
    BY <1>9, <1>13
  <2>4. \A y \in writes : y.slot # x.slot => x.kind = "mark" /\ Owed(x, y.slot)
    BY <1>11, <1>13, <2>1
  <2>5. \A y \in writes : y.status = "pending" => y.slot = x.target
    BY <1>10, <2>1
  <2>6. x.target = x.slot => \A y \in writes : y.slot = x.slot
    BY <1>12, <2>1
  <2>7. pc \in Trying => pc = "pay"
    BY <1>6 DEF Trying
  <2>8. pc = "pay" => \E y \in writes : y.slot = x.target /\ y.status = "pending"
    BY <1>9
  <2>9. pc = "pay" => payee = referrer[Eater(x.target)]
    BY <1>1
  <2> QED BY <1>4, <1>6, <1>11, <1>12, <1>13, <1>14, <2>2, <2>3, <2>4, <2>5, <2>6, <2>7, <2>8,
             <2>9 DEF Focused
<1>16. Tallied(t)
  <2>1. Won(t) = Won(x)
    BY <1>4, <1>9 DEF Won
  <2>2. ASSUME NEW s \in Won(x) PROVE DecidedOn(t, s) = DecidedOn(x, s)
    <3>1. s # x.target
      BY <1>10 DEF Won
    <3> QED BY <1>4, <1>9, <3>1 DEF DecidedOn
  <2> QED BY <1>2, <1>4, <2>1, <2>2, SameTally
<1> QED BY <1>3, <1>8, <1>15, <1>16 DEF Honest

\* Assessing a commission is honest.
LEMMA AssessHonest ==
  ASSUME Inv, Accounts, NEW w \in Workers, Assess(w)
  PROVE  Accounts'
<1> DEFINE s == tx[w].target
<1>1. tx[w] \in Transactions /\ Sound(tx[w]) /\ tx[w].pc = "assess"
  BY TxLemma DEF Assess
<1>2. tx[w].kind \in {"mark", "retry"}
  BY <1>1 DEF Sound, Placed, Transactions, Kinds
<1>3. Onward(w) \in Steps /\ "pay" \in Steps /\ Onward(w) # "pay"
  BY <1>2 DEF Onward, Steps
<1>4. PICK held : held = IF row[s].status = "none" THEN tx[w].locks
                         ELSE tx[w].locks \cup {Row(s)}
  OBVIOUS
<1>5. tx[w].locks \subseteq held /\ UNCHANGED <<settings, books>>
  BY <1>4 DEF Assess
<1>6. \/ Settled(row[s]) /\ Continue(w, [tx[w] EXCEPT !.pc = Onward(w), !.locks = held])
      \/ /\ ~Settled(row[s])
         /\ \E status \in {"closed", "waiting"} :
              Continue(w, [tx[w] EXCEPT !.pc = Onward(w), !.locks = held,
                                        !.writes = Write(w, status, 0)])
      \/ /\ ~Settled(row[s]) /\ EatenByBoth(w, s)
         /\ Continue(w, [tx[w] EXCEPT !.pc = "pay", !.locks = held,
                                      !.payee = referrer[Eater(s)],
                                      !.writes = Write(w, "pending", rate)])
  BY <1>4, Zenon DEF Assess
<1>7. ASSUME NEW pc \in Steps, NEW payee, NEW writes, Decision(w, pc, writes),
             pc = "pay" => payee = referrer[Eater(s)],
             Continue(w, Assessed(w, held, pc, payee, writes))
      PROVE  Accounts'
  <2>1. Honest(Assessed(w, held, pc, payee, writes))
    BY <1>5, <1>7, AssessedHonest
  <2> QED BY <1>5, <1>7, <2>1, QuietStep
<1>8. CASE Settled(row[s]) /\ Continue(w, [tx[w] EXCEPT !.pc = Onward(w), !.locks = held])
  <2>1. Assessed(w, held, Onward(w), tx[w].payee, tx[w].writes)
          = [tx[w] EXCEPT !.pc = Onward(w), !.locks = held]
    BY <1>1 DEF Transactions, Assessed
  <2>2. Decision(w, Onward(w), tx[w].writes)
    BY DEF Decision
  <2> QED BY <1>3, <1>7, <1>8, <2>1, <2>2
<1>9. ASSUME ~Settled(row[s]), NEW status \in {"closed", "waiting"},
             Continue(w, [tx[w] EXCEPT !.pc = Onward(w), !.locks = held,
                                       !.writes = Write(w, status, 0)])
      PROVE  Accounts'
  <2>1. Assessed(w, held, Onward(w), tx[w].payee, Write(w, status, 0))
          = [tx[w] EXCEPT !.pc = Onward(w), !.locks = held, !.writes = Write(w, status, 0)]
    BY <1>1 DEF Transactions, Assessed
  <2>2. Decision(w, Onward(w), Write(w, status, 0))
    BY <1>9 DEF Decision
  <2> QED BY <1>3, <1>7, <1>9, <2>1, <2>2
<1>10. CASE /\ ~Settled(row[s]) /\ EatenByBoth(w, s)
            /\ Continue(w, [tx[w] EXCEPT !.pc = "pay", !.locks = held,
                                         !.payee = referrer[Eater(s)],
                                         !.writes = Write(w, "pending", rate)])
  <2>1. Decision(w, "pay", Write(w, "pending", rate))
    BY <1>10 DEF Decision
  <2>2. Continue(w, Assessed(w, held, "pay", referrer[Eater(s)], Write(w, "pending", rate)))
    BY <1>10 DEF Assessed
  <2> QED BY <1>3, <1>7, <2>1, <2>2
<1> QED BY <1>6, <1>8, <1>9, <1>10

\* Where a transaction goes when it is done with its target.
LEMMA OnwardLemma ==
  ASSUME NEW w \in Workers, tx[w].kind \in {"mark", "retry"}
  PROVE  /\ Onward(w) \in {"look", "others", "commit"}
         /\ Onward(w) = "look" => tx[w].target = tx[w].slot
BY DEF Onward

\* What is resolved was decided about the same slots.
LEMMA ResolvedFocused ==
  ASSUME NEW w \in Workers, tx[w] \in Transactions, Focused(tx[w]), tx[w].pc \in {"pay", "credit"},
         NEW status \in {"success", "failed"}, NEW t,
         t.pc \in {"look", "others", "commit"}, t.pc = "look" => tx[w].target = tx[w].slot,
         t.kind = tx[w].kind, t.slot = tx[w].slot, t.queue = tx[w].queue,
         t.target = tx[w].target, t.writes = Resolved(w, status)
  PROVE  Focused(t)
<1>1. PICK x : x = tx[w]
  OBVIOUS
<1>2. PICK n :
        /\ n.slot = x.target /\ n.status = status
        /\ \A y \in t.writes : y = n \/ (y \in x.writes /\ y.slot # x.target)
  BY <1>1, ResolvedLemma
<1>3. /\ x.target # x.slot => x.kind = "mark" /\ Owed(x, x.target)
      /\ x.target = x.slot => \A y \in x.writes : y.slot = x.slot
      /\ \A s \in x.queue : Owed(x, s)
      /\ \A y \in x.writes : y.slot # x.slot => x.kind = "mark" /\ Owed(x, y.slot)
      /\ \A y, z \in x.writes : y.slot = z.slot => y = z
      /\ \A y \in x.writes : y.slot \notin x.queue
      /\ x.target \notin x.queue
      /\ \A y \in x.writes : y.status = "pending" => y.slot = x.target
  BY <1>1 DEF Focused, Trying
<1>4. \A s : Owed(t, s) <=> Owed(x, s)
  BY <1>1 DEF Owed
<1>5. \A y, z \in t.writes : y.slot = z.slot => y = z
  BY <1>2, <1>3
<1>6. \A y \in t.writes : y.slot # t.slot => t.kind = "mark" /\ Owed(t, y.slot)
  BY <1>1, <1>2, <1>3, <1>4
<1>7. \A y \in t.writes : y.slot \notin t.queue /\ y.status # "pending"
  BY <1>1, <1>2, <1>3
<1>8. t.pc = "look" => \A y \in t.writes : y.slot = t.slot
  BY <1>1, <1>2, <1>3
<1> QED BY <1>1, <1>3, <1>4, <1>5, <1>6, <1>7, <1>8 DEF Focused, Trying

\* The end of a payment changes no other decision.
LEMMA ResolvedDecisions ==
  ASSUME NEW w \in Workers, tx[w] \in Transactions, Focused(tx[w]), tx[w].pc \in {"pay", "credit"},
         NEW status \in {"success", "failed"}, NEW t, t.writes = Resolved(w, status)
  PROVE  /\ tx[w].target \notin Won(tx[w]) /\ tx[w].target \in Slots
         /\ \A s : s # tx[w].target => DecidedOn(t, s) = DecidedOn(tx[w], s)
         /\ Won(t) = Won(tx[w]) \cup (IF status = "success" THEN {tx[w].target} ELSE {})
         /\ Worth(t)[tx[w].target] = Due(w) /\ Due(w) \in Nat
<1>1. PICK x : x = tx[w]
  OBVIOUS
<1>2. PICK n :
        /\ n.slot = x.target /\ n.status = status /\ n.amount = Due(w) /\ n \in Writes
        /\ n \in t.writes
        /\ \A y \in t.writes : y = n \/ (y \in x.writes /\ y.slot # x.target)
        /\ \A y \in x.writes : y.slot # x.target => y \in t.writes
  BY <1>1, ResolvedLemma
<1>3. PICK p \in x.writes : p.slot = x.target /\ p.status = "pending"
  BY <1>1 DEF Focused
<1>4. \A y \in x.writes : y.slot = x.target => y = p
  BY <1>1, <1>3 DEF Focused
<1>5. x.target \notin Won(x)
  BY <1>3, <1>4 DEF Won
<1>6. \A s : s # x.target => DecidedOn(t, s) = DecidedOn(x, s)
  BY <1>2 DEF DecidedOn
<1>7. x.target \in Slots /\ n.amount \in Nat
  BY <1>2 DEF Writes
<1>8. Won(t) = Won(x) \cup (IF status = "success" THEN {x.target} ELSE {})
  BY <1>2, <1>3, <1>4, <1>7 DEF Won
<1>9. DecidedOn(t, x.target) = {n}
  BY <1>2 DEF DecidedOn
<1>10. PICK D : D = DecidedOn(t, x.target)
  OBVIOUS
<1>11. PICK d : d = CHOOSE y \in D : TRUE
  OBVIOUS
<1>12. d = n /\ Worth(t)[x.target] = d.amount
  BY <1>7, <1>9, <1>10, <1>11 DEF Worth
<1> QED BY <1>1, <1>2, <1>5, <1>6, <1>7, <1>8, <1>12

\* Debiting the platform's wallet, or noting that it holds too little, is honest.
LEMMA PayHonest ==
  ASSUME Inv, Accounts, NEW w \in Workers, Pay(w)
  PROVE  Accounts'
<1>1. PICK x : x = tx[w]
  OBVIOUS
<1>2. /\ x \in Transactions /\ Sound(x) /\ Purposeful(x) /\ Focused(x) /\ Tallied(x) /\ Covered(x)
      /\ x.pc = "pay" /\ IsFiniteSet(delivered) /\ admin \in Nat
  BY <1>1, HonestLemma DEF Pay
<1>3. /\ x.kind \in {"mark", "retry"} /\ x.saved \subseteq x.locks
      /\ x.given \in Nat /\ x.earned \in Nat
  BY <1>2 DEF Sound, Placed, Trying, Transactions, Kinds
<1>4. UNCHANGED <<settings, books>>
  BY DEF Pay
<1>5. CASE admin - x.given - x.earned >= Due(w)
  <2>1. PICK t : t = [x EXCEPT !.pc = "credit", !.locks = x.locks \cup {Admin}]
    OBVIOUS
  <2>2. /\ t.kind = x.kind /\ t.pc = "credit" /\ t.slot = x.slot /\ t.target = x.target
        /\ t.writes = x.writes /\ t.queue = x.queue /\ t.given = x.given /\ t.earned = x.earned
        /\ t.saved = x.saved /\ t.payee = x.payee /\ t.locks = x.locks \cup {Admin}
    BY <1>2, <2>1 DEF Transactions
  <2>3. Continue(w, t)
    BY <1>1, <1>5, <2>1 DEF Pay
  <2>4. Kept(t) = Kept(x)
    BY <1>2, <2>2 DEF Kept, Trying
  <2>5. Purposeful(t)
    BY <1>2, <2>2, <2>4, SamePurpose
  <2>6. Focused(t)
    BY <1>2, <2>2 DEF Focused, Trying, Owed
  <2>7. Tallied(t)
    BY <1>2, <2>2 DEF Tallied, Won, Worth, DecidedOn
  <2>8. PICK p : p \in Writes /\ Pending(w) = {p} /\ Due(w) = p.amount
    BY <1>1, <1>2, PendingLemma
  <2>9. \A y \in x.writes : y.status = "pending" => x.given + x.earned + y.amount <= admin
    <3>1. \A y \in x.writes : y.status = "pending" => y = p
      BY <1>1, <2>8 DEF Pending
    <3>2. p.amount \in Nat
      BY <2>8 DEF Writes
    <3> QED BY <1>2, <1>3, <1>5, <2>8, <3>1, <3>2
  <2>10. \A c : OutcomeOf(t, c) = OutcomeOf(x, c)
    BY <2>2 DEF OutcomeOf
  <2>11. Charged(t) <=> Charged(x)
    BY <1>2, <2>2 DEF Charged
  <2>12. Covered(t)
    BY <1>2, <2>2, <2>4, <2>9, <2>10, <2>11 DEF Covered
  <2> QED BY <1>4, <2>3, <2>5, <2>6, <2>7, <2>12, QuietStep DEF Honest
<1>6. CASE ~(admin - x.given - x.earned >= Due(w))
  <2>1. PICK pc, writes : pc = Onward(w) /\ writes = Resolved(w, "failed")
    OBVIOUS
  <2>2. PICK t : t = [x EXCEPT !.pc = pc, !.writes = writes]
    OBVIOUS
  <2>3. /\ t.kind = x.kind /\ t.pc = pc /\ t.slot = x.slot /\ t.target = x.target
        /\ t.writes = writes /\ t.queue = x.queue /\ t.given = x.given /\ t.earned = x.earned
        /\ t.saved = x.saved /\ t.payee = x.payee /\ t.locks = x.locks
    BY <1>2, <2>2 DEF Transactions
  <2>4. Continue(w, t)
    BY <1>1, <1>6, <2>1, <2>2 DEF Pay
  <2>5. pc \in {"look", "others", "commit"} /\ (pc = "look" => x.target = x.slot)
    BY <1>1, <1>3, <2>1, OnwardLemma
  <2>6. Kept(x) \subseteq Kept(t)
    BY <1>2, <1>3, <2>3, <2>5 DEF Kept, Trying
  <2>7. Purposeful(t) /\ Covered(t)
    BY <1>2, <1>3, <2>3, <2>5, <2>6, SamePurpose, SameCover
  <2>8. Focused(t)
    BY <1>1, <1>2, <2>1, <2>3, <2>5, ResolvedFocused
  <2>9. /\ Won(t) = Won(x) /\ x.target \notin Won(x)
        /\ \A s : s # x.target => DecidedOn(t, s) = DecidedOn(x, s)
    BY <1>1, <1>2, <2>1, <2>3, ResolvedDecisions
  <2>10. Tallied(t)
    BY <1>2, <2>3, <2>9, SameTally
  <2> QED BY <1>4, <2>4, <2>7, <2>8, <2>10, QuietStep DEF Honest
<1> QED BY <1>5, <1>6

\* Taking back a commission is honest: what it was to move was not moved.
LEMMA GiveUpHonest ==
  ASSUME Inv, Accounts, NEW w \in Workers, GiveUp(w), tx[w].pc \in Trying,
         UNCHANGED <<settings, books>>
  PROVE  Accounts'
<1>1. PICK x : x = tx[w]
  OBVIOUS
<1>2. /\ x \in Transactions /\ Sound(x) /\ Purposeful(x) /\ Focused(x) /\ Tallied(x) /\ Covered(x)
      /\ x.pc \in Trying /\ IsFiniteSet(delivered)
  BY <1>1, HonestLemma
<1>3. CASE x.kind = "retry"
  BY <1>1, <1>3, EndHonest DEF GiveUp
<1>4. CASE x.kind # "retry"
  <2>1. x.kind = "mark"
    BY <1>2, <1>4 DEF Sound, Placed, Trying, Transactions, Kinds
  <2>2. PICK pc, writes : /\ pc = IF x.target = x.slot THEN "commit" ELSE "others"
                          /\ writes = x.writes \ Pending(w)
    OBVIOUS
  <2>3. PICK t : t = [x EXCEPT !.pc = pc, !.writes = writes, !.locks = x.saved]
    OBVIOUS
  <2>4. /\ t.kind = "mark" /\ t.pc = pc /\ t.slot = x.slot /\ t.target = x.target
        /\ t.writes = writes /\ t.queue = x.queue /\ t.given = x.given /\ t.earned = x.earned
        /\ t.locks = x.saved
    BY <1>2, <2>1, <2>3 DEF Transactions
  <2>5. Continue(w, t)
    BY <1>1, <1>4, <2>2, <2>3 DEF GiveUp
  <2>6. Kept(t) = Kept(x) /\ pc \in {"commit", "others"}
    BY <1>2, <2>2, <2>4 DEF Kept, Trying
  <2>7. Purposeful(t) /\ Covered(t)
    BY <1>2, <2>1, <2>4, <2>6, SamePurpose, SameCover DEF Trying
  <2>8. \A y : y \in writes <=> y \in x.writes /\ y.status # "pending"
    BY <1>1, <2>2 DEF Pending
  <2>9. Focused(t)
    <3>1. \A s : Owed(t, s) <=> Owed(x, s)
      BY <2>4 DEF Owed
    <3>2. /\ \A s \in x.queue : Owed(x, s)
          /\ \A y \in x.writes : y.slot # x.slot => Owed(x, y.slot)
          /\ \A y, z \in x.writes : y.slot = z.slot => y = z
          /\ \A y \in x.writes : y.slot \notin x.queue
      BY <1>2 DEF Focused
    <3> QED BY <2>4, <2>6, <2>8, <3>1, <3>2 DEF Focused, Trying
  <2>10. Won(t) = Won(x)
    BY <2>4, <2>8 DEF Won
  <2>11. \A s \in Won(x) : DecidedOn(t, s) = DecidedOn(x, s)
    <3>1. \A y, z \in x.writes : y.slot = z.slot => y = z
      BY <1>2 DEF Focused
    <3> QED BY <2>4, <2>8, <3>1 DEF Won, DecidedOn
  <2>12. Tallied(t)
    BY <1>2, <2>4, <2>10, <2>11, SameTally
  <2> QED BY <2>5, <2>7, <2>9, <2>12, QuietStep DEF Honest
<1> QED BY <1>3, <1>4

\* Two credits are one of both amounts.
LEMMA CreditTwice ==
  ASSUME NEW x \in Wallets, NEW m \in Nat, NEW n \in Nat
  PROVE  ApplyCredit(ApplyCredit(x, m, "commission"), n, "commission")
           = ApplyCredit(x, m + n, "commission")
<1>1. PICK r, c, s : x = [recharge |-> r, commission |-> c, status |-> s] /\ c \in Nat
  <2>1. /\ x = [recharge |-> x.recharge, commission |-> x.commission, status |-> x.status]
        /\ x.commission \in Nat
    BY MaxBalanceAssumption DEF Wallets
  <2> QED BY <2>1
<1>2. ApplyCredit(x, m, "commission") = [recharge |-> r, commission |-> c + m, status |-> s]
  BY <1>1 DEF ApplyCredit
<1>3. ApplyCredit([recharge |-> r, commission |-> c + m, status |-> s], n, "commission")
        = [recharge |-> r, commission |-> (c + m) + n, status |-> s]
  BY DEF ApplyCredit
<1>4. ApplyCredit(x, m + n, "commission") = [recharge |-> r, commission |-> c + (m + n), status |-> s]
  BY <1>1 DEF ApplyCredit
<1>5. (c + m) + n = c + (m + n)
  BY <1>1
<1> QED BY <1>2, <1>3, <1>4, <1>5

\* What a transaction makes of a wallet, of the wallet as its charge leaves it.
Charging(t, c) ==
  IF t.kind = "mark" /\ c = Eater(t.slot) THEN ApplyDebit(wallet[c], Price, "commission_first")
  ELSE wallet[c]
Earning(t, c) ==
  IF t.kind = "mark" /\ c = Eater(t.slot) THEN t.earned
  ELSE IF c = referrer[Eater(t.slot)] THEN t.given ELSE 0

\* A transaction's own charge is covered.
LEMMA ChargingLemma ==
  ASSUME Accounts, NEW t \in Transactions, Covered(t), Charged(t) \/ t.kind # "mark",
         NEW c \in Customers
  PROVE  /\ Charging(t, c) \in Wallets /\ Earning(t, c) \in Nat
         /\ Balance(Charging(t, c)) =
              Balance(wallet[c]) - IF t.kind = "mark" /\ c = Eater(t.slot) THEN Price ELSE 0
         /\ OutcomeOf(t, c) = ApplyCredit(Charging(t, c), Earning(t, c), "commission")
<1>1. wallet[c] \in Wallets /\ Price \in Nat
  BY ReferralAssumption DEF Accounts
<1>2. OutcomeOf(t, c) = ApplyCredit(Charging(t, c), Earning(t, c), "commission")
  BY DEF OutcomeOf, Charging, Earning
<1>3. Earning(t, c) \in Nat
  BY DEF Earning, Transactions
<1>4. CASE t.kind = "mark" /\ c = Eater(t.slot)
  <2>1. Price <= Balance(wallet[c])
    BY <1>4 DEF Covered
  <2>2. Charging(t, c) = ApplyDebit(wallet[c], Price, "commission_first")
    BY <1>4 DEF Charging
  <2> QED BY <1>1, <1>2, <1>3, <1>4, <2>1, <2>2, WalletLemma
<1>5. CASE ~(t.kind = "mark" /\ c = Eater(t.slot))
  <2>1. Charging(t, c) = wallet[c]
    BY <1>5 DEF Charging
  <2>2. Balance(wallet[c]) \in Nat
    BY <1>1, WalletLemma
  <2> QED BY <1>1, <1>2, <1>3, <1>5, <2>1, <2>2
<1> QED BY <1>4, <1>5

\* A transaction that has paid, from one that was to pay.
Credited(w, t) ==
  LET own == tx[w].kind = "mark" /\ tx[w].payee = Eater(tx[w].slot) IN
  /\ t.kind = tx[w].kind /\ t.slot = tx[w].slot /\ t.target = tx[w].target
  /\ t.writes = Resolved(w, "success")
  /\ t.given = tx[w].given + (IF own THEN 0 ELSE Due(w))
  /\ t.earned = tx[w].earned + (IF own THEN Due(w) ELSE 0)

\* The referrer of the meal at hand is somebody else; of others, it is the eater.
LEMMA PayeeLemma ==
  ASSUME Inv, Accounts, NEW w \in Workers, tx[w].pc = "credit"
  PROVE  /\ tx[w].payee = referrer[Eater(tx[w].target)] /\ tx[w].payee \in Customers
         /\ tx[w].slot \in Slots
         /\ tx[w].target = tx[w].slot =>
              tx[w].payee # Eater(tx[w].slot) /\ tx[w].given = 0 /\ tx[w].earned = 0
         /\ tx[w].target # tx[w].slot => tx[w].kind = "mark" /\ tx[w].payee = Eater(tx[w].slot)
<1>1. PICK x : x = tx[w]
  OBVIOUS
<1>2. x \in Transactions /\ Sound(x) /\ Purposeful(x) /\ Focused(x) /\ x.pc = "credit"
  BY <1>1, HonestLemma
<1>3. x.payee = referrer[Eater(x.target)] /\ x.payee \in Customers
  BY <1>2 DEF Focused, Sound, Aimed
<1>4. x.kind \in {"mark", "retry"}
  BY <1>2 DEF Sound, Placed, Transactions, Kinds
<1>5. x.slot \in Slots
  BY <1>2, <1>4 DEF Sound, Placed, Aimed, Trying, Purposeful
<1>6. x.target # x.slot => x.kind = "mark" /\ x.payee = Eater(x.slot)
  BY <1>2, <1>3 DEF Focused, Trying, Owed
<1>7. x.target = x.slot => x.given = 0 /\ x.earned = 0
  BY <1>2 DEF Focused, Trying
<1>8. x.target = x.slot => x.payee # Eater(x.slot)
  BY <1>3, <1>5, SlotLemma DEF Accounts, ReferredByOthers
<1> QED BY <1>1, <1>3, <1>5, <1>6, <1>7, <1>8

\* A commission that is paid is tallied, as given or as earned.
LEMMA CreditTally ==
  ASSUME Inv, Accounts, NEW w \in Workers, tx[w].pc = "credit", NEW t, Credited(w, t)
  PROVE  Tallied(t)
<1>1. PICK x : x = tx[w]
  OBVIOUS
<1>2. /\ x \in Transactions /\ Focused(x) /\ Tallied(x) /\ x.pc = "credit"
      /\ IsFiniteSet(delivered)
  BY <1>1, HonestLemma
<1>3. PICK due, g : due = Due(w) /\ g = x.target
  OBVIOUS
<1>4. /\ g \notin Won(x) /\ g \in Slots
      /\ \A s : s # g => DecidedOn(t, s) = DecidedOn(x, s)
      /\ Won(t) = Won(x) \cup {g}
      /\ Worth(t)[g] = due /\ due \in Nat
  BY <1>1, <1>2, <1>3, ResolvedDecisions DEF Credited
<1>5. /\ IsFiniteSet(Won(x) \ {x.slot}) /\ \A s \in Won(x) : Worth(x)[s] \in Nat /\ s \in Slots
  BY <1>2, WonLemma
<1>6. ASSUME NEW s \in Won(x) PROVE Worth(t)[s] = Worth(x)[s]
  <2>1. DecidedOn(t, s) = DecidedOn(x, s) /\ s \in Slots
    BY <1>4, <1>5
  <2>2. PICK D : D = DecidedOn(x, s)
    OBVIOUS
  <2>3. Worth(t)[s] = (CHOOSE y \in D : TRUE).amount
    BY <2>1, <2>2 DEF Worth
  <2>4. Worth(x)[s] = (CHOOSE y \in D : TRUE).amount
    BY <2>1, <2>2 DEF Worth
  <2> QED BY <2>3, <2>4
<1>7. SumOver(Worth(t), Won(x) \ {x.slot}) = SumOver(Worth(x), Won(x) \ {x.slot})
  BY <1>5, <1>6, SumSame
<1>8. /\ x.given = IF x.slot \in Won(x) THEN Worth(x)[x.slot] ELSE 0
      /\ x.earned = SumOver(Worth(x), Won(x) \ {x.slot})
      /\ x.given \in Nat /\ x.earned \in Nat
  BY <1>2 DEF Tallied, Transactions
<1>9. CASE g = x.slot
  <2>1. t.slot = x.slot /\ t.given = 0 + due /\ t.earned = x.earned + 0
    BY <1>1, <1>3, <1>9, PayeeLemma DEF Credited
  <2>2. Won(t) \ {t.slot} = Won(x) \ {x.slot}
    BY <1>4, <1>9, <2>1
  <2>3. t.slot \in Won(t) /\ t.given = Worth(t)[t.slot] /\ t.earned = x.earned
    BY <1>4, <1>8, <1>9, <2>1
  <2> QED BY <1>7, <1>8, <2>2, <2>3 DEF Tallied
<1>10. CASE g # x.slot
  <2>1. t.slot = x.slot /\ t.given = x.given + 0 /\ t.earned = x.earned + due
    BY <1>1, <1>3, <1>10, PayeeLemma DEF Credited
  <2>2. t.given = IF t.slot \in Won(t) THEN Worth(t)[t.slot] ELSE 0
    BY <1>4, <1>6, <1>8, <1>10, <2>1
  <2>3. PICK S : S = Won(x) \ {x.slot}
    OBVIOUS
  <2>4. Won(t) \ {t.slot} = S \cup {g} /\ g \notin S
    BY <1>4, <1>10, <2>1, <2>3
  <2>5. PICK f : f = Worth(t)
    OBVIOUS
  <2>6. \A y \in S \cup {g} : f[y] \in Int
    BY <1>4, <1>5, <1>6, <2>3, <2>5
  <2>7. SumOver(f, S \cup {g}) = SumOver(f, S) + f[g]
    BY <1>5, <2>3, <2>4, <2>6, SumAdd
  <2>8. SumOver(f, S) = x.earned /\ f[g] = due
    BY <1>4, <1>7, <1>8, <2>3, <2>5
  <2>9. t.earned = SumOver(Worth(t), Won(t) \ {t.slot})
    BY <2>1, <2>4, <2>5, <2>7, <2>8
  <2> QED BY <2>2, <2>9 DEF Tallied
<1> QED BY <1>9, <1>10

\* What a paid commission makes of the wallets fits them.
LEMMA CreditOutcome ==
  ASSUME Inv, Accounts, NEW w \in Workers, tx[w].pc = "credit", NEW t \in Transactions,
         Credited(w, t), Creditable(w, tx[w].payee), NEW c \in Customers
  PROVE  OutcomeOf(t, c) \in Wallets
<1>1. PICK x : x = tx[w]
  OBVIOUS
<1>2. /\ x \in Transactions /\ Sound(x) /\ Focused(x) /\ Covered(x) /\ x.pc = "credit"
  BY <1>1, HonestLemma
<1>3. x.kind \in {"mark", "retry"} /\ x.given \in Nat /\ x.earned \in Nat
  BY <1>2 DEF Sound, Placed, Transactions, Kinds
<1>4. Charged(x) \/ x.kind = "retry"
  BY <1>2, <1>3 DEF Charged
<1>5. PICK l, e : l = Charging(x, c) /\ e = Earning(x, c)
  OBVIOUS
<1>6. /\ l \in Wallets /\ e \in Nat
      /\ OutcomeOf(x, c) = ApplyCredit(l, e, "commission") /\ OutcomeOf(x, c) \in Wallets
  BY <1>2, <1>3, <1>4, <1>5, ChargingLemma DEF Covered
<1>7. Charging(t, c) = l
  BY <1>1, <1>5 DEF Charging, Credited
<1>8. OutcomeOf(t, c) = ApplyCredit(l, Earning(t, c), "commission")
  BY <1>7 DEF OutcomeOf, Charging, Earning
<1>9. PICK due : due = Due(w)
  OBVIOUS
<1>10. due \in Nat
  BY <1>1, <1>2, <1>9, ResolvedDecisions DEF Credited
<1>11. /\ t.kind = x.kind /\ t.slot = x.slot
       /\ t.given = x.given + (IF x.kind = "mark" /\ x.payee = Eater(x.slot) THEN 0 ELSE due)
       /\ t.earned = x.earned + (IF x.kind = "mark" /\ x.payee = Eater(x.slot) THEN due ELSE 0)
  BY <1>1, <1>9 DEF Credited
<1>12. /\ x.target = x.slot => x.payee # Eater(x.slot) /\ x.payee = referrer[Eater(x.slot)]
       /\ x.target # x.slot => x.kind = "mark" /\ x.payee = Eater(x.slot)
       /\ x.slot \in Slots
  BY <1>1, <1>2, PayeeLemma
<1>13. CASE c = x.payee
  <2>1. Earning(t, c) = e + due
    BY <1>3, <1>5, <1>10, <1>11, <1>12, <1>13 DEF Earning
  <2>2. OutcomeOf(t, c) = ApplyCredit(OutcomeOf(x, c), due, "commission")
    BY <1>6, <1>8, <1>10, <2>1, CreditTwice
  <2>3. Outcome(w, c) = OutcomeOf(x, c)
    BY <1>1 DEF Outcome, OutcomeOf
  <2>4. Balance(ApplyCredit(OutcomeOf(x, c), due, "commission")) <= MaxBalance
    BY <1>1, <1>9, <1>13, <2>3 DEF Creditable, FitsColumn
  <2>5. PICK y : y = OutcomeOf(x, c)
    OBVIOUS
  <2>6. ApplyCredit(y, due, "commission") \in Wallets
    BY <1>6, <1>10, <2>4, <2>5, WalletLemma
  <2> QED BY <2>2, <2>5, <2>6
<1>14. CASE c # x.payee
  <2>1. Earning(t, c) = e
    BY <1>3, <1>5, <1>10, <1>11, <1>12, <1>14 DEF Earning
  <2> QED BY <1>6, <1>8, <2>1
<1> QED BY <1>13, <1>14

\* Paying the commission to its referrer, or taking it back, is honest.
LEMMA CreditHonest ==
  ASSUME Inv, Accounts, NEW w \in Workers, Credit(w)
  PROVE  Accounts'
<1>1. PICK x : x = tx[w]
  OBVIOUS
<1>2. /\ x \in Transactions /\ Sound(x) /\ Purposeful(x) /\ Focused(x) /\ Tallied(x) /\ Covered(x)
      /\ x.pc = "credit" /\ IsFiniteSet(delivered) /\ admin \in Nat
  BY <1>1, HonestLemma DEF Credit
<1>3. /\ x.kind \in {"mark", "retry"} /\ x.saved \subseteq x.locks
      /\ x.given \in Nat /\ x.earned \in Nat
  BY <1>2 DEF Sound, Placed, Trying, Transactions, Kinds
<1>4. UNCHANGED <<settings, books>>
  BY DEF Credit
<1>5. CASE ~Creditable(w, x.payee)
  <2>1. GiveUp(w)
    BY <1>1, <1>5 DEF Credit
  <2> QED BY <1>1, <1>2, <1>4, <2>1, GiveUpHonest DEF Trying
<1>6. CASE Creditable(w, x.payee)
  <2>1. PICK pc, writes, given, earned, held :
          /\ pc = Onward(w) /\ writes = Resolved(w, "success")
          /\ held = x.locks \cup {Purse(x.payee)}
          /\ given = x.given + (IF x.kind = "mark" /\ x.payee = Eater(x.slot) THEN 0 ELSE Due(w))
          /\ earned = x.earned + (IF x.kind = "mark" /\ x.payee = Eater(x.slot) THEN Due(w) ELSE 0)
    OBVIOUS
  <2>2. PICK t : t = [x EXCEPT !.pc = pc, !.locks = held, !.given = given, !.earned = earned,
                               !.writes = writes]
    OBVIOUS
  <2>3. /\ t.kind = x.kind /\ t.pc = pc /\ t.slot = x.slot /\ t.target = x.target
        /\ t.writes = writes /\ t.queue = x.queue /\ t.given = given /\ t.earned = earned
        /\ t.saved = x.saved /\ t.payee = x.payee /\ t.locks = held
    BY <1>2, <2>2 DEF Transactions
  <2>4. Continue(w, t)
    BY <1>1, <1>6, <2>1, <2>2 DEF Credit
  <2>5. pc \in {"look", "others", "commit"} /\ (pc = "look" => x.target = x.slot)
    BY <1>1, <1>3, <2>1, OnwardLemma
  <2>6. Kept(x) \subseteq Kept(t) /\ Kept(t) = held
    BY <1>2, <1>3, <2>1, <2>3, <2>5 DEF Kept, Trying
  <2>7. Purposeful(t)
    BY <1>2, <1>3, <2>3, <2>5, <2>6, SamePurpose
  <2>8. Focused(t)
    BY <1>1, <1>2, <2>1, <2>3, <2>5, ResolvedFocused
  <2>9. Credited(w, t)
    BY <1>1, <2>1, <2>3 DEF Credited
  <2>10. Tallied(t)
    BY <1>1, <1>2, <2>9, CreditTally
  <2>11. PICK p : p \in Writes /\ p \in x.writes /\ p.status = "pending" /\ Due(w) = p.amount
    BY <1>1, <1>2, PendingLemma
  <2>12. Due(w) \in Nat /\ x.given + x.earned + Due(w) <= admin /\ Admin \in x.locks
    BY <1>2, <2>11 DEF Covered, Writes
  <2>13. given \in Nat /\ earned \in Nat /\ given + earned = x.given + x.earned + Due(w)
    BY <1>3, <2>1, <2>12
  <2>14. writes \subseteq Writes
    <3>1. PICK n : n \in Writes /\ \A y \in writes : y = n \/ y \in x.writes
      BY <1>1, <1>2, <2>1, ResolvedLemma
    <3> QED BY <1>2, <3>1 DEF Transactions
  <2>15. held \subseteq Locks
    <3>1. x.payee \in Customers
      BY <1>2 DEF Sound, Aimed
    <3> QED BY <1>2, <2>1, <3>1, LockTypes DEF Transactions
  <2>16. pc \in Steps
    BY <2>5 DEF Steps
  <2>17. t \in Transactions
    BY <1>2, <2>2, <2>13, <2>14, <2>15, <2>16 DEF Transactions
  <2>18. \A c \in Customers : OutcomeOf(t, c) \in Wallets
    BY <1>1, <1>2, <1>6, <2>9, <2>17, CreditOutcome
  <2>19. given > 0 => Purse(referrer[Eater(x.slot)]) \in held
    <3>1. CASE x.target = x.slot
      BY <1>1, <1>2, <2>1, <3>1, PayeeLemma
    <3>2. CASE x.target # x.slot
      <4>1. given = x.given
        BY <1>1, <1>2, <1>3, <2>1, <3>2, PayeeLemma
      <4> QED BY <1>2, <2>6, <4>1 DEF Covered
    <3> QED BY <3>1, <3>2
  <2>20. Charged(t) => Charged(x)
    BY <1>2, <2>3 DEF Charged
  <2>21. Covered(t)
    BY <1>2, <2>1, <2>3, <2>5, <2>6, <2>12, <2>13, <2>18, <2>19, <2>20 DEF Covered
  <2> QED BY <1>4, <2>4, <2>7, <2>8, <2>10, <2>21, QuietStep DEF Honest
<1> QED BY <1>5, <1>6

\* Finding the slots whose commission waits for this meal is honest.
LEMMA LookHonest ==
  ASSUME Inv, Accounts, NEW w \in Workers, Look(w)
  PROVE  Accounts'
<1>1. PICK x : x = tx[w]
  OBVIOUS
<1>2. /\ x \in Transactions /\ Sound(x) /\ Purposeful(x) /\ Focused(x) /\ Tallied(x) /\ Covered(x)
      /\ x.pc = "look"
  BY <1>1, HonestLemma DEF Look
<1>3. x.kind = "mark"
  BY <1>2 DEF Sound, Placed, Trying, Transactions, Kinds
<1>4. PICK queue : queue = {s \in delivered : /\ referrer[Eater(s)] = Eater(x.slot)
                                              /\ s[2] = x.slot[2]}
  OBVIOUS
<1>5. PICK t : t = [x EXCEPT !.pc = "others", !.queue = queue]
  OBVIOUS
<1>6. /\ t.kind = "mark" /\ t.pc = "others" /\ t.slot = x.slot /\ t.target = x.target
      /\ t.writes = x.writes /\ t.queue = queue /\ t.given = x.given /\ t.earned = x.earned
      /\ t.saved = x.saved /\ t.payee = x.payee /\ t.locks = x.locks
  BY <1>2, <1>3, <1>5 DEF Transactions
<1>7. Continue(w, t) /\ UNCHANGED <<settings, books>>
  BY <1>1, <1>4, <1>5 DEF Look
<1>8. Kept(t) = Kept(x)
  BY <1>2, <1>6 DEF Kept, Trying
<1>9. Purposeful(t) /\ Covered(t)
  BY <1>2, <1>3, <1>6, <1>8, SamePurpose, SameCover
<1>10. x.slot \notin queue
  BY <1>2, <1>3, <1>4 DEF Purposeful
<1>11. \A y \in x.writes : y.slot = x.slot
  BY <1>2 DEF Focused
<1>12. \A s \in queue : Owed(t, s)
  BY <1>4, <1>6 DEF Owed
<1>13. Focused(t)
  BY <1>2, <1>6, <1>10, <1>11, <1>12 DEF Focused, Trying
<1>14. Tallied(t)
  BY <1>2, <1>6 DEF Tallied, Won, Worth, DecidedOn
<1> QED BY <1>7, <1>9, <1>13, <1>14, QuietStep DEF Honest

\* Taking up another slot is honest: it was not decided about.
LEMMA TryOtherHonest ==
  ASSUME Inv, Accounts, NEW w \in Workers, NEW s \in Slots, TryOther(w, s)
  PROVE  Accounts'
<1>1. PICK x : x = tx[w]
  OBVIOUS
<1>2. /\ x \in Transactions /\ Sound(x) /\ Purposeful(x) /\ Focused(x) /\ Tallied(x) /\ Covered(x)
      /\ x.pc = "others" /\ s \in x.queue
  BY <1>1, HonestLemma DEF TryOther
<1>3. x.kind = "mark"
  BY <1>2 DEF Sound, Placed, Trying, Transactions, Kinds
<1>4. PICK pc, target : /\ pc = IF Settled(row[s]) THEN "others" ELSE "claim"
                        /\ target = IF Settled(row[s]) THEN x.target ELSE s
  OBVIOUS
<1>5. PICK t : t = [x EXCEPT !.queue = x.queue \ {s}, !.saved = x.locks, !.pc = pc,
                             !.target = target]
  OBVIOUS
<1>6. /\ t.kind = "mark" /\ t.pc = pc /\ t.slot = x.slot /\ t.target = target
      /\ t.writes = x.writes /\ t.queue = x.queue \ {s} /\ t.given = x.given
      /\ t.earned = x.earned /\ t.saved = x.locks /\ t.payee = x.payee /\ t.locks = x.locks
  BY <1>2, <1>3, <1>5 DEF Transactions
<1>7. Continue(w, t) /\ UNCHANGED <<settings, books>>
  BY <1>1, <1>4, <1>5, Zenon DEF TryOther
<1>8. Kept(t) = Kept(x)
  BY <1>2, <1>4, <1>6 DEF Kept, Trying
<1>9. Purposeful(t) /\ Covered(t)
  BY <1>2, <1>3, <1>4, <1>6, <1>8, SamePurpose, SameCover
<1>10. Owed(x, s) /\ \A y \in x.writes : y.slot # s
  BY <1>2 DEF Focused
<1>11. s # x.slot
  BY <1>2, <1>3, <1>10 DEF Purposeful, Owed
<1>12. \A y \in x.writes : y.status # "pending"
  BY <1>2 DEF Sound, Decided
<1>13. \A r : Owed(t, r) <=> Owed(x, r)
  BY <1>6 DEF Owed
<1>14. /\ \A r \in x.queue : Owed(x, r)
       /\ \A y \in x.writes : y.slot # x.slot => Owed(x, y.slot)
       /\ \A y, z \in x.writes : y.slot = z.slot => y = z
       /\ \A y \in x.writes : y.slot \notin x.queue
  BY <1>2 DEF Focused
<1>15. pc \in {"others", "claim"} /\ (pc = "claim" => target = s)
  BY <1>4
<1>16. Focused(t)
  BY <1>6, <1>10, <1>11, <1>12, <1>13, <1>14, <1>15 DEF Focused, Trying
<1>17. Tallied(t)
  BY <1>2, <1>6 DEF Tallied, Won, Worth, DecidedOn
<1> QED BY <1>7, <1>9, <1>16, <1>17, QuietStep DEF Honest

\* Locking the wallet of a reversal or of a recharge is honest.
LEMMA DebitHonest ==
  ASSUME Inv, Accounts, NEW w \in Workers, Debit(w)
  PROVE  Accounts'
<1>1. PICK x : x = tx[w]
  OBVIOUS
<1>2. /\ x \in Transactions /\ Sound(x) /\ Purposeful(x) /\ Focused(x) /\ Tallied(x) /\ Covered(x)
      /\ x.pc = "debit" /\ wallet \in [Customers -> Wallets]
  BY <1>1, HonestLemma DEF Debit
<1>3. /\ x.kind \in {"fund", "reverse"} /\ x.payee \in Customers
      /\ x.given = 0 /\ x.earned = 0
  BY <1>2 DEF Sound, Placed, Aimed, Trying, Purposeful, Transactions, Kinds
<1>4. UNCHANGED <<settings, books>>
  BY DEF Debit
<1>5. CASE ~Movable(w)
  BY <1>1, <1>4, <1>5, EndHonest DEF Debit
<1>6. CASE Movable(w)
  <2>1. PICK held : held = x.locks \cup {Purse(x.payee)}
    OBVIOUS
  <2>2. PICK t : t = [x EXCEPT !.pc = "refund", !.locks = held]
    OBVIOUS
  <2>3. /\ t.kind = x.kind /\ t.pc = "refund" /\ t.slot = x.slot /\ t.target = x.target
        /\ t.writes = x.writes /\ t.queue = x.queue /\ t.given = 0 /\ t.earned = 0
        /\ t.payee = x.payee /\ t.locks = held
    BY <1>2, <1>3, <2>2 DEF Transactions
  <2>4. Continue(w, t)
    BY <1>1, <1>6, <2>1, <2>2 DEF Debit
  <2>5. Purposeful(t)
    BY <1>2, <1>3, <2>3 DEF Purposeful, Charged
  <2>6. Focused(t)
    BY <1>2, <2>3 DEF Focused, Trying, Owed
  <2>7. Tallied(t)
    BY <1>2, <1>3, <2>3 DEF Tallied, Won, Worth, DecidedOn
  <2>8. PICK y : y = wallet[x.payee]
    OBVIOUS
  <2>9. y \in Wallets /\ Recharge \in Nat
    BY <1>2, <1>3, <2>8, ReferralAssumption
  <2>10. x.kind = "fund" => Balance(y) + Recharge <= MaxBalance
    <3>1. SUFFICES ASSUME x.kind = "fund" PROVE Balance(y) + Recharge <= MaxBalance
      OBVIOUS
    <3>2. PICK r, c : r = y.recharge /\ c = y.commission
      OBVIOUS
    <3>3. /\ y = [recharge |-> r, commission |-> c, status |-> y.status]
          /\ r \in Nat /\ c \in Nat
      BY <2>9, <3>2, MaxBalanceAssumption DEF Wallets
    <3>4. ApplyCredit(y, Recharge, "recharge")
            = [recharge |-> r + Recharge, commission |-> c, status |-> y.status]
      BY <3>3 DEF ApplyCredit
    <3>5. Balance(ApplyCredit(y, Recharge, "recharge")) = (r + Recharge) + c
      BY <3>4 DEF Balance
    <3>6. FitsColumn(ApplyCredit(y, Recharge, "recharge"))
      BY <1>1, <1>6, <2>8, <3>1 DEF Movable, Moved
    <3>7. Balance(y) = r + c
      BY <3>2 DEF Balance
    <3> QED BY <2>9, <3>3, <3>5, <3>6, <3>7, MaxBalanceAssumption DEF FitsColumn
  <2>11. x.kind = "reverse" => row[x.slot].amount <= y.commission
    BY <1>1, <1>6, <2>8 DEF Movable, Spendable
  <2>12. Covered(t)
    BY <1>2, <1>3, <2>1, <2>3, <2>8, <2>10, <2>11 DEF Covered, Charged
  <2> QED BY <1>4, <2>4, <2>5, <2>6, <2>7, <2>12, QuietStep DEF Honest
<1> QED BY <1>5, <1>6

\* Beginning to try a delivered slot again is honest.
LEMMA RetryHonest ==
  ASSUME Inv, Accounts, NEW t, NEW s \in delivered,
         t = [Idle EXCEPT !.kind = "retry", !.pc = "claim", !.slot = s, !.target = s]
  PROVE  Honest(t)
<1>1. /\ t.kind = "retry" /\ t.pc = "claim" /\ t.slot = s /\ t.target = s /\ t.writes = {}
      /\ t.queue = {} /\ t.given = 0 /\ t.earned = 0
  BY DEF Idle
<1>2. Purposeful(t)
  BY <1>1 DEF Purposeful, Charged
<1>3. Focused(t)
  BY <1>1 DEF Focused, Trying
<1>4. Tallied(t)
  BY <1>1, FreshTally
<1>5. \A c \in Customers : OutcomeOf(t, c) \in Wallets
  BY <1>1, NoOutcome
<1>6. Covered(t)
  BY <1>1, <1>5 DEF Covered, Charged, Accounts
<1> QED BY <1>2, <1>3, <1>4, <1>6 DEF Honest

\* Beginning a reversal or a recharge is honest.
LEMMA MoveHonest ==
  ASSUME Accounts, NEW t, t.kind \in {"fund", "reverse"}, t.pc = "debit", t.writes = {},
         t.queue = {}, t.given = 0, t.earned = 0,
         t.kind = "reverse" => t.payee = referrer[Eater(t.slot)]
  PROVE  Honest(t)
<1>1. Purposeful(t)
  BY DEF Purposeful, Charged
<1>2. Focused(t)
  BY DEF Focused, Trying
<1>3. Tallied(t)
  BY FreshTally
<1>4. Covered(t)
  BY DEF Covered, Charged, Accounts
<1> QED BY <1>1, <1>2, <1>3, <1>4 DEF Honest

\* Transactions begin, stop and die honestly.
LEMMA StopsHonest ==
  ASSUME Inv, Accounts, NEW w \in Workers,
         \/ \E s \in Slots : Retry(w, s) \/ Reverse(w, s)
         \/ \E c \in Customers : Fund(w, c)
         \/ Victim(w)
  PROVE  Accounts'
<1>1. ASSUME NEW s \in Slots, Retry(w, s) PROVE Accounts'
  <2>1. PICK t : t = [Idle EXCEPT !.kind = "retry", !.pc = "claim", !.slot = s, !.target = s]
    OBVIOUS
  <2>2. s \in delivered /\ Continue(w, t) /\ UNCHANGED <<settings, books>>
    BY <1>1, <2>1 DEF Retry
  <2> QED BY <2>1, <2>2, RetryHonest, QuietStep
<1>2. ASSUME NEW s \in Slots, Reverse(w, s) PROVE Accounts'
  <2>1. PICK t : t = [Idle EXCEPT !.kind = "reverse", !.pc = "debit", !.slot = s,
                                  !.payee = referrer[Eater(s)], !.locks = {Row(s)}]
    OBVIOUS
  <2>2. Continue(w, t) /\ UNCHANGED <<settings, books>>
    BY <1>2, <2>1 DEF Reverse
  <2>3. /\ t.kind = "reverse" /\ t.pc = "debit" /\ t.writes = {} /\ t.queue = {}
        /\ t.given = 0 /\ t.earned = 0 /\ t.payee = referrer[Eater(t.slot)]
    BY <2>1 DEF Idle
  <2>4. Honest(t)
    BY <2>3, MoveHonest
  <2> QED BY <2>2, <2>4, QuietStep
<1>3. ASSUME NEW c \in Customers, Fund(w, c) PROVE Accounts'
  <2>1. PICK t : t = [Idle EXCEPT !.kind = "fund", !.pc = "debit", !.payee = c]
    OBVIOUS
  <2>2. Continue(w, t) /\ UNCHANGED <<settings, books>>
    BY <1>3, <2>1 DEF Fund
  <2>3. /\ t.kind = "fund" /\ t.pc = "debit" /\ t.writes = {} /\ t.queue = {}
        /\ t.given = 0 /\ t.earned = 0
    BY <2>1 DEF Idle
  <2>4. Honest(t)
    BY <2>3, MoveHonest
  <2> QED BY <2>2, <2>4, QuietStep
<1>4. CASE Victim(w)
  <2>1. UNCHANGED <<settings, books>>
    BY <1>4 DEF Victim
  <2>2. (GiveUp(w) /\ tx[w].pc \in Trying) \/ Continue(w, Idle)
    BY <1>4 DEF Victim, Trying
  <2> QED BY <2>1, <2>2, GiveUpHonest, EndHonest
<1> QED BY <1>1, <1>2, <1>3, <1>4

-----------------------------------------------------------------------------
\* Steps that change the books

\* What others do to the books, as one transaction sees it: nothing to what it has
\* locked; and no known customer gets another referrer.
Bystanding(u) ==
  /\ \A c \in Customers : standing[c] # "unknown" => referrer'[c] = referrer[c]
  /\ delivered \subseteq delivered'
  /\ \A s \in delivered' \ delivered : Slot(s) \notin u.locks
  /\ wallet' \in [Customers -> Wallets]
  /\ \A c \in Customers : Purse(c) \in u.locks => wallet'[c] = wallet[c]
  /\ admin' \in Nat /\ (Admin \in u.locks => admin' >= admin)
  /\ \A s \in Slots : Row(s) \in u.locks /\ row[s].status = "success" =>
       row'[s].amount = row[s].amount

\* The eaters a transaction is about are known customers.
LEMMA KnownLemma ==
  ASSUME Inv, Accounts, NEW v \in Workers
  PROVE  /\ tx[v].kind # "fund" /\ tx[v].pc # "idle" =>
              tx[v].slot \in Slots /\ standing[Eater(tx[v].slot)] # "unknown"
         /\ \A s \in delivered : s \in Slots /\ standing[Eater(s)] # "unknown"
         /\ tx[v].pc \in {"pay", "credit"} =>
              tx[v].target \in Slots /\ standing[Eater(tx[v].target)] # "unknown"
<1>1. PICK u : u = tx[v]
  OBVIOUS
<1>2. u \in Transactions /\ Sound(u) /\ Purposeful(u)
  BY <1>1, HonestLemma
<1>3. \A s \in delivered : s \in Slots /\ standing[Eater(s)] # "unknown"
  BY DEF Inv, Shaped, EatersKnown
<1>4. u.kind \in {"mark", "retry", "reverse", "fund"}
  BY <1>2 DEF Transactions, Kinds
<1>5. u.kind # "fund" /\ u.pc # "idle" => u.slot \in Slots /\ standing[Eater(u.slot)] # "unknown"
  <2>1. CASE u.kind = "mark"
    BY <1>2, <2>1 DEF Sound, Placed
  <2>2. CASE u.kind = "retry"
    BY <1>2, <1>3, <2>2 DEF Purposeful
  <2>3. CASE u.kind = "reverse"
    BY <1>2, <1>3, <2>3 DEF Sound, Placed, Inv, PaidWhenBothAte
  <2> QED BY <1>4, <2>1, <2>2, <2>3
<1>6. u.pc \in {"pay", "credit"} => u.target \in Slots /\ standing[Eater(u.target)] # "unknown"
  <2>1. SUFFICES ASSUME u.pc \in {"pay", "credit"}
                 PROVE  u.target \in Slots /\ standing[Eater(u.target)] # "unknown"
    OBVIOUS
  <2>2. u.target \in EatenIn(u) /\ u.target \in Slots
    BY <1>2, <2>1 DEF Sound, Aimed, Trying
  <2>3. u.target \in delivered \/ (u.kind = "mark" /\ u.target = u.slot)
    BY <2>2 DEF EatenIn
  <2> QED BY <1>3, <1>5, <2>1, <2>2, <2>3
<1> QED BY <1>1, <1>3, <1>5, <1>6

\* A transaction stays honest while others change the books.
LEMMA BystanderHonest ==
  ASSUME Inv, Accounts, NEW v \in Workers, NEW u, u = tx[v], Bystanding(u)
  PROVE  Honest(u)'
<1>1. /\ u \in Transactions /\ Sound(u) /\ Purposeful(u) /\ Focused(u) /\ Tallied(u) /\ Covered(u)
      /\ wallet \in [Customers -> Wallets]
  BY HonestLemma
<1>2. Kept(u) \subseteq u.locks
  BY <1>1 DEF Kept, Sound
<1>3. \A c \in Customers : standing[c] # "unknown" => referrer'[c] = referrer[c]
  BY DEF Bystanding
<1>4. /\ u.kind # "fund" /\ u.pc # "idle" =>
           /\ u.slot \in Slots /\ Eater(u.slot) \in Customers
           /\ referrer'[Eater(u.slot)] = referrer[Eater(u.slot)]
      /\ \A s \in delivered : referrer'[Eater(s)] = referrer[Eater(s)]
      /\ u.pc \in {"pay", "credit"} => referrer'[Eater(u.target)] = referrer[Eater(u.target)]
  BY <1>3, KnownLemma, SlotLemma
<1>5. Purposeful(u)'
  <2>1. u.kind = "mark" /\ u.pc # "idle" => u.slot \notin delivered' /\ Slot(u.slot) \in Kept(u)
    BY <1>1, <1>2 DEF Purposeful, Bystanding
  <2>2. u.kind = "retry" => u.slot \in delivered' /\ u.target = u.slot /\ u.queue = {}
    BY <1>1 DEF Purposeful, Bystanding
  <2>3. u.kind = "reverse" => u.payee = referrer'[Eater(u.slot)]
    <3>1. u.kind = "reverse" => u.pc # "idle"
      BY <1>1 DEF Sound, Placed
    <3> QED BY <1>1, <1>4, <3>1 DEF Purposeful
  <2> QED BY <1>1, <2>1, <2>2, <2>3 DEF Purposeful
<1>6. Focused(u)'
  <2>1. \A s : Owed(u, s) => Owed(u, s)'
    BY <1>4 DEF Owed, Bystanding
  <2>2. u.pc \in {"pay", "credit"} => u.payee = referrer'[Eater(u.target)]
    BY <1>1, <1>4 DEF Focused
  <2> QED BY <1>1, <2>1, <2>2 DEF Focused
<1>7. Tallied(u)'
  BY <1>1 DEF Tallied
<1>8. /\ u.given \in Nat /\ u.earned \in Nat /\ admin \in Nat /\ admin' \in Nat
      /\ Admin \in u.locks => admin' >= admin
      /\ \A c \in Customers : Purse(c) \in u.locks => wallet'[c] = wallet[c]
      /\ wallet' \in [Customers -> Wallets]
  BY <1>1 DEF Bystanding, Accounts, Transactions
<1>9. u.given + u.earned > 0 => u.kind \in {"mark", "retry"} /\ u.pc # "idle"
  BY <1>1, <1>8 DEF Purposeful, Transactions, Kinds
<1>10. u.given + u.earned <= admin'
  <2>1. CASE u.given + u.earned > 0
    BY <1>1, <1>2, <1>8, <2>1 DEF Covered
  <2> QED BY <1>8, <2>1
<1>11. u.pc = "credit" =>
         \A y \in u.writes : y.status = "pending" => u.given + u.earned + y.amount <= admin'
  <2>1. \A y \in u.writes : y.amount \in Nat
    BY <1>1 DEF Transactions, Writes
  <2> QED BY <1>1, <1>8, <2>1 DEF Covered
<1>12. u.given > 0 => /\ referrer'[Eater(u.slot)] = referrer[Eater(u.slot)]
                      /\ Purse(referrer[Eater(u.slot)]) \in Kept(u)
  BY <1>1, <1>4, <1>8, <1>9 DEF Covered
<1>13. Charged(u) => /\ u.kind = "mark" /\ Eater(u.slot) \in Customers
                     /\ Purse(Eater(u.slot)) \in u.locks
                     /\ wallet'[Eater(u.slot)] = wallet[Eater(u.slot)]
  BY <1>1, <1>2, <1>4, <1>8 DEF Charged, Purposeful
<1>14. ASSUME Charged(u) \/ u.kind = "retry", NEW c \in Customers
       PROVE  OutcomeOf(u, c)' \in Wallets
  <2>1. u.kind # "fund" /\ u.pc # "idle"
    BY <1>1, <1>14 DEF Charged, Sound, Placed, Trying
  <2>2. referrer'[Eater(u.slot)] = referrer[Eater(u.slot)]
    BY <1>4, <2>1
  <2>3. OutcomeOf(u, c) \in Wallets
    BY <1>1, <1>14 DEF Covered
  <2>4. CASE wallet'[c] = wallet[c]
    BY <2>2, <2>3, <2>4 DEF OutcomeOf
  <2>5. CASE wallet'[c] # wallet[c]
    <3>1. ~(u.kind = "mark" /\ c = Eater(u.slot))
      BY <1>13, <1>14, <2>5
    <3>2. c = referrer[Eater(u.slot)] => u.given = 0
      BY <1>2, <1>8, <1>12, <2>5
    <3>3. OutcomeOf(u, c)' = ApplyCredit(wallet'[c], 0, "commission")
      BY <2>2, <3>1, <3>2 DEF OutcomeOf
    <3> QED BY <1>8, <3>3, WalletLemma
  <2> QED BY <2>4, <2>5
<1>15. u.pc = "refund" => /\ wallet'[u.payee] = wallet[u.payee]
                          /\ u.kind = "reverse" => row'[u.slot].amount = row[u.slot].amount
  BY <1>1, <1>8 DEF Covered, Sound, Aimed, Placed, Bystanding
<1>16. Covered(u)'
  BY <1>1, <1>8, <1>10, <1>11, <1>12, <1>13, <1>14, <1>15 DEF Covered
<1> QED BY <1>5, <1>6, <1>7, <1>16 DEF Honest

\* A transaction at rest is honest, whatever the books say.
LEMMA IdleHonestPrimed == ASSUME admin' \in Nat PROVE Honest(Idle)'
<1>1. /\ Idle.kind = "mark" /\ Idle.pc = "idle" /\ Idle.writes = {} /\ Idle.given = 0
      /\ Idle.earned = 0 /\ Idle.queue = {}
  BY DEF Idle
<1>2. Tallied(Idle)'
  BY <1>1, FreshTally DEF Tallied
<1>3. Purposeful(Idle)'
  BY <1>1 DEF Purposeful, Charged
<1>4. Focused(Idle)'
  BY <1>1 DEF Focused, Trying
<1>5. Covered(Idle)'
  BY <1>1 DEF Covered, Charged
<1> QED BY <1>2, <1>3, <1>4, <1>5 DEF Honest

\* A step of one transaction is honest if the others can stand by.
LEMMA OthersHonest ==
  ASSUME Inv, Accounts, NEW w \in Workers, NEW t, Continue(w, t), Honest(t)',
         \A v \in Workers : v # w => Bystanding(tx[v])
  PROVE  \A v \in Workers : Honest(tx[v])'
<1>1. \A v \in Workers : tx'[v] = IF v = w THEN t ELSE tx[v]
  BY DEF Inv, Shaped, Continue
<1>2. ASSUME NEW v \in Workers PROVE Honest(tx[v])'
  <2>1. PICK u : u = tx'[v]
    OBVIOUS
  <2>2. Honest(u)'
    <3>1. CASE v = w
      BY <1>1, <2>1, <3>1
    <3>2. CASE v # w
      <4>1. u = tx[v] /\ Bystanding(u)
        BY <1>1, <2>1, <3>2
      <4> QED BY <4>1, BystanderHonest
    <3> QED BY <3>1, <3>2
  <2> QED BY <2>1, <2>2, HonestPrimed
<1> QED BY <1>2

\* Settings and sign-ups leave the money where it is.
LEMMA SettingsKeepAccounts ==
  ASSUME Inv, Accounts, UNCHANGED <<delivered, row, admin, funded, tx>>,
         \A c \in Customers : standing[c] # "unknown" => referrer'[c] = referrer[c],
         \A c \in Customers : referrer'[c] # c,
         wallet' \in [Customers -> Wallets],
         \A c \in Customers : Balance(wallet'[c]) = Balance(wallet[c]),
         \A c \in Customers, w \in Workers :
           Purse(c) \in tx[w].locks => wallet'[c] = wallet[c]
  PROVE  Accounts'
<1>1. \A v \in Workers : Bystanding(tx[v])
  BY DEF Bystanding, Accounts
<1>2. ASSUME NEW v \in Workers PROVE Honest(tx[v])'
  <2>1. PICK u : u = tx[v]
    OBVIOUS
  <2>2. Honest(u)'
    BY <1>1, <2>1, BystanderHonest
  <2>3. u = tx'[v]
    BY <2>1
  <2> QED BY <2>2, <2>3, HonestPrimed
<1>3. \A s \in Slots : row[s].status = "success" => referrer'[Eater(s)] = referrer[Eater(s)]
  BY SlotLemma DEF Inv, PaidWhenBothAte, EatersKnown
<1>4. \A c : Meant(c)' = Meant(c)
  BY <1>3 DEF Meant
<1>5. /\ \A S : Paid(S)' = Paid(S)
      /\ \A c : EatenBy(c)' = EatenBy(c)
      /\ Recharged' = Recharged
  BY DEF Paid, EatenBy, Recharged
<1>6. CommissionsExplainMoney'
  BY <1>4, <1>5 DEF CommissionsExplainMoney, Accounts
<1> QED BY <1>2, <1>6 DEF Accounts, ReferredByOthers

\* What happens outside transactions keeps the accounts.
LEMMA SettingsAccounts ==
  ASSUME Inv, Accounts,
         \/ \E c \in Customers, r \in Customers \cup {Nobody} : SignUp(c, r)
         \/ \E c \in Customers : Subscribe(c) \/ Cancel(c)
         \/ \E x \in Rates : SetRate(x)
         \/ \E c \in Customers, s \in WalletStatuses : SetWalletStatus(c, s)
         \/ UNCHANGED vars
  PROVE  Accounts'
<1>0. /\ referrer \in [Customers -> Customers \cup {Nobody}]
      /\ wallet \in [Customers -> Wallets] /\ \A c \in Customers : referrer[c] # c
  BY DEF Inv, Shaped, Accounts, ReferredByOthers
<1>1. ASSUME NEW c \in Customers, NEW r \in Customers \cup {Nobody}, SignUp(c, r)
      PROVE  Accounts'
  <2>1. \A d \in Customers : referrer'[d] = IF d = c THEN r ELSE referrer[d]
    BY <1>0, <1>1 DEF SignUp
  <2>2. r # c
    BY <1>1, ReferralAssumption DEF SignUp
  <2>3. standing[c] = "unknown" /\ UNCHANGED <<delivered, row, wallet, admin, funded, tx>>
    BY <1>1 DEF SignUp, books
  <2> QED BY <1>0, <2>1, <2>2, <2>3, SettingsKeepAccounts
<1>2. ASSUME UNCHANGED <<referrer, delivered, row, wallet, admin, funded, tx>> PROVE Accounts'
  BY <1>0, <1>2, SettingsKeepAccounts
<1>3. ASSUME NEW c \in Customers, Subscribe(c) \/ Cancel(c) PROVE Accounts'
  BY <1>2, <1>3 DEF Subscribe, Cancel, books
<1>4. ASSUME NEW x \in Rates, SetRate(x) PROVE Accounts'
  BY <1>2, <1>4 DEF SetRate, books
<1>5. ASSUME NEW c \in Customers, NEW s \in WalletStatuses, SetWalletStatus(c, s)
      PROVE  Accounts'
  <2>1. /\ wallet' = [wallet EXCEPT ![c].status = s]
        /\ \A w \in Workers : Purse(c) \notin tx[w].locks
        /\ UNCHANGED <<referrer, delivered, row, admin, funded, tx>>
    BY <1>5 DEF SetWalletStatus
  <2>2. PICK y : y = [wallet[c] EXCEPT !.status = s]
    OBVIOUS
  <2>3. y \in Wallets /\ Balance(y) = Balance(wallet[c])
    BY <1>0, <2>2 DEF Wallets, Balance
  <2>4. \A d \in Customers : wallet'[d] = IF d = c THEN y ELSE wallet[d]
    BY <1>0, <2>1, <2>2
  <2>5. \A d \in Customers : Purse(d) = Purse(c) => d = c
    <3>1. \A d : Purse(d).of = d
      BY DEF Purse
    <3> QED BY <3>1
  <2>6. wallet' \in [Customers -> Wallets]
    BY <1>0, <2>1, <2>2, <2>3
  <2>7. \A d \in Customers : Balance(wallet'[d]) = Balance(wallet[d])
    BY <2>3, <2>4
  <2> QED BY <1>0, <2>1, <2>4, <2>5, <2>6, <2>7, SettingsKeepAccounts
<1>6. CASE UNCHANGED vars
  BY <1>2, <1>6 DEF vars, settings, books
<1> QED BY <1>1, <1>3, <1>4, <1>5, <1>6

\* The slots whose commission is paid, and what was paid for every slot.
Successes == {s \in Slots : row[s].status = "success"}
Amounts == [s \in Slots |-> row[s].amount]

\* Commissions are paid for finitely many slots.
LEMMA SuccessLemma ==
  ASSUME Inv, Accounts
  PROVE  /\ IsFiniteSet(Successes) /\ Successes \subseteq Slots
         /\ \A s \in Slots : Amounts[s] \in Nat /\ Amounts[s] = row[s].amount
         /\ \A c : IsFiniteSet(Meant(c)) /\ Meant(c) \subseteq Successes
                   /\ Paid(Meant(c)) = SumOver(Amounts, Meant(c))
         /\ Paid({s \in Slots : row[s].status = "success"}) = SumOver(Amounts, Successes)
<1>1. Successes \subseteq delivered /\ Successes \subseteq Slots
  BY DEF Successes, Inv, PaidWhenBothAte
<1>2. IsFiniteSet(Successes)
  BY <1>1, FS_Subset DEF Accounts
<1>3. ASSUME NEW c PROVE IsFiniteSet(Meant(c)) /\ Meant(c) \subseteq Successes
  <2>1. Meant(c) \subseteq Successes
    BY DEF Meant, Successes
  <2> QED BY <1>2, <2>1, FS_Subset
<1>4. \A s \in Slots : Amounts[s] \in Nat /\ Amounts[s] = row[s].amount
  BY DEF Inv, Shaped, Amounts
<1> QED BY <1>1, <1>2, <1>3, <1>4 DEF Paid, Amounts, Successes

\* What the accounts say of the money, for sums over the paid slots.
MoneyExplained ==
  /\ \A c \in Customers :
       Balance(wallet[c]) + Price * Cardinality(EatenBy(c))
         = funded[c] + SumOver(Amounts, Meant(c))
  /\ admin + SumOver(Amounts, Successes) = Float + Recharged

\* It is the same as the property.
LEMMA MoneyLemma == CommissionsExplainMoney <=> MoneyExplained
BY DEF CommissionsExplainMoney, MoneyExplained, Paid, Amounts, Successes

\* A step that leaves the money and the paid rows alone explains it as before.
LEMMA SameMoney ==
  ASSUME Inv, Accounts, UNCHANGED <<referrer, delivered, wallet, admin, funded>>,
         \A s \in Slots : row[s].status = "success" <=> row'[s].status = "success",
         \A s \in Slots : row[s].status = "success" => row'[s] = row[s]
  PROVE  CommissionsExplainMoney'
<1>1. Successes' = Successes
  BY DEF Successes
<1>2. \A c : Meant(c)' = Meant(c)
  BY DEF Meant
<1>3. \A s \in Successes : Amounts'[s] = Amounts[s] /\ Amounts[s] \in Int
  BY SuccessLemma DEF Amounts, Successes
<1>4. PICK f, g : f = Amounts /\ g = Amounts'
  OBVIOUS
<1>5. SumOver(g, Successes) = SumOver(f, Successes)
  BY <1>3, <1>4, SuccessLemma, SumSame
<1>6. ASSUME NEW c \in Customers PROVE SumOver(g, Meant(c)) = SumOver(f, Meant(c))
  BY <1>3, <1>4, SuccessLemma, SumSame
<1>7. MoneyExplained
  BY MoneyLemma DEF Accounts
<1>8. Recharged' = Recharged /\ \A c : EatenBy(c)' = EatenBy(c)
  BY DEF Recharged, EatenBy
<1>9. MoneyExplained'
  BY <1>1, <1>2, <1>4, <1>5, <1>6, <1>7, <1>8 DEF MoneyExplained
<1> QED BY <1>9, MoneyLemma DEF CommissionsExplainMoney, MoneyExplained, Paid, Amounts, Successes

\* A worker that dies leaves the accounts as they were.
LEMMA CrashAccounts ==
  ASSUME Inv, Accounts, NEW w \in Workers, Crash(w)
  PROVE  Accounts'
<1>1. Continue(w, Idle) /\ UNCHANGED <<referrer, delivered, row, wallet, admin, funded>>
  BY DEF Crash, books
<1>2. \A v \in Workers : Bystanding(tx[v])
  BY <1>1 DEF Bystanding, Accounts
<1>3. admin' \in Nat
  BY <1>1 DEF Accounts
<1>4. \A v \in Workers : Honest(tx[v])'
  BY <1>1, <1>2, <1>3, IdleHonestPrimed, OthersHonest
<1>5. CommissionsExplainMoney'
  BY <1>1, SameMoney
<1> QED BY <1>1, <1>4, <1>5 DEF Accounts, ReferredByOthers

\* Deleting a failed row, to try it again, leaves the money explained.
LEMMA RetryFailedAccounts ==
  ASSUME Inv, Accounts, NEW w \in Workers, NEW s \in Slots, RetryFailed(w, s)
  PROVE  Accounts'
<1>1. PICK t : t = [Idle EXCEPT !.kind = "retry", !.pc = "claim", !.slot = s, !.target = s]
  OBVIOUS
<1>2. /\ Continue(w, t) /\ row[s].status = "failed" /\ row' = [row EXCEPT ![s] = NoRow]
      /\ UNCHANGED <<referrer, delivered, wallet, admin, funded>>
  BY <1>1 DEF RetryFailed, settings
<1>3. \A r \in Slots : row'[r] = IF r = s THEN NoRow ELSE row[r]
  BY <1>2 DEF Inv, Shaped
<1>4. \A v \in Workers : Bystanding(tx[v])
  BY <1>2, <1>3 DEF Bystanding, Accounts
<1>5. s \in delivered
  BY <1>2 DEF Inv, PaidWhenBothAte
<1>6. Honest(t) /\ t.pc = "claim"
  BY <1>1, <1>5, RetryHonest DEF Idle
<1>7. Honest(t)'
  <2>1. Purposeful(t)'
    BY <1>2, <1>6 DEF Honest, Purposeful
  <2>2. Focused(t)'
    BY <1>2, <1>6 DEF Honest, Focused, Owed
  <2>3. Tallied(t)'
    BY <1>6 DEF Honest
  <2>4. Covered(t)'
    BY <1>2, <1>6 DEF Honest, Covered, OutcomeOf
  <2> QED BY <2>1, <2>2, <2>3, <2>4 DEF Honest
<1>8. \A v \in Workers : Honest(tx[v])'
  BY <1>2, <1>4, <1>7, OthersHonest
<1>9. CommissionsExplainMoney'
  BY <1>2, <1>3, SameMoney DEF NoRow
<1> QED BY <1>2, <1>8, <1>9 DEF Accounts, ReferredByOthers

\* The wallets of different customers have different locks.
LEMMA PurseLemma == \A c, d : Purse(c) = Purse(d) => c = d
<1>1. \A c : Purse(c).of = c
  BY DEF Purse
<1> QED BY <1>1

\* What a reversal or a recharge makes of its wallet.
LEMMA MovedLemma ==
  ASSUME Inv, Accounts, NEW w \in Workers, tx[w].pc = "refund"
  PROVE  /\ tx[w].kind \in {"fund", "reverse"} /\ tx[w].payee \in Customers
         /\ Moved(w) \in Wallets
         /\ tx[w].kind = "fund" =>
              Balance(Moved(w)) = Balance(wallet[tx[w].payee]) + Recharge
         /\ tx[w].kind = "reverse" =>
              /\ tx[w].slot \in Successes /\ tx[w].payee = referrer[Eater(tx[w].slot)]
              /\ Balance(Moved(w)) = Balance(wallet[tx[w].payee]) - row[tx[w].slot].amount
<1>1. PICK x : x = tx[w]
  OBVIOUS
<1>2. /\ x \in Transactions /\ Sound(x) /\ Purposeful(x) /\ Covered(x) /\ x.pc = "refund"
      /\ wallet \in [Customers -> Wallets]
  BY <1>1, HonestLemma
<1>3. x.kind \in {"fund", "reverse"} /\ x.payee \in Customers
  BY <1>2 DEF Sound, Placed, Aimed, Trying, Transactions, Kinds
<1>4. PICK y, r, c : y = wallet[x.payee] /\ r = y.recharge /\ c = y.commission
  OBVIOUS
<1>5. /\ y = [recharge |-> r, commission |-> c, status |-> y.status]
      /\ r \in Nat /\ c \in Nat /\ r \in 0..MaxBalance /\ c \in 0..MaxBalance
      /\ y.status \in WalletStatuses /\ Balance(y) = r + c
  BY <1>2, <1>3, <1>4, MaxBalanceAssumption DEF Wallets, Balance
<1>6. MaxBalance \in Nat /\ Recharge \in Nat
  BY MaxBalanceAssumption, ReferralAssumption
<1>7. CASE x.kind = "fund"
  <2>1. Moved(w) = [recharge |-> r + Recharge, commission |-> c, status |-> y.status]
    BY <1>1, <1>4, <1>5, <1>7 DEF Moved, ApplyCredit
  <2>2. r + c + Recharge <= MaxBalance
    BY <1>2, <1>4, <1>5, <1>7 DEF Covered
  <2>3. r + Recharge \in 0..MaxBalance
    BY <1>5, <1>6, <2>2
  <2>4. Balance(Moved(w)) = Balance(y) + Recharge
    BY <1>5, <1>6, <2>1 DEF Balance
  <2>5. Moved(w) \in Wallets
    BY <1>5, <2>1, <2>3 DEF Wallets
  <2> QED BY <1>1, <1>3, <1>4, <1>7, <2>4, <2>5
<1>8. CASE x.kind = "reverse"
  <2>1. x.slot \in Slots /\ row[x.slot].status = "success" /\ x.payee = referrer[Eater(x.slot)]
    BY <1>2, <1>8 DEF Sound, Placed, Purposeful
  <2>2. PICK m : m = row[x.slot].amount
    OBVIOUS
  <2>3. m \in Nat /\ m <= c
    BY <1>2, <1>4, <1>8, <2>1, <2>2 DEF Covered, Inv, Shaped
  <2>4. Moved(w) = [recharge |-> r - (m - m), commission |-> c - m, status |-> y.status]
    BY <1>1, <1>4, <1>5, <1>8, <2>2 DEF Moved, ApplyDebit, FromCommission
  <2>5. r - (m - m) = r /\ c - m \in 0..MaxBalance
    BY <1>5, <1>6, <2>3
  <2>6. Balance(Moved(w)) = Balance(y) - m
    BY <1>5, <2>3, <2>4 DEF Balance
  <2>7. Moved(w) \in Wallets
    BY <1>5, <2>4, <2>5 DEF Wallets
  <2> QED BY <1>1, <1>3, <1>4, <1>8, <2>1, <2>2, <2>6, <2>7 DEF Successes
<1> QED BY <1>3, <1>7, <1>8

\* Others stand by while a reversal or a recharge is booked.
LEMMA RefundHonest ==
  ASSUME Inv, Accounts, NEW w \in Workers, Refund(w)
  PROVE  /\ \A v \in Workers : Honest(tx[v])'
         /\ wallet' \in [Customers -> Wallets] /\ admin' \in Nat
         /\ \A d \in Customers :
              wallet'[d] = IF d = tx[w].payee THEN Moved(w) ELSE wallet[d]
<1>1. PICK x, c, s : x = tx[w] /\ c = tx[w].payee /\ s = tx[w].slot
  OBVIOUS
<1>2. /\ x \in Transactions /\ Sound(x) /\ Covered(x) /\ x.pc = "refund"
      /\ wallet \in [Customers -> Wallets] /\ admin \in Nat
  BY <1>1, HonestLemma DEF Refund
<1>3. c \in Customers /\ Moved(w) \in Wallets /\ (x.kind = "reverse" => s \in Successes)
  BY <1>1, <1>2, MovedLemma
<1>4. wallet' = [wallet EXCEPT ![c] = Moved(w)]
  BY <1>1 DEF Refund
<1>5. \A d \in Customers : wallet'[d] = IF d = c THEN Moved(w) ELSE wallet[d]
  BY <1>2, <1>4
<1>6. wallet' \in [Customers -> Wallets]
  BY <1>2, <1>3, <1>4
<1>7. row \in [Slots -> [status : Statuses, amount : Nat]] /\ Recharge \in Nat
  BY ReferralAssumption DEF Inv, Shaped
<1>8. admin' \in Nat /\ admin' >= admin
  <2>1. CASE x.kind = "fund" /\ admin' = admin + Recharge
    BY <1>2, <1>7, <2>1
  <2>2. CASE x.kind = "reverse" /\ admin' = admin + row[s].amount
    <3>1. row[s].amount \in Nat
      BY <1>3, <1>7, <2>2 DEF Successes
    <3> QED BY <1>2, <2>2, <3>1
  <2> QED BY <1>1, <2>1, <2>2 DEF Refund
<1>9. \A r \in Slots : row'[r].amount = row[r].amount
  <2>1. CASE UNCHANGED row
    BY <2>1
  <2>2. CASE row' = [row EXCEPT ![s].status = "reversed"]
    BY <1>7, <2>2
  <2> QED BY <1>1, <2>1, <2>2 DEF Refund
<1>10. ASSUME NEW v \in Workers, v # w PROVE Bystanding(tx[v])
  <2>1. Purse(c) \in tx[w].locks
    BY <1>1, <1>2 DEF Covered
  <2>2. Purse(c) \notin tx[v].locks
    BY <1>10, <2>1 DEF Inv, Exclusive
  <2>3. \A d \in Customers : Purse(d) \in tx[v].locks => wallet'[d] = wallet[d]
    BY <1>5, <2>2
  <2>4. UNCHANGED <<referrer, delivered>>
    BY DEF Refund, settings
  <2> QED BY <1>6, <1>8, <1>9, <2>3, <2>4 DEF Bystanding
<1>11. Continue(w, Idle)
  BY DEF Refund
<1>12. \A v \in Workers : Honest(tx[v])'
  BY <1>8, <1>10, <1>11, IdleHonestPrimed, OthersHonest
<1> QED BY <1>1, <1>5, <1>6, <1>8, <1>12

\* What every customer has paid in, beyond what the wallet opened with.
Fundings == [c \in Customers |-> funded[c] - Funds]

\* A recharge explains what it brings to a wallet and to the platform's.
LEMMA FundAccounts ==
  ASSUME Inv, Accounts, NEW w \in Workers, Refund(w), tx[w].kind = "fund"
  PROVE  Accounts'
<1>1. PICK c : c = tx[w].payee
  OBVIOUS
<1>2. /\ admin' = admin + Recharge /\ funded' = [funded EXCEPT ![c] = @ + Recharge]
      /\ UNCHANGED <<referrer, delivered, row>> /\ tx[w].pc = "refund"
  BY <1>1 DEF Refund, settings
<1>3. c \in Customers /\ Balance(Moved(w)) = Balance(wallet[c]) + Recharge
  BY <1>1, <1>2, MovedLemma
<1>4. /\ \A v \in Workers : Honest(tx[v])'
      /\ wallet' \in [Customers -> Wallets] /\ admin' \in Nat
      /\ \A d \in Customers : wallet'[d] = IF d = c THEN Moved(w) ELSE wallet[d]
  BY <1>1, RefundHonest
<1>5. /\ funded \in [Customers -> Nat] /\ wallet \in [Customers -> Wallets] /\ admin \in Nat
      /\ Recharge \in Nat /\ Funds \in Int /\ Price \in Nat /\ Float \in Nat
      /\ IsFiniteSet(Customers) /\ \A d \in Customers : funded[d] >= Funds
  BY ReferralAssumption, MaxBalanceAssumption DEF Accounts
<1>6. \A d \in Customers : funded'[d] = IF d = c THEN funded[d] + Recharge ELSE funded[d]
  BY <1>2, <1>5
<1>7. PICK f, g : f = Fundings /\ g = Fundings'
  OBVIOUS
<1>8. \A d \in Customers : /\ f[d] = funded[d] - Funds /\ f[d] \in Int /\ g[d] \in Int
                           /\ g[d] = IF d = c THEN f[d] + Recharge ELSE f[d]
  BY <1>5, <1>6, <1>7 DEF Fundings
<1>9. SumOver(g, Customers) = SumOver(f, Customers) - f[c] + g[c] /\ SumOver(f, Customers) \in Int
  BY <1>3, <1>5, <1>8, SumChange, SumType
<1>10. Recharged = SumOver(f, Customers) /\ Recharged' = SumOver(g, Customers)
  BY <1>7 DEF Recharged, Fundings
<1>11. Recharged' = Recharged + Recharge /\ Recharged \in Int
  BY <1>3, <1>5, <1>8, <1>9, <1>10
<1>12. MoneyExplained
  BY MoneyLemma DEF Accounts
<1>13. /\ Amounts' = Amounts /\ Successes' = Successes /\ \A d : Meant(d)' = Meant(d)
       /\ \A d : EatenBy(d)' = EatenBy(d)
  BY <1>2 DEF Amounts, Successes, Meant, EatenBy
<1>14. ASSUME NEW d \in Customers
       PROVE  Balance(wallet'[d]) + Price * Cardinality(EatenBy(d))
                = funded'[d] + SumOver(Amounts, Meant(d))
  <2>1. PICK m, n : m = Price * Cardinality(EatenBy(d)) /\ n = SumOver(Amounts, Meant(d))
    OBVIOUS
  <2>2. n \in Int
    BY <2>1, SuccessLemma, SumType
  <2>3. m \in Int
    BY <1>5, <2>1, FS_CardinalityType, FS_Subset DEF Accounts, EatenBy
  <2>4. Balance(wallet[d]) + m = funded[d] + n /\ Balance(wallet[d]) \in Nat
    BY <1>5, <1>12, <2>1, WalletLemma DEF MoneyExplained
  <2> QED BY <1>3, <1>4, <1>5, <1>6, <2>1, <2>2, <2>3, <2>4
<1>15. admin' + SumOver(Amounts, Successes) = Float + Recharged'
  <2>1. SumOver(Amounts, Successes) \in Int
    BY SuccessLemma, SumType
  <2> QED BY <1>2, <1>5, <1>11, <1>12, <2>1 DEF MoneyExplained
<1>16. MoneyExplained'
  BY <1>13, <1>14, <1>15 DEF MoneyExplained
<1>17. CommissionsExplainMoney'
  BY <1>16 DEF CommissionsExplainMoney, MoneyExplained, Paid, Amounts, Successes
<1>18. funded' \in [Customers -> Nat] /\ \A d \in Customers : funded'[d] >= Funds
  <2>1. ASSUME NEW d \in Customers PROVE funded'[d] \in Nat /\ funded'[d] >= Funds
    <3>1. funded[d] \in Nat /\ funded[d] >= Funds
      BY <1>5
    <3> QED BY <1>5, <1>6, <3>1
  <2>2. funded' = [d \in Customers |-> funded'[d]]
    BY <1>2, <1>5
  <2> QED BY <2>1, <2>2
<1> QED BY <1>2, <1>4, <1>17, <1>18 DEF Accounts, ReferredByOthers

\* A reversal takes back what was paid for its slot, and no more.
LEMMA ReverseAccounts ==
  ASSUME Inv, Accounts, NEW w \in Workers, Refund(w), tx[w].kind = "reverse"
  PROVE  Accounts'
<1>1. PICK c, s, m : c = tx[w].payee /\ s = tx[w].slot /\ m = row[s].amount
  OBVIOUS
<1>2. /\ admin' = admin + m /\ row' = [row EXCEPT ![s].status = "reversed"]
      /\ UNCHANGED <<referrer, delivered, funded>> /\ tx[w].pc = "refund"
  BY <1>1 DEF Refund, settings
<1>3. /\ c \in Customers /\ Balance(Moved(w)) = Balance(wallet[c]) - m
      /\ s \in Successes /\ c = referrer[Eater(s)]
  BY <1>1, <1>2, MovedLemma
<1>4. /\ \A v \in Workers : Honest(tx[v])'
      /\ wallet' \in [Customers -> Wallets] /\ admin' \in Nat
      /\ \A d \in Customers : wallet'[d] = IF d = c THEN Moved(w) ELSE wallet[d]
  BY <1>1, RefundHonest
<1>5. /\ wallet \in [Customers -> Wallets] /\ admin \in Nat /\ Price \in Nat /\ Float \in Nat
      /\ funded \in [Customers -> Nat]
  BY ReferralAssumption DEF Accounts
<1>6. s \in Slots /\ row[s].status = "success"
  BY <1>3 DEF Successes
<1>7. /\ \A r \in Slots : r # s => row'[r] = row[r]
      /\ row'[s].status = "reversed" /\ row'[s].amount = row[s].amount
  BY <1>2, <1>6 DEF Inv, Shaped
<1>8. Successes' = Successes \ {s}
  BY <1>6, <1>7 DEF Successes
<1>9. Amounts' = Amounts
  BY <1>7 DEF Amounts
<1>10. ASSUME NEW d PROVE Meant(d)' = Meant(d) \ {s}
  BY <1>2, <1>6, <1>7 DEF Meant
<1>11. PICK f : f = Amounts
  OBVIOUS
<1>12. /\ IsFiniteSet(Successes) /\ \A r \in Slots : f[r] \in Int
       /\ \A d : IsFiniteSet(Meant(d)) /\ Meant(d) \subseteq Slots
       /\ f[s] = m /\ m \in Nat /\ Successes \subseteq Slots
  BY <1>1, <1>6, <1>11, SuccessLemma
<1>13. SumOver(f, Successes) = SumOver(f, Successes \ {s}) + m /\ SumOver(f, Successes \ {s}) \in Int
  BY <1>3, <1>12, SumRemove
<1>14. MoneyExplained
  BY MoneyLemma DEF Accounts
<1>15. admin' + SumOver(f, Successes \ {s}) = Float + Recharged
  <2>1. PICK n, k : n = SumOver(f, Successes \ {s}) /\ k = Float + Recharged
    OBVIOUS
  <2>2. admin + (n + m) = k /\ n \in Int
    BY <1>11, <1>13, <1>14, <2>1 DEF MoneyExplained
  <2> QED BY <1>2, <1>5, <1>12, <2>1, <2>2
<1>16. ASSUME NEW d \in Customers
       PROVE  Balance(wallet'[d]) + Price * Cardinality(EatenBy(d))
                = funded[d] + SumOver(f, Meant(d) \ {s})
  <2>1. PICK e, n : e = Price * Cardinality(EatenBy(d)) /\ n = SumOver(f, Meant(d) \ {s})
    OBVIOUS
  <2>2. e \in Int
    BY <1>5, <2>1, FS_CardinalityType, FS_Subset DEF Accounts, EatenBy
  <2>3. Balance(wallet[d]) + e = funded[d] + SumOver(f, Meant(d)) /\ Balance(wallet[d]) \in Nat
    BY <1>5, <1>11, <1>14, <2>1, WalletLemma DEF MoneyExplained
  <2>4. CASE d = c
    <3>1. s \in Meant(d)
      BY <1>3, <1>6, <2>4 DEF Meant
    <3>2. SumOver(f, Meant(d)) = n + m /\ n \in Int
      BY <1>12, <2>1, <3>1, SumRemove
    <3>3. Balance(wallet'[d]) = Balance(wallet[d]) - m
      BY <1>3, <1>4, <2>4
    <3>4. PICK a, b, p : a = Balance(wallet'[d]) /\ b = Balance(wallet[d]) /\ p = funded[d]
      OBVIOUS
    <3>5. a = b - m /\ b + e = p + (n + m) /\ b \in Nat /\ p \in Nat
      BY <1>5, <2>3, <3>2, <3>3, <3>4
    <3>6. a + e = p + n
      BY <1>12, <2>2, <3>2, <3>5
    <3> QED BY <2>1, <3>4, <3>6
  <2>5. CASE d # c
    <3>1. s \notin Meant(d)
      BY <1>3, <2>5 DEF Meant
    <3>2. Meant(d) \ {s} = Meant(d)
      BY <3>1
    <3> QED BY <1>4, <2>1, <2>3, <2>5, <3>2
  <2> QED BY <2>4, <2>5
<1>17. Recharged' = Recharged /\ \A d : EatenBy(d)' = EatenBy(d)
  BY <1>2 DEF Recharged, EatenBy
<1>18. MoneyExplained'
  BY <1>2, <1>8, <1>9, <1>10, <1>11, <1>15, <1>16, <1>17 DEF MoneyExplained
<1>19. CommissionsExplainMoney'
  BY <1>18 DEF CommissionsExplainMoney, MoneyExplained, Paid, Amounts, Successes
<1> QED BY <1>2, <1>4, <1>19 DEF Accounts, ReferredByOthers

\* What a transaction is when it commits.
LEMMA CommitLemma ==
  ASSUME Inv, Accounts, NEW w \in Workers, Commit(w)
  PROVE  /\ tx[w] \in Transactions /\ Focused(tx[w]) /\ Tallied(tx[w]) /\ Covered(tx[w])
         /\ tx[w].kind \in {"mark", "retry"} /\ tx[w].slot \in Slots
         /\ Kept(tx[w]) = tx[w].locks /\ (Charged(tx[w]) \/ tx[w].kind = "retry")
         /\ tx[w].kind = "mark" =>
              /\ tx[w].slot \notin delivered /\ Slot(tx[w].slot) \in tx[w].locks
              /\ Purse(Eater(tx[w].slot)) \in tx[w].locks
         /\ Eater(tx[w].slot) \in Customers /\ referrer[Eater(tx[w].slot)] # Eater(tx[w].slot)
<1>1. PICK x : x = tx[w]
  OBVIOUS
<1>2. /\ x \in Transactions /\ Sound(x) /\ Purposeful(x) /\ Focused(x) /\ Tallied(x) /\ Covered(x)
      /\ x.pc \in {"commit", "others"}
  BY <1>1, HonestLemma DEF Commit
<1>3. x.kind \in {"mark", "retry"}
  BY <1>2 DEF Sound, Placed, Transactions, Kinds
<1>4. x.slot \in Slots
  BY <1>1, <1>2, <1>3, KnownLemma
<1>5. Kept(x) = x.locks /\ (Charged(x) \/ x.kind = "retry")
  BY <1>2, <1>3 DEF Kept, Trying, Charged
<1>6. x.kind = "mark" => /\ x.slot \notin delivered /\ Slot(x.slot) \in x.locks
                         /\ Purse(Eater(x.slot)) \in x.locks
  BY <1>2, <1>5 DEF Purposeful
<1>7. Eater(x.slot) \in Customers /\ referrer[Eater(x.slot)] # Eater(x.slot)
  BY <1>4, SlotLemma DEF Accounts, ReferredByOthers
<1> QED BY <1>1, <1>2, <1>3, <1>4, <1>5, <1>6, <1>7

\* A commit pays what the transaction won, and leaves what was paid.
LEMMA CommitPaid ==
  ASSUME Inv, Accounts, NEW w \in Workers, Commit(w), NEW s \in Slots
  PROVE  IF s \in Won(tx[w])
         THEN /\ row'[s].status = "success" /\ row'[s].amount = Worth(tx[w])[s]
              /\ row[s].status # "success"
         ELSE /\ row'[s].status = "success" <=> row[s].status = "success"
              /\ row[s].status = "success" => row'[s] = row[s]
<1>1. PICK x : x = tx[w]
  OBVIOUS
<1>2. x \in Transactions /\ Sound(x) /\ Focused(x)
  BY <1>1, HonestLemma
<1>3. PICK D : D = DecidedOn(x, s)
  OBVIOUS
<1>4. Written(w, s) = D
  BY <1>1, <1>3 DEF Written, DecidedOn
<1>5. PICK d : d = CHOOSE y \in D : TRUE
  OBVIOUS
<1>6. row'[s] = IF Written(w, s) = {} THEN row[s]
                ELSE LET y == CHOOSE y \in Written(w, s) : TRUE
                     IN  [status |-> y.status, amount |-> y.amount]
  BY DEF Commit
<1>7. CASE D = {}
  <2>1. s \notin Won(x)
    BY <1>3, <1>7 DEF Won, DecidedOn
  <2> QED BY <1>1, <1>4, <1>6, <1>7, <2>1
<1>8. CASE D # {}
  <2>1. d \in x.writes /\ d.slot = s
    BY <1>3, <1>5, <1>8 DEF DecidedOn
  <2>2. row'[s] = [status |-> d.status, amount |-> d.amount]
    BY <1>4, <1>5, <1>6, <1>8
  <2>3. Worth(x)[s] = d.amount
    BY <1>3, <1>5 DEF Worth
  <2>4. s \in Won(x) <=> d.status = "success"
    BY <1>2, <2>1 DEF Won, Focused
  <2>5. row[s].status # "success"
    BY <1>2, <2>1 DEF Sound, Decided, Settled
  <2> QED BY <1>1, <2>2, <2>3, <2>4, <2>5
<1> QED BY <1>7, <1>8

\* What a transaction won is what it gives and earns, and to whom.
LEMMA GainLemma ==
  ASSUME Inv, Accounts, NEW w \in Workers, Commit(w)
  PROVE  /\ SumOver(Worth(tx[w]), Won(tx[w])) = tx[w].given + tx[w].earned
         /\ \A c \in Customers :
              LET won == {s \in Won(tx[w]) : referrer[Eater(s)] = c} IN
              IsFiniteSet(won) /\ SumOver(Worth(tx[w]), won) = Earning(tx[w], c)
<1>1. PICK x, W, f : x = tx[w] /\ W = Won(x) /\ f = Worth(x)
  OBVIOUS
<1>2. /\ x \in Transactions /\ Focused(x) /\ Tallied(x) /\ x.kind \in {"mark", "retry"}
      /\ x.slot \in Slots /\ referrer[Eater(x.slot)] # Eater(x.slot)
  BY <1>1, CommitLemma
<1>3. IsFiniteSet(W) /\ IsFiniteSet(W \ {x.slot}) /\ \A s \in W : f[s] \in Int
  BY <1>1, <1>2, WonLemma DEF Accounts
<1>4. /\ x.given = IF x.slot \in W THEN f[x.slot] ELSE 0
      /\ x.earned = SumOver(f, W \ {x.slot}) /\ x.given \in Nat /\ x.earned \in Nat
  BY <1>1, <1>2 DEF Tallied, Transactions
<1>5. \A s \in W : s # x.slot => x.kind = "mark" /\ referrer[Eater(s)] = Eater(x.slot)
  BY <1>1, <1>2 DEF Won, Focused, Owed
<1>6. SumOver(f, W) = x.given + x.earned
  <2>1. CASE x.slot \in W
    BY <1>3, <1>4, <2>1, SumRemove
  <2>2. CASE x.slot \notin W
    <3>1. W \ {x.slot} = W
      BY <2>2
    <3> QED BY <1>4, <2>2, <3>1
  <2> QED BY <2>1, <2>2
<1>7. SumOver(f, {}) = 0 /\ \A s : f[s] \in Int => SumOver(f, {s}) = f[s]
  <2>1. SumOver(f, {}) = 0
    BY SumEmpty
  <2>2. ASSUME NEW s, f[s] \in Int PROVE SumOver(f, {s}) = f[s]
    <3>1. IsFiniteSet({}) /\ s \notin {} /\ {} \cup {s} = {s} /\ \A y \in {} \cup {s} : f[y] \in Int
      BY <2>2, FS_EmptySet
    <3>2. SumOver(f, {} \cup {s}) = SumOver(f, {}) + f[s]
      BY <3>1, SumAdd
    <3> QED BY <2>1, <2>2, <3>1, <3>2
  <2> QED BY <2>1, <2>2
<1>8. ASSUME NEW c \in Customers, NEW won, won = {s \in W : referrer[Eater(s)] = c}
      PROVE  IsFiniteSet(won) /\ SumOver(f, won) = Earning(x, c)
  <2>1. IsFiniteSet(won)
    BY <1>3, <1>8, FS_Subset
  <2>2. CASE x.kind = "mark" /\ c = Eater(x.slot)
    <3>1. won = W \ {x.slot}
      BY <1>2, <1>5, <1>8, <2>2
    <3> QED BY <1>4, <2>1, <2>2, <3>1 DEF Earning
  <2>3. CASE ~(x.kind = "mark" /\ c = Eater(x.slot))
    <3>1. \A s \in won : s = x.slot
      BY <1>5, <1>8, <2>3
    <3>2. CASE c = referrer[Eater(x.slot)] /\ x.slot \in W
      <4>1. won = {x.slot}
        BY <1>8, <3>1, <3>2
      <4> QED BY <1>3, <1>4, <1>7, <2>1, <2>3, <3>2, <4>1 DEF Earning
    <3>3. CASE ~(c = referrer[Eater(x.slot)] /\ x.slot \in W)
      <4>1. won = {}
        BY <1>8, <3>1, <3>3
      <4> QED BY <1>4, <1>7, <2>1, <2>3, <3>3, <4>1 DEF Earning
    <3> QED BY <3>2, <3>3
  <2> QED BY <2>2, <2>3
<1> QED BY <1>1, <1>6, <1>8

\* Others stand by while a transaction commits.
LEMMA CommitHonest ==
  ASSUME Inv, Accounts, NEW w \in Workers, Commit(w)
  PROVE  /\ \A v \in Workers : Honest(tx[v])'
         /\ wallet' \in [Customers -> Wallets] /\ admin' \in Nat
         /\ \A c \in Customers :
              wallet'[c] = ApplyCredit(Charging(tx[w], c), Earning(tx[w], c), "commission")
         /\ delivered' = delivered \cup (IF tx[w].kind = "mark" THEN {tx[w].slot} ELSE {})
         /\ admin' = admin - (tx[w].given + tx[w].earned)
         /\ UNCHANGED <<referrer, funded>>
<1>1. PICK x : x = tx[w]
  OBVIOUS
<1>2. /\ x \in Transactions /\ Covered(x) /\ x.kind \in {"mark", "retry"} /\ x.slot \in Slots
      /\ Kept(x) = x.locks /\ (Charged(x) \/ x.kind = "retry")
      /\ x.kind = "mark" => /\ x.slot \notin delivered /\ Slot(x.slot) \in x.locks
                            /\ Purse(Eater(x.slot)) \in x.locks
  BY <1>1, CommitLemma
<1>3. UNCHANGED <<referrer, funded>> /\ Continue(w, Idle)
  BY DEF Commit, settings
<1>4. delivered' = delivered \cup (IF x.kind = "mark" THEN {x.slot} ELSE {})
  BY <1>1 DEF Commit, Eaten
<1>5. wallet' = [c \in Customers |-> OutcomeOf(x, c)]
  <2>1. wallet' = [c \in Customers |-> Outcome(w, c)]
    BY DEF Commit
  <2>2. \A c \in Customers : Outcome(w, c) = OutcomeOf(x, c)
    BY <1>1 DEF Outcome, OutcomeOf
  <2> QED BY <2>1, <2>2
<1>6. wallet' \in [Customers -> Wallets]
  BY <1>2, <1>5 DEF Covered
<1>7. /\ admin \in Nat /\ x.given \in Nat /\ x.earned \in Nat
      /\ x.given + x.earned <= admin /\ admin' = admin - x.given - x.earned
  BY <1>1, <1>2 DEF Commit, Covered, Accounts, Transactions
<1>8. admin' \in Nat /\ admin' = admin - (x.given + x.earned)
  BY <1>7
<1>9. ASSUME NEW v \in Workers, v # w PROVE Bystanding(tx[v])
  <2>1. \A l \in tx[v].locks : l \notin x.locks
    BY <1>1, <1>9 DEF Inv, Exclusive
  <2>2. ASSUME NEW c \in Customers, Purse(c) \in tx[v].locks PROVE wallet'[c] = wallet[c]
    <3>1. ~(x.kind = "mark" /\ c = Eater(x.slot))
      BY <1>2, <2>1, <2>2
    <3>2. c = referrer[Eater(x.slot)] => x.given = 0
      BY <1>2, <1>7, <2>1, <2>2 DEF Covered
    <3>3. OutcomeOf(x, c) = ApplyCredit(wallet[c], 0, "commission")
      BY <3>1, <3>2 DEF OutcomeOf
    <3>4. wallet[c] \in Wallets
      BY DEF Accounts
    <3> QED BY <1>5, <1>7, <3>3, <3>4, WalletLemma
  <2>3. Admin \in tx[v].locks => admin' >= admin
    BY <1>2, <1>7, <1>8, <2>1 DEF Covered
  <2>4. \A s \in delivered' \ delivered : Slot(s) \notin tx[v].locks
    BY <1>2, <1>4, <2>1
  <2>5. \A s \in Slots : row[s].status = "success" => row'[s] = row[s]
    BY CommitPaid
  <2> QED BY <1>3, <1>4, <1>6, <1>8, <2>2, <2>3, <2>4, <2>5 DEF Bystanding
<1>10. \A v \in Workers : Honest(tx[v])'
  BY <1>3, <1>8, <1>9, IdleHonestPrimed, OthersHonest
<1>11. \A c \in Customers :
         wallet'[c] = ApplyCredit(Charging(x, c), Earning(x, c), "commission")
  BY <1>5 DEF OutcomeOf, Charging, Earning
<1> QED BY <1>1, <1>3, <1>4, <1>6, <1>8, <1>10, <1>11

\* A commit moves what its decisions say, for the meal and for the commissions.
LEMMA CommitAccounts ==
  ASSUME Inv, Accounts, NEW w \in Workers, Commit(w)
  PROVE  Accounts'
<1>1. PICK x, W, f, g, h : /\ x = tx[w] /\ W = Won(x) /\ f = Amounts /\ g = Amounts'
                           /\ h = Worth(x)
  OBVIOUS
<1>2. /\ x \in Transactions /\ Focused(x) /\ Covered(x) /\ x.kind \in {"mark", "retry"}
      /\ x.slot \in Slots /\ (Charged(x) \/ x.kind = "retry")
      /\ x.kind = "mark" => x.slot \notin delivered
  BY <1>1, CommitLemma
<1>3. /\ \A v \in Workers : Honest(tx[v])'
      /\ wallet' \in [Customers -> Wallets] /\ admin' \in Nat
      /\ \A c \in Customers : wallet'[c] = ApplyCredit(Charging(x, c), Earning(x, c), "commission")
      /\ delivered' = delivered \cup (IF x.kind = "mark" THEN {x.slot} ELSE {})
      /\ admin' = admin - (x.given + x.earned)
      /\ UNCHANGED <<referrer, funded>>
  BY <1>1, CommitHonest
<1>4. /\ wallet \in [Customers -> Wallets] /\ admin \in Nat /\ Price \in Nat /\ Float \in Nat
      /\ funded \in [Customers -> Nat] /\ IsFiniteSet(delivered)
      /\ x.given \in Nat /\ x.earned \in Nat
  BY <1>2, ReferralAssumption DEF Accounts, Transactions
<1>5. IsFiniteSet(W) /\ W \subseteq Slots /\ \A s \in W : h[s] \in Int
  <2>1. IsFiniteSet(Won(x)) /\ Won(x) \subseteq Slots /\ \A s \in Won(x) : Worth(x)[s] \in Nat
    BY <1>2, <1>4, WonLemma
  <2> QED BY <1>1, <2>1
<1>6. ASSUME NEW s \in Slots
      PROVE  IF s \in W THEN /\ row'[s].status = "success" /\ row'[s].amount = h[s]
                             /\ row[s].status # "success"
             ELSE /\ row'[s].status = "success" <=> row[s].status = "success"
                  /\ row[s].status = "success" => row'[s] = row[s]
  BY <1>1, CommitPaid
<1>7. Successes' = Successes \cup W /\ Successes \cap W = {}
  BY <1>5, <1>6 DEF Successes
<1>8. ASSUME NEW c
      PROVE  /\ Meant(c)' = Meant(c) \cup {s \in W : referrer[Eater(s)] = c}
             /\ Meant(c) \cap {s \in W : referrer[Eater(s)] = c} = {}
  BY <1>3, <1>5, <1>6 DEF Meant
<1>9. /\ \A s \in Successes : g[s] = f[s] /\ f[s] \in Int /\ g[s] \in Int
      /\ \A s \in W : g[s] = h[s] /\ g[s] \in Int
  <2>1. \A s \in Slots : g[s] = row'[s].amount /\ f[s] = row[s].amount /\ f[s] \in Int
    BY <1>1, SuccessLemma DEF Amounts
  <2> QED BY <1>5, <1>6, <2>1 DEF Successes
<1>10. ASSUME NEW T \in SUBSET Successes, NEW U \in SUBSET W
       PROVE  /\ IsFiniteSet(T) /\ IsFiniteSet(U)
              /\ SumOver(g, T \cup U) = SumOver(f, T) + SumOver(h, U)
  <2>1. IsFiniteSet(T) /\ IsFiniteSet(U)
    BY <1>5, SuccessLemma, FS_Subset
  <2>2. SumOver(g, T) = SumOver(f, T)
    BY <1>9, <2>1, SumSame
  <2>3. SumOver(g, U) = SumOver(h, U)
    BY <1>5, <1>9, <2>1, SumSame
  <2>4. SumOver(g, T \cup U) = SumOver(g, T) + SumOver(g, U)
    BY <1>7, <1>9, <2>1, SumUnion
  <2> QED BY <2>1, <2>2, <2>3, <2>4
<1>11. /\ SumOver(h, W) = x.given + x.earned
       /\ \A c \in Customers : SumOver(h, {s \in W : referrer[Eater(s)] = c}) = Earning(x, c)
  BY <1>1, GainLemma
<1>12. MoneyExplained
  BY MoneyLemma DEF Accounts
<1>13. admin' + SumOver(g, Successes \cup W) = Float + Recharged
  <2>1. PICK n, k : n = SumOver(f, Successes) /\ k = Float + Recharged
    OBVIOUS
  <2>2. n \in Int
    BY <1>1, <2>1, SuccessLemma, SumType
  <2>3. SumOver(g, Successes \cup W) = n + (x.given + x.earned)
    BY <1>10, <1>11, <2>1
  <2>4. admin + n = k
    BY <1>1, <1>12, <2>1 DEF MoneyExplained
  <2> QED BY <1>3, <1>4, <2>1, <2>2, <2>3, <2>4
<1>14. ASSUME NEW c \in Customers
       PROVE  LET own == x.kind = "mark" /\ c = Eater(x.slot) IN
              /\ IsFiniteSet(EatenBy(c)) /\ Cardinality(EatenBy(c)) \in Nat
              /\ Cardinality(EatenBy(c)') = Cardinality(EatenBy(c)) + IF own THEN 1 ELSE 0
  <2>1. IsFiniteSet(EatenBy(c)) /\ Cardinality(EatenBy(c)) \in Nat
    BY <1>4, FS_Subset, FS_CardinalityType DEF EatenBy
  <2>2. CASE x.kind = "mark" /\ c = Eater(x.slot)
    <3>1. EatenBy(c)' = EatenBy(c) \cup {x.slot} /\ x.slot \notin EatenBy(c)
      BY <1>2, <1>3, <2>2 DEF EatenBy
    <3> QED BY <2>1, <2>2, <3>1, FS_AddElement
  <2>3. CASE ~(x.kind = "mark" /\ c = Eater(x.slot))
    <3>1. EatenBy(c)' = EatenBy(c)
      BY <1>3, <2>3 DEF EatenBy
    <3> QED BY <2>1, <2>3, <3>1
  <2> QED BY <2>1, <2>2, <2>3
<1>15. ASSUME NEW c \in Customers
       PROVE  Balance(wallet'[c]) + Price * Cardinality(EatenBy(c)')
                = funded[c] + SumOver(g, Meant(c)')
  <2>1. PICK won : won = {s \in W : referrer[Eater(s)] = c}
    OBVIOUS
  <2>2. PICK b, m, e, n, p :
          /\ b = Balance(wallet[c]) /\ m = SumOver(f, Meant(c)) /\ e = Earning(x, c)
          /\ n = Cardinality(EatenBy(c)) /\ p = funded[c]
    OBVIOUS
  <2>3. Meant(c) \subseteq Successes /\ won \subseteq W /\ SumOver(h, won) = e
    BY <1>11, <2>1, <2>2, SuccessLemma
  <2>4. SumOver(g, Meant(c)') = m + e
    BY <1>8, <1>10, <2>1, <2>2, <2>3
  <2>5. m \in Int
    BY <1>1, <2>2, SuccessLemma, SumType
  <2>6. /\ Charging(x, c) \in Wallets /\ e \in Nat
        /\ Balance(Charging(x, c)) = b - IF x.kind = "mark" /\ c = Eater(x.slot) THEN Price ELSE 0
    BY <1>2, <2>2, ChargingLemma
  <2>7. Balance(wallet'[c]) = Balance(Charging(x, c)) + e
    BY <1>3, <2>2, <2>6, WalletLemma
  <2>8. b \in Nat /\ p \in Nat /\ n \in Nat
    BY <1>4, <1>14, <2>2, WalletLemma
  <2>9. b + Price * n = p + m
    BY <1>1, <1>12, <2>2 DEF MoneyExplained
  <2>10. PICK a, q : a = Price * n /\ q = Balance(wallet'[c])
    OBVIOUS
  <2>11. a \in Nat /\ Price * (n + 1) = a + Price
    BY <1>4, <2>8, <2>10
  <2>12. CASE x.kind = "mark" /\ c = Eater(x.slot)
    <3>1. q = (b - Price) + e
      BY <2>6, <2>7, <2>10, <2>12
    <3>2. Price * Cardinality(EatenBy(c)') = a + Price
      BY <1>14, <2>2, <2>11, <2>12
    <3>3. q + (a + Price) = p + (m + e)
      BY <1>4, <2>5, <2>6, <2>8, <2>9, <2>10, <2>11, <3>1
    <3> QED BY <2>2, <2>4, <2>10, <3>2, <3>3
  <2>13. CASE ~(x.kind = "mark" /\ c = Eater(x.slot))
    <3>1. q = (b - 0) + e
      BY <2>6, <2>7, <2>10, <2>13
    <3>2. Price * Cardinality(EatenBy(c)') = a
      BY <1>14, <2>2, <2>8, <2>10, <2>13
    <3>3. q + a = p + (m + e)
      BY <2>5, <2>6, <2>8, <2>9, <2>10, <2>11, <3>1
    <3> QED BY <2>2, <2>4, <2>10, <3>2, <3>3
  <2> QED BY <2>12, <2>13
<1>16. Recharged' = Recharged
  BY <1>3 DEF Recharged
<1>17. MoneyExplained'
  BY <1>1, <1>3, <1>7, <1>13, <1>15, <1>16 DEF MoneyExplained
<1>18. CommissionsExplainMoney'
  BY <1>17 DEF CommissionsExplainMoney, MoneyExplained, Paid, Amounts, Successes
<1>19. IsFiniteSet(delivered')
  <2>1. CASE x.kind = "mark"
    BY <1>3, <1>4, <2>1, FS_AddElement
  <2>2. CASE x.kind # "mark"
    <3>1. delivered' = delivered
      BY <1>3, <2>2
    <3> QED BY <1>4, <3>1
  <2> QED BY <2>1, <2>2
<1> QED BY <1>3, <1>4, <1>18, <1>19 DEF Accounts, ReferredByOthers

-----------------------------------------------------------------------------
\* What the money proof shows

\* At the beginning nothing was eaten and nothing paid.
LEMMA InitAccounts == Init => Accounts
<1> SUFFICES ASSUME Init PROVE Accounts
  OBVIOUS
<1>1. /\ Funds \in 0..MaxBalance /\ Funds \in Nat /\ Float \in Nat /\ Price \in Nat
      /\ IsFiniteSet(Customers) /\ Nobody \notin Customers
  BY ReferralAssumption, MaxBalanceAssumption
<1>2. /\ delivered = {} /\ admin = Float
      /\ \A c \in Customers : referrer[c] = Nobody /\ funded[c] = Funds
      /\ \A s \in Slots : row[s].status = "none"
      /\ \A w \in Workers : tx[w] = Idle
      /\ funded \in [Customers -> Nat]
  BY <1>1 DEF Init, NoRow
<1>3. PICK y : y = [NewWallet EXCEPT !.recharge = Funds]
  OBVIOUS
<1>4. y \in Wallets /\ Balance(y) = Funds
  BY <1>1, <1>3, MaxBalanceAssumption DEF NewWallet, Wallets, WalletStatuses, Balance
<1>5. wallet = [c \in Customers |-> y]
  BY <1>3 DEF Init
<1>6. Successes = {} /\ \A c : Meant(c) = {}
  BY <1>2 DEF Successes, Meant
<1>7. \A c : EatenBy(c) = {}
  BY <1>2 DEF EatenBy
<1>8. SumOver(Amounts, {}) = 0 /\ Cardinality({}) = 0
  BY SumEmpty, FS_EmptySet
<1>9. PICK f : f = Fundings
  OBVIOUS
<1>10. \A c \in Customers : f[c] = 0
  BY <1>1, <1>2, <1>9 DEF Fundings
<1>11. Recharged = 0
  BY <1>1, <1>9, <1>10, SumZero DEF Recharged, Fundings
<1>12. MoneyExplained
  <2>1. ASSUME NEW c \in Customers
        PROVE  Balance(wallet[c]) + Price * Cardinality(EatenBy(c))
                 = funded[c] + SumOver(Amounts, Meant(c))
    <3>1. Balance(wallet[c]) = Funds /\ funded[c] = Funds
      BY <1>2, <1>4, <1>5
    <3>2. Cardinality(EatenBy(c)) = 0 /\ SumOver(Amounts, Meant(c)) = 0
      BY <1>6, <1>7, <1>8
    <3>3. Price * 0 = 0
      BY <1>1
    <3> QED BY <1>1, <3>1, <3>2, <3>3
  <2>2. admin + SumOver(Amounts, Successes) = Float + Recharged
    BY <1>1, <1>2, <1>6, <1>8, <1>11
  <2> QED BY <2>1, <2>2 DEF MoneyExplained
<1>13. CommissionsExplainMoney
  BY <1>12, MoneyLemma
<1>14. \A w \in Workers : Honest(tx[w])
  BY <1>1, <1>2, IdleHonest
<1> QED BY <1>1, <1>2, <1>4, <1>5, <1>13, <1>14, FS_EmptySet DEF Accounts, ReferredByOthers

\* Every step keeps the accounts.
LEMMA AccountsKept == Inv /\ Accounts /\ [Next]_vars => Accounts'
<1> SUFFICES ASSUME Inv, Accounts, [Next]_vars PROVE Accounts'
  OBVIOUS
<1>1. ASSUME NEW w \in Workers, Begin(w) PROVE Accounts'
  BY <1>1, MarkHonest, RetryFailedAccounts, StopsHonest DEF Begin
<1>2. ASSUME NEW w \in Workers, Run(w) PROVE Accounts'
  <2>1. ASSUME NEW s \in Slots, TryOther(w, s) PROVE Accounts'
    BY <2>1, TryOtherHonest
  <2>2. CASE Charge(w) \/ Claim(w) \/ Assess(w) \/ Pay(w) \/ Credit(w) \/ Look(w)
    BY <2>2, ChargeHonest, ClaimHonest, AssessHonest, PayHonest, CreditHonest, LookHonest
  <2>3. CASE Commit(w) \/ Debit(w) \/ Victim(w)
    BY <2>3, CommitAccounts, DebitHonest, StopsHonest
  <2>4. CASE Refund(w)
    BY <2>4, FundAccounts, ReverseAccounts DEF Refund
  <2> QED BY <1>2, <2>1, <2>2, <2>3, <2>4 DEF Run
<1>3. ASSUME NEW w \in Workers, Crash(w) PROVE Accounts'
  BY <1>3, CrashAccounts
<1> QED BY <1>1, <1>2, <1>3, SettingsAccounts DEF Next

\* In every state a transaction has moved what its decisions say, and can still move
\* it when it commits.  (_apply_money_movement)
THEOREM AccountsTheorem == Spec => []Accounts
<1>1. Init => Accounts
  BY InitAccounts
<1>2. Inv /\ Accounts /\ [Next]_vars => Accounts'
  BY AccountsKept
<1> QED BY <1>1, <1>2, InvTheorem, PTL DEF Spec

\* Every taka is explained: each customer's wallet by recharges, meals eaten and
\* commissions that stand, the platform's by recharges and those commissions.
\* (_apply_money_movement, mark_delivery, reverse_referral_commission)
THEOREM MoneyTheorem == Spec => []CommissionsExplainMoney
<1>1. Accounts => CommissionsExplainMoney
  BY DEF Accounts
<1> QED BY <1>1, AccountsTheorem, PTL

\* The switches stay within their bound.
Bounded == switches \in 0..MaxSwitches

\* No wallet leaves its columns and the platform's wallet is never overdrawn, whatever
\* transactions overlap.  (wallet/services/ledger.py, admin_wallet/services/ledger.py)
THEOREM TypeCorrect == Spec => []TypeOK
<1>1. Init => Bounded
  BY ReferralAssumption DEF Init, Bounded
<1>2. Bounded /\ [Next]_vars => Bounded'
  <2> SUFFICES ASSUME Bounded, [Next]_vars PROVE Bounded'
    OBVIOUS
  <2>1. switches' = switches \/ Switch
    BY CountedStep, ReferralAssumption DEF Bounded, Counted
  <2> QED BY <2>1, ReferralAssumption DEF Bounded, Switch
<1>3. Spec => []Bounded
  BY <1>1, <1>2, PTL DEF Spec
<1>4. Inv /\ Accounts /\ Bounded => TypeOK
  BY DEF Inv, Shaped, Accounts, Bounded, TypeOK
<1> QED BY <1>3, <1>4, InvTheorem, AccountsTheorem, PTL
=============================================================================
