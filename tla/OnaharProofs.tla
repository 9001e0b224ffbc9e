----------------------------- MODULE OnaharProofs -----------------------------
(***************************************************************************)
(* Theorems about Onahar, for any customers, slots, months, targets,       *)
(* distributions and numbers of workers: points, fund and donations are    *)
(* what the deliveries and the distributions make of them, and closed      *)
(* months stay closed.                                                     *)
(***************************************************************************)
EXTENDS Onahar, FiniteSetTheorems, TLAPS

-----------------------------------------------------------------------------
\* The inductive invariant

\* A transaction that credits holds its slot alone, and the slot has no point yet.
AtWork(w) == tx[w].pc \in {"open", "insert", "credit", "credited"}

CreditsApart ==
  /\ \A w \in Workers : AtWork(w) => tx[w].slot \in Slots /\ point[tx[w].slot] = {}
  /\ \A v, w \in Workers : (v # w /\ AtWork(v) /\ AtWork(w)) => tx[v].slot # tx[w].slot
  /\ \A w \in Workers : tx[w].pc \in {"idle", "close"} => tx[w].slot = NoSlot
  /\ \A w \in Workers : tx[w].pc = "close" => tx[w].kind # "mark"

\* A row that was not made yet has nothing, and in an open one nothing expired.
UnmadeEmpty ==
  \A k \in Keys :
    /\ progress[k].status = "none" => progress[k] = NoProgress
    /\ progress[k].status = "open" => progress[k].expired = 0

CountsFinite == \A k \in Keys : IsFiniteSet(PointsOf(k))

FundFinite == IsFiniteSet(Donated) /\ IsFiniteSet(Given)

OnaharInv ==
  /\ TypeOK /\ CreditsApart /\ UnmadeEmpty /\ CountsFinite /\ FundFinite
  /\ PointsAreMeals /\ TargetsDonated /\ FundExplained

-----------------------------------------------------------------------------
\* Division

\* A quotient and its remainder make up the number.
LEMMA DivLemma ==
  ASSUME NEW n \in Nat, NEW t \in Nat \ {0}
  PROVE  /\ n \div t \in Nat /\ (n \div t) * t <= n
         /\ n % t \in Nat /\ (n \div t) * t + (n % t) = n
BY SMT

\* One more point completes one target at most.
LEMMA NextDivLemma ==
  ASSUME NEW n \in Nat, NEW t \in Nat \ {0}
  PROVE  (n + 1) \div t \in {n \div t, (n \div t) + 1}
BY SMT

\* No points make no meals, whatever the target.
LEMMA ZeroDivLemma ==
  ASSUME NEW t \in Nat \ {0}
  PROVE  0 \div t = 0
BY SMT

-----------------------------------------------------------------------------
\* Rows

\* The row of a key with one more point, made with target t if it is not there.
Plus(k, t) == PlusPoint(Existing(k, t))

\* A slot's key is one.
LEMMA KeyLemma ==
  ASSUME OnaharInv, NEW w \in Workers, AtWork(w)
  PROVE  /\ tx[w].slot \in Slots /\ Key(w) \in Keys /\ tx[w].month \in Months
         /\ tx[w].target \in Nat \ {0} /\ Pointed(w) = Plus(Key(w), tx[w].target)
<1>1. tx[w].slot \in Slots
  BY DEF OnaharInv, CreditsApart
<1>2. tx[w].month \in Months /\ tx[w].target \in Nat \ {0}
  BY DEF OnaharInv, TypeOK, Transactions
<1>3. Key(w) \in Keys
  BY <1>1, <1>2, OnaharAssumption DEF Key, Keys
<1> QED BY <1>1, <1>2, <1>3 DEF Pointed, Plus

\* The row a point is added to has donated its full targets if it is open.
LEMMA ExistingLemma ==
  ASSUME OnaharInv, NEW k \in Keys, NEW t \in Nat \ {0}
  PROVE  /\ Existing(k, t) \in Progress
         /\ Existing(k, t).status \in {"open", "closed"}
         /\ Existing(k, t).net = progress[k].net
         /\ Existing(k, t).earned = progress[k].earned
         /\ Existing(k, t).expired = progress[k].expired
         /\ progress[k].status = "closed" => Existing(k, t) = progress[k]
         /\ Existing(k, t).status = "open" => Existing(k, t).expired = 0
         /\ Existing(k, t).status = "open" =>
              Existing(k, t).earned = Existing(k, t).net \div Existing(k, t).target
         /\ Existing(k, t).earned * Existing(k, t).target + Existing(k, t).expired
              <= Existing(k, t).net
<1>1. progress[k] \in Progress
  BY DEF OnaharInv, TypeOK
<1>2. CASE progress[k].status = "none"
  <2>1. progress[k] = NoProgress
    BY <1>2 DEF OnaharInv, UnmadeEmpty
  <2>2. Existing(k, t) = [status |-> "open", target |-> t, net |-> 0,
                       earned |-> 0, expired |-> 0]
    BY <1>2 DEF Existing, NoProgress
  <2>3. 0 = 0 \div t
    BY <1>1, ZeroDivLemma
  <2>4. 0 * t + 0 <= 0
    BY <1>1
  <2> QED BY <1>1, <2>1, <2>2, <2>3, <2>4 DEF Progress, NoProgress
<1>3. CASE progress[k].status # "none"
  <2>1. Existing(k, t) = progress[k]
    BY <1>3 DEF Existing
  <2> QED BY <1>1, <1>3, <2>1 DEF OnaharInv, TargetsDonated, UnmadeEmpty, Progress
<1> QED BY <1>2, <1>3

\* What a plus point changes in the row of a month.
LEMMA PointedLemma ==
  ASSUME OnaharInv, NEW k \in Keys, NEW t \in Nat \ {0}
  PROVE  /\ Plus(k, t) \in Progress
         /\ Plus(k, t).status = Existing(k, t).status
         /\ Plus(k, t).target = Existing(k, t).target
         /\ Plus(k, t).net = Existing(k, t).net + 1
         /\ Plus(k, t).earned = Existing(k, t).earned
         /\ Plus(k, t).expired = Existing(k, t).expired
<1> DEFINE e == Existing(k, t)
<1>1. e \in Progress
  BY ExistingLemma
<1> HIDE DEF e
<1>2. PlusPoint(e) = [status |-> e.status, target |-> e.target, net |-> e.net + 1,
                      earned |-> e.earned, expired |-> e.expired]
  BY <1>1 DEF PlusPoint, Progress
<1>3. /\ PlusPoint(e) \in Progress
      /\ PlusPoint(e).status = e.status /\ PlusPoint(e).target = e.target
      /\ PlusPoint(e).net = e.net + 1 /\ PlusPoint(e).earned = e.earned
      /\ PlusPoint(e).expired = e.expired
  BY <1>1, <1>2 DEF Progress
<1> QED BY <1>3 DEF e, Plus

\* It owes one contribution more at most, and none if it is closed.
LEMMA MissingLemma ==
  ASSUME OnaharInv, NEW k \in Keys, NEW t \in Nat \ {0}
  PROVE  /\ Missing(Plus(k, t)) \in {0, 1}
         /\ Plus(k, t).status = "closed" => Missing(Plus(k, t)) = 0
         /\ Plus(k, t).status = "open" =>
              Plus(k, t).earned + Missing(Plus(k, t)) = Plus(k, t).net \div Plus(k, t).target
         /\ (Plus(k, t).earned + Missing(Plus(k, t))) * Plus(k, t).target + Plus(k, t).expired
              <= Plus(k, t).net
<1> DEFINE e == Existing(k, t)
           p == Plus(k, t)
<1>1. /\ e \in Progress
      /\ e.status = "open" => e.earned = e.net \div e.target /\ e.expired = 0
      /\ e.earned * e.target + e.expired <= e.net
  BY ExistingLemma
<1>2. /\ p.status = e.status /\ p.target = e.target /\ p.net = e.net + 1
      /\ p.earned = e.earned /\ p.expired = e.expired
  BY PointedLemma
<1> HIDE DEF e, p
<1>3. e.net \in Nat /\ e.target \in Nat \ {0} /\ e.earned \in Nat /\ e.expired \in Nat
  BY <1>1 DEF Progress
<1> SUFFICES /\ Missing(p) \in {0, 1}
             /\ p.status = "closed" => Missing(p) = 0
             /\ p.status = "open" => p.earned + Missing(p) = p.net \div p.target
             /\ (p.earned + Missing(p)) * p.target + p.expired <= p.net
  BY DEF p
<1>4. CASE e.status = "open"
  <2>1. (e.net + 1) \div e.target \in {e.earned, e.earned + 1}
    BY <1>1, <1>3, <1>4, NextDivLemma
  <2>2. Missing(p) = ((e.net + 1) \div e.target) - e.earned
    BY <1>2, <1>4 DEF Missing
  <2>3. Missing(p) \in {0, 1} /\ p.earned + Missing(p) = (e.net + 1) \div e.target
    BY <1>2, <1>3, <2>1, <2>2
  <2>4. ((e.net + 1) \div e.target) * e.target <= e.net + 1
    <3>1. PICK n \in Nat, d \in Nat \ {0} : n = e.net + 1 /\ d = e.target
      BY <1>3
    <3>2. (n \div d) * d <= n
      BY DivLemma
    <3> QED BY <3>1, <3>2
  <2>5. (p.earned + Missing(p)) * p.target + p.expired <= p.net
    <3>1. (p.earned + Missing(p)) * p.target <= e.net + 1
      BY <1>2, <2>3, <2>4
    <3>2. PICK x : x = (p.earned + Missing(p)) * p.target
      OBVIOUS
    <3>3. x \in Int
      BY <1>2, <1>3, <2>1, <2>3, <3>2
    <3> QED BY <1>1, <1>2, <1>3, <1>4, <3>1, <3>2, <3>3
  <2> QED BY <1>2, <1>4, <2>3, <2>5
<1>5. CASE e.status # "open"
  <2>1. Missing(p) = 0
    BY <1>2, <1>5 DEF Missing
  <2>2. p.earned + Missing(p) = e.earned
    BY <1>2, <1>3, <2>1
  <2>3. e.earned * e.target \in Nat
    BY <1>3
  <2>4. (p.earned + Missing(p)) * p.target + p.expired <= p.net
    BY <1>1, <1>2, <1>3, <2>2, <2>3
  <2> QED BY <1>2, <1>5, <2>1, <2>4
<1> QED BY <1>4, <1>5
-----------------------------------------------------------------------------
\* What credits and closings write

\* A credit changes the row of its key: one point more, and what it then owes.
LEMMA CommitRow ==
  ASSUME OnaharInv, NEW w \in Workers, Commit(w)
  PROVE  /\ Key(w) \in Keys
         /\ progress' \in [Keys -> Progress]
         /\ \A k \in Keys : k # Key(w) => progress'[k] = progress[k]
         /\ progress'[Key(w)] =
              [status |-> Existing(Key(w), tx[w].target).status,
               target |-> Existing(Key(w), tx[w].target).target,
               net |-> progress[Key(w)].net + 1,
               earned |-> progress[Key(w)].earned + Missing(Pointed(w)),
               expired |-> progress[Key(w)].expired]
         /\ progress'[Key(w)].earned = progress[Key(w)].earned + Missing(Pointed(w))
         /\ progress'[Key(w)].net = progress[Key(w)].net + 1
<1>1. AtWork(w)
  BY DEF Commit, AtWork
<1> DEFINE k == Key(w)
           t == tx[w].target
           e == Existing(k, t)
           p == Plus(k, t)
<1>2. k \in Keys /\ t \in Nat \ {0} /\ Pointed(w) = p
  BY <1>1, KeyLemma
<1>3. /\ p \in Progress /\ p.status = e.status /\ p.target = e.target
      /\ p.net = progress[k].net + 1 /\ p.earned = progress[k].earned
      /\ p.expired = progress[k].expired
  BY <1>2, PointedLemma, ExistingLemma
<1>4. Missing(p) \in {0, 1}
  BY <1>2, MissingLemma
<1>5. progress' = [progress EXCEPT ![k] = [p EXCEPT !.earned = p.earned + Missing(p)]]
  BY <1>2 DEF Commit
<1>6. progress \in [Keys -> Progress]
  BY DEF OnaharInv, TypeOK
<1> DEFINE due == Missing(p)
<1> HIDE DEF k, t, e, p, due
<1>7. [p EXCEPT !.earned = p.earned + due] =
        [status |-> e.status, target |-> e.target, net |-> progress[k].net + 1,
         earned |-> progress[k].earned + due, expired |-> progress[k].expired]
  BY <1>3 DEF Progress
<1>8. [p EXCEPT !.earned = p.earned + due] \in Progress
  <2>1. due \in Nat /\ p.earned \in Nat
    BY <1>3, <1>4 DEF due, Progress
  <2> QED BY <1>3, <2>1 DEF Progress
<1>9. progress' = [progress EXCEPT ![k] = [p EXCEPT !.earned = p.earned + due]]
  BY <1>5 DEF due
<1>10. /\ progress' \in [Keys -> Progress]
       /\ \A l \in Keys : l # k => progress'[l] = progress[l]
       /\ progress'[k] = [p EXCEPT !.earned = p.earned + due]
  BY <1>2, <1>6, <1>8, <1>9
<1>11. progress'[k].earned = progress[k].earned + due /\ progress'[k].net = progress[k].net + 1
  BY <1>7, <1>10
<1> QED BY <1>2, <1>7, <1>10, <1>11 DEF k, t, e, p, due

\* An open row owes nothing.
LEMMA NothingOwed ==
  ASSUME OnaharInv, NEW k \in Keys, progress[k].status = "open"
  PROVE  Missing(progress[k]) = 0
<1>1. progress[k] \in Progress /\ progress[k].earned = progress[k].net \div progress[k].target
  BY DEF OnaharInv, TypeOK, TargetsDonated
<1>2. progress[k].earned \in Nat
  BY <1>1 DEF Progress
<1> QED BY <1>1, <1>2 DEF Missing

\* What a row is when it is closed.
LEMMA ClosedLemma ==
  ASSUME NEW p \in Progress, Missing(p) = 0
  PROVE  /\ Closed(p) = [status |-> "closed", target |-> p.target, net |-> p.net,
                         earned |-> p.earned, expired |-> p.net % p.target]
         /\ Closed(p) \in Progress /\ Closed(p).earned = p.earned /\ Closed(p).net = p.net
<1> DEFINE rest == p.net % p.target
           owed == Missing(p)
<1>1. Closed(p) = [p EXCEPT !.earned = p.earned + owed, !.expired = rest, !.status = "closed"]
  BY DEF Closed
<1>2. rest \in Nat
  BY DivLemma DEF Progress
<1>3. owed = 0
  OBVIOUS
<1> HIDE DEF rest, owed
<1>4. p = [status |-> p.status, target |-> p.target, net |-> p.net, earned |-> p.earned,
           expired |-> p.expired]
  BY DEF Progress
<1>5. p.earned + owed = p.earned
  BY <1>3 DEF Progress
<1>6. Closed(p) = [status |-> "closed", target |-> p.target, net |-> p.net,
                   earned |-> p.earned, expired |-> rest]
  BY <1>1, <1>4, <1>5
<1>7. Closed(p) \in Progress /\ Closed(p).earned = p.earned /\ Closed(p).net = p.net
  BY <1>2, <1>6 DEF Progress
<1> QED BY <1>6, <1>7 DEF rest

\* What the fund is after it is given some meals.
LEMMA ContributeLemma ==
  ASSUME TypeOK, NEW n \in Nat, Contribute(n)
  PROVE  /\ fund' = [contributed |-> fund.contributed + n, distributed |-> fund.distributed,
                     available |-> fund.available + n, target |-> fund.target]
         /\ fund' \in [contributed : Nat, distributed : Nat, available : Nat,
                        target : Nat \ {0}]
<1>1. fund \in [contributed : Nat, distributed : Nat, available : Nat, target : Nat \ {0}]
  BY DEF TypeOK
<1>2. fund = [contributed |-> fund.contributed, distributed |-> fund.distributed,
              available |-> fund.available, target |-> fund.target]
  BY <1>1
<1>3. fund' = [contributed |-> fund.contributed + n, distributed |-> fund.distributed,
               available |-> fund.available + n, target |-> fund.target]
  BY <1>1, <1>2 DEF Contribute
<1> QED BY <1>1, <1>3

\* A closing gives the fund nothing and lets the rest of open rows expire.
LEMMA FinalizeRows ==
  ASSUME OnaharInv, NEW w \in Workers, Finalize(w)
  PROVE  /\ progress' \in [Keys -> Progress]
         /\ fund' = fund
         /\ \A k \in Keys :
              \/ progress'[k] = progress[k]
              \/ /\ progress[k].status = "open"
                 /\ progress'[k] =
                      [status |-> "closed", target |-> progress[k].target,
                       net |-> progress[k].net, earned |-> progress[k].earned,
                       expired |-> progress[k].net % progress[k].target]
         /\ \A k \in Keys : /\ progress'[k].earned = progress[k].earned
                            /\ progress'[k].net = progress[k].net
<1> DEFINE open == {k \in tx[w].seen : progress[k].status = "open"}
<1>1. tx[w].seen \in SUBSET Keys
  BY DEF OnaharInv, TypeOK, Transactions
<1>2. \A k \in open : k \in Keys /\ progress[k].status = "open" /\ Missing(progress[k]) = 0
  BY <1>1, NothingOwed
<1>3. /\ progress' = [k \in Keys |-> IF k \in open THEN Closed(progress[k]) ELSE progress[k]]
      /\ fund' = [fund EXCEPT !.contributed = @ + Cardinality(MissingOf(open)),
                             !.available = @ + Cardinality(MissingOf(open))]
  BY DEF Finalize, Contribute
<1> HIDE DEF open
<1>4. MissingOf(open) = {}
  BY <1>2 DEF MissingOf
<1>5. fund' = fund
  <2>1. Cardinality(MissingOf(open)) = 0
    BY <1>4, FS_EmptySet
  <2>2. Contribute(0)
    BY <2>1, <1>3 DEF Contribute
  <2>3. TypeOK
    BY DEF OnaharInv
  <2>4. fund' = [contributed |-> fund.contributed + 0, distributed |-> fund.distributed,
                 available |-> fund.available + 0, target |-> fund.target]
    BY <2>2, <2>3, ContributeLemma
  <2>5. fund \in [contributed : Nat, distributed : Nat, available : Nat, target : Nat \ {0}]
    BY <2>3 DEF TypeOK
  <2> QED BY <2>4, <2>5
<1>6. ASSUME NEW k \in open
      PROVE  /\ Closed(progress[k]) =
                  [status |-> "closed", target |-> progress[k].target,
                   net |-> progress[k].net, earned |-> progress[k].earned,
                   expired |-> progress[k].net % progress[k].target]
             /\ Closed(progress[k]) \in Progress
             /\ Closed(progress[k]).earned = progress[k].earned
             /\ Closed(progress[k]).net = progress[k].net
  <2>1. progress[k] \in Progress /\ Missing(progress[k]) = 0
    BY <1>2 DEF OnaharInv, TypeOK
  <2> QED BY <2>1, ClosedLemma
<1>8. \A k \in Keys : progress[k] \in Progress
  BY DEF OnaharInv, TypeOK
<1>9. \A k \in Keys : k \in open \/ progress'[k] = progress[k]
  BY <1>3
<1>10. \A k \in open : progress'[k] = Closed(progress[k])
  BY <1>2, <1>3
<1>11. \A k \in Keys : /\ progress'[k].earned = progress[k].earned
                       /\ progress'[k].net = progress[k].net
  BY <1>6, <1>9, <1>10, Zenon
<1>12. progress' \in [Keys -> Progress]
  BY <1>3, <1>6, <1>8
<1> QED BY <1>2, <1>5, <1>6, <1>9, <1>10, <1>11, <1>12

-----------------------------------------------------------------------------
\* Counting meals

\* n meals of one row or distribution.
LEMMA PortionLemma ==
  ASSUME NEW d, NEW n \in Nat
  PROVE  IsFiniteSet({d} \X (1..n)) /\ Cardinality({d} \X (1..n)) = n
<1>1. IsFiniteSet({d}) /\ Cardinality({d}) = 1
  BY FS_Singleton
<1>2. IsFiniteSet(1..n) /\ Cardinality(1..n) = n
  BY FS_Interval
<1>3. /\ IsFiniteSet({d} \X (1..n))
      /\ Cardinality({d} \X (1..n)) = Cardinality({d}) * Cardinality(1..n)
  BY <1>1, <1>2, FS_Product, Zenon
<1> QED BY <1>1, <1>2, <1>3

\* To add a portion that is not there adds its meals.
LEMMA AddPortion ==
  ASSUME NEW S, IsFiniteSet(S), NEW d, NEW n \in Nat, S \cap ({d} \X (1..n)) = {}
  PROVE  /\ IsFiniteSet(S \cup ({d} \X (1..n)))
         /\ Cardinality(S \cup ({d} \X (1..n))) = Cardinality(S) + n
<1>1. IsFiniteSet({d} \X (1..n)) /\ Cardinality({d} \X (1..n)) = n
  BY PortionLemma
<1>2. Cardinality(S) \in Nat
  BY FS_CardinalityType
<1>3. Cardinality(S \cap ({d} \X (1..n))) = 0
  BY FS_EmptySet
<1> QED BY <1>1, <1>2, <1>3, FS_Union

\* To take one away takes its meals.
LEMMA RemovePortion ==
  ASSUME NEW S, IsFiniteSet(S), NEW d, NEW n \in Nat, ({d} \X (1..n)) \subseteq S
  PROVE  /\ IsFiniteSet(S \ ({d} \X (1..n)))
         /\ Cardinality(S \ ({d} \X (1..n))) = Cardinality(S) - n
         /\ n <= Cardinality(S)
<1>1. IsFiniteSet({d} \X (1..n)) /\ Cardinality({d} \X (1..n)) = n
  BY PortionLemma
<1>2. S \cap ({d} \X (1..n)) = {d} \X (1..n)
  OBVIOUS
<1>3. n <= Cardinality(S)
  BY <1>1, FS_Subset
<1>4. /\ IsFiniteSet(S \ ({d} \X (1..n)))
      /\ Cardinality(S \ ({d} \X (1..n)))
           = Cardinality(S) - Cardinality(S \cap ({d} \X (1..n)))
  BY FS_Difference, Zenon
<1> QED BY <1>1, <1>2, <1>3, <1>4

GivenOf(f) ==
  UNION {{d} \X (1..f[d].meals) :
           d \in {x \in Distributions : f[x].status = "published"}}

\* What it means to be a meal given away.
LEMMA GivenMember ==
  ASSUME NEW f, NEW x
  PROVE  x \in GivenOf(f) <=>
           \E d \in Distributions :
             f[d].status = "published" /\ x \in {d} \X (1..f[d].meals)
BY DEF GivenOf

DonatedOf(f) == UNION {{k} \X (1..f[k].earned) : k \in Keys}

\* What it means to be a meal donated.
LEMMA DonatedMember ==
  ASSUME NEW f, NEW x
  PROVE  x \in DonatedOf(f) <=> \E k \in Keys : x \in {k} \X (1..f[k].earned)
BY DEF DonatedOf

\* A distribution is set: the others are as they were.
LEMMA SetLemma ==
  ASSUME TypeOK, NEW d \in Distributions,
         NEW status \in {"draft", "published", "cancelled"}, NEW n \in Nat,
         SetDistribution(d, status, n)
  PROVE  /\ dist'[d].status = status /\ dist'[d].meals = n
         /\ \A x \in Distributions : x # d => dist'[x] = dist[x]
         /\ dist' \in [Distributions ->
                        [status : {"none", "draft", "published", "cancelled"}, meals : Nat]]
BY DEF TypeOK, SetDistribution

\* What a change of one distribution means for the meals given away.
LEMMA GivenStep ==
  ASSUME OnaharInv, NEW d \in Distributions,
         NEW status \in {"draft", "published", "cancelled"}, NEW n \in Nat,
         SetDistribution(d, status, n)
  PROVE  /\ IsFiniteSet(Given')
         /\ (dist[d].status # "published" /\ status # "published") =>
              Cardinality(Given') = Cardinality(Given)
         /\ (dist[d].status # "published" /\ status = "published") =>
              Cardinality(Given') = Cardinality(Given) + n
         /\ (dist[d].status = "published" /\ status # "published") =>
              /\ Cardinality(Given') = Cardinality(Given) - dist[d].meals
              /\ dist[d].meals <= Cardinality(Given)
<1>1. TypeOK /\ IsFiniteSet(Given)
  BY DEF OnaharInv, FundFinite
<1>2. /\ dist'[d].status = status /\ dist'[d].meals = n
      /\ \A x \in Distributions : x # d => dist'[x] = dist[x]
  BY <1>1, SetLemma
<1>3. Given = GivenOf(dist) /\ Given' = GivenOf(dist')
  BY DEF Given, GivenOf
<1>4. dist[d].meals \in Nat
  BY <1>1 DEF TypeOK
<1>5. \A x \in Given : \E e \in Distributions :
        dist[e].status = "published" /\ x \in {e} \X (1..dist[e].meals)
  BY <1>3, GivenMember
<1>6. CASE dist[d].status # "published" /\ status # "published"
  <2>1. \A x : x \in GivenOf(dist') <=> x \in GivenOf(dist)
    BY <1>2, <1>6, GivenMember
  <2>2. Given' = Given
    BY <1>3, <2>1
  <2> QED BY <1>1, <1>6, <2>2
<1>7. CASE dist[d].status # "published" /\ status = "published"
  <2>1. \A x : x \in GivenOf(dist') <=> (x \in GivenOf(dist) \/ x \in {d} \X (1..n))
    BY <1>2, <1>7, GivenMember
  <2>2. Given' = Given \cup ({d} \X (1..n))
    BY <1>3, <2>1
  <2>3. Given \cap ({d} \X (1..n)) = {}
    BY <1>5, <1>7
  <2> QED BY <1>1, <1>7, <2>2, <2>3, AddPortion
<1>8. CASE dist[d].status = "published" /\ status # "published"
  <2>1. \A x : x \in GivenOf(dist') <=>
                (x \in GivenOf(dist) /\ x \notin {d} \X (1..dist[d].meals))
    BY <1>2, <1>8, GivenMember
  <2>2. Given' = Given \ ({d} \X (1..dist[d].meals))
    BY <1>3, <2>1
  <2>3. ({d} \X (1..dist[d].meals)) \subseteq Given
    BY <1>3, <1>8, GivenMember
  <2> QED BY <1>1, <1>4, <1>8, <2>2, <2>3, RemovePortion
<1>9. CASE dist[d].status = "published" /\ status = "published"
  <2>1. \A x \in Given' : x \in Given \cup ({d} \X (1..n))
    BY <1>2, <1>3, GivenMember
  <2>2. IsFiniteSet(Given \cup ({d} \X (1..n)))
    BY <1>1, PortionLemma, FS_Union
  <2>3. IsFiniteSet(Given')
    BY <2>1, <2>2, FS_Subset
  <2> QED BY <1>9, <2>3
<1> QED BY <1>6, <1>7, <1>8, <1>9

\* A credit donates what its row owes, and a closing nothing.
LEMMA DonatedStep ==
  ASSUME OnaharInv, NEW w \in Workers, Commit(w) \/ Finalize(w)
  PROVE  /\ IsFiniteSet(Donated')
         /\ Commit(w) =>
              Cardinality(Donated') = Cardinality(Donated) + Missing(Pointed(w))
         /\ Finalize(w) => Cardinality(Donated') = Cardinality(Donated)
<1>1. IsFiniteSet(Donated)
  BY DEF OnaharInv, FundFinite
<1>2. Donated = DonatedOf(progress) /\ Donated' = DonatedOf(progress')
  BY DEF Donated, DonatedOf
<1>3. CASE Finalize(w)
  <2>1. \A k \in Keys : progress'[k].earned = progress[k].earned
    BY <1>3, FinalizeRows, Zenon
  <2>2. \A x : x \in DonatedOf(progress') <=> x \in DonatedOf(progress)
    BY <2>1, DonatedMember
  <2>3. Donated' = Donated
    BY <1>2, <2>2
  <2>4. ~Commit(w)
    BY <1>3 DEF Finalize, Commit
  <2> QED BY <1>1, <2>3, <2>4
<1>4. CASE Commit(w)
  <2> DEFINE k == Key(w)
             e == progress[k].earned
             due == Missing(Pointed(w))
  <2>1. /\ k \in Keys
        /\ \A l \in Keys : l # k => progress'[l] = progress[l]
        /\ progress'[k].earned = e + due
    BY <1>4, CommitRow, Zenon
  <2>2. due \in {0, 1}
    BY <1>4, KeyLemma, MissingLemma DEF Commit, AtWork
  <2>3. e \in Nat
    BY <2>1 DEF OnaharInv, TypeOK, Progress
  <2>4. ~Finalize(w)
    BY <1>4 DEF Finalize, Commit
  <2> HIDE DEF k, e, due
  <2>5. CASE due = 0
    <3>1. \A l \in Keys : progress'[l].earned = progress[l].earned
      BY <2>1, <2>3, <2>5 DEF e
    <3>2. \A x : x \in DonatedOf(progress') <=> x \in DonatedOf(progress)
      BY <3>1, DonatedMember
    <3>3. Donated' = Donated /\ Cardinality(Donated) \in Nat
      BY <1>1, <1>2, <3>2, FS_CardinalityType
    <3> QED BY <1>1, <2>4, <2>5, <3>3 DEF due, k
  <2>6. CASE due = 1
    <3>1. 1..(e + 1) = (1..e) \cup {e + 1} /\ e + 1 \notin 1..e
      BY <2>3
    <3>2. {k} \X (1..progress'[k].earned)
            = ({k} \X (1..progress[k].earned)) \cup {<<k, e + 1>>}
      BY <2>1, <2>6, <3>1 DEF e
    <3>3. \A x : x \in DonatedOf(progress') <=> (x \in DonatedOf(progress) \/ x = <<k, e + 1>>)
      BY <2>1, <3>2, DonatedMember
    <3>4. Donated' = Donated \cup {<<k, e + 1>>}
      BY <1>2, <3>3
    <3>5. <<k, e + 1>> \notin Donated
      BY <1>2, <3>1, DonatedMember DEF e
    <3>6. IsFiniteSet(Donated') /\ Cardinality(Donated') = Cardinality(Donated) + 1
      BY <1>1, <3>4, <3>5, FS_AddElement
    <3> QED BY <2>4, <2>6, <3>6 DEF due, k
  <2> QED BY <2>2, <2>5, <2>6
<1> QED BY <1>3, <1>4

-----------------------------------------------------------------------------
\* Types

\* Transactions stay in their domain.
LEMMA TxTyped ==
  ASSUME OnaharInv, Next
  PROVE  tx' \in [Workers -> Transactions]
<1>1. tx \in [Workers -> Transactions] /\ now \in Months /\ TypeOK
  BY DEF OnaharInv, TypeOK
<1>2. Idle \in Transactions
  BY OnaharAssumption DEF Idle, Transactions, Months
<1>3. ASSUME NEW w \in Workers, NEW s \in Slots, Mark(w, s) \/ Reconcile(w, s)
      PROVE  tx' \in [Workers -> Transactions]
  <2>1. MonthOf[s] \in Months
    BY OnaharAssumption
  <2>2. PICK kind \in {"mark", "reconcile"} :
          Continue(w, [Idle EXCEPT !.kind = kind, !.pc = "open", !.slot = s,
                                   !.month = MonthOf[s]])
    BY <1>3 DEF Mark, Reconcile
  <2>3. [Idle EXCEPT !.kind = kind, !.pc = "open", !.slot = s, !.month = MonthOf[s]]
          \in Transactions
    BY <1>2, <2>1 DEF Transactions
  <2> QED BY <1>1, <2>2, <2>3 DEF Continue
<1>4. ASSUME NEW w \in Workers, Open(w) PROVE tx' \in [Workers -> Transactions]
  <2>1. tx[w] \in Transactions
    BY <1>1
  <2>2. Key(w) \in Keys
    BY <1>4, KeyLemma DEF Open, AtWork
  <2>3. /\ [tx[w] EXCEPT !.pc = "insert", !.target = fund.target] \in Transactions
        /\ [tx[w] EXCEPT !.month = now, !.locks = {Key(w)}] \in Transactions
        /\ [tx[w] EXCEPT !.pc = "credit", !.locks = tx[w].locks \cup {Key(w)}] \in Transactions
    BY <1>1, <2>1, <2>2 DEF Transactions, TypeOK
  <2> QED BY <1>1, <1>4, <2>3 DEF Open, Continue
<1>5. ASSUME NEW w \in Workers, Insert(w) PROVE tx' \in [Workers -> Transactions]
  <2>1. tx[w] \in Transactions
    BY <1>1
  <2>2. Key(w) \in Keys
    BY <1>5, KeyLemma DEF Insert, AtWork
  <2>3. [tx[w] EXCEPT !.pc = "credit", !.locks = tx[w].locks \cup {Key(w)}] \in Transactions
    BY <2>1, <2>2 DEF Transactions
  <2> QED BY <1>1, <1>2, <1>5, <2>3 DEF Insert, GiveUp, Continue
<1>6. ASSUME NEW w \in Workers, Commit(w) \/ Finalize(w) \/ Victim(w) \/ Crash(w)
      PROVE  tx' \in [Workers -> Transactions]
  BY <1>1, <1>2, <1>6 DEF Commit, Finalize, Victim, GiveUp, Crash, Continue
<1>7. ASSUME NEW w \in Workers, NEW m \in Months, Close(w, m)
      PROVE  tx' \in [Workers -> Transactions]
  <2> DEFINE found == {k \in Keys : k[2] = m /\ progress[k].status # "none"}
  <2>1. found \in SUBSET Keys
    OBVIOUS
  <2>2. Continue(w, [Idle EXCEPT !.kind = "close", !.pc = "close", !.month = m, !.seen = found])
    BY <1>7 DEF Close
  <2> HIDE DEF found
  <2>3. [Idle EXCEPT !.kind = "close", !.pc = "close", !.month = m, !.seen = found]
          \in Transactions
    BY <1>2, <2>1 DEF Transactions
  <2> QED BY <1>1, <2>2, <2>3 DEF Continue
<1>8. ASSUME NEW w \in Workers, Credit(w) PROVE tx' \in [Workers -> Transactions]
  <2>1. [tx[w] EXCEPT !.pc = "credited"] \in Transactions
    BY <1>1 DEF Transactions
  <2> QED BY <1>1, <1>8, <2>1 DEF Credit, Continue
<1>9. CASE UNCHANGED tx
  BY <1>1, <1>9
<1> QED
  BY <1>3, <1>4, <1>5, <1>6, <1>7, <1>8, <1>9
     DEF Next, PassMonth, MarkUncounted, SetTarget, Create, Edit, Publish, CancelDistribution

\* So do the calendar, the slots and their points.
LEMMA PointsTyped ==
  ASSUME OnaharInv, Next
  PROVE  /\ now' \in Months /\ crashes' \in 0..MaxCrashes
         /\ delivered' \in SUBSET Slots /\ point' \in [Slots -> SUBSET Months]
<1>1. TypeOK
  BY DEF OnaharInv
<1>2. CASE PassMonth
  BY <1>1, <1>2, OnaharAssumption DEF PassMonth, TypeOK, Months, rows
<1>3. ASSUME NEW w \in Workers, Insert(w) \/ Victim(w)
      PROVE  UNCHANGED <<now, crashes, point>> /\ delivered' \in SUBSET Slots
  <2>1. UNCHANGED <<now, crashes, point>> /\ delivered' \in {delivered, delivered \cup {tx[w].slot}}
    BY <1>3 DEF Insert, Victim, GiveUp
  <2>2. AtWork(w) => tx[w].slot \in Slots
    BY KeyLemma
  <2>3. ~AtWork(w) => delivered' = delivered
    <3>1. tx[w].pc = "close" => tx[w].kind # "mark"
      BY DEF OnaharInv, CreditsApart
    <3> QED BY <1>3, <3>1 DEF Insert, Victim, GiveUp, AtWork
  <2> QED BY <1>1, <2>1, <2>2, <2>3 DEF TypeOK
<1>4. ASSUME NEW w \in Workers, Commit(w)
      PROVE  /\ UNCHANGED <<now, crashes>> /\ delivered' \in SUBSET Slots
             /\ point' \in [Slots -> SUBSET Months]
  <2>1. tx[w].slot \in Slots /\ tx[w].month \in Months
    BY <1>4, KeyLemma DEF Commit, AtWork
  <2> QED BY <1>1, <1>4, <2>1 DEF Commit, TypeOK
<1>5. ASSUME NEW w \in Workers, Crash(w)
      PROVE  UNCHANGED <<now, delivered, point>> /\ crashes' \in 0..MaxCrashes
  BY <1>1, <1>5, OnaharAssumption DEF Crash, rows, TypeOK
<1>6. ASSUME NEW s \in Slots, MarkUncounted(s)
      PROVE  UNCHANGED <<now, crashes, point>> /\ delivered' \in SUBSET Slots
  BY <1>1, <1>6 DEF MarkUncounted, TypeOK
<1>7. CASE UNCHANGED <<now, crashes, delivered, point>>
  BY <1>1, <1>7 DEF TypeOK
<1> QED
  BY <1>1, <1>2, <1>3, <1>4, <1>5, <1>6, <1>7
     DEF rows, Next, Mark, Reconcile, Open, Credit, Finalize, Close, SetTarget, Create, Edit,
         Publish, CancelDistribution, TypeOK

\* So do the rows of the months.
LEMMA ProgressTyped ==
  ASSUME OnaharInv, Next
  PROVE  progress' \in [Keys -> Progress]
<1>1. ASSUME NEW w \in Workers, Commit(w) PROVE progress' \in [Keys -> Progress]
  BY <1>1, CommitRow
<1>2. ASSUME NEW w \in Workers, Finalize(w) PROVE progress' \in [Keys -> Progress]
  BY <1>2, FinalizeRows
<1>3. CASE UNCHANGED progress
  BY <1>3 DEF OnaharInv, TypeOK
<1> QED
  BY <1>1, <1>2, <1>3
     DEF rows, Next, PassMonth, MarkUncounted, Mark, Reconcile, Open, Insert, Credit, Victim,
         GiveUp, Crash, Close,
         SetTarget, Create, Edit, Publish, CancelDistribution

-----------------------------------------------------------------------------
\* The fund

Funds == [contributed : Nat, distributed : Nat, available : Nat, target : Nat \ {0}]

FundRight ==
  /\ FundFinite /\ FundExplained /\ fund \in Funds
  /\ dist \in [Distributions ->
                [status : {"none", "draft", "published", "cancelled"}, meals : Nat]]

\* The fund and the distributions stay in their domains, and explained.
LEMMA FundKept ==
  ASSUME OnaharInv, Next
  PROVE  FundRight'
<1>1. /\ TypeOK /\ FundFinite /\ FundExplained /\ fund \in Funds
      /\ dist \in [Distributions ->
                    [status : {"none", "draft", "published", "cancelled"}, meals : Nat]]
  BY DEF OnaharInv, TypeOK, Funds
<1>2. /\ fund.contributed \in Nat /\ fund.distributed \in Nat /\ fund.available \in Nat
      /\ fund.contributed = Cardinality(Donated) /\ fund.distributed = Cardinality(Given)
      /\ fund.available + fund.distributed = fund.contributed
  BY <1>1 DEF Funds, FundExplained
<1>3. ASSUME NEW w \in Workers, Commit(w) PROVE FundRight'
  <2>1. Missing(Pointed(w)) \in Nat
    BY <1>3, KeyLemma, MissingLemma DEF Commit, AtWork
  <2>2. Contribute(Missing(Pointed(w)))
    BY <1>3 DEF Commit
  <2> DEFINE due == Missing(Pointed(w))
  <2>3. /\ fund' = [contributed |-> fund.contributed + due, distributed |-> fund.distributed,
                    available |-> fund.available + due, target |-> fund.target]
        /\ fund' \in Funds
    BY <1>1, <2>1, <2>2, ContributeLemma DEF Funds
  <2>4. IsFiniteSet(Donated') /\ Cardinality(Donated') = Cardinality(Donated) + due
    BY <1>3, DonatedStep
  <2>5. dist' = dist /\ Given' = Given
    BY <1>3 DEF Commit, Given
  <2> HIDE DEF due
  <2>6. FundExplained'
    BY <1>2, <2>1, <2>3, <2>4, <2>5 DEF FundExplained, due
  <2> QED BY <1>1, <2>3, <2>4, <2>5, <2>6 DEF FundRight, FundFinite
<1>4. ASSUME NEW w \in Workers, Finalize(w) PROVE FundRight'
  <2>1. fund' = fund
    BY <1>4, FinalizeRows
  <2>2. IsFiniteSet(Donated') /\ Cardinality(Donated') = Cardinality(Donated)
    BY <1>4, DonatedStep
  <2>3. dist' = dist /\ Given' = Given
    BY <1>4 DEF Finalize, Given
  <2>4. FundExplained'
    BY <1>2, <2>1, <2>2, <2>3 DEF FundExplained
  <2> QED BY <1>1, <2>1, <2>2, <2>3, <2>4 DEF FundRight, FundFinite
<1>5. ASSUME NEW t \in Targets, SetTarget(t) PROVE FundRight'
  <2>1. /\ fund'.contributed = fund.contributed /\ fund'.distributed = fund.distributed
        /\ fund'.available = fund.available /\ fund' \in Funds
    BY <1>1, <1>5, OnaharAssumption DEF SetTarget, Funds
  <2>2. Donated' = Donated /\ Given' = Given /\ dist' = dist
    BY <1>5 DEF SetTarget, Donated, Given
  <2> QED BY <1>1, <1>2, <2>1, <2>2 DEF FundRight, FundFinite, FundExplained
<1>6. ASSUME NEW d \in Distributions, NEW n \in Portions, Create(d, n) \/ Edit(d, n)
      PROVE  FundRight'
  <2>1. n \in Nat /\ SetDistribution(d, "draft", n) /\ dist[d].status # "published"
    BY <1>6, OnaharAssumption DEF Create, Edit
  <2>2. /\ IsFiniteSet(Given') /\ Cardinality(Given') = Cardinality(Given)
        /\ dist' \in [Distributions ->
                       [status : {"none", "draft", "published", "cancelled"}, meals : Nat]]
    BY <1>1, <2>1, GivenStep, SetLemma
  <2>3. fund' = fund /\ Donated' = Donated
    BY <1>6 DEF Create, Edit, Donated
  <2> QED BY <1>1, <1>2, <2>2, <2>3 DEF FundRight, FundFinite, FundExplained
<1>7. ASSUME NEW d \in Distributions, Publish(d) PROVE FundRight'
  <2> DEFINE n == dist[d].meals
  <2>1. n \in Nat /\ SetDistribution(d, "published", n) /\ dist[d].status = "draft"
    BY <1>1, <1>7 DEF Publish
  <2>2. /\ IsFiniteSet(Given') /\ Cardinality(Given') = Cardinality(Given) + n
        /\ dist' \in [Distributions ->
                       [status : {"none", "draft", "published", "cancelled"}, meals : Nat]]
    BY <1>1, <2>1, GivenStep, SetLemma
  <2>3. /\ fund'.contributed = fund.contributed /\ fund'.distributed = fund.distributed + n
        /\ fund'.available = fund.available - n /\ n <= fund.available
        /\ fund' = [fund EXCEPT !.distributed = fund.distributed + n,
                                !.available = fund.available - n]
    BY <1>1, <1>7 DEF Publish, Funds
  <2>4. Donated' = Donated
    BY <1>7 DEF Publish, Donated
  <2> HIDE DEF n
  <2>5. fund' \in Funds
    <3>1. fund.distributed + n \in Nat /\ fund.available - n \in Nat
      BY <1>2, <2>1, <2>3 DEF n
    <3> QED BY <1>1, <2>3, <3>1 DEF Funds
  <2>6. FundExplained'
    BY <1>2, <2>1, <2>2, <2>3, <2>4 DEF FundExplained
  <2> QED BY <1>1, <2>2, <2>4, <2>5, <2>6 DEF FundRight, FundFinite
<1>8. ASSUME NEW d \in Distributions, CancelDistribution(d) PROVE FundRight'
  <2> DEFINE n == dist[d].meals
             back == IF dist[d].status = "published" THEN n ELSE 0
  <2>1. n \in Nat /\ SetDistribution(d, "cancelled", n)
    BY <1>1, <1>8 DEF CancelDistribution
  <2>2. /\ IsFiniteSet(Given') /\ Cardinality(Given') = Cardinality(Given) - back
        /\ back \in Nat /\ back <= Cardinality(Given)
        /\ dist' \in [Distributions ->
                       [status : {"none", "draft", "published", "cancelled"}, meals : Nat]]
    BY <1>1, <1>2, <2>1, GivenStep, SetLemma
  <2>3. fund' = [fund EXCEPT !.distributed = fund.distributed - back,
                             !.available = fund.available + back]
    BY <1>8 DEF CancelDistribution
  <2>4. Donated' = Donated
    BY <1>8 DEF CancelDistribution, Donated
  <2> HIDE DEF n, back
  <2>5. /\ fund'.contributed = fund.contributed /\ fund'.distributed = fund.distributed - back
        /\ fund'.available = fund.available + back
    BY <1>1, <2>3 DEF Funds
  <2>6. fund' \in Funds
    <3>1. fund.distributed - back \in Nat /\ fund.available + back \in Nat
      BY <1>2, <2>2
    <3> QED BY <1>1, <2>3, <3>1 DEF Funds
  <2>7. FundExplained'
    BY <1>2, <2>2, <2>4, <2>5 DEF FundExplained
  <2> QED BY <1>1, <2>2, <2>4, <2>6, <2>7 DEF FundRight, FundFinite
<1>9. CASE UNCHANGED <<progress, fund, dist>>
  BY <1>1, <1>9 DEF FundRight, FundFinite, FundExplained, Donated, Given
<1> QED
  BY <1>3, <1>4, <1>5, <1>6, <1>7, <1>8, <1>9
     DEF rows, Next, PassMonth, MarkUncounted, Mark, Reconcile, Open, Insert, Credit, Victim,
         GiveUp, Crash, Close

-----------------------------------------------------------------------------
\* Points

\* Transactions go on holding their slots apart, and the slots are without points.
LEMMA CreditsApartKept ==
  ASSUME OnaharInv, Next
  PROVE  CreditsApart'
<1>1. CreditsApart /\ tx \in [Workers -> Transactions] /\ point \in [Slots -> SUBSET Months]
  BY DEF OnaharInv, TypeOK
<1>2. Idle.pc = "idle" /\ Idle.slot = NoSlot
  BY DEF Idle
<1>3. ASSUME NEW w \in Workers, NEW s \in Slots, Mark(w, s) \/ Reconcile(w, s)
      PROVE  CreditsApart'
  <2>1. /\ tx'[w].pc = "open" /\ tx'[w].slot = s
        /\ \A v \in Workers \ {w} : tx'[v] = tx[v]
        /\ UNCHANGED point
    <3>1. PICK k \in {"mark", "reconcile"} :
            /\ tx' = [tx EXCEPT ![w] = [Idle EXCEPT !.kind = k, !.pc = "open", !.slot = s,
                                                   !.month = MonthOf[s]]]
            /\ UNCHANGED point
      <4>1. CASE Mark(w, s)
        BY <4>1 DEF Mark, Continue, rows
      <4>2. CASE Reconcile(w, s)
        BY <4>2 DEF Reconcile, Continue, rows
      <4> QED BY <1>3, <4>1, <4>2
    <3> DEFINE t == [Idle EXCEPT !.kind = k, !.pc = "open", !.slot = s, !.month = MonthOf[s]]
    <3>2. t.pc = "open" /\ t.slot = s
      BY DEF Idle
    <3>3. tx' = [tx EXCEPT ![w] = t]
      BY <3>1
    <3> HIDE DEF t
    <3> QED BY <1>1, <3>1, <3>2, <3>3
  <2>2. point[s] = {}
    BY <1>3 DEF Mark, Reconcile, OnaharInv, PointsAreMeals
  <2>3. \A v \in Workers \ {w} : tx[v].slot # s
    BY <1>3 DEF Mark, Reconcile, SlotFree
  <2> QED BY <1>1, <2>1, <2>2, <2>3 DEF CreditsApart, AtWork
<1>4. ASSUME NEW w \in Workers, AtWork(w), UNCHANGED point, NEW t, Continue(w, t),
             t.slot = tx[w].slot, t.pc \in {"open", "insert", "credit", "credited"}
      PROVE  CreditsApart'
  <2>1. tx'[w] = t /\ \A v \in Workers \ {w} : tx'[v] = tx[v]
    BY <1>1, <1>4 DEF Continue
  <2> QED BY <1>1, <1>4, <2>1 DEF CreditsApart, AtWork
<1>5. ASSUME NEW w \in Workers, UNCHANGED point, Continue(w, Idle)
      PROVE  CreditsApart'
  <2>1. tx'[w] = Idle /\ \A v \in Workers \ {w} : tx'[v] = tx[v]
    BY <1>1, <1>5 DEF Continue
  <2> QED BY <1>1, <1>2, <1>5, <2>1 DEF CreditsApart, AtWork
<1>6. ASSUME NEW w \in Workers, Open(w) \/ Insert(w) \/ Credit(w) PROVE CreditsApart'
  <2>1. AtWork(w) /\ UNCHANGED point /\ tx[w] \in Transactions
    BY <1>1, <1>6 DEF Open, Insert, Credit, AtWork, rows
  <2>2. ASSUME NEW f, Continue(w, [tx[w] EXCEPT !.pc = "insert", !.target = f])
        PROVE  CreditsApart'
    <3>1. PICK t : t = [tx[w] EXCEPT !.pc = "insert", !.target = f]
      OBVIOUS
    <3>2. t.pc = "insert" /\ t.slot = tx[w].slot
      BY <2>1, <3>1 DEF Transactions
    <3> QED BY <1>4, <2>1, <2>2, <3>1, <3>2
  <2>3. ASSUME NEW l, Continue(w, [tx[w] EXCEPT !.month = now, !.locks = l])
        PROVE  CreditsApart'
    <3>1. PICK t : t = [tx[w] EXCEPT !.month = now, !.locks = l]
      OBVIOUS
    <3>2. t.pc = tx[w].pc /\ t.slot = tx[w].slot
      BY <2>1, <3>1 DEF Transactions
    <3> QED BY <1>4, <2>1, <2>3, <3>1, <3>2 DEF AtWork
  <2>4. ASSUME NEW l, Continue(w, [tx[w] EXCEPT !.pc = "credit", !.locks = l])
        PROVE  CreditsApart'
    <3>1. PICK t : t = [tx[w] EXCEPT !.pc = "credit", !.locks = l]
      OBVIOUS
    <3>2. t.pc = "credit" /\ t.slot = tx[w].slot
      BY <2>1, <3>1 DEF Transactions
    <3> QED BY <1>4, <2>1, <2>4, <3>1, <3>2
  <2>5. ASSUME Continue(w, [tx[w] EXCEPT !.pc = "credited"])
        PROVE  CreditsApart'
    <3>1. PICK t : t = [tx[w] EXCEPT !.pc = "credited"]
      OBVIOUS
    <3>2. t.pc = "credited" /\ t.slot = tx[w].slot
      BY <2>1, <3>1 DEF Transactions
    <3> QED BY <1>4, <2>1, <2>5, <3>1, <3>2
  <2>6. CASE Open(w)
    <3> HIDE DEF Key
    <3> QED BY <2>2, <2>3, <2>4, <2>6 DEF Open
  <2>7. CASE Insert(w)
    <3> HIDE DEF Key
    <3> QED BY <1>5, <2>1, <2>4, <2>7 DEF Insert, GiveUp
  <2>8. CASE Credit(w)
    BY <2>5, <2>8 DEF Credit
  <2> QED BY <1>6, <2>6, <2>7, <2>8
<1>7. ASSUME NEW w \in Workers, Finalize(w) \/ Victim(w) \/ Crash(w)
      PROVE  CreditsApart'
  BY <1>5, <1>7 DEF Finalize, Victim, GiveUp, Crash, rows
<1>8. ASSUME NEW w \in Workers, Commit(w) PROVE CreditsApart'
  <2>1. /\ tx' = [tx EXCEPT ![w] = Idle] /\ AtWork(w)
        /\ point' = [point EXCEPT ![tx[w].slot] = @ \cup {tx[w].month}]
    BY <1>8 DEF Commit, Continue, AtWork
  <2>2. \A v \in Workers \ {w} : AtWork(v) => tx[v].slot # tx[w].slot
    BY <1>1, <2>1 DEF CreditsApart
  <2> QED BY <1>1, <1>2, <2>1, <2>2 DEF CreditsApart, AtWork
<1>9. ASSUME NEW w \in Workers, NEW m \in Months, Close(w, m) PROVE CreditsApart'
  <2>1. /\ tx'[w].pc = "close" /\ tx'[w].slot = NoSlot /\ tx'[w].kind = "close"
        /\ \A v \in Workers \ {w} : tx'[v] = tx[v]
        /\ UNCHANGED point
    BY <1>1, <1>9 DEF Close, Continue, Idle, rows
  <2> QED BY <1>1, <2>1 DEF CreditsApart, AtWork
<1>10. CASE UNCHANGED <<tx, point>>
  BY <1>1, <1>10 DEF CreditsApart, AtWork
<1> QED
  BY <1>3, <1>6, <1>7, <1>8, <1>9, <1>10
     DEF rows, Next, PassMonth, MarkUncounted, SetTarget, Create, Edit, Publish,
         CancelDistribution

PointsOn(f, k) == {s \in Slots : Owner[s] = k[1] /\ k[2] \in f[s]}

\* A credit adds its slot to the points of its key and to no other.
LEMMA PointsStep ==
  ASSUME OnaharInv, NEW w \in Workers, Commit(w)
  PROVE  /\ tx[w].slot \in Slots /\ point[tx[w].slot] = {}
         /\ point' \in [Slots -> SUBSET Months] /\ point'[tx[w].slot] = {tx[w].month}
         /\ \A s \in Slots : s # tx[w].slot => point'[s] = point[s]
         /\ tx[w].slot \notin PointsOn(point, Key(w))
         /\ PointsOn(point', Key(w)) = PointsOn(point, Key(w)) \cup {tx[w].slot}
         /\ \A k \in Keys : k # Key(w) => PointsOn(point', k) = PointsOn(point, k)
<1>1. AtWork(w)
  BY DEF Commit, AtWork
<1>2. tx[w].slot \in Slots /\ tx[w].month \in Months /\ point[tx[w].slot] = {}
  BY <1>1, KeyLemma DEF OnaharInv, CreditsApart
<1>3. /\ point \in [Slots -> SUBSET Months]
      /\ point' = [point EXCEPT ![tx[w].slot] = @ \cup {tx[w].month}]
  BY DEF Commit, OnaharInv, TypeOK
<1>4. /\ point'[tx[w].slot] = {tx[w].month} /\ point' \in [Slots -> SUBSET Months]
      /\ \A s \in Slots : s # tx[w].slot => point'[s] = point[s]
  BY <1>2, <1>3
<1>5. Key(w)[1] = Owner[tx[w].slot] /\ Key(w)[2] = tx[w].month
  BY DEF Key
<1>6. \A k \in Keys : k = <<k[1], k[2]>>
  BY DEF Keys
<1>7. \A k \in Keys : k # Key(w) => k[1] # Owner[tx[w].slot] \/ k[2] # tx[w].month
  BY <1>6 DEF Key
<1>8. PointsOn(point', Key(w)) = PointsOn(point, Key(w)) \cup {tx[w].slot}
  BY <1>2, <1>4, <1>5 DEF PointsOn
<1>9. \A k \in Keys : k # Key(w) => PointsOn(point', k) = PointsOn(point, k)
  BY <1>2, <1>4, <1>7 DEF PointsOn
<1>10. tx[w].slot \notin PointsOn(point, Key(w))
  BY <1>2 DEF PointsOn
<1> QED BY <1>2, <1>4, <1>8, <1>9, <1>10

\* Points stay counted, one for each credited meal.
LEMMA PointsKept ==
  ASSUME OnaharInv, Next
  PROVE  CountsFinite' /\ PointsAreMeals'
<1> DEFINE Counted == /\ \A k \in Keys : /\ IsFiniteSet(PointsOn(point', k))
                                         /\ progress'[k].net = Cardinality(PointsOn(point', k))
                      /\ \A s \in Slots : /\ Cardinality(point'[s]) <= 1
                                          /\ point'[s] # {} => s \in delivered'
<1>1. /\ \A k \in Keys : /\ IsFiniteSet(PointsOn(point, k))
                         /\ progress[k].net = Cardinality(PointsOn(point, k))
      /\ \A s \in Slots : /\ Cardinality(point[s]) <= 1
                          /\ point[s] # {} => s \in delivered
  BY DEF OnaharInv, CountsFinite, PointsAreMeals, PointsOf, PointsOn
<1>2. SUFFICES Counted
  BY DEF CountsFinite, PointsAreMeals, PointsOf, PointsOn
<1>3. ASSUME NEW w \in Workers, Commit(w) PROVE Counted
  <2>1. /\ Key(w) \in Keys
        /\ \A k \in Keys : k # Key(w) => progress'[k] = progress[k]
        /\ progress'[Key(w)].net = progress[Key(w)].net + 1
    BY <1>3, CommitRow
  <2>2. delivered' = delivered \cup {tx[w].slot}
    BY <1>3 DEF Commit
  <2>3. Cardinality({tx[w].month}) = 1
    BY FS_Singleton
  <2>4. \A s \in Slots : /\ Cardinality(point'[s]) <= 1
                         /\ point'[s] # {} => s \in delivered'
    <3>1. ASSUME NEW s \in Slots
          PROVE  Cardinality(point'[s]) <= 1 /\ (point'[s] # {} => s \in delivered')
      <4>1. CASE s = tx[w].slot
        <5>1. point'[s] = {tx[w].month} /\ s \in delivered'
          BY <1>3, <2>2, <4>1, PointsStep
        <5>2. Cardinality(point'[s]) = 1
          BY <2>3, <5>1
        <5> QED BY <5>1, <5>2
      <4>2. CASE s # tx[w].slot
        <5>1. point'[s] = point[s]
          BY <1>3, <4>2, PointsStep
        <5> QED BY <1>1, <2>2, <5>1
      <4> QED BY <4>1, <4>2
    <3> QED BY <3>1
  <2>5. /\ IsFiniteSet(PointsOn(point', Key(w)))
        /\ progress'[Key(w)].net = Cardinality(PointsOn(point', Key(w)))
    <3>1. /\ PointsOn(point', Key(w)) = PointsOn(point, Key(w)) \cup {tx[w].slot}
          /\ tx[w].slot \notin PointsOn(point, Key(w))
      BY <1>3, PointsStep
    <3>2. IsFiniteSet(PointsOn(point, Key(w)))
      BY <1>1, <2>1
    <3>3. /\ IsFiniteSet(PointsOn(point', Key(w)))
          /\ Cardinality(PointsOn(point', Key(w))) = Cardinality(PointsOn(point, Key(w))) + 1
      BY <3>1, <3>2, FS_AddElement
    <3> QED BY <1>1, <2>1, <3>3
  <2>6. \A k \in Keys : k # Key(w) => PointsOn(point', k) = PointsOn(point, k)
    BY <1>3, PointsStep
  <2>7. \A k \in Keys : /\ IsFiniteSet(PointsOn(point', k))
                        /\ progress'[k].net = Cardinality(PointsOn(point', k))
    BY <1>1, <2>1, <2>5, <2>6, Zenon
  <2> QED BY <2>4, <2>7
<1>4. ASSUME NEW w \in Workers, Finalize(w) PROVE Counted
  <2>1. \A k \in Keys : progress'[k].net = progress[k].net
    BY <1>4, FinalizeRows
  <2>2. UNCHANGED <<point, delivered>>
    BY <1>4 DEF Finalize
  <2> QED BY <1>1, <2>1, <2>2
<1>5. CASE UNCHANGED <<point, progress>> /\ delivered \subseteq delivered'
  BY <1>1, <1>5
<1>6. CASE PassMonth \/ (\E s \in Slots : MarkUncounted(s))
             \/ (\E w \in Workers : Insert(w) \/ Open(w) \/ Credit(w) \/ Victim(w) \/ Crash(w))
  <2>1. UNCHANGED <<point, progress>> /\ delivered \subseteq delivered'
    BY <1>6 DEF PassMonth, MarkUncounted, Insert, GiveUp, Open, Credit, Victim, Crash, rows
  <2> QED BY <1>5, <2>1
<1>7. CASE \E w \in Workers, s \in Slots : Mark(w, s) \/ Reconcile(w, s)
  <2>1. UNCHANGED <<point, progress, delivered>>
    BY <1>7 DEF Mark, Reconcile, rows
  <2> QED BY <1>5, <2>1
<1>8. CASE \/ \E w \in Workers, m \in Months : Close(w, m)
           \/ \E t \in Targets : SetTarget(t)
           \/ \E d \in Distributions, n \in Portions : Create(d, n) \/ Edit(d, n)
           \/ \E d \in Distributions : Publish(d) \/ CancelDistribution(d)
  <2>1. UNCHANGED <<point, progress, delivered>>
    BY <1>8 DEF Close, SetTarget, Create, Edit, Publish, CancelDistribution, rows
  <2> QED BY <1>5, <2>1
<1> HIDE DEF Counted
<1> QED BY <1>3, <1>4, <1>6, <1>7, <1>8 DEF Next

-----------------------------------------------------------------------------
\* Targets

\* Rows go on having donated their full targets.
LEMMA TargetsKept ==
  ASSUME OnaharInv, Next
  PROVE  TargetsDonated' /\ UnmadeEmpty'
<1> DEFINE Right(p) == /\ p.status = "none" => p = NoProgress
                       /\ p.status = "open" => p.expired = 0
                       /\ p.status = "open" => p.earned = p.net \div p.target
                       /\ p.earned * p.target + p.expired <= p.net
<1>1. \A k \in Keys : Right(progress[k]) /\ progress[k] \in Progress
  BY DEF OnaharInv, TypeOK, TargetsDonated, UnmadeEmpty
<1>2. SUFFICES \A k \in Keys : Right(progress'[k])
  BY DEF TargetsDonated, UnmadeEmpty
<1>3. ASSUME NEW w \in Workers, Commit(w), NEW k \in Keys PROVE Right(progress'[k])
  <2>1. CASE k # Key(w)
    BY <1>1, <1>3, <2>1, CommitRow
  <2>2. CASE k = Key(w)
    <3> DEFINE t == tx[w].target
               e == Existing(k, t)
               p == Plus(k, t)
               due == Missing(p)
    <3>0. t \in Nat \ {0} /\ Pointed(w) = p
      BY <1>3, <2>2, KeyLemma DEF Commit, AtWork
    <3>1. progress'[k] = [status |-> e.status, target |-> e.target,
                          net |-> progress[k].net + 1, earned |-> progress[k].earned + due,
                          expired |-> progress[k].expired]
      BY <1>3, <2>2, <3>0, CommitRow
    <3>2. /\ e.status \in {"open", "closed"} /\ e.net = progress[k].net
          /\ e.earned = progress[k].earned /\ e.expired = progress[k].expired
          /\ e.status = "open" => e.expired = 0
      BY <3>0, ExistingLemma
    <3>3. /\ p.status = e.status /\ p.target = e.target /\ p.net = e.net + 1
          /\ p.earned = e.earned /\ p.expired = e.expired
      BY <3>0, PointedLemma
    <3>4. /\ p.status = "open" => p.earned + due = p.net \div p.target
          /\ (p.earned + due) * p.target + p.expired <= p.net
      BY <3>0, MissingLemma
    <3> HIDE DEF t, e, p, due
    <3>5. /\ progress'[k].status = e.status /\ progress'[k].target = p.target
          /\ progress'[k].net = p.net /\ progress'[k].earned = p.earned + due
          /\ progress'[k].expired = e.expired
      BY <3>1, <3>2, <3>3
    <3>6. progress'[k].status # "none"
      BY <3>2, <3>5
    <3>7. progress'[k].status = "open" =>
            progress'[k].earned = progress'[k].net \div progress'[k].target
      BY <3>3, <3>4, <3>5
    <3>8. progress'[k].earned * progress'[k].target + progress'[k].expired <= progress'[k].net
      BY <3>3, <3>4, <3>5
    <3> QED BY <3>2, <3>5, <3>6, <3>7, <3>8
  <2> QED BY <2>1, <2>2
<1>4. ASSUME NEW w \in Workers, Finalize(w), NEW k \in Keys PROVE Right(progress'[k])
  <2>1. CASE progress'[k] = progress[k]
    BY <1>1, <2>1
  <2>2. CASE progress'[k] # progress[k]
    <3> DEFINE p == progress[k]
    <3>1. /\ p.status = "open"
          /\ progress'[k] = [status |-> "closed", target |-> p.target, net |-> p.net,
                             earned |-> p.earned, expired |-> p.net % p.target]
      BY <1>4, <2>2, FinalizeRows
    <3>2. p \in Progress /\ p.earned = p.net \div p.target
      BY <1>1, <3>1
    <3> HIDE DEF p
    <3>3. p.net \in Nat /\ p.target \in Nat \ {0}
      BY <3>2 DEF Progress
    <3>4. (p.net \div p.target) * p.target + (p.net % p.target) = p.net
      BY <3>3, DivLemma
    <3> DEFINE rest == p.net % p.target
    <3>5. p.earned * p.target + rest <= p.net
      BY <3>2, <3>3, <3>4
    <3>6. progress'[k] = [status |-> "closed", target |-> p.target, net |-> p.net,
                          earned |-> p.earned, expired |-> rest]
      BY <3>1
    <3> HIDE DEF rest
    <3> QED BY <3>5, <3>6
  <2> QED BY <2>1, <2>2
<1>5. CASE UNCHANGED progress
  BY <1>1, <1>5
<1> HIDE DEF Right
<1> QED
  BY <1>3, <1>4, <1>5
     DEF rows, Next, PassMonth, MarkUncounted, Mark, Reconcile, Open, Insert, Credit, Victim,
         GiveUp, Crash, Close,
         SetTarget, Create, Edit, Publish, CancelDistribution

-----------------------------------------------------------------------------
\* The theorems

\* The invariant holds at first: there is no row, no point and no distribution.
LEMMA InitInv ==
  ASSUME Init
  PROVE  OnaharInv
<1>1. TypeOK
  <2>1. NoProgress \in Progress
    BY DEF NoProgress, Progress
  <2>2. Idle \in Transactions
    BY OnaharAssumption DEF Idle, Transactions, Months
  <2>3. 0 \in Months /\ 0 \in 0..MaxCrashes
    BY OnaharAssumption DEF Months
  <2>4. fund \in [contributed : Nat, distributed : Nat, available : Nat, target : Nat \ {0}]
    BY OnaharAssumption DEF Init
  <2> QED BY <2>1, <2>2, <2>3, <2>4 DEF Init, TypeOK
<1>2. CreditsApart
  BY DEF Init, CreditsApart, AtWork, Idle
<1>3. /\ \A k \in Keys : progress[k] = NoProgress
      /\ NoProgress.status = "none" /\ NoProgress.net = 0 /\ NoProgress.earned = 0
      /\ NoProgress.expired = 0 /\ NoProgress.target = 1
  BY DEF Init, NoProgress
<1>4. UnmadeEmpty /\ TargetsDonated
  BY <1>3 DEF UnmadeEmpty, TargetsDonated
<1>5. \A k \in Keys : PointsOf(k) = {}
  BY DEF Init, PointsOf
<1>6. CountsFinite /\ PointsAreMeals
  <2>1. \A s \in Slots : point[s] = {}
    BY DEF Init
  <2> QED BY <1>3, <1>5, <2>1, FS_EmptySet DEF CountsFinite, PointsAreMeals
<1>7. Donated = {} /\ Given = {}
  <2>1. 1..0 = {}
    OBVIOUS
  <2>2. Donated = {}
    BY <1>3, <2>1 DEF Donated
  <2>3. Given = {}
    BY DEF Init, Given
  <2> QED BY <2>2, <2>3
<1>8. FundFinite /\ FundExplained
  <2>1. fund.contributed = 0 /\ fund.distributed = 0 /\ fund.available = 0
    BY DEF Init
  <2> QED BY <1>7, <2>1, FS_EmptySet DEF FundFinite, FundExplained
<1> QED BY <1>1, <1>2, <1>4, <1>6, <1>8 DEF OnaharInv

\* Every step keeps it.
LEMMA InvKept ==
  ASSUME OnaharInv, [Next]_vars
  PROVE  OnaharInv'
<1>1. CASE Next
  <2>1. FundRight'
    BY <1>1, FundKept
  <2>2. TypeOK'
    BY <1>1, <2>1, TxTyped, PointsTyped, ProgressTyped DEF TypeOK, FundRight, Funds
  <2>3. CreditsApart' /\ CountsFinite' /\ PointsAreMeals' /\ TargetsDonated' /\ UnmadeEmpty'
    BY <1>1, CreditsApartKept, PointsKept, TargetsKept
  <2> QED BY <2>1, <2>2, <2>3 DEF OnaharInv, FundRight
<1>2. CASE UNCHANGED vars
  BY <1>2 DEF vars, rows, OnaharInv, TypeOK, CreditsApart, AtWork, UnmadeEmpty, CountsFinite,
       PointsOf, FundFinite, Donated, Given, PointsAreMeals, TargetsDonated, FundExplained
<1> QED BY <1>1, <1>2

\* The inductive invariant of points, fund and distributions.
THEOREM InvTheorem == Spec => []OnaharInv
<1>1. Init => OnaharInv
  BY InitInv
<1>2. OnaharInv /\ [Next]_vars => OnaharInv'
  BY InvKept
<1> QED BY <1>1, <1>2, PTL DEF Spec

\* Every variable stays in its domain: the fund is never overdrawn, whatever is
\* published, edited or cancelled meanwhile.
THEOREM TypeCorrect == Spec => []TypeOK
<1>1. OnaharInv => TypeOK
  BY DEF OnaharInv
<1> QED BY <1>1, InvTheorem, PTL

\* A month's points are its credited meals, and no meal is credited twice.
THEOREM Points == Spec => []PointsAreMeals
<1>1. OnaharInv => PointsAreMeals
  BY DEF OnaharInv
<1> QED BY <1>1, InvTheorem, PTL

\* The fund is what the months earned less what is published.
THEOREM FundTheorem == Spec => []FundExplained
<1>1. OnaharInv => FundExplained
  BY DEF OnaharInv
<1> QED BY <1>1, InvTheorem, PTL

\* Open months have donated all their full targets, closed ones no more than their
\* points.
THEOREM TargetsTheorem == Spec => []TargetsDonated
<1>1. OnaharInv => TargetsDonated
  BY DEF OnaharInv
<1> QED BY <1>1, InvTheorem, PTL

\* What a step leaves of a closed month.
Stays(k) ==
  progress[k].status = "closed" =>
    /\ progress'[k].status = "closed"
    /\ progress'[k].earned = progress[k].earned
    /\ progress'[k].expired = progress[k].expired

\* No step takes from a closed month, or reopens it.
LEMMA ClosedStep ==
  ASSUME OnaharInv, Next, NEW k \in Keys
  PROVE  Stays(k)
<1>1. ASSUME NEW w \in Workers, Commit(w), k = Key(w), progress[k].status = "closed"
      PROVE  Stays(k)
  <2> DEFINE t == tx[w].target
  <2>1. t \in Nat \ {0} /\ Pointed(w) = Plus(k, t)
    BY <1>1, KeyLemma DEF Commit, AtWork
  <2>2. /\ progress'[k] = [status |-> Existing(k, t).status, target |-> Existing(k, t).target,
                           net |-> progress[k].net + 1,
                           earned |-> progress[k].earned + Missing(Plus(k, t)),
                           expired |-> progress[k].expired]
        /\ progress'[k].earned = progress[k].earned + Missing(Plus(k, t))
    BY <1>1, <2>1, CommitRow
  <2>3. Existing(k, t).status = "closed" /\ Plus(k, t).status = "closed"
    BY <1>1, <2>1, ExistingLemma, PointedLemma
  <2>4. Missing(Plus(k, t)) = 0
    BY <2>1, <2>3, MissingLemma
  <2>5. progress[k].earned \in Nat
    BY DEF OnaharInv, TypeOK, Progress
  <2>6. progress'[k].earned = progress[k].earned
    BY <2>2, <2>4, <2>5
  <2>7. progress'[k].status = "closed" /\ progress'[k].expired = progress[k].expired
    BY <2>2, <2>3
  <2> QED BY <2>6, <2>7 DEF Stays
<1>2. ASSUME NEW w \in Workers, Commit(w), k # Key(w) PROVE Stays(k)
  <2>1. progress'[k] = progress[k]
    BY <1>2, CommitRow
  <2> QED BY <2>1 DEF Stays
<1>3. ASSUME NEW w \in Workers, Finalize(w), progress[k].status = "closed" PROVE Stays(k)
  <2>1. progress'[k] = progress[k]
    BY <1>3, FinalizeRows
  <2> QED BY <2>1 DEF Stays
<1>4. CASE progress[k].status # "closed"
  BY <1>4 DEF Stays
<1>5. CASE UNCHANGED progress
  BY <1>5 DEF Stays
<1> QED
  BY <1>1, <1>2, <1>3, <1>4, <1>5
     DEF rows, Next, PassMonth, MarkUncounted, Mark, Reconcile, Open, Insert, Credit, Victim,
         GiveUp, Crash, Close,
         SetTarget, Create, Edit, Publish, CancelDistribution

\* A closed month stays closed, with what it donated and what expired.
THEOREM ClosedMonthsTheorem == Spec => ClosedMonthsStay
<1>1. OnaharInv /\ [Next]_vars => [\A k \in Keys : Stays(k)]_vars
  BY ClosedStep
<1>2. [\A k \in Keys : Stays(k)]_vars <=>
      [\A k \in Keys : progress[k].status = "closed" =>
         /\ progress'[k].status = "closed"
         /\ progress'[k].earned = progress[k].earned
         /\ progress'[k].expired = progress[k].expired]_vars
  BY DEF Stays
<1> QED BY <1>1, <1>2, InvTheorem, PTL DEF Spec, ClosedMonthsStay
=============================================================================
