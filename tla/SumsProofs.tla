----------------------------- MODULE SumsProofs -----------------------------
(***************************************************************************)
(* Facts about sums over finite sets.  The fold takes the elements in an   *)
(* order of its own; the facts say that the order does not matter.         *)
(***************************************************************************)
EXTENDS Sums, TLAPS, FiniteSetTheorems, WellFoundedInduction

\* A set of subsets that has a member has a smallest one.
LEMMA SmallestSubset ==
  ASSUME NEW S, IsFiniteSet(S), NEW Some \in SUBSET (SUBSET S), Some # {}
  PROVE  \E T \in Some : \A U \in SUBSET T : U # T => U \notin Some
<1>1. IsWellFoundedOn(StrictSubsetOrdering(S), FiniteSubsetsOf(S))
  BY FS_StrictSubsetOrderingWellFounded
<1>2. FiniteSubsetsOf(S) = SUBSET S
  BY FS_FiniteSubsetsOfFinite
<1>3. PICK T \in Some : \A U \in Some : <<U, T>> \notin StrictSubsetOrdering(S)
  <2>1. IsWellFoundedOn(StrictSubsetOrdering(S), SUBSET S)
    BY <1>1, <1>2
  <2> QED BY <2>1, WFMin
<1>4. ASSUME NEW U \in SUBSET T, U # T, U \in Some PROVE FALSE
  BY <1>3, <1>4 DEF StrictSubsetOrdering
<1> QED BY <1>4

\* Induction over a finite set, for a set of good subsets.
LEMMA SubsetInduction ==
  ASSUME NEW S, IsFiniteSet(S), NEW Good, {} \in Good,
         \A T \in SUBSET S, x \in S : T \in Good /\ x \notin T => T \cup {x} \in Good
  PROVE  S \in Good
<1> SUFFICES ASSUME S \notin Good PROVE FALSE
  OBVIOUS
<1> DEFINE Bad == {T \in SUBSET S : T \notin Good}
<1>1. S \in Bad
  OBVIOUS
<1>2. PICK T \in Bad : \A U \in SUBSET T : U # T => U \notin Bad
  <2>1. Bad \in SUBSET (SUBSET S) /\ Bad # {}
    BY <1>1
  <2> HIDE DEF Bad
  <2> QED BY <2>1, SmallestSubset
<1>3. PICK x : x \in T
  BY <1>2
<1>4. T \in SUBSET S /\ T \notin Good
  BY <1>2
<1>5. PICK U : U = T \ {x}
  OBVIOUS
<1>6. U \in SUBSET S /\ U \in SUBSET T /\ U # T /\ x \in S /\ x \notin U /\ U \cup {x} = T
  BY <1>3, <1>4, <1>5
<1>7. U \in Good
  BY <1>2, <1>6
<1>8. U \cup {x} \in Good
  BY <1>6, <1>7
<1> QED BY <1>4, <1>6, <1>8

-----------------------------------------------------------------------------
\* A sum for every subset, to which every element adds its own.
Additive(g, f, S) ==
  /\ g \in [SUBSET S -> Int] /\ g[{}] = 0
  /\ \A T \in SUBSET S : \A x \in T : g[T] = f[x] + g[T \ {x}]

\* There are such sums.
LEMMA AdditiveExists ==
  ASSUME NEW S, IsFiniteSet(S), NEW f, \A x \in S : f[x] \in Int
  PROVE  \E g : Additive(g, f, S)
<1> DEFINE Good == {T \in SUBSET S : \E g : Additive(g, f, T)}
<1>1. {} \in Good
  <2> DEFINE g == [T \in SUBSET {} |-> 0]
  <2>1. Additive(g, f, {})
    BY DEF Additive
  <2> QED BY <2>1
<1>2. ASSUME NEW T \in SUBSET S, NEW x \in S, T \in Good, x \notin T
      PROVE  T \cup {x} \in Good
  <2>1. PICK g : Additive(g, f, T)
    BY <1>2
  <2> DEFINE h == [U \in SUBSET (T \cup {x}) |-> IF x \in U THEN f[x] + g[U \ {x}] ELSE g[U]]
  <2>2. h \in [SUBSET (T \cup {x}) -> Int] /\ h[{}] = 0
    BY <2>1 DEF Additive
  <2>3. ASSUME NEW U \in SUBSET (T \cup {x}), NEW y \in U
        PROVE  h[U] = f[y] + h[U \ {y}]
    <3>1. U \ {y} \in SUBSET (T \cup {x}) /\ U \ {x} \in SUBSET T /\ f[x] \in Int
      OBVIOUS
    <3>2. CASE y = x
      BY <2>1, <3>1, <3>2
    <3>3. CASE y # x /\ x \in U
      <4>1. y \in U \ {x} /\ (U \ {x}) \ {y} = (U \ {y}) \ {x} /\ (U \ {x}) \ {y} \in SUBSET T
        BY <3>1, <3>3
      <4>2. g[U \ {x}] = f[y] + g[(U \ {x}) \ {y}] /\ g[(U \ {x}) \ {y}] \in Int /\ f[y] \in Int
        BY <2>1, <3>1, <4>1 DEF Additive
      <4>3. h[U] = f[x] + g[U \ {x}] /\ h[U \ {y}] = f[x] + g[(U \ {y}) \ {x}]
        BY <3>1, <3>3
      <4>4. h[U \ {y}] = f[x] + g[(U \ {x}) \ {y}]
        BY <4>1, <4>3
      <4> HIDE DEF h
      <4> QED BY <3>1, <4>2, <4>3, <4>4
    <3>4. CASE y # x /\ x \notin U
      <4>1. U \in SUBSET T /\ h[U] = g[U] /\ h[U \ {y}] = g[U \ {y}]
        BY <3>1, <3>4
      <4> QED BY <2>1, <4>1 DEF Additive
    <3> QED BY <3>2, <3>3, <3>4
  <2>4. Additive(h, f, T \cup {x})
    BY <2>2, <2>3 DEF Additive
  <2> QED BY <1>2, <2>4
<1>3. S \in Good
  <2>1. \A T \in SUBSET S, x \in S : T \in Good /\ x \notin T => T \cup {x} \in Good
    BY <1>2
  <2> HIDE DEF Good
  <2> QED BY <1>1, <2>1, SubsetInduction
<1> QED BY <1>3

\* The sums of the subsets of ids, by the recursion of the fold.
Partial(f, ids) ==
  CHOOSE iter : iter = [T \in SUBSET ids |->
                  IF T = {} THEN 0
                  ELSE f[CHOOSE x \in T : TRUE] + iter[T \ {CHOOSE x \in T : TRUE}]]

\* The fold computes them.
LEMMA SumIsAdditive ==
  ASSUME NEW S, IsFiniteSet(S), NEW f, NEW g, Additive(g, f, S)
  PROVE  SumOver(f, S) = g[S]
<1> DEFINE h == Partial(f, S)
           Bad == {T \in SUBSET S : h[T] # g[T]}
<1>1. SumOver(f, S) = h[S]
  BY DEF SumOver, Partial, FoldFunctionOnSet, MapThenFoldSet
<1>2. g = [T \in SUBSET S |->
             IF T = {} THEN 0
             ELSE f[CHOOSE x \in T : TRUE] + g[T \ {CHOOSE x \in T : TRUE}]]
  BY DEF Additive
<1>3. h = [T \in SUBSET S |->
             IF T = {} THEN 0
             ELSE f[CHOOSE x \in T : TRUE] + h[T \ {CHOOSE x \in T : TRUE}]]
  BY <1>2, Zenon DEF Partial
<1> HIDE DEF h
<1>4. ASSUME Bad # {} PROVE FALSE
  <2>1. PICK T \in Bad : \A U \in SUBSET T : U # T => U \notin Bad
    <3>1. Bad \in SUBSET (SUBSET S)
      OBVIOUS
    <3> HIDE DEF Bad
    <3> QED BY <1>4, <3>1, SmallestSubset
  <2>2. PICK x : x = CHOOSE y \in T : TRUE
    OBVIOUS
  <2>3. T \in SUBSET S /\ h[T] # g[T]
    BY <2>1
  <2>4. T # {}
    <3>1. h[{}] = 0 /\ g[{}] = 0
      BY <1>2, <1>3
    <3> QED BY <2>3, <3>1
  <2>5. x \in T
    BY <2>2, <2>4
  <2>6. T \ {x} \in SUBSET S /\ h[T \ {x}] = g[T \ {x}]
    BY <2>1, <2>5
  <2>7. h[T] = f[x] + h[T \ {x}] /\ g[T] = f[x] + g[T \ {x}]
    BY <1>2, <1>3, <2>2, <2>3, <2>4
  <2> QED BY <2>3, <2>6, <2>7
<1> QED BY <1>1, <1>4

-----------------------------------------------------------------------------
\* What sums are

\* A sum of integers is one.
LEMMA SumType ==
  ASSUME NEW S, IsFiniteSet(S), NEW f, \A x \in S : f[x] \in Int
  PROVE  SumOver(f, S) \in Int
<1>1. PICK g : Additive(g, f, S)
  BY AdditiveExists
<1>2. SumOver(f, S) = g[S]
  BY <1>1, SumIsAdditive
<1> QED BY <1>1, <1>2 DEF Additive

\* Nothing is worth nothing.
LEMMA SumEmpty == ASSUME NEW f PROVE SumOver(f, {}) = 0
<1>1. IsFiniteSet({})
  BY FS_EmptySet
<1>2. PICK g : Additive(g, f, {})
  BY <1>1, AdditiveExists
<1>3. SumOver(f, {}) = g[{}]
  BY <1>1, <1>2, SumIsAdditive
<1> QED BY <1>2, <1>3 DEF Additive

\* One more element adds what it is worth.
LEMMA SumAdd ==
  ASSUME NEW S, IsFiniteSet(S), NEW x, x \notin S, NEW f, \A y \in S \cup {x} : f[y] \in Int
  PROVE  /\ IsFiniteSet(S \cup {x})
         /\ SumOver(f, S \cup {x}) = SumOver(f, S) + f[x]
<1> DEFINE R == S \cup {x}
<1>1. IsFiniteSet(R) /\ (\A y \in R : f[y] \in Int) /\ x \in R /\ R \ {x} = S
  BY FS_AddElement
<1> HIDE DEF R
<1>2. PICK g : Additive(g, f, R)
  BY <1>1, AdditiveExists
<1>3. SumOver(f, R) = g[R]
  BY <1>1, <1>2, SumIsAdditive
<1>4. PICK h : h = [T \in SUBSET S |-> g[T]]
  OBVIOUS
<1>5. Additive(h, f, S)
  <2>1. SUBSET S \subseteq SUBSET R /\ {} \in SUBSET S
    BY <1>1
  <2>2. h \in [SUBSET S -> Int] /\ h[{}] = 0
    BY <1>2, <1>4, <2>1 DEF Additive
  <2>3. \A T \in SUBSET S : \A y \in T : T \ {y} \in SUBSET S
    OBVIOUS
  <2>4. \A T \in SUBSET S : \A y \in T : h[T] = f[y] + h[T \ {y}]
    BY <1>2, <1>4, <2>1, <2>3 DEF Additive
  <2> QED BY <2>2, <2>4 DEF Additive
<1>6. SumOver(f, S) = h[S] /\ h[S] = g[S]
  BY <1>4, <1>5, SumIsAdditive
<1>7. g[R] = f[x] + g[S] /\ g[S] \in Int /\ f[x] \in Int
  BY <1>1, <1>2 DEF Additive
<1>8. SumOver(f, R) = SumOver(f, S) + f[x]
  BY <1>3, <1>6, <1>7
<1> QED BY <1>1, <1>8 DEF R

\* What is left out takes its worth with it.
LEMMA SumRemove ==
  ASSUME NEW S, IsFiniteSet(S), NEW x \in S, NEW f, \A y \in S : f[y] \in Int
  PROVE  /\ IsFiniteSet(S \ {x}) /\ SumOver(f, S \ {x}) \in Int
         /\ SumOver(f, S) = SumOver(f, S \ {x}) + f[x]
<1>1. PICK R : R = S \ {x}
  OBVIOUS
<1>2. IsFiniteSet(R) /\ x \notin R /\ R \cup {x} = S
  BY <1>1, FS_RemoveElement
<1>3. SumOver(f, R \cup {x}) = SumOver(f, R) + f[x] /\ SumOver(f, R) \in Int
  BY <1>2, SumAdd, SumType
<1> QED BY <1>1, <1>2, <1>3

\* Who agrees on the elements agrees on the sum.
LEMMA SumSame ==
  ASSUME NEW S, IsFiniteSet(S), NEW f, NEW g, \A x \in S : f[x] \in Int /\ g[x] = f[x]
  PROVE  SumOver(g, S) = SumOver(f, S)
<1>1. PICK h : Additive(h, f, S)
  BY AdditiveExists
<1>2. Additive(h, g, S)
  BY <1>1 DEF Additive
<1> QED BY <1>1, <1>2, SumIsAdditive

\* What is not negative adds up to nothing negative.
LEMMA SumNat ==
  ASSUME NEW S, IsFiniteSet(S), NEW f, \A x \in S : f[x] \in Nat
  PROVE  SumOver(f, S) \in Nat
<1> DEFINE Good == {T \in SUBSET S : IsFiniteSet(T) /\ SumOver(f, T) \in Nat}
<1>1. {} \in Good
  BY SumEmpty, FS_EmptySet
<1>2. ASSUME NEW T \in SUBSET S, NEW x \in S, T \in Good, x \notin T
      PROVE  T \cup {x} \in Good
  <2>1. IsFiniteSet(T) /\ SumOver(f, T) \in Nat /\ (\A y \in T \cup {x} : f[y] \in Int)
    BY <1>2
  <2>2. IsFiniteSet(T \cup {x}) /\ SumOver(f, T \cup {x}) = SumOver(f, T) + f[x]
    BY <1>2, <2>1, SumAdd
  <2>3. SumOver(f, T) + f[x] \in Nat
    BY <2>1
  <2> QED BY <2>2, <2>3
<1>3. \A T \in SUBSET S, x \in S : T \in Good /\ x \notin T => T \cup {x} \in Good
  BY <1>2
<1> HIDE DEF Good
<1>4. S \in Good
  BY <1>1, <1>3, SubsetInduction
<1> QED BY <1>4 DEF Good

\* Nothing of worth adds up to nothing.
LEMMA SumZero ==
  ASSUME NEW S, IsFiniteSet(S), NEW f, \A x \in S : f[x] = 0
  PROVE  SumOver(f, S) = 0
<1> DEFINE Good == {T \in SUBSET S : IsFiniteSet(T) /\ SumOver(f, T) = 0}
<1>1. {} \in Good
  BY SumEmpty, FS_EmptySet
<1>2. ASSUME NEW T \in SUBSET S, NEW x \in S, T \in Good, x \notin T
      PROVE  T \cup {x} \in Good
  <2>1. IsFiniteSet(T) /\ SumOver(f, T) = 0 /\ (\A y \in T \cup {x} : f[y] \in Int) /\ f[x] = 0
    BY <1>2
  <2>2. IsFiniteSet(T \cup {x}) /\ SumOver(f, T \cup {x}) = SumOver(f, T) + f[x]
    BY <1>2, <2>1, SumAdd
  <2> QED BY <2>1, <2>2
<1> HIDE DEF Good
<1>3. S \in Good
  BY <1>1, <1>2, SubsetInduction
<1> QED BY <1>3 DEF Good

\* A change of one element's worth is a change of the sum.
LEMMA SumChange ==
  ASSUME NEW S, IsFiniteSet(S), NEW x \in S, NEW f, NEW g,
         \A y \in S : f[y] \in Int /\ g[y] \in Int, \A y \in S \ {x} : g[y] = f[y]
  PROVE  SumOver(g, S) = SumOver(f, S) - f[x] + g[x]
<1>1. PICK R : R = S \ {x}
  OBVIOUS
<1>2. IsFiniteSet(R) /\ SumOver(f, R) \in Int /\ SumOver(f, S) = SumOver(f, R) + f[x]
  BY <1>1, SumRemove
<1>3. SumOver(g, S) = SumOver(g, R) + g[x]
  BY <1>1, SumRemove
<1>4. SumOver(g, R) = SumOver(f, R)
  BY <1>1, <1>2, SumSame
<1> QED BY <1>2, <1>3, <1>4

\* What has no element in common adds up.
LEMMA SumUnion ==
  ASSUME NEW S, IsFiniteSet(S), NEW T, IsFiniteSet(T), S \cap T = {},
         NEW f, \A x \in S \cup T : f[x] \in Int
  PROVE  /\ IsFiniteSet(S \cup T)
         /\ SumOver(f, S \cup T) = SumOver(f, S) + SumOver(f, T)
<1> DEFINE Good == {U \in SUBSET T : /\ IsFiniteSet(U) /\ IsFiniteSet(S \cup U)
                                     /\ SumOver(f, S \cup U) = SumOver(f, S) + SumOver(f, U)}
<1>1. {} \in Good
  <2>1. S \cup {} = S /\ SumOver(f, S) \in Int
    BY SumType
  <2> QED BY <2>1, SumEmpty, FS_EmptySet
<1>2. ASSUME NEW U \in SUBSET T, NEW x \in T, U \in Good, x \notin U
      PROVE  U \cup {x} \in Good
  <2>1. /\ IsFiniteSet(U) /\ IsFiniteSet(S \cup U)
        /\ SumOver(f, S \cup U) = SumOver(f, S) + SumOver(f, U)
    BY <1>2
  <2>2. PICK V : V = S \cup U
    OBVIOUS
  <2>3. x \notin V /\ (\A y \in V \cup {x} : f[y] \in Int) /\ S \cup (U \cup {x}) = V \cup {x}
    BY <1>2, <2>2
  <2>4. IsFiniteSet(V \cup {x}) /\ SumOver(f, V \cup {x}) = SumOver(f, V) + f[x]
    BY <2>1, <2>2, <2>3, SumAdd
  <2>5. IsFiniteSet(U \cup {x}) /\ SumOver(f, U \cup {x}) = SumOver(f, U) + f[x]
    BY <1>2, <2>1, SumAdd
  <2>6. SumOver(f, S) \in Int /\ SumOver(f, U) \in Int /\ f[x] \in Int
    BY <2>1, SumType
  <2>7. SumOver(f, V \cup {x}) = SumOver(f, S) + SumOver(f, U \cup {x})
    BY <2>1, <2>2, <2>4, <2>5, <2>6
  <2> QED BY <2>3, <2>4, <2>5, <2>7
<1>3. \A U \in SUBSET T, x \in T : U \in Good /\ x \notin U => U \cup {x} \in Good
  BY <1>2
<1> HIDE DEF Good
<1>4. T \in Good
  BY <1>1, <1>3, SubsetInduction
<1> QED BY <1>4 DEF Good

\* A part of what is not negative adds up to no more than all of it.
LEMMA SumWithin ==
  ASSUME NEW T, IsFiniteSet(T), NEW S \in SUBSET T, NEW f, \A x \in T : f[x] \in Nat
  PROVE  SumOver(f, S) \in Nat /\ SumOver(f, S) <= SumOver(f, T)
<1>1. PICK R : R = T \ S
  OBVIOUS
<1>2. IsFiniteSet(S) /\ IsFiniteSet(R) /\ S \cap R = {} /\ S \cup R = T
  BY <1>1, FS_Subset
<1>3. \A x \in S \cup R : f[x] \in Int
  BY <1>2
<1>4. SumOver(f, T) = SumOver(f, S) + SumOver(f, R)
  BY <1>2, <1>3, SumUnion
<1>5. SumOver(f, S) \in Nat /\ SumOver(f, R) \in Nat
  BY <1>2, SumNat
<1> QED BY <1>4, <1>5

\* So does any one of its elements.
LEMMA SumElement ==
  ASSUME NEW S, IsFiniteSet(S), NEW f, \A y \in S : f[y] \in Nat, NEW x \in S
  PROVE  f[x] <= SumOver(f, S)
<1>1. PICK R : R = S \ {x}
  OBVIOUS
<1>2. IsFiniteSet(R) /\ SumOver(f, S) = SumOver(f, R) + f[x]
  BY <1>1, SumRemove
<1>3. SumOver(f, R) \in Nat
  BY <1>1, <1>2, SumNat
<1> QED BY <1>2, <1>3

\* Who has no more of any element has no more of all of them.
LEMMA SumCompare ==
  ASSUME NEW S, IsFiniteSet(S), NEW f, NEW g,
         \A x \in S : f[x] \in Int /\ g[x] \in Int /\ f[x] <= g[x]
  PROVE  SumOver(f, S) <= SumOver(g, S)
<1> DEFINE Good == {T \in SUBSET S : IsFiniteSet(T) /\ SumOver(f, T) <= SumOver(g, T)}
<1>1. {} \in Good
  <2>1. SumOver(f, {}) = 0 /\ SumOver(g, {}) = 0
    BY SumEmpty
  <2> QED BY <2>1, FS_EmptySet
<1>2. ASSUME NEW T \in SUBSET S, NEW x \in S, T \in Good, x \notin T
      PROVE  T \cup {x} \in Good
  <2>1. IsFiniteSet(T) /\ SumOver(f, T) <= SumOver(g, T)
    BY <1>2
  <2>2. \A y \in T \cup {x} : f[y] \in Int /\ g[y] \in Int
    BY <1>2
  <2>3. /\ IsFiniteSet(T \cup {x})
        /\ SumOver(f, T \cup {x}) = SumOver(f, T) + f[x]
        /\ SumOver(g, T \cup {x}) = SumOver(g, T) + g[x]
    BY <1>2, <2>1, <2>2, SumAdd
  <2>4. SumOver(f, T) \in Int /\ SumOver(g, T) \in Int
    BY <2>1, <2>2, SumType
  <2>5. f[x] \in Int /\ g[x] \in Int /\ f[x] <= g[x]
    BY <1>2
  <2>6. SumOver(f, T \cup {x}) <= SumOver(g, T \cup {x})
    BY <2>1, <2>3, <2>4, <2>5
  <2> QED BY <1>2, <2>3, <2>6
<1> HIDE DEF Good
<1>3. S \in Good
  BY <1>1, <1>2, SubsetInduction
<1> QED BY <1>3 DEF Good

\* Twice of everything is twice as much.
LEMMA SumTwice ==
  ASSUME NEW S, IsFiniteSet(S), NEW f, NEW g, \A x \in S : f[x] \in Int /\ g[x] = 2 * f[x]
  PROVE  SumOver(g, S) = 2 * SumOver(f, S)
<1> DEFINE Good == {T \in SUBSET S : IsFiniteSet(T) /\ SumOver(g, T) = 2 * SumOver(f, T)}
<1>1. {} \in Good
  <2>1. SumOver(f, {}) = 0 /\ SumOver(g, {}) = 0
    BY SumEmpty
  <2> QED BY <2>1, FS_EmptySet
<1>2. ASSUME NEW T \in SUBSET S, NEW x \in S, T \in Good, x \notin T
      PROVE  T \cup {x} \in Good
  <2>1. IsFiniteSet(T) /\ SumOver(g, T) = 2 * SumOver(f, T)
    BY <1>2
  <2>2. \A y \in T \cup {x} : f[y] \in Int /\ g[y] \in Int
    BY <1>2
  <2>3. /\ IsFiniteSet(T \cup {x})
        /\ SumOver(f, T \cup {x}) = SumOver(f, T) + f[x]
        /\ SumOver(g, T \cup {x}) = SumOver(g, T) + g[x]
    BY <1>2, <2>1, <2>2, SumAdd
  <2>4. SumOver(f, T) \in Int /\ SumOver(g, T) \in Int
    BY <2>1, <2>2, SumType
  <2>5. f[x] \in Int /\ g[x] = 2 * f[x]
    BY <1>2
  <2>6. SumOver(g, T \cup {x}) = 2 * SumOver(f, T \cup {x})
    BY <2>1, <2>3, <2>4, <2>5
  <2> QED BY <1>2, <2>3, <2>6
<1> HIDE DEF Good
<1>3. S \in Good
  BY <1>1, <1>2, SubsetInduction
<1> QED BY <1>3 DEF Good

\* What the elements up to a number add up to, number by number.
Adds(f, N) ==
  /\ SumOver(f, 1..0) = 0
  /\ \A n \in 0..N : SumOver(f, 1..n) \in Nat /\ SumOver(f, 1..n) <= SumOver(f, 1..N)
  /\ \A n \in 1..N : f[n] \in Nat /\ SumOver(f, 1..n) = SumOver(f, 1..(n - 1)) + f[n]

\* It is every element added to those before it.
LEMMA PrefixSum ==
  ASSUME NEW N \in Nat, NEW f, \A n \in 1..N : f[n] \in Nat
  PROVE  Adds(f, N)
<1>1. SumOver(f, 1..0) = 0
  <2>1. 1..0 = {}
    OBVIOUS
  <2> QED BY <2>1, SumEmpty
<1>2. ASSUME NEW n \in 0..N
      PROVE  SumOver(f, 1..n) \in Nat /\ SumOver(f, 1..n) <= SumOver(f, 1..N)
  <2>1. PICK S, T : S = 1..n /\ T = 1..N
    OBVIOUS
  <2>2. IsFiniteSet(T) /\ S \in SUBSET T
    BY <2>1, FS_Interval
  <2> QED BY <2>1, <2>2, SumWithin
<1>3. ASSUME NEW n \in 1..N PROVE SumOver(f, 1..n) = SumOver(f, 1..(n - 1)) + f[n]
  <2>1. PICK S : S = 1..(n - 1)
    OBVIOUS
  <2>2. n \in Int /\ IsFiniteSet(S)
    BY <2>1, FS_Interval
  <2>3. \A k : k \in S \cup {n} <=> k \in 1..n
    BY <2>1, <2>2
  <2>4. S \cup {n} = 1..n /\ n \notin S
    BY <2>1, <2>2, <2>3
  <2>5. \A y \in S \cup {n} : f[y] \in Int
    BY <2>4
  <2> QED BY <2>1, <2>2, <2>4, <2>5, SumAdd
<1> QED BY <1>1, <1>2, <1>3 DEF Adds
=============================================================================
