---------------------------- MODULE SumTheorems ----------------------------
(* Sums over a finite set, for the proofs about counters.                   *)
(*                                                                          *)
(* A sum is written as a recursive function on the subsets of the set, one  *)
(* element at a time.  It is the number of units, one pair <<x, i>> for     *)
(* each unit of x: counting units satisfies the recursion, and there is no  *)
(* smallest subset on which another solution of it differs.                 *)
EXTENDS Naturals, FiniteSets, FiniteSetTheorems, TLAPS

Units(D, count) == {p \in D \X Nat : p[2] \in 1..count[p[1]]}
AnyOf(S) == CHOOSE x \in S : TRUE
SumStep(D, count, g) == [S \in SUBSET D |-> IF S = {} THEN 0 ELSE count[AnyOf(S)] + g[S \ {AnyOf(S)}]]
SumOf(D, count) == (CHOOSE g : g = SumStep(D, count, g))[D]

LEMMA UnitsOfNone == ASSUME NEW count PROVE Units({}, count) = {}
BY DEF Units

\* One element more adds its own units.
LEMMA UnitsOfOneMore ==
    ASSUME NEW D, NEW count \in [D -> Nat], NEW S \in SUBSET D, NEW x \in S, IsFiniteSet(Units(S \ {x}, count))
    PROVE  /\ IsFiniteSet(Units(S, count))
           /\ Cardinality(Units(S, count)) = count[x] + Cardinality(Units(S \ {x}, count))
<1> DEFINE A == Units(S \ {x}, count)
           B == {x} \X (1..count[x])
           n == count[x]
<1>1. Units(S, count) = A \cup B /\ A \cap B = {}
  BY DEF Units
<1>2. IsFiniteSet(B) /\ Cardinality(B) = n
  <2>1. n \in Nat
    OBVIOUS
  <2>2. IsFiniteSet(1..n) /\ Cardinality(1..n) = n
    BY <2>1, FS_Interval
  <2>3. IsFiniteSet({x}) /\ Cardinality({x}) = 1
    BY FS_Singleton
  <2> HIDE DEF n
  <2>4. IsFiniteSet({x} \X (1..n)) /\ Cardinality({x} \X (1..n)) = 1 * n
    BY <2>2, <2>3, FS_Product
  <2>5. 1 * n = n
    BY <2>1
  <2> QED BY <2>4, <2>5 DEF n
<1>3. n \in Nat /\ Cardinality(A) \in Nat
  BY FS_CardinalityType
<1>4. IsFiniteSet(A \cup B) /\ Cardinality(A \cup B) = Cardinality(A) + Cardinality(B) - Cardinality(A \cap B)
  <2> HIDE DEF A, B
  <2> QED BY <1>2, FS_Union DEF A
<1> HIDE DEF A, B, n
<1>5. Cardinality(A \cup B) = n + Cardinality(A)
  <2>1. Cardinality(A \cap B) = 0
    BY <1>1, FS_EmptySet
  <2>2. Cardinality(A \cup B) = Cardinality(A) + n - 0
    BY <1>2, <1>4, <2>1
  <2> QED BY <1>3, <2>2
<1> QED BY <1>1, <1>4, <1>5 DEF A, n

\* Induction on subsets: what a smallest counterexample cannot violate.
LEMMA SmallestSubset ==
    ASSUME NEW D, IsFiniteSet(D), NEW Bad \in SUBSET (SUBSET D), Bad # {}
    PROVE  \E S \in Bad : \A x \in S : S \ {x} \notin Bad
<1> DEFINE R == StrictSubsetOrdering(D)
<1>1. FiniteSubsetsOf(D) = SUBSET D
  BY FS_FiniteSubsetsOfFinite
<1>2. IsWellFoundedOn(R, SUBSET D)
  BY <1>1, FS_StrictSubsetOrderingWellFounded
<1>3. PICK S \in Bad : \A T \in Bad : ~(<<T, S>> \in R)
  <2> HIDE DEF R
  <2> QED BY <1>2, WFMin
<1>4. ASSUME NEW x \in S PROVE <<S \ {x}, S>> \in R
  BY <1>3, <1>4 DEF StrictSubsetOrdering
<1> QED BY <1>3, <1>4

LEMMA UnitsFinite ==
    ASSUME NEW D, IsFiniteSet(D), NEW count \in [D -> Nat], NEW S \in SUBSET D
    PROVE  IsFiniteSet(Units(S, count))
<1> DEFINE Bad == {T \in SUBSET D : ~IsFiniteSet(Units(T, count))}
<1> SUFFICES ASSUME Bad # {} PROVE FALSE
  OBVIOUS
<1>1. PICK T \in Bad : \A x \in T : T \ {x} \notin Bad
  <2>1. Bad \in SUBSET (SUBSET D)
    OBVIOUS
  <2> HIDE DEF Bad
  <2> QED BY <2>1, SmallestSubset
<1>2. T # {}
  BY UnitsOfNone, FS_EmptySet
<1>3. PICK x \in T : TRUE
  BY <1>2
<1>4. IsFiniteSet(Units(T \ {x}, count))
  BY <1>1, <1>3
<1> QED BY <1>3, <1>4, UnitsOfOneMore

\* Counting units satisfies the recursion, and nothing else does.
Counted(D, count) == [S \in SUBSET D |-> Cardinality(Units(S, count))]

LEMMA CountingSums ==
    ASSUME NEW D, IsFiniteSet(D), NEW count \in [D -> Nat]
    PROVE  Counted(D, count) = SumStep(D, count, Counted(D, count))
<1>1. Cardinality(Units({}, count)) = 0
  BY UnitsOfNone, FS_EmptySet
<1>2. \A S \in SUBSET D : S # {} =>
         Cardinality(Units(S, count)) = count[AnyOf(S)] + Cardinality(Units(S \ {AnyOf(S)}, count))
  <2> SUFFICES ASSUME NEW S \in SUBSET D, S # {}
               PROVE  Cardinality(Units(S, count)) = count[AnyOf(S)] + Cardinality(Units(S \ {AnyOf(S)}, count))
    OBVIOUS
  <2>1. AnyOf(S) \in S
    BY DEF AnyOf
  <2>2. IsFiniteSet(Units(S \ {AnyOf(S)}, count))
    BY UnitsFinite
  <2> QED BY <2>1, <2>2, UnitsOfOneMore
<1> QED BY <1>1, <1>2 DEF SumStep, Counted

LEMMA SumsAreCounts ==
    ASSUME NEW D, IsFiniteSet(D), NEW count \in [D -> Nat], NEW sum, sum = SumStep(D, count, sum)
    PROVE  sum[D] = Cardinality(Units(D, count))
<1> DEFINE card == Counted(D, count)
           Bad == {S \in SUBSET D : sum[S] # card[S]}
<1>1. card = SumStep(D, count, card)
  BY CountingSums
<1>2. Bad = {}
  <2> SUFFICES ASSUME Bad # {} PROVE FALSE
    OBVIOUS
  <2>1. PICK S \in Bad : \A x \in S : S \ {x} \notin Bad
    <3>1. Bad \in SUBSET (SUBSET D)
      OBVIOUS
    <3> HIDE DEF Bad
    <3> QED BY <3>1, SmallestSubset
  <2> HIDE DEF card
  <2>2. S # {}
    <3>1. sum[{}] = 0 /\ card[{}] = 0
      BY <1>1 DEF SumStep
    <3> QED BY <2>1, <3>1
  <2> DEFINE T == S \ {AnyOf(S)}
  <2>3. AnyOf(S) \in S
    BY <2>2 DEF AnyOf
  <2>4. T \in SUBSET D /\ sum[T] = card[T]
    BY <2>1, <2>3
  <2>5. sum[S] = count[AnyOf(S)] + sum[T] /\ card[S] = count[AnyOf(S)] + card[T]
    BY <1>1, <2>1, <2>2 DEF SumStep
  <2> QED BY <2>1, <2>4, <2>5
<1> QED BY <1>2 DEF Counted

\* The sum is the number of units.
LEMMA SumIsCount ==
    ASSUME NEW D, IsFiniteSet(D), NEW count \in [D -> Nat]
    PROVE  /\ IsFiniteSet(Units(D, count))
           /\ SumOf(D, count) = Cardinality(Units(D, count)) /\ SumOf(D, count) \in Nat
<1> DEFINE sum == CHOOSE g : g = SumStep(D, count, g)
<1>1. sum = SumStep(D, count, sum)
  BY CountingSums
<1>2. sum[D] = Cardinality(Units(D, count))
  <2> HIDE DEF sum
  <2> QED BY <1>1, SumsAreCounts
<1>3. SumOf(D, count) = Cardinality(Units(D, count))
  BY <1>2 DEF SumOf
<1>4. IsFiniteSet(Units(D, count))
  BY UnitsFinite
<1> QED BY <1>3, <1>4, FS_CardinalityType

\* The sum after one element gains or loses a unit, and the sum of nothing.
LEMMA SumOfZero ==
    ASSUME NEW D, IsFiniteSet(D)
    PROVE  SumOf(D, [x \in D |-> 0]) = 0
<1> DEFINE zero == [x \in D |-> 0]
<1>1. zero \in [D -> Nat] /\ Units(D, zero) = {}
  BY DEF Units
<1> HIDE DEF zero
<1>2. SumOf(D, zero) = 0
  BY <1>1, SumIsCount, FS_EmptySet
<1> QED BY <1>2 DEF zero

LEMMA SumPlus ==
    ASSUME NEW D, IsFiniteSet(D), NEW count \in [D -> Nat], NEW d \in D
    PROVE  /\ [count EXCEPT ![d] = @ + 1] \in [D -> Nat]
           /\ SumOf(D, [count EXCEPT ![d] = @ + 1]) = SumOf(D, count) + 1
<1> DEFINE more == [count EXCEPT ![d] = @ + 1]
           p == <<d, count[d] + 1>>
<1>1. more \in [D -> Nat]
  OBVIOUS
<1>2. Units(D, more) = Units(D, count) \cup {p} /\ p \notin Units(D, count)
  BY DEF Units
<1> HIDE DEF more, p
<1>3. IsFiniteSet(Units(D, count)) /\ SumOf(D, count) = Cardinality(Units(D, count))
  BY SumIsCount
<1>4. SumOf(D, more) = Cardinality(Units(D, more))
  BY <1>1, SumIsCount
<1>5. Cardinality(Units(D, count) \cup {p}) = Cardinality(Units(D, count)) + 1
  BY <1>2, <1>3, FS_AddElement
<1> QED BY <1>1, <1>2, <1>3, <1>4, <1>5 DEF more

LEMMA SumMinus ==
    ASSUME NEW D, IsFiniteSet(D), NEW count \in [D -> Nat], NEW d \in D, count[d] > 0
    PROVE  /\ [count EXCEPT ![d] = @ - 1] \in [D -> Nat]
           /\ SumOf(D, [count EXCEPT ![d] = @ - 1]) = SumOf(D, count) - 1
           /\ SumOf(D, count) > 0
<1> DEFINE less == [count EXCEPT ![d] = @ - 1]
<1>1. less \in [D -> Nat] /\ less[d] = count[d] - 1
  OBVIOUS
<1>2. [less EXCEPT ![d] = @ + 1] = count
  <2>1. less[d] + 1 = count[d]
    BY <1>1
  <2>2. \A x \in D : x # d => less[x] = count[x]
    OBVIOUS
  <2> HIDE DEF less
  <2> QED BY <1>1, <2>1, <2>2
<1> HIDE DEF less
<1>3. SumOf(D, less) \in Nat /\ SumOf(D, [less EXCEPT ![d] = @ + 1]) = SumOf(D, less) + 1
  BY <1>1, SumIsCount, SumPlus
<1> QED BY <1>1, <1>2, <1>3 DEF less
=============================================================================
