----------------------------- MODULE FiniteOrders ---------------------------
(***************************************************************************)
(* Finite sets that are laid out as sequences, numbers that are given by   *)
(* rank, and the largest number of a set.                                  *)
(***************************************************************************)
EXTENDS SequencesExt, FiniteSetsExt, FiniteSetTheorems, TLAPS

\* A set laid out as a sequence has each element once.
LEMMA LaidOutOnce ==
  ASSUME NEW S, IsFiniteSet(S)
  PROVE  /\ SetToSeq(S) \in [1..Cardinality(S) -> S]
         /\ Cardinality(S) \in Nat
         /\ \A i, j \in 1..Cardinality(S) : SetToSeq(S)[i] = SetToSeq(S)[j] => i = j
         /\ \A e \in S : \E i \in 1..Cardinality(S) : SetToSeq(S)[i] = e
<1> DEFINE n == Cardinality(S)
           order == SetToSeq(S)
<1>1. n \in Nat /\ ExistsBijection(1..n, S)
  BY FS_CardinalityType
<1>2. \E f \in [1..n -> S] : IsInjective(f)
  BY <1>1 DEF ExistsBijection, Bijection, Injection
<1>3. order \in [1..n -> S] /\ IsInjective(order)
  BY <1>2 DEF SetToSeq
<1>4. order \in Injection(1..n, S)
  BY <1>3 DEF Injection
<1>5. IsFiniteSet(1..n) /\ Cardinality(1..n) = n
  <2>1. IsFiniteSet(1..n) /\ Cardinality(1..n) = IF 1 > n THEN 0 ELSE n - 1 + 1
    BY <1>1, FS_Interval
  <2> QED
    BY <1>1, <2>1
<1>6. order \in Surjection(1..n, S)
  BY <1>4, <1>5, FS_Injection
<1> QED
  BY <1>1, <1>3, <1>6 DEF Surjection, IsInjective

\* Numbers given by rank are in range, and no two agents get the same.
LEMMA RankBounds ==
  ASSUME NEW S \in SUBSET Nat, IsFiniteSet(S), NEW e \in S
  PROVE  Cardinality({g \in S : g <= e}) \in 1..Cardinality(S)
<1> DEFINE below == {g \in S : g <= e}
<1>1. below \subseteq S /\ e \in below
  OBVIOUS
<1> HIDE DEF below
<1>2. IsFiniteSet(below) /\ Cardinality(below) <= Cardinality(S)
  BY <1>1, FS_Subset
<1>3. Cardinality(below) \in Nat /\ Cardinality(S) \in Nat
  BY <1>2, FS_CardinalityType
<1>4. Cardinality(below) # 0
  BY <1>1, <1>2, FS_EmptySet
<1> QED
  BY <1>2, <1>3, <1>4 DEF below

LEMMA RankIncreases ==
  ASSUME NEW S \in SUBSET Nat, IsFiniteSet(S), NEW e \in S, NEW f \in S, e < f
  PROVE  Cardinality({g \in S : g <= e}) # Cardinality({g \in S : g <= f})
<1> DEFINE low == {g \in S : g <= e}
           high == {g \in S : g <= f}
<1>1. e \in Nat /\ f \in Nat /\ \A g \in S : g \in Nat
  OBVIOUS
<1>2. ASSUME NEW g \in S, g <= e PROVE g <= f
  BY <1>1, <1>2
<1>3. low \subseteq high
  BY <1>2
<1>4. f \in high /\ f \notin low /\ high \subseteq S
  BY <1>1
<1> HIDE DEF low, high
<1>5. IsFiniteSet(high)
  BY <1>4, FS_Subset
<1>6. low \in SUBSET high
  BY <1>3
<1>7. Cardinality(high) = Cardinality(low) => high = low
  BY <1>5, <1>6, FS_Subset
<1>8. Cardinality(low) # Cardinality(high)
  BY <1>4, <1>7
<1> QED
  BY <1>8 DEF low, high

LEMMA RankInjective ==
  ASSUME NEW S \in SUBSET Nat, IsFiniteSet(S), NEW e \in S, NEW f \in S,
         Cardinality({g \in S : g <= e}) = Cardinality({g \in S : g <= f})
  PROVE  e = f
<1>1. e < f \/ f < e \/ e = f
  OBVIOUS
<1> QED
  BY <1>1, RankIncreases

\* A bounded set of numbers has a largest one.
LEMMA LargestOfBounded ==
  ASSUME NEW n \in Nat, NEW S \in SUBSET (0..n), S # {}
  PROVE  Max(S) \in S /\ \A x \in S : x <= Max(S)
<1> DEFINE less == {pair \in Nat \X Nat : pair[1] < pair[2]}
           gaps == {g \in 0..n : n - g \in S}
<1>1. IsWellFoundedOn(less, Nat)
  <2>1. less = OpToRel(<, Nat)
    BY DEF OpToRel
  <2> QED
    BY <2>1, NatLessThanWellFounded
<1>2. gaps \subseteq Nat /\ gaps # {}
  <2>1. PICK x \in S : TRUE
    OBVIOUS
  <2>2. x \in 0..n
    OBVIOUS
  <2>3. n - x \in 0..n /\ n - (n - x) = x
    BY <2>2
  <2>4. n - x \in gaps
    BY <2>3
  <2>5. \A h \in gaps : h \in Nat
    OBVIOUS
  <2> QED
    BY <2>4, <2>5
<1>3. PICK g \in gaps : \A h \in gaps : ~ (<<h, g>> \in less)
  <2> HIDE DEF less, gaps
  <2> QED
    BY <1>1, <1>2, WFMin
<1>4. ASSUME NEW h \in gaps PROVE g <= h
  <2>1. g \in Nat /\ h \in Nat
    BY <1>2
  <2>2. CASE h < g
    <3>1. <<h, g>> \in less
      BY <2>1, <2>2
    <3> QED
      BY <1>3, <3>1
  <2> QED
    BY <2>1, <2>2
<1>5. ASSUME NEW x \in S PROVE x <= n - g
  <2>1. x \in 0..n
    OBVIOUS
  <2>2. n - x \in 0..n /\ n - (n - x) = x
    BY <2>1
  <2>3. n - x \in gaps
    BY <2>2
  <2>4. g <= n - x
    BY <1>4, <2>3
  <2> QED
    BY <1>2, <2>1, <2>4
<1>6. n - g \in S /\ S \subseteq Int
  BY <1>3
<1>7. \E m \in S : \A x \in S : m >= x
  BY <1>5, <1>6
<1>8. Max(S) \in S /\ \A x \in S : Max(S) >= x
  BY <1>7 DEF Max
<1> QED
  BY <1>6, <1>8
=============================================================================
