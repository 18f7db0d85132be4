---------------------------- MODULE NumberFacts -----------------------------
(***************************************************************************)
(* Facts about numbers that the proofs of several parts rest on: the least *)
(* and the greatest of a set, and the powers of two.                       *)
(***************************************************************************)
EXTENDS Naturals, FiniteSets, FiniteSetsExt, FiniteSetTheorems, WellFoundedInduction, TLAPS

\* The natural numbers are well-founded.
LEMMA MinOf ==
    ASSUME NEW S, S \subseteq Nat, S # {}
    PROVE  Min(S) \in S /\ \A y \in S : Min(S) <= y
<1> DEFINE R == OpToRel(<, Nat)
<1>1. IsWellFoundedOn(R, Nat)
      BY NatLessThanWellFounded
<1>2. PICK x \in S : \A y \in S : ~ (<<y, x>> \in R)
  <2> HIDE DEF R
  <2> QED
      BY <1>1, WFMin
<1>3. \A y \in S : ~(y < x)
      BY <1>2 DEF OpToRel
<1> HIDE DEF R
<1>4. \A y \in S : x <= y
      BY <1>3
<1> QED
      BY <1>4 DEF Min

\* Of a bounded set, the greatest leaves the least up to the bound.
LEMMA MaxOf ==
    ASSUME NEW n \in Nat, NEW S, S \subseteq 0..n, S # {}
    PROVE  Max(S) \in S /\ \A y \in S : Max(S) >= y
<1> DEFINE T == {n - y : y \in S}
<1>1. \A y \in S : n - y \in Nat /\ n - y \in T
      BY SMT
<1>2. T \subseteq Nat /\ T # {}
      BY <1>1
<1>3. Min(T) \in T /\ \A t \in T : Min(T) <= t
  <2> HIDE DEF T
  <2> QED
      BY <1>2, MinOf
<1>4. PICK x \in S : Min(T) = n - x
      BY <1>3
<1>5. \A y \in S : n - x <= n - y
      BY <1>1, <1>3, <1>4
<1>6. \A y \in S : x >= y
      BY <1>5
<1> QED
      BY <1>6 DEF Max

\* The lesser of two numbers.
LEMMA MinIsLess == ASSUME NEW a \in Nat, NEW b \in Nat
                   PROVE  Min({a, b}) = IF a <= b THEN a ELSE b
<1>1. \E x \in {a, b} : \A y \in {a, b} : x <= y
      BY SMT
<1>2. Min({a, b}) \in {a, b} /\ \A y \in {a, b} : Min({a, b}) <= y
      BY <1>1 DEF Min
<1> QED
      BY <1>2

-----------------------------------------------------------------------------
(* Powers of two.                                                          *)

\* One more element, twice as many subsets: those without it and those with it.
LEMMA SubsetsDouble ==
    ASSUME NEW S, IsFiniteSet(S), NEW x, x \notin S
    PROVE  Cardinality(SUBSET (S \cup {x})) = 2 * Cardinality(SUBSET S)
<1> DEFINE Without == SUBSET S
           With == (SUBSET (S \cup {x})) \ (SUBSET S)
           f == [X \in Without |-> X \cup {x}]
<1>1. IsFiniteSet(Without) /\ Cardinality(Without) \in Nat
      BY FS_SUBSET, FS_CardinalityType
<1>2. f \in Bijection(Without, With)
  <2>1. f \in [Without -> With]
        OBVIOUS
  <2>2. ASSUME NEW X \in Without, NEW Y \in Without, f[X] = f[Y] PROVE X = Y
        BY <2>2
  <2>3. f \in Injection(Without, With)
        BY <2>1, <2>2 DEF Injection, IsInjective
  <2>4. ASSUME NEW Y \in With PROVE \E X \in Without : f[X] = Y
    <3>1. Y \ {x} \in Without /\ (Y \ {x}) \cup {x} = Y
          OBVIOUS
    <3> QED
          BY <3>1
  <2>5. f \in Surjection(Without, With)
        BY <2>1, <2>4 DEF Surjection
  <2> QED
        BY <2>3, <2>5 DEF Bijection
<1>3. IsFiniteSet(With) /\ Cardinality(With) = Cardinality(Without)
  <2>1. ExistsBijection(Without, With)
        BY <1>2 DEF ExistsBijection
  <2> QED
        BY <1>1, <2>1, FS_Bijection
<1>4. SUBSET (S \cup {x}) = Without \cup With /\ Without \cap With = {}
      OBVIOUS
<1> HIDE DEF Without, With
<1>5. Cardinality(Without \cup With)
        = Cardinality(Without) + Cardinality(With) - Cardinality(Without \cap With)
      BY <1>1, <1>3, FS_Union
<1>6. Cardinality(Without \cap With) = 0
      BY <1>4, FS_EmptySet
<1>7. Cardinality(Without \cup With) = 2 * Cardinality(Without)
      BY <1>1, <1>3, <1>5, <1>6
<1> QED
      BY <1>4, <1>7 DEF Without

\* The powers of two: the provers know nothing of ^, and the library counts the
\* subsets of a set with it.
LEMMA PowersDouble ==
    ASSUME NEW n \in Nat
    PROVE  2 ^ n \in Nat /\ 2 ^ (n + 1) = 2 * 2 ^ n
<1>1. IsFiniteSet(1..n) /\ Cardinality(1..n) = n
      BY FS_Interval
<1>2. IsFiniteSet(1..n + 1) /\ Cardinality(1..n + 1) = n + 1
      BY FS_Interval
<1>3. 1..n + 1 = (1..n) \cup {n + 1} /\ n + 1 \notin 1..n
      OBVIOUS
<1>4. Cardinality(SUBSET (1..n)) = 2 ^ n /\ 2 ^ n \in Nat
      BY <1>1, FS_SUBSET, FS_CardinalityType
<1>5. Cardinality(SUBSET (1..n + 1)) = 2 ^ (n + 1)
      BY <1>2, FS_SUBSET
<1>6. Cardinality(SUBSET (1..n + 1)) = 2 * Cardinality(SUBSET (1..n))
      BY <1>1, <1>3, SubsetsDouble
<1> QED
      BY <1>4, <1>5, <1>6

\* The first power, and that none is 0: the empty set is a subset of any.
LEMMA PowersBegin == 2 ^ 0 = 1 /\ \A n \in Nat : 2 ^ n # 0
<1>1. 2 ^ 0 = 1
  <2>1. SUBSET {} = {{}}
        OBVIOUS
  <2> QED
        BY <2>1, FS_EmptySet, FS_SUBSET, FS_Singleton
<1>2. ASSUME NEW n \in Nat PROVE 2 ^ n # 0
  <2>1. IsFiniteSet(1..n) /\ Cardinality(1..n) = n
        BY FS_Interval
  <2>2. IsFiniteSet(SUBSET (1..n)) /\ Cardinality(SUBSET (1..n)) = 2 ^ n
        BY <2>1, FS_SUBSET
  <2>3. SUBSET (1..n) # {}
        OBVIOUS
  <2> QED
        BY <2>2, <2>3, FS_EmptySet
<1> QED
      BY <1>1, <1>2
=============================================================================
