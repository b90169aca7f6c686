------------------------------ MODULE FoldLemmas ------------------------------
(***************************************************************************)
(* Least and greatest numbers, and induction without an operator for a     *)
(* parameter: over the set of the numbers for which a claim holds.  With   *)
(* it, that the folds of the community modules compute something at all:   *)
(* they are recursive functions, and such a function has to be shown to    *)
(* exist before anything can be said of its values.                        *)
(***************************************************************************)
EXTENDS Integers, Sequences, SequencesExt, WellFoundedInduction, TLAPS

\* A set of naturals has a least element.
LEMMA LeastNatural ==
    ASSUME NEW S, S \subseteq Nat, S # {}
    PROVE  \E n \in S : \A m \in S : n <= m
  <1>1. PICK n \in S : \A m \in S : ~ (<<m, n>> \in OpToRel(<, Nat))
    BY WFMin, NatLessThanWellFounded
  <1>2. ASSUME NEW m \in S, m < n PROVE <<m, n>> \in OpToRel(<, Nat)
    BY <1>2 DEF OpToRel
  <1>3. \A m \in S : ~ (m < n)
    BY <1>1, <1>2
  <1> QED
    BY <1>3

\* Min finds it.
LEMMA MinIsLeast ==
    ASSUME NEW S, S \subseteq Nat, S # {}
    PROVE  Min(S) \in S /\ \A m \in S : Min(S) <= m
  BY LeastNatural DEF Min

\* Max finds the greatest one, where there is a bound.
LEMMA MaxIsGreatest ==
    ASSUME NEW n \in Nat, NEW S, S \subseteq 1..n, S # {}
    PROVE  Max(S) \in S /\ \A m \in S : m <= Max(S)
  <1> DEFINE Below == {n - m : m \in S}
  <1>1. Below \subseteq Nat /\ Below # {}
    <2>1. \A m \in S : n - m \in Nat
      <3> SUFFICES ASSUME NEW m \in S PROVE n - m \in Nat
        OBVIOUS
      <3>1. m \in 1..n
        OBVIOUS
      <3> QED BY <3>1
    <2>2. Below \subseteq Nat
      BY <2>1
    <2>3. PICK m \in S : TRUE
      OBVIOUS
    <2>4. n - m \in Below
      OBVIOUS
    <2> QED BY <2>2, <2>4
  <1>2. PICK k \in Below : \A l \in Below : k <= l
    <2> HIDE DEF Below
    <2> QED BY <1>1, LeastNatural
  <1>3. PICK m \in S : k = n - m
    OBVIOUS
  <1>4. \A l \in S : l <= m
    <2> SUFFICES ASSUME NEW l \in S PROVE l <= m
      OBVIOUS
    <2>1. n - m <= n - l
      BY <1>2, <1>3
    <2>2. m \in Nat /\ l \in Nat
      OBVIOUS
    <2> HIDE DEF Below
    <2> QED BY <2>1, <2>2
  <1>5. m \in {x \in S : \A y \in S : x >= y}
    BY <1>4
  <1> QED
    BY <1>5 DEF Max

\* The first position that passes a test, 0 if there is none.
LEMMA FirstPosition ==
    ASSUME NEW n \in Nat, NEW I, I \subseteq 1..n, NEW first,
           first = IF I # {} THEN Min(I) ELSE 0
    PROVE  /\ first # 0 => first \in I
           /\ first = 0 => I = {}
  <1>1. I \subseteq Nat /\ 0 \notin I
    OBVIOUS
  <1>2. I # {} => Min(I) \in I
    BY <1>1, MinIsLeast
  <1> QED
    BY <1>1, <1>2

-----------------------------------------------------------------------------

\* What holds of 0, and of k where it holds of k - 1, holds of all numbers up to n:
\* Claimed is the set of those for which it holds.
LEMMA UpTo ==
    ASSUME NEW n \in Nat, NEW Claimed, 0 \in Claimed,
           \A k \in 1..n : k - 1 \in Claimed => k \in Claimed
    PROVE  \A k \in 0..n : k \in Claimed
  <1> DEFINE Failed == {k \in 0..n : k \notin Claimed}
  <1> SUFFICES ASSUME Failed # {} PROVE FALSE
    OBVIOUS
  <1>1. PICK k \in Failed : \A m \in Failed : k <= m
    <2>1. Failed \subseteq Nat
      OBVIOUS
    <2> HIDE DEF Failed
    <2> QED BY <2>1, LeastNatural
  <1>2. k \in 0..n /\ k \notin Claimed
    OBVIOUS
  <1>3. k \in 1..n /\ k - 1 \in 0..n /\ ~ (k <= k - 1)
    BY <1>2
  <1>4. k - 1 \in Claimed
    BY <1>1, <1>3
  <1> QED
    BY <1>2, <1>3, <1>4

\* The last of the first n numbers, and the others.
LEMMA LastOfFirst ==
    ASSUME NEW n \in Nat \ {0}
    PROVE  1..n # {} /\ Max(1..n) = n /\ (1..n) \ {n} = 1..(n - 1)
  <1>1. n \in 1..n
    OBVIOUS
  <1>2. Max(1..n) \in 1..n /\ \A m \in 1..n : m <= Max(1..n)
    BY <1>1, MaxIsGreatest
  <1>3. Max(1..n) = n
    BY <1>1, <1>2
  <1> QED
    BY <1>1, <1>3

-----------------------------------------------------------------------------

\* The function by which FoldLeft computes: what step makes of a base and n elements.
Folds(iter, base, step, n) ==
    iter = [s \in SUBSET (1..n) |->
               IF s = {} THEN base ELSE step[iter[s \ {Max(s)}], Max(s)]]

\* It exists, and its values are what the step's are.
LEMMA FoldExists ==
    ASSUME NEW B, NEW base \in B, NEW n \in Nat, NEW step \in [B \X (1..n) -> B]
    PROVE  \E iter \in [SUBSET (1..n) -> B] : Folds(iter, base, step, n)
  <1> DEFINE Folded(k) == \E iter \in [SUBSET (1..k) -> B] : Folds(iter, base, step, k)
             Claimed == {k \in 0..n : Folded(k)}
  <1>1. 0 \in Claimed
    <2> DEFINE iter == [s \in SUBSET (1..0) |-> base]
    <2>1. \A s \in SUBSET (1..0) : s = {}
      OBVIOUS
    <2>2. iter \in [SUBSET (1..0) -> B] /\ Folds(iter, base, step, 0)
      BY <2>1 DEF Folds
    <2> HIDE DEF iter
    <2>3. Folded(0)
      BY <2>2
    <2> HIDE DEF Folded
    <2> QED BY <2>3
  <1>2. ASSUME NEW k \in 1..n, k - 1 \in Claimed PROVE k \in Claimed
    <2>1. PICK iter \in [SUBSET (1..(k - 1)) -> B] : Folds(iter, base, step, k - 1)
      BY <1>2
    <2> HIDE DEF Claimed
    <2> DEFINE longer == [s \in SUBSET (1..k) |->
                   IF s = {} THEN base ELSE
                   IF k \in s THEN step[iter[s \ {k}], k] ELSE iter[s]]
    <2>2. ASSUME NEW s, s \subseteq 1..k
          PROVE  s \ {k} \in SUBSET (1..(k - 1)) /\ (k \notin s => s \in SUBSET (1..(k - 1)))
      <3>1. \A m \in 1..k : m # k => m \in 1..(k - 1)
        OBVIOUS
      <3> QED BY <2>2, <3>1
    <2>3. iter[{}] = base
      <3>1. {} \in SUBSET (1..(k - 1))
        OBVIOUS
      <3> QED BY <2>1, <3>1 DEF Folds
    <2>4. longer \in [SUBSET (1..k) -> B]
      <3>1. ASSUME NEW s \in SUBSET (1..k) PROVE longer[s] \in B
        <4>1. k \in s => iter[s \ {k}] \in B /\ step[iter[s \ {k}], k] \in B
          BY <2>2
        <4>2. k \notin s => iter[s] \in B
          BY <2>2
        <4> QED BY <4>1, <4>2
      <3> QED BY <3>1
    <2>5. ASSUME NEW s \in SUBSET (1..k), s # {}
          PROVE  longer[s] = step[longer[s \ {Max(s)}], Max(s)]
      <3>1. Max(s) \in s /\ Max(s) \in 1..k /\ \A m \in s : m <= Max(s)
        <4>1. k \in Nat /\ s \subseteq 1..k
          OBVIOUS
        <4> HIDE DEF longer
        <4> QED BY <2>5, <4>1, MaxIsGreatest
      <3>2. ASSUME NEW t \in SUBSET (1..(k - 1)) PROVE longer[t] = iter[t]
        <4>1. t \in SUBSET (1..k) /\ k \notin t
          OBVIOUS
        <4> QED BY <2>3, <4>1
      <3>3. CASE k \in s
        <4>1. Max(s) = k
          <5> HIDE DEF longer
          <5> QED BY <3>1, <3>3
        <4> QED BY <2>2, <2>5, <3>2, <3>3, <4>1
      <3>4. CASE k \notin s
        <4>1. s \in SUBSET (1..(k - 1)) /\ s \ {Max(s)} \in SUBSET (1..(k - 1))
          BY <2>2, <3>4
        <4> HIDE DEF longer
        <4>2. iter[s] = step[iter[s \ {Max(s)}], Max(s)]
          BY <2>1, <2>5, <4>1 DEF Folds
        <4> QED BY <3>2, <4>1, <4>2
      <3> QED BY <3>3, <3>4
    <2>6. longer = [s \in SUBSET (1..k) |->
                        IF s = {} THEN base ELSE step[longer[s \ {Max(s)}], Max(s)]]
      <3>1. longer[{}] = base
        OBVIOUS
      <3> HIDE DEF longer
      <3>2. \A s \in SUBSET (1..k) : longer[s] =
                IF s = {} THEN base ELSE step[longer[s \ {Max(s)}], Max(s)]
        BY <2>5, <3>1
      <3> QED BY <2>4, <3>2
    <2> HIDE DEF longer
    <2>7. Folds(longer, base, step, k)
      BY <2>6 DEF Folds
    <2> QED BY <2>4, <2>7 DEF Claimed
  <1>3. n \in Claimed
    <2> HIDE DEF Claimed
    <2>1. \A k \in 0..n : k \in Claimed
      BY <1>1, <1>2, UpTo
    <2> QED BY <2>1
  <1> QED
    BY <1>3
=============================================================================
