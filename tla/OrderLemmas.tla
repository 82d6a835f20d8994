------------------------------ MODULE OrderLemmas ------------------------------
(****************************************************************************)
(* Facts about orders of numbers that the proofs of the components share.   *)
(* The collectors visit names in natural order and sort what they return:   *)
(* a least element exists, so the loops that take it one after another are  *)
(* well defined, and so does an order of a sequence, so sorting is.         *)
(****************************************************************************)
EXTENDS Integers, FiniteSets, FiniteSetTheorems, WellFoundedInduction, TLAPS

\* A finite, non-empty set of numbers has a least element.
LEMMA FiniteLeast ==
  ASSUME NEW S \in SUBSET Int, S # {}, IsFiniteSet(S)
  PROVE  \E m \in S : \A e \in S : m <= e
<1> DEFINE Down(d) == {e \in S : e <= d}
           T == {Down(d) : d \in S}
<1>1. \A d \in S : Down(d) \in FiniteSubsetsOf(S)
  BY FS_Subset DEF FiniteSubsetsOf
<1>2. T \subseteq FiniteSubsetsOf(S) /\ T # {}
  BY <1>1
<1>3. \A d \in S : Down(d) \in T
  OBVIOUS
<1> HIDE DEF T
<1>4. PICK x \in T : \A y \in T : ~(<<y, x>> \in StrictSubsetOrdering(S))
  BY <1>2, FS_StrictSubsetOrderingWellFounded, WFMin
<1>5. PICK d \in S : x = Down(d)
  BY DEF T
<1>6. ASSUME NEW e \in S, ~(d <= e)
      PROVE  FALSE
  <2>0. S \subseteq Int /\ d \in Int /\ e \in Int /\ e < d
    BY <1>6
  <2>1. Down(e) \subseteq Down(d)
    <3> SUFFICES ASSUME NEW a \in S, a <= e
                 PROVE  a <= d
      OBVIOUS
    <3> QED
      BY <2>0
  <2>2. d \in Down(d) /\ d \notin Down(e)
    BY <2>0
  <2>3. <<Down(e), Down(d)>> \in StrictSubsetOrdering(S)
    BY <2>1, <2>2 DEF StrictSubsetOrdering
  <2> QED
    BY <2>3, <1>3, <1>4, <1>5
<1> QED
  BY <1>6

\* Any non-empty set of natural numbers has a least element: a claim about all
\* of them has a least counterexample or none.
LEMMA NaturalLeast ==
  ASSUME NEW S \in SUBSET Nat, S # {}
  PROVE  \E m \in S : \A e \in S : m <= e
<1>1. PICK n \in S : TRUE
  OBVIOUS
<1> DEFINE T == {e \in S : e <= n}
<1>2. T \subseteq 0..n /\ T \subseteq Int /\ n \in T
  <2>1. S \subseteq Nat /\ n \in Nat
    OBVIOUS
  <2>2. \A e \in S : e <= n => e \in 0..n /\ e \in Int
    BY <2>1
  <2>3. n <= n
    BY <2>1
  <2> QED
    BY <2>2, <2>3
<1>3. IsFiniteSet(T)
  <2>1. IsFiniteSet(0..n)
    BY FS_Interval
  <2> QED
    BY <1>2, <2>1, FS_Subset
<1>4. PICK m \in T : \A e \in T : m <= e
  <2> HIDE DEF T
  <2> QED
    BY <1>2, <1>3, FiniteLeast
<1>5. \A e \in S : m <= e
  BY <1>4
<1> QED
  BY <1>5
LEMMA FiniteGreatest ==
  ASSUME NEW S \in SUBSET Int, S # {}, IsFiniteSet(S)
  PROVE  \E m \in S : \A e \in S : e <= m
<1> DEFINE T == {-e : e \in S}
           f == [e \in S |-> -e]
<1>1. S \subseteq Int
  OBVIOUS
<1>2. T \in SUBSET Int /\ T # {}
  <2>1. \A e \in S : -e \in Int
    BY <1>1
  <2> QED
    BY <2>1
<1>3. f \in Surjection(S, T)
  BY DEF Surjection
<1>4. IsFiniteSet(T)
  <2> HIDE DEF T, f
  <2> QED
    BY <1>3, FS_Surjection
<1>5. PICK t \in T : \A e \in T : t <= e
  <2> HIDE DEF T
  <2> QED
    BY <1>2, <1>4, FiniteLeast
<1>6. PICK m \in S : t = -m
  OBVIOUS
<1>7. \A e \in S : -m <= -e
  BY <1>5, <1>6
<1> QED
  BY <1>1, <1>7

-------------------------------------------------------------------------------
\* The numbers of a finite set can be put in ascending order.
InOrder(s, S) ==
    /\ s \in [1..Cardinality(S) -> S]
    /\ \A i, j \in DOMAIN s : i < j => s[i] < s[j]

LEMMA AscendingExists ==
  ASSUME NEW S \in SUBSET Int, IsFiniteSet(S)
  PROVE  \E s \in [1..Cardinality(S) -> S] :
           \A i, j \in DOMAIN s : i < j => s[i] < s[j]
<1> DEFINE Bad == {n \in Nat : \E T \in SUBSET S : Cardinality(T) = n /\ ~ \E s : InOrder(s, T)}
<1>1. ASSUME Bad # {}
      PROVE  FALSE
  <2>1. PICK n \in Bad : \A m \in Bad : n <= m
    <3>1. Bad \in SUBSET Nat
      OBVIOUS
    <3> HIDE DEF Bad
    <3> QED
      BY <1>1, <3>1, NaturalLeast
  <2>2. PICK T \in SUBSET S : Cardinality(T) = n /\ ~ \E s : InOrder(s, T)
    OBVIOUS
  <2>3. n \in Nat /\ IsFiniteSet(T) /\ T \in SUBSET Int
    BY <2>2, FS_Subset
  <2>4. CASE T = {}
    <3>1. n = 0
      BY <2>2, <2>4, FS_EmptySet
    <3>2. InOrder([i \in 1..n |-> 0], T)
      BY <2>2, <3>1 DEF InOrder
    <3> QED
      BY <2>2, <3>2
  <2>5. CASE T # {}
    <3>1. PICK g \in T : \A e \in T : e <= g
      BY <2>3, <2>5, FiniteGreatest
    <3> DEFINE U == T \ {g}
    <3>2. Cardinality(U) = n - 1 /\ n - 1 \in Nat
      <4>1. n # 0
        BY <2>2, <2>3, <2>5, FS_EmptySet
      <4>2. Cardinality(T \ {g}) = Cardinality(T) - 1
        BY <2>3, FS_RemoveElement
      <4> QED
        BY <2>2, <2>3, <4>1, <4>2
    <3>3. PICK s : InOrder(s, U)
      <4>1. n - 1 \notin Bad
        BY <2>1, <2>3, <3>2
      <4> QED
        BY <3>2, <4>1
    <3>4. s \in [1..(n - 1) -> U] /\ \A i, j \in 1..(n - 1) : i < j => s[i] < s[j]
      BY <3>2, <3>3 DEF InOrder
    <3> DEFINE t == [i \in 1..n |-> IF i = n THEN g ELSE s[i]]
    <3>5. \A i \in 1..n : i = n \/ i \in 1..(n - 1)
      BY <2>3
    <3>6. \A i \in 1..(n - 1) : s[i] \in T /\ s[i] \in Int /\ s[i] < g
      <4>1. \A e \in U : e \in T /\ e \in Int /\ g \in Int /\ e # g /\ e <= g
        BY <2>3, <3>1
      <4>2. \A e \in U : e < g
        BY <4>1
      <4> HIDE DEF U
      <4> QED
        BY <3>4, <4>1, <4>2
    <3>7. t \in [1..n -> T]
      BY <3>5, <3>6
    <3>8. \A i, j \in 1..n : i < j => t[i] < t[j]
      <4> SUFFICES ASSUME NEW i \in 1..n, NEW j \in 1..n, i < j
                   PROVE  t[i] < t[j]
        OBVIOUS
      <4>1. i # n /\ i \in 1..(n - 1)
        BY <2>3
      <4>2. CASE j = n
        BY <3>6, <4>1, <4>2
      <4>3. CASE j # n
        BY <3>4, <3>5, <4>1, <4>3
      <4> QED
        BY <4>2, <4>3
    <3>9. InOrder(t, T)
      <4> HIDE DEF t
      <4> QED
        BY <2>2, <3>7, <3>8 DEF InOrder
    <3> QED
      BY <2>2, <3>9
  <2> QED
    BY <2>4, <2>5
<1>2. Cardinality(S) \in Nat /\ Cardinality(S) \notin Bad
  BY <1>1, FS_CardinalityType
<1>3. \E s : InOrder(s, S)
  BY <1>2
<1> QED
  BY <1>3 DEF InOrder

\* Such an order leaves no number out and has none twice.
LEMMA AscendingOnto ==
  ASSUME NEW S \in SUBSET Int, IsFiniteSet(S),
         NEW s \in [1..Cardinality(S) -> S],
         \A i, j \in DOMAIN s : i < j => s[i] < s[j]
  PROVE  /\ \A i, j \in 1..Cardinality(S) : s[i] = s[j] => i = j
         /\ \A e \in S : \E i \in 1..Cardinality(S) : s[i] = e
<1> DEFINE n == Cardinality(S)
<1>1. n \in Nat
  BY FS_CardinalityType
<1>2. \A i \in 1..n : s[i] \in Int
  OBVIOUS
<1>3. IsFiniteSet(1..n) /\ Cardinality(1..n) = n
  BY <1>1, FS_Interval
<1>4. DOMAIN s = 1..n
  OBVIOUS
<1> HIDE DEF n
<1>5. \A i, j \in 1..n : s[i] = s[j] => i = j
  <2> SUFFICES ASSUME NEW i \in 1..n, NEW j \in 1..n, s[i] = s[j], i # j
               PROVE  FALSE
    OBVIOUS
  <2>1. i < j \/ j < i
    BY <1>1
  <2>2. s[i] < s[j] \/ s[j] < s[i]
    BY <1>4, <2>1
  <2> QED
    BY <1>2, <2>2
<1>6. s \in Injection(1..n, S)
  <2>1. s \in [1..n -> S]
    BY DEF n
  <2>2. \A a, b \in 1..n : s[a] = s[b] => a = b
    BY <1>5
  <2> QED
    BY <2>1, <2>2 DEF Injection, IsInjective
<1>7. s \in Surjection(1..n, S)
  BY <1>3, <1>6, FS_Injection DEF n
<1> QED
  BY <1>5, <1>7 DEF Surjection, n

-------------------------------------------------------------------------------
\* Numbers in any order, some of them equal, can be sorted.
Sorting(n, key, p) ==
    /\ p \in [1..n -> 1..n]
    /\ \A i, j \in 1..n : i < j => p[i] # p[j] /\ key[p[i]] <= key[p[j]]

LEMMA SortingExists ==
  ASSUME NEW n \in Nat, NEW key \in [1..n -> Int]
  PROVE  \E p : Sorting(n, key, p)
<1> DEFINE Bad == {m \in Nat : \E f \in [1..m -> Int] : ~ \E p : Sorting(m, f, p)}
<1>1. ASSUME Bad # {}
      PROVE  FALSE
  <2>1. PICK m \in Bad : \A l \in Bad : m <= l
    <3>1. Bad \in SUBSET Nat
      OBVIOUS
    <3> HIDE DEF Bad
    <3> QED
      BY <1>1, <3>1, NaturalLeast
  <2>2. PICK f \in [1..m -> Int] : ~ \E p : Sorting(m, f, p)
    OBVIOUS
  <2>3. CASE m = 0
    <3>1. Sorting(0, f, [i \in 1..0 |-> 0])
      BY DEF Sorting
    <3> QED
      BY <2>2, <2>3, <3>1
  <2>4. CASE m # 0
    <3>1. m \in Nat /\ m - 1 \in Nat /\ m - 1 < m
      BY <2>4
    \* The element with the greatest number goes last.
    <3>2. PICK g \in 1..m : \A i \in 1..m : f[i] <= f[g]
      <4> DEFINE T == {f[i] : i \in 1..m}
      <4>1. f \in Surjection(1..m, T)
        BY DEF Surjection
      <4>2. IsFiniteSet(1..m)
        BY <3>1, FS_Interval
      <4>3. f[1] \in T
        BY <3>1, <2>4
      <4>4. T \in SUBSET Int
        OBVIOUS
      <4>5. PICK t \in T : \A e \in T : e <= t
        <5> HIDE DEF T
        <5> QED
          BY <4>1, <4>2, <4>3, <4>4, FS_Surjection, FiniteGreatest
      <4> QED
        BY <4>5
    <3> DEFINE skip == [i \in 1..(m - 1) |-> IF i < g THEN i ELSE i + 1]
               h == [i \in 1..(m - 1) |-> f[skip[i]]]
    <3>3. /\ \A i \in 1..(m - 1) : skip[i] \in 1..m /\ skip[i] # g
          /\ \A i, j \in 1..(m - 1) : i # j => skip[i] # skip[j]
      <4>1. \A i \in 1..(m - 1) : /\ i \in 1..m /\ i + 1 \in 1..m
                                 /\ skip[i] = IF i < g THEN i ELSE i + 1
        BY <3>1
      <4> HIDE DEF skip
      <4>2. \A i \in 1..(m - 1) : skip[i] \in 1..m /\ skip[i] # g
        <5> SUFFICES ASSUME NEW i \in 1..(m - 1)
                     PROVE  skip[i] \in 1..m /\ skip[i] # g
          OBVIOUS
        <5>1. g \in Int /\ i \in Int /\ (i < g => i # g) /\ (~(i < g) => i + 1 # g)
          BY <3>1
        <5> QED
          BY <4>1, <5>1
      <4>3. \A i, j \in 1..(m - 1) : i # j => skip[i] # skip[j]
        <5> SUFFICES ASSUME NEW i \in 1..(m - 1), NEW j \in 1..(m - 1), i # j
                     PROVE  skip[i] # skip[j]
          OBVIOUS
        <5>1. /\ g \in Int /\ i \in Int /\ j \in Int /\ i + 1 # j + 1
              /\ i < g /\ ~(j < g) => i # j + 1
              /\ j < g /\ ~(i < g) => i + 1 # j
          BY <3>1
        <5> QED
          BY <4>1, <5>1
      <4> QED
        BY <4>2, <4>3
    <3>4. h \in [1..(m - 1) -> Int]
      BY <3>3
    <3>5. PICK q : Sorting(m - 1, h, q)
      <4>1. m - 1 \notin Bad
        <5>1. ~(m <= m - 1)
          BY <3>1
        <5> HIDE DEF Bad
        <5> QED
          BY <2>1, <5>1
      <4> HIDE DEF h
      <4> QED
        BY <3>1, <3>4, <4>1
    <3> DEFINE p == [i \in 1..m |-> IF i = m THEN g ELSE skip[q[i]]]
    <3>6. \A i \in 1..m : i # m => i \in 1..(m - 1) /\ q[i] \in 1..(m - 1)
      BY <3>1, <3>5 DEF Sorting
    <3>7. \A i, j \in 1..(m - 1) : i < j => q[i] # q[j] /\ h[q[i]] <= h[q[j]]
      BY <3>5 DEF Sorting
    <3>8. \A i \in 1..(m - 1) : h[i] = f[skip[i]]
      OBVIOUS
    <3> HIDE DEF skip, h
    <3>9. p \in [1..m -> 1..m]
      BY <3>3, <3>6
    <3>10. ASSUME NEW i \in 1..m, NEW j \in 1..m, i < j
           PROVE  p[i] # p[j] /\ f[p[i]] <= f[p[j]]
      <4>1. i # m /\ i \in 1..(m - 1) /\ q[i] \in 1..(m - 1)
        BY <3>1, <3>6, <3>10
      <4>2. p[i] = skip[q[i]] /\ skip[q[i]] \in 1..m /\ skip[q[i]] # g
        BY <3>3, <4>1
      <4>3. CASE j = m
        BY <3>2, <4>2, <4>3
      <4>4. CASE j # m
        <5>1. j \in 1..(m - 1) /\ q[j] \in 1..(m - 1) /\ p[j] = skip[q[j]]
          BY <3>6, <4>4
        <5>2. q[i] # q[j] /\ h[q[i]] <= h[q[j]]
          BY <3>7, <3>10, <4>1, <5>1
        <5> QED
          BY <3>3, <3>8, <4>1, <4>2, <5>1, <5>2
      <4> QED
        BY <4>3, <4>4
    <3>11. Sorting(m, f, p)
      <4> HIDE DEF p
      <4> QED
        BY <3>9, <3>10 DEF Sorting
    <3> QED
      BY <2>2, <3>11
  <2> QED
    BY <2>3, <2>4
<1> QED
  BY <1>1

\* A sequence of places that has none twice leaves none out.
LEMMA PlacesOnto ==
  ASSUME NEW n \in Nat, NEW p \in [1..n -> 1..n],
         \A i, j \in 1..n : i < j => p[i] # p[j]
  PROVE  \A k \in 1..n : \E i \in 1..n : p[i] = k
<1>1. \A i, j \in 1..n : p[i] = p[j] => i = j
  <2> SUFFICES ASSUME NEW i \in 1..n, NEW j \in 1..n, p[i] = p[j], i # j
               PROVE  FALSE
    OBVIOUS
  <2>1. i < j \/ j < i
    OBVIOUS
  <2> QED
    BY <2>1
<1>2. p \in Injection(1..n, 1..n)
  BY <1>1 DEF Injection, IsInjective
<1>3. IsFiniteSet(1..n)
  BY FS_Interval
<1>4. p \in Surjection(1..n, 1..n)
  BY <1>2, <1>3, FS_Injection
<1> QED
  BY <1>4 DEF Surjection
===============================================================================
