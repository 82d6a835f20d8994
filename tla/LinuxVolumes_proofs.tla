-------------------------- MODULE LinuxVolumes_proofs --------------------------
(****************************************************************************)
(* The volumes of a Linux machine: whatever is mounted where, on whatever   *)
(* graph of devices, each filesystem is reported once under the partitions  *)
(* that carry it; and as long as no slice of mount points that is shared    *)
(* has room, all its mount points are.                                      *)
(****************************************************************************)
EXTENDS LinuxVolumes, OrderLemmas, SequenceTheorems

\* The first n elements of s in ascending order, none twice.
Increasing(s, n) == \A i, j \in 1..n : i < j => s[i] < s[j]
Members(s, n) == {s[i] : i \in 1..n}

\* SortedBy takes the elements of s in an order of their keys.
ByKey(n, s, key) == \E p : Sorting(n, key, p) /\ SortedBy(s, key) = [i \in 1..n |-> s[p[i]]]

\* What sorts s by a key.
LEMMA SortedByOrder ==
  ASSUME NEW n \in Nat, NEW s, DOMAIN s = 1..n, NEW key \in [1..n -> Int]
  PROVE  ByKey(n, s, key)
<1> DEFINE Orders == {p \in [1..n -> 1..n] :
                        \A i, j \in 1..n : i < j => p[i] # p[j] /\ key[p[i]] <= key[p[j]]}
           order == CHOOSE p \in [1..n -> 1..n] :
                      \A i, j \in 1..n : i < j => p[i] # p[j] /\ key[p[i]] <= key[p[j]]
<1>1. \E p : Sorting(n, key, p)
  BY SortingExists
<1>2. Sorting(n, key, order)
  BY <1>1 DEF Sorting
<1>3. SortedBy(s, key) = [i \in 1..n |-> s[order[i]]]
  BY DEF SortedBy
<1> HIDE DEF order
<1> QED
  BY <1>2, <1>3 DEF ByKey

\* Sorting numbers keeps them all.
LEMMA SortedNumbers ==
  ASSUME NEW n \in Nat, NEW s \in [1..n -> Nat]
  PROVE  LET t == SortedBy(s, s)
         IN  /\ t \in [1..n -> Nat]
             /\ \A i, j \in 1..n : i < j => t[i] <= t[j]
             /\ Members(t, n) = Members(s, n)
             /\ (\A i, j \in 1..n : i # j => s[i] # s[j]) =>
                  \A i, j \in 1..n : i # j => t[i] # t[j]
<1> DEFINE t == SortedBy(s, s)
<1>1. PICK p : Sorting(n, s, p) /\ t = [i \in 1..n |-> s[p[i]]]
  <2>1. DOMAIN s = 1..n /\ s \in [1..n -> Int]
    OBVIOUS
  <2>2. ByKey(n, s, s)
    BY <2>1, SortedByOrder
  <2> QED
    BY <2>2 DEF ByKey
<1> HIDE DEF t
<1>2. p \in [1..n -> 1..n] /\ \A i, j \in 1..n : i < j => p[i] # p[j] /\ s[p[i]] <= s[p[j]]
  BY <1>1 DEF Sorting
<1>3. \A k \in 1..n : \E i \in 1..n : p[i] = k
  <2>1. p \in [1..n -> 1..n] /\ \A i, j \in 1..n : i < j => p[i] # p[j]
    BY <1>2
  <2> QED
    BY <2>1, PlacesOnto
<1>4. \A i \in 1..n : t[i] = s[p[i]] /\ p[i] \in 1..n
  BY <1>1, <1>2
<1>5. Members(t, n) = Members(s, n)
  <2>1. ASSUME NEW k \in 1..n
        PROVE  \E i \in 1..n : t[i] = s[k]
    <3>1. PICK i \in 1..n : p[i] = k
      BY <1>3
    <3> QED
      BY <1>4, <3>1
  <2>2. \A i \in 1..n : \E k \in 1..n : t[i] = s[k]
    BY <1>4
  <2>3. Members(t, n) \subseteq Members(s, n)
    BY <2>2 DEF Members
  <2>4. Members(s, n) \subseteq Members(t, n)
    BY <2>1, Zenon DEF Members
  <2> QED
    BY <2>3, <2>4
<1>6. \A i, j \in 1..n : i # j => p[i] # p[j]
  <2> SUFFICES ASSUME NEW i \in 1..n, NEW j \in 1..n, i # j
               PROVE  p[i] # p[j]
    OBVIOUS
  <2>1. i < j \/ j < i
    OBVIOUS
  <2> QED
    BY <1>2, <2>1
<1>7. t \in [1..n -> Nat]
  BY <1>1, <1>4
<1>8. \A i, j \in 1..n : i < j => t[i] <= t[j]
  BY <1>2, <1>4
<1>9. (\A i, j \in 1..n : i # j => s[i] # s[j]) => \A i, j \in 1..n : i # j => t[i] # t[j]
  <2> SUFFICES ASSUME \A i, j \in 1..n : i # j => s[i] # s[j],
                      NEW i \in 1..n, NEW j \in 1..n, i # j
               PROVE  t[i] # t[j]
    OBVIOUS
  <2>1. p[i] \in 1..n /\ p[j] \in 1..n /\ p[i] # p[j] /\ t[i] = s[p[i]] /\ t[j] = s[p[j]]
    BY <1>4, <1>6
  <2> QED
    BY <2>1
<1> QED
  BY <1>5, <1>7, <1>8, <1>9 DEF t

\* uniqueStrings on what is sorted.
LEMMA DropRepeatsFacts ==
  ASSUME NEW n \in Nat, NEW s \in [1..n -> Nat], \A i \in 1..n : s[i] # 0,
         \A i, j \in 1..n : i < j => s[i] <= s[j]
  PROVE  LET u == DropRepeats(s)
         IN  /\ Len(u) \in 0..n /\ u \in [1..Len(u) -> Nat]
             /\ Increasing(u, Len(u)) /\ Members(u, Len(u)) = Members(s, n)
             /\ (\A i, j \in 1..n : i # j => s[i] # s[j]) => Len(u) = n
<1> DEFINE keep == {i \in 1..n : s[i] # 0 /\ (i = 1 \/ s[i] # s[i - 1])}
           m == Cardinality(keep)
           nth == CHOOSE f \in [1..m -> keep] : \A i, j \in DOMAIN f : i < j => f[i] < f[j]
           u == DropRepeats(s)
<1>1. keep \subseteq 1..n /\ keep \in SUBSET Int /\ IsFiniteSet(keep) /\ m \in 0..n
  <2>1. keep \subseteq 1..n /\ IsFiniteSet(1..n) /\ Cardinality(1..n) = n
    BY FS_Interval
  <2>2. IsFiniteSet(keep) /\ Cardinality(keep) <= n /\ Cardinality(keep) \in Nat
    BY <2>1, FS_Subset, FS_CardinalityType
  <2> QED
    BY <2>1, <2>2
<1>2. nth \in [1..m -> keep] /\ \A i, j \in DOMAIN nth : i < j => nth[i] < nth[j]
  <2>1. \E f \in [1..m -> keep] : \A i, j \in DOMAIN f : i < j => f[i] < f[j]
    BY <1>1, AscendingExists
  <2> QED
    BY <2>1
<1>3. \A e \in keep : \E i \in 1..m : nth[i] = e
  <2> HIDE DEF keep, nth
  <2> QED
    BY <1>1, <1>2, AscendingOnto
<1>4. u = [k \in 1..m |-> s[nth[k]]]
  <2>1. DOMAIN s = 1..n
    OBVIOUS
  <2>2. u = [k \in DOMAIN nth |-> s[nth[k]]]
    BY <2>1 DEF DropRepeats
  <2> QED
    BY <1>2, <2>2
<1>5. \A i, j \in 1..m : i < j => nth[i] < nth[j]
  BY <1>2
<1>6. \A i \in 1..m : nth[i] \in 1..n /\ (nth[i] = 1 \/ s[nth[i]] # s[nth[i] - 1])
  BY <1>1, <1>2
<1> HIDE DEF nth, u, m
<1>7. u \in [1..m -> Nat] /\ m \in Nat
  BY <1>1, <1>4, <1>6
<1>8. Len(u) = m
  BY <1>7
<1>9. Increasing(u, m)
  <2> SUFFICES ASSUME NEW i \in 1..m, NEW j \in 1..m, i < j
               PROVE  u[i] < u[j]
    BY DEF Increasing
  <2> DEFINE a == nth[i]
             b == nth[j]
  <2>1. a \in 1..n /\ b \in 1..n /\ a < b /\ s[b] # s[b - 1] /\ b - 1 \in 1..n
    <3>1. a \in 1..n /\ b \in 1..n /\ (b = 1 \/ s[b] # s[b - 1])
      BY <1>6
    <3>2. a < b
      BY <1>5
    <3> HIDE DEF a, b
    <3> QED
      BY <3>1, <3>2
  <2>2. s[a] <= s[b - 1]
    <3>1. a = b - 1 \/ a < b - 1
      BY <2>1
    <3>2. s[a] \in Nat
      BY <2>1
    <3> QED
      BY <2>1, <3>1, <3>2
  <2>3. s[b - 1] <= s[b] /\ s[a] \in Nat /\ s[b] \in Nat /\ s[b - 1] \in Nat
    BY <2>1
  <2>4. s[a] < s[b]
    BY <2>1, <2>2, <2>3
  <2> QED
    BY <1>4, <2>4
<1>10. Members(u, m) = Members(s, n)
  <2>1. ASSUME NEW i \in 1..n
        PROVE  \E k \in 1..m : u[k] = s[i]
    <3> DEFINE T == {k \in 1..n : s[k] = s[i]}
    <3>1. T \in SUBSET Nat /\ T # {}
      <4>1. i \in T
        OBVIOUS
      <4>2. T \subseteq Nat
        OBVIOUS
      <4> QED
        BY <4>1, <4>2
    <3>2. PICK k \in T : \A e \in T : k <= e
      <4> HIDE DEF T
      <4> QED
        BY <3>1, NaturalLeast
    <3>3. k \in keep
      <4>1. k \in 1..n /\ s[k] = s[i] /\ s[k] # 0
        OBVIOUS
      <4>2. ASSUME k # 1
            PROVE  s[k] # s[k - 1]
        <5>1. k - 1 \in 1..n /\ ~(k <= k - 1)
          BY <4>1, <4>2
        <5>2. k - 1 \notin T
          <6> HIDE DEF T
          <6> QED
            BY <3>2, <5>1
        <5> QED
          BY <4>1, <5>1, <5>2
      <4> QED
        BY <4>1, <4>2
    <3>4. PICK j \in 1..m : nth[j] = k
      BY <1>3, <3>3
    <3>5. u[j] = s[k] /\ s[k] = s[i]
      BY <1>4, <3>4
    <3> QED
      BY <3>5
  <2> QED
    BY <1>4, <1>6, <2>1 DEF Members
<1>11. ASSUME \A i, j \in 1..n : i # j => s[i] # s[j]
       PROVE  m = n
  <2>1. keep = 1..n
    <3> SUFFICES ASSUME NEW i \in 1..n, i # 1
                 PROVE  s[i] # s[i - 1]
      OBVIOUS
    <3>1. i - 1 \in 1..n /\ i # i - 1
      OBVIOUS
    <3> QED
      BY <1>11, <3>1
  <2>2. Cardinality(1..n) = n
    BY FS_Interval
  <2> QED
    BY <2>1, <2>2 DEF m
<1> QED
  BY <1>1, <1>7, <1>8, <1>9, <1>10, <1>11 DEF u

\* There is only one way to put numbers in ascending order.
LEMMA OneIncreasing ==
  ASSUME NEW n \in Nat, NEW s \in [1..n -> Nat], NEW t \in [1..n -> Nat],
         Increasing(s, n), Increasing(t, n), Members(s, n) = Members(t, n)
  PROVE  s = t
<1> DEFINE D == {k \in 1..n : s[k] # t[k]}
<1>1. ASSUME D # {}
      PROVE  FALSE
  <2>1. D \in SUBSET Nat
    OBVIOUS
  <2>2. PICK k \in D : \A e \in D : k <= e
    <3> HIDE DEF D
    <3> QED
      BY <1>1, <2>1, NaturalLeast
  <2>3. k \in 1..n /\ s[k] # t[k] /\ \A j \in 1..n : j < k => s[j] = t[j]
    <3>1. \A j \in 1..n : j < k => ~(k <= j)
      OBVIOUS
    <3> QED
      BY <2>2, <3>1
  <2> HIDE DEF D
  <2>4. (\E j \in 1..n : s[j] = t[k]) /\ (\E j \in 1..n : t[j] = s[k])
    BY <2>3 DEF Members
  <2>5. ASSUME s[k] < t[k]
        PROVE  FALSE
    <3>1. PICK j \in 1..n : t[j] = s[k]
      BY <2>4
    <3>2. CASE j < k
      <4>1. s[j] = s[k] /\ s[j] < s[k] /\ s[k] \in Nat
        BY <2>3, <3>1, <3>2 DEF Increasing
      <4> QED
        BY <4>1
    <3>3. CASE ~(j < k)
      <4>1. j = k \/ k < j
        BY <2>3, <3>3
      <4>2. t[k] <= t[j] /\ t[k] \in Nat /\ t[j] \in Nat
        BY <2>3, <4>1 DEF Increasing
      <4> QED
        BY <2>5, <3>1, <4>2
    <3> QED
      BY <3>2, <3>3
  <2>6. ASSUME t[k] < s[k]
        PROVE  FALSE
    <3>1. PICK j \in 1..n : s[j] = t[k]
      BY <2>4
    <3>2. CASE j < k
      <4>1. t[j] = t[k] /\ t[j] < t[k] /\ t[k] \in Nat
        BY <2>3, <3>1, <3>2 DEF Increasing
      <4> QED
        BY <4>1
    <3>3. CASE ~(j < k)
      <4>1. j = k \/ k < j
        BY <2>3, <3>3
      <4>2. s[k] <= s[j] /\ s[k] \in Nat /\ s[j] \in Nat
        BY <2>3, <4>1 DEF Increasing
      <4> QED
        BY <2>6, <3>1, <4>2
    <3> QED
      BY <3>2, <3>3
  <2> QED
    BY <2>3, <2>5, <2>6
<1> QED
  BY <1>1

LEMMA FunctionIsSeq ==
  ASSUME NEW S, NEW n \in Nat, NEW f \in [1..n -> S]
  PROVE  f \in Seq(S) /\ Len(f) = n
OBVIOUS

\* The first n elements of an array, sorted and compacted in place.
LEMMA CompactedFacts ==
  ASSUME NEW a \in Seq(Nat), NEW n \in 0..Len(a), \A i \in 1..n : a[i] # 0
  PROVE  LET c == Compacted(a, n)
         IN  /\ DOMAIN c = {"array", "len"}
             /\ c.array \in Seq(Nat) /\ Len(c.array) = Len(a) /\ c.len \in 0..n
             /\ Increasing(c.array, c.len) /\ Members(c.array, c.len) = Members(a, n)
             /\ (\A i, j \in 1..n : i # j => a[i] # a[j]) => c.len = n
             /\ Increasing(a, n) => c.array = a /\ c.len = n
             /\ \A i \in 1..Len(a) : a[i] # 0 => c.array[i] # 0
<1> DEFINE first == [i \in 1..n |-> a[i]]
           sorted == SortedBy(first, first)
           unique == DropRepeats(sorted)
           c == Compacted(a, n)
           l == Len(unique)
<1>1. first \in [1..n -> Nat] /\ n \in Nat /\ Len(a) \in Nat /\ 1..n \subseteq 1..Len(a)
  OBVIOUS
<1>2. \A i \in 1..n : first[i] = a[i]
  OBVIOUS
<1>3. Members(first, n) = Members(a, n)
  BY <1>2 DEF Members
<1> HIDE DEF first
<1>4. /\ sorted \in [1..n -> Nat]
      /\ \A i, j \in 1..n : i < j => sorted[i] <= sorted[j]
      /\ Members(sorted, n) = Members(first, n)
      /\ (\A i, j \in 1..n : i # j => first[i] # first[j]) =>
           \A i, j \in 1..n : i # j => sorted[i] # sorted[j]
  BY <1>1, SortedNumbers
<1>5. \A i \in 1..n : sorted[i] # 0
  <2> SUFFICES ASSUME NEW i \in 1..n
               PROVE  sorted[i] # 0
    OBVIOUS
  <2>1. sorted[i] \in Members(a, n)
    BY <1>3, <1>4 DEF Members
  <2> QED
    BY <2>1 DEF Members
<1>6. c = [array |-> [i \in DOMAIN a |-> IF i <= l THEN unique[i]
                                         ELSE IF i <= n THEN sorted[i] ELSE a[i]],
           len |-> l]
  BY DEF Compacted, first
<1> HIDE DEF sorted
<1>7. /\ l \in 0..n /\ unique \in [1..l -> Nat]
      /\ Increasing(unique, l) /\ Members(unique, l) = Members(sorted, n)
      /\ (\A i, j \in 1..n : i # j => sorted[i] # sorted[j]) => l = n
  BY <1>1, <1>4, <1>5, DropRepeatsFacts
<1> HIDE DEF unique, l, c
<1>8. DOMAIN a = 1..Len(a) /\ \A i \in DOMAIN a : a[i] \in Nat
  OBVIOUS
<1>9. /\ c.len = l
      /\ DOMAIN c = {"array", "len"}
      /\ c.array \in [1..Len(a) -> Nat]
      /\ \A i \in 1..l : c.array[i] = unique[i]
  <2>1. \A i \in 1..Len(a) : (IF i <= l THEN unique[i]
                               ELSE IF i <= n THEN sorted[i] ELSE a[i]) \in Nat
    BY <1>1, <1>4, <1>7, <1>8
  <2>2. 1..l \subseteq 1..Len(a) /\ \A i \in 1..l : i <= l
    BY <1>1, <1>7
  <2> QED
    BY <1>6, <1>8, <2>1, <2>2
<1>10. c.array \in Seq(Nat) /\ Len(c.array) = Len(a)
  <2>1. c.array \in [1..Len(a) -> Nat] /\ Len(a) \in Nat
    BY <1>1, <1>9
  <2> QED
    BY <2>1, FunctionIsSeq
<1>11. Increasing(c.array, l) /\ Members(c.array, l) = Members(a, n)
  <2>1. Members(c.array, l) = Members(unique, l)
    BY <1>9 DEF Members
  <2>2. Increasing(c.array, l)
    BY <1>7, <1>9 DEF Increasing
  <2> QED
    BY <1>3, <1>4, <1>7, <2>1, <2>2
<1>12. (\A i, j \in 1..n : i # j => a[i] # a[j]) => l = n
  BY <1>2, <1>4, <1>7
<1>13. ASSUME Increasing(a, n)
       PROVE  c.array = a /\ c.len = n
  <2>1. \A i, j \in 1..n : i # j => a[i] # a[j]
    <3> SUFFICES ASSUME NEW i \in 1..n, NEW j \in 1..n, i # j
                 PROVE  a[i] # a[j]
      OBVIOUS
    <3>1. i < j \/ j < i
      OBVIOUS
    <3>2. a[i] < a[j] \/ a[j] < a[i]
      BY <1>13, <3>1 DEF Increasing
    <3>3. a[i] \in Nat /\ a[j] \in Nat
      BY <1>1, <1>8
    <3> QED
      BY <3>2, <3>3
  <2>2. l = n
    BY <1>12, <2>1
  <2>3. Increasing(first, n)
    BY <1>2, <1>13 DEF Increasing
  <2>4. unique = first
    BY <1>1, <1>3, <1>4, <1>7, <2>2, <2>3, OneIncreasing
  <2>5. \A i \in 1..Len(a) : c.array[i] = a[i]
    <3> SUFFICES ASSUME NEW i \in 1..Len(a)
                 PROVE  c.array[i] = a[i]
      OBVIOUS
    <3>1. CASE i <= n
      <4>1. i \in 1..n
        BY <1>1, <3>1
      <4> QED
        BY <1>2, <1>9, <2>2, <2>4, <4>1
    <3>2. CASE ~(i <= n)
      BY <1>6, <1>8, <2>2, <3>2
    <3> QED
      BY <3>1, <3>2
  <2>6. a \in [1..Len(a) -> Nat]
    BY <1>8
  <2> QED
    BY <1>9, <2>2, <2>5, <2>6
<1>14. ASSUME NEW i \in 1..Len(a), a[i] # 0
       PROVE  c.array[i] # 0
  <2>1. \A k \in 1..l : unique[k] # 0
    <3> SUFFICES ASSUME NEW k \in 1..l
                 PROVE  unique[k] # 0
      OBVIOUS
    <3>1. unique[k] \in Members(a, n)
      BY <1>3, <1>4, <1>7 DEF Members
    <3> QED
      BY <3>1 DEF Members
  <2>2. c.array[i] = IF i <= l THEN unique[i] ELSE IF i <= n THEN sorted[i] ELSE a[i]
    BY <1>6, <1>8
  <2> QED
    BY <1>1, <1>5, <1>7, <1>14, <2>1, <2>2
<1> QED
  BY <1>9, <1>10, <1>11, <1>12, <1>13, <1>14, <1>7 DEF c

\* An array with room.
LEMMA GrownFacts ==
  ASSUME NEW a \in Seq(Nat), NEW room \in Nat
  PROVE  /\ Grown(a, room) \in Seq(Nat) /\ Len(Grown(a, room)) = Len(a) + room
         /\ \A i \in 1..Len(a) : Grown(a, room)[i] = a[i]
<1>1. Grown(a, room) = [i \in 1..(Len(a) + room) |-> IF i <= Len(a) THEN a[i] ELSE 0]
  BY DEF Grown
<1>2. Len(a) + room \in Nat /\ \A i \in 1..(Len(a) + room) : (IF i <= Len(a) THEN a[i] ELSE 0) \in Nat
  OBVIOUS
<1>3. Grown(a, room) \in [1..(Len(a) + room) -> Nat]
  BY <1>1, <1>2
<1> QED
  BY <1>1, <1>2, <1>3, FunctionIsSeq

\* What append, sort and compact make of the m elements in old and the n in new,
\* in a space that begins with what is in old.
Merging(old, m, new, n, space, c) ==
    /\ old \in Seq(Nat) /\ m \in 0..Len(old) /\ \A k \in 1..m : old[k] # 0
    /\ new \in Seq(Nat) /\ n \in 0..Len(new) /\ \A k \in 1..n : new[k] # 0
    /\ space \in Seq(Nat) /\ m + n <= Len(space) /\ \A k \in 1..m : space[k] = old[k]
    /\ c = Compacted([k \in DOMAIN space |->
                         IF k \in (m + 1)..(m + n) THEN new[k - m] ELSE space[k]], m + n)

Compact(old, m, new, n, space, c) ==
    /\ c.array \in Seq(Nat) /\ Len(c.array) = Len(space) /\ c.len \in 0..(m + n)
    /\ Increasing(c.array, c.len)
    /\ Members(c.array, c.len) = Members(old, m) \cup Members(new, n)
    /\ \A k \in 1..Len(space) : space[k] # 0 => c.array[k] # 0
    /\ n = 0 /\ Increasing(old, m) => c.array = space /\ c.len = m

LEMMA MergedFacts ==
  ASSUME NEW old, NEW m, NEW new, NEW n, NEW space, NEW c, Merging(old, m, new, n, space, c)
  PROVE  Compact(old, m, new, n, space, c)
<1> USE DEF Merging
<1> DEFINE filled == [k \in DOMAIN space |->
                        IF k \in (m + 1)..(m + n) THEN new[k - m] ELSE space[k]]
<1>0. c = Compacted(filled, m + n)
  OBVIOUS
<1>1. m \in Nat /\ n \in Nat /\ Len(space) \in Nat /\ DOMAIN space = 1..Len(space)
  OBVIOUS
<1>2. ASSUME NEW k \in (m + 1)..(m + n)
      PROVE  k - m \in 1..n /\ new[k - m] \in Nat
  <2>1. k - m \in 1..n /\ n <= Len(new) /\ Len(new) \in Nat
    BY <1>1
  <2>2. k - m \in DOMAIN new /\ new \in Seq(Nat)
    BY <1>1, <2>1
  <2> QED
    BY <2>1, <2>2
<1>3. filled \in [1..Len(space) -> Nat]
  <2>1. \A k \in 1..Len(space) : space[k] \in Nat
    BY <1>1
  <2>2. \A k \in 1..Len(space) :
          (IF k \in (m + 1)..(m + n) THEN new[k - m] ELSE space[k]) \in Nat
    BY <1>2, <2>1
  <2>3. filled = [k \in 1..Len(space) |->
                   IF k \in (m + 1)..(m + n) THEN new[k - m] ELSE space[k]]
    BY <1>1
  <2> HIDE DEF filled, Merging
  <2> QED
    BY <2>2, <2>3
<1>4. filled \in Seq(Nat) /\ Len(filled) = Len(space)
  BY <1>1, <1>3, FunctionIsSeq
<1>5. \A k \in 1..m : filled[k] = old[k]
  BY <1>1
<1>6. \A k \in 1..n : m + k \in (m + 1)..(m + n) /\ filled[m + k] = new[k]
  <2> SUFFICES ASSUME NEW k \in 1..n
               PROVE  m + k \in (m + 1)..(m + n) /\ filled[m + k] = new[k]
    OBVIOUS
  <2>1. m + k \in (m + 1)..(m + n) /\ m + k \in DOMAIN space /\ (m + k) - m = k
    BY <1>1
  <2> QED
    BY <2>1
<1>7. \A k \in 1..Len(space) : k > m + n => filled[k] = space[k]
  BY <1>1
<1>8. \A k \in 1..(m + n) : k \in 1..m \/ \E j \in 1..n : k = m + j
  <2> SUFFICES ASSUME NEW k \in 1..(m + n), k \notin 1..m
               PROVE  \E j \in 1..n : k = m + j
    OBVIOUS
  <2>1. k - m \in 1..n /\ k = m + (k - m)
    BY <1>1
  <2> QED
    BY <2>1
<1> HIDE DEF filled
<1>9. \A k \in 1..(m + n) : filled[k] # 0
  <2> SUFFICES ASSUME NEW k \in 1..(m + n)
               PROVE  filled[k] # 0
    OBVIOUS
  <2>1. CASE k \in 1..m
    BY <1>5, <2>1
  <2>2. CASE \E j \in 1..n : k = m + j
    BY <1>6, <2>2
  <2> QED
    BY <1>8, <2>1, <2>2
<1>10. Members(filled, m + n) = Members(old, m) \cup Members(new, n)
  <2>1. \A k \in 1..(m + n) : filled[k] \in Members(old, m) \cup Members(new, n)
    <3> SUFFICES ASSUME NEW k \in 1..(m + n)
                 PROVE  filled[k] \in Members(old, m) \cup Members(new, n)
      OBVIOUS
    <3>1. CASE k \in 1..m
      BY <1>5, <3>1 DEF Members
    <3>2. CASE \E j \in 1..n : k = m + j
      BY <1>6, <3>2 DEF Members
    <3> QED
      BY <1>8, <3>1, <3>2
  <2>2. \A k \in 1..m : old[k] \in Members(filled, m + n)
    <3>1. \A k \in 1..m : k \in 1..(m + n)
      BY <1>1
    <3> QED
      BY <1>5, <3>1 DEF Members
  <2>3. \A k \in 1..n : new[k] \in Members(filled, m + n)
    <3>1. \A k \in 1..n : m + k \in 1..(m + n)
      BY <1>1
    <3> QED
      BY <1>6, <3>1 DEF Members
  <2>4. Members(filled, m + n) \subseteq Members(old, m) \cup Members(new, n)
    BY <2>1 DEF Members
  <2>5. Members(old, m) \subseteq Members(filled, m + n) /\ Members(new, n) \subseteq Members(filled, m + n)
    BY <2>2, <2>3 DEF Members
  <2> QED
    BY <2>4, <2>5
<1>11. m + n \in 0..Len(filled)
  BY <1>1, <1>4
<1>12. /\ c.array \in Seq(Nat) /\ Len(c.array) = Len(filled) /\ c.len \in 0..(m + n)
       /\ Increasing(c.array, c.len) /\ Members(c.array, c.len) = Members(filled, m + n)
       /\ Increasing(filled, m + n) => c.array = filled /\ c.len = m + n
       /\ \A i \in 1..Len(filled) : filled[i] # 0 => c.array[i] # 0
  <2> DEFINE d == Compacted(filled, m + n)
  <2>1. /\ d.array \in Seq(Nat) /\ Len(d.array) = Len(filled) /\ d.len \in 0..(m + n)
        /\ Increasing(d.array, d.len) /\ Members(d.array, d.len) = Members(filled, m + n)
        /\ Increasing(filled, m + n) => d.array = filled /\ d.len = m + n
        /\ \A i \in 1..Len(filled) : filled[i] # 0 => d.array[i] # 0
    BY <1>4, <1>9, <1>11, CompactedFacts
  <2>2. c = d
    BY <1>0
  <2> HIDE DEF d
  <2> QED
    BY <2>1, <2>2
<1>13. \A k \in 1..Len(space) : space[k] # 0 => c.array[k] # 0
  <2> SUFFICES ASSUME NEW k \in 1..Len(space), space[k] # 0
               PROVE  filled[k] # 0
    BY <1>4, <1>12
  <2>1. k \in 1..(m + n) \/ k > m + n
    BY <1>1
  <2> QED
    BY <1>7, <1>9, <2>1
<1>14. ASSUME n = 0, Increasing(old, m)
       PROVE  c.array = space /\ c.len = m
  <2>1. m + n = m
    BY <1>1, <1>14
  <2>2. \A k \in 1..Len(space) : filled[k] = space[k]
    <3> SUFFICES ASSUME NEW k \in 1..Len(space)
                 PROVE  filled[k] = space[k]
      OBVIOUS
    <3>1. k \in 1..m \/ k > m
      BY <1>1
    <3> QED
      BY <1>5, <1>7, <2>1, <3>1
  <2>3. filled = space
    <3>1. space \in [1..Len(space) -> Nat]
      BY <1>1
    <3> QED
      BY <1>3, <2>2, <3>1
  <2>4. Increasing(filled, m + n)
    BY <1>5, <1>14, <2>1 DEF Increasing
  <2> QED
    BY <1>12, <2>1, <2>3, <2>4
<1> QED
  BY <1>4, <1>10, <1>12, <1>13, <1>14 DEF Compact

-------------------------------------------------------------------------------
(****************************************************************************)
(* The inductive invariant.                                                 *)
(****************************************************************************)
Slice == [id : Nat, array : Nat, len : Nat]
SlicesOf(p) == {volumes[p][i] : i \in DOMAIN volumes[p]}
IdsOf(p) == {volumes[p][i].id : i \in DOMAIN volumes[p]}

\* A prefix of an array, without "".
InHeap(s) ==
    /\ s.array \in DOMAIN heap /\ s.len \in 0..Len(heap[s.array])
    /\ \A k \in 1..s.len : heap[s.array][k] # 0

Types ==
    /\ input \in Inputs
    /\ line \in 1..(Len(input.mountinfo) + 1)
    /\ mounts \in [Blocks -> [source : Nat, points : Seq(Nat \ {0})]]
    /\ block \in 1..(NBlocks + 1)
    /\ volume \in Slice /\ todo \subseteq Partitions
    /\ volumes \in [Partitions -> Seq(Slice)]
    /\ heap \in Seq(Seq(Nat))
    /\ done \in BOOLEAN

Slices == \A p \in Partitions : \A s \in SlicesOf(p) : s.id # 0 /\ InHeap(s)

\* Which loop runs, and what it has in hand.
Control ==
    /\ line <= Len(input.mountinfo) => block = 1 /\ todo = {}
    /\ todo = {} <=> volume = NoVolume
    /\ todo # {} => /\ block \in input.graph.blocks /\ HasFilesystem(block)
                    /\ todo \subseteq BackingOf(block)
                    /\ volume.id = VolumeID(block) /\ InHeap(volume)
    /\ done => line > Len(input.mountinfo) /\ block = NBlocks + 1

\* The blocks whose volume has been attached to p.
Attached(p) ==
    {b \in input.graph.blocks :
       /\ HasFilesystem(b) /\ p \in BackingOf(b)
       /\ b < block \/ (b = block /\ todo # {} /\ p \notin todo)}

Ids ==
    \A p \in Partitions :
      /\ \A i, j \in DOMAIN volumes[p] : volumes[p][i].id = volumes[p][j].id => i = j
      /\ IdsOf(p) = {VolumeID(b) : b \in Attached(p)}
      /\ done => \A i, j \in DOMAIN volumes[p] : i < j => volumes[p][i].id < volumes[p][j].id

IInv == Types /\ Slices /\ Control /\ Ids

-------------------------------------------------------------------------------
\* What an input is.
LEMMA InputFacts ==
  ASSUME Types
  PROVE  /\ Machine(input) /\ NBlocks \in Nat /\ Exact \in Nat /\ Rooms \subseteq Nat
         /\ input.graph.blocks \subseteq Blocks /\ Partitions \subseteq input.graph.blocks
         /\ Len(input.mountinfo) \in Nat /\ line \in Nat /\ block \in Nat
         /\ \A b \in Blocks : VolumeID(b) \in Nat /\ VolumeID(b) # 0
<1>1. Machine(input) /\ NBlocks \in Nat /\ Exact \in Nat /\ Rooms \subseteq Nat
  BY InputsAssumption DEF Types
<1>2. input.graph.blocks \subseteq Blocks /\ Partitions \subseteq input.graph.blocks
  BY <1>1 DEF Machine, WellFormed, Partitions
<1>3. Len(input.mountinfo) \in Nat /\ line \in Nat /\ block \in Nat
  <2>1. input.mountinfo \in Seq(Line)
    BY <1>1 DEF Machine
  <2>2. Len(input.mountinfo) \in Nat
    BY <2>1
  <2> QED
    BY <1>1, <2>2 DEF Types
<1>4. \A b \in Blocks : VolumeID(b) \in Nat /\ VolumeID(b) # 0
  <2> SUFFICES ASSUME NEW b \in Blocks
               PROVE  VolumeID(b) \in Nat /\ VolumeID(b) # 0
    OBVIOUS
  <2>1. input.uuid[b] \in Nat /\ input.devID[b] \in Nat \ {0}
    BY <1>1 DEF Machine
  <2>2. mounts[b].source \in Nat
    BY DEF Types
  <2> QED
    BY <2>1, <2>2 DEF VolumeID, First
<1> QED
  BY <1>1, <1>2, <1>3, <1>4

\* Nothing about a block changes once the mount table has been read.
LEMMA BlocksStay ==
  ASSUME UNCHANGED <<input, mounts>>
  PROVE  /\ Partitions' = Partitions
         /\ \A b : /\ HasFilesystem(b)' <=> HasFilesystem(b)
                   /\ BackingOf(b)' = BackingOf(b)
                   /\ VolumeID(b)' = VolumeID(b)
                   /\ PathsOf(b)' = PathsOf(b)
BY DEF Partitions, HasFilesystem, BackingOf, VolumeID, PathsOf

\* A step that attaches nothing.
LEMMA IdsStay ==
  ASSUME Ids, UNCHANGED <<input, mounts, volumes, done>>,
         \A p \in Partitions : Attached(p)' = Attached(p)
  PROVE  Ids'
<1>1. Partitions' = Partitions /\ \A b : VolumeID(b)' = VolumeID(b)
  BY BlocksStay
<1>2. \A p : IdsOf(p)' = IdsOf(p)
  BY DEF IdsOf
<1>3. ASSUME NEW p \in Partitions
      PROVE  {VolumeID(b) : b \in Attached(p)}' = {VolumeID(b) : b \in Attached(p)}
  BY <1>1
<1> QED
  BY <1>1, <1>2, <1>3 DEF Ids

LEMMA InitIInv == Init => IInv
<1> SUFFICES ASSUME Init PROVE IInv
  OBVIOUS
<1>1. Machine(input) /\ NBlocks \in Nat /\ input \in Inputs
  BY InputsAssumption DEF Init
<1>2. Types
  <2>1. line \in 1..(Len(input.mountinfo) + 1)
    <3>1. input.mountinfo \in Seq(Line)
      BY <1>1 DEF Machine
    <3>2. Len(input.mountinfo) \in Nat
      BY <3>1
    <3> QED
      BY <3>2 DEF Init
  <2>2. mounts \in [Blocks -> [source : Nat, points : Seq(Nat \ {0})]]
    BY DEF Init
  <2>3. volumes \in [Partitions -> Seq(Slice)]
    BY DEF Init
  <2>4. NoVolume \in Slice /\ heap \in Seq(Seq(Nat)) /\ 1 \in 1..(NBlocks + 1)
    BY <1>1 DEF Init, Slice, NoVolume
  <2> QED
    BY <1>1, <2>1, <2>2, <2>3, <2>4 DEF Init, Types
<1>3. \A p \in Partitions : DOMAIN volumes[p] = {} /\ Attached(p) = {}
  <2>1. \A b \in input.graph.blocks : ~(b < 1)
    BY <1>1, <1>2, InputFacts DEF Blocks
  <2> QED
    BY <2>1 DEF Init, Attached
<1>4. Slices /\ Ids
  BY <1>3 DEF Slices, Ids, SlicesOf, IdsOf
<1>5. Control
  BY DEF Init, Control
<1> QED
  BY <1>2, <1>4, <1>5 DEF IInv

LEMMA ReadLineStep == IInv /\ ReadLine => IInv'
<1> SUFFICES ASSUME IInv, ReadLine PROVE IInv'
  OBVIOUS
<1>1. /\ line <= Len(input.mountinfo) /\ line' = line + 1 /\ block = 1 /\ todo = {} /\ ~done
      /\ UNCHANGED <<input, block, volume, todo, volumes, heap, done>>
      /\ line \in Nat /\ Len(input.mountinfo) \in Nat
  BY InputFacts DEF ReadLine, IInv, Control
<1>2. mounts' \in [Blocks -> [source : Nat, points : Seq(Nat \ {0})]]
  <2> DEFINE l == input.mountinfo[line]
             b == Target(l)
  <2>1. l \in Line
    <3>1. input.mountinfo \in Seq(Line)
      BY InputFacts DEF Machine, IInv
    <3>2. line \in 1..Len(input.mountinfo)
      BY <1>1 DEF IInv, Types
    <3> QED
      BY <3>1, <3>2
  <2>2. b \in Blocks \cup {0} /\ l.source \in Nat /\ l.path \in Nat \ {0}
    BY <2>1 DEF Line, Target, First
  <2>3. mounts' = IF b = 0 THEN mounts
                  ELSE [mounts EXCEPT ![b] = [source |-> First(@.source, l.source),
                                              points |-> Append(@.points, l.path)]]
    BY DEF ReadLine
  <2> HIDE DEF l, b
  <2>4. CASE b = 0
    BY <2>3, <2>4 DEF IInv, Types
  <2>5. CASE b # 0
    <3>1. mounts[b].source \in Nat /\ mounts[b].points \in Seq(Nat \ {0})
      BY <2>2, <2>5 DEF IInv, Types
    <3>2. /\ First(mounts[b].source, l.source) \in Nat
          /\ Append(mounts[b].points, l.path) \in Seq(Nat \ {0})
      BY <2>2, <3>1 DEF First
    <3> QED
      BY <2>2, <2>3, <2>5, <3>2 DEF IInv, Types
  <2> QED
    BY <2>4, <2>5
<1>3. Types'
  BY <1>1, <1>2 DEF IInv, Types, Partitions, Slice
<1>4. Slices'
  BY <1>1 DEF IInv, Slices, SlicesOf, InHeap, Partitions
<1>5. Control'
  BY <1>1 DEF IInv, Control, NoVolume
<1>6. Ids'
  <2>1. \A b \in input.graph.blocks : ~(b < 1)
    BY InputFacts DEF IInv, Blocks
  <2>2. \A p : Attached(p) = {} /\ Attached(p)' = {}
    BY <1>1, <2>1 DEF Attached
  <2>3. \A p \in Partitions : IdsOf(p) = {} /\ DOMAIN volumes[p] = {}
    <3> SUFFICES ASSUME NEW p \in Partitions
                 PROVE  IdsOf(p) = {} /\ DOMAIN volumes[p] = {}
      OBVIOUS
    <3>1. IdsOf(p) = {}
      BY <2>2 DEF IInv, Ids
    <3> QED
      BY <3>1 DEF IdsOf
  <2>4. \A p \in Partitions : IdsOf(p)' = {}
    BY <1>1, <2>3 DEF IdsOf, Partitions
  <2> QED
    BY <1>1, <2>2, <2>3, <2>4 DEF Ids, Partitions
<1> QED
  BY <1>3, <1>4, <1>5, <1>6 DEF IInv

LEMMA SkipBlockStep == IInv /\ SkipBlock => IInv' /\ \A p : Attached(p)' = Attached(p)
<1> SUFFICES ASSUME IInv, SkipBlock PROVE IInv' /\ \A p : Attached(p)' = Attached(p)
  OBVIOUS
<1>1. /\ line > Len(input.mountinfo) /\ block \in Blocks /\ block' = block + 1
      /\ block \in input.graph.blocks => ~HasFilesystem(block) \/ BackingOf(block) = {}
      /\ UNCHANGED <<input, line, mounts, volume, todo, volumes, heap, done>>
      /\ todo = {} /\ volume = NoVolume
  BY DEF SkipBlock, IInv, Control
<1>2. ~done /\ block \in Nat /\ line \in Nat /\ Len(input.mountinfo) \in Nat /\ NBlocks \in Nat
  BY <1>1, InputFacts DEF IInv, Control, Blocks
<1>3. Types'
  BY <1>1, <1>2 DEF IInv, Types, Partitions, Slice, Blocks
<1>4. Slices'
  BY <1>1 DEF IInv, Slices, SlicesOf, InHeap, Partitions
<1>5. Control'
  BY <1>1, <1>2 DEF IInv, Control, NoVolume
<1>6. \A p : Attached(p)' = Attached(p)
  <2>1. \A b \in input.graph.blocks : b < block + 1 <=> b < block \/ b = block
    BY <1>2, InputFacts DEF IInv, Blocks
  <2>2. \A p : ~(block \in input.graph.blocks /\ HasFilesystem(block) /\ p \in BackingOf(block))
    BY <1>1
  <2> QED
    BY <1>1, <2>1, <2>2, BlocksStay DEF Attached
<1>7. Ids'
  BY <1>1, <1>6, IdsStay DEF IInv
<1> QED
  BY <1>3, <1>4, <1>5, <1>6, <1>7 DEF IInv

\* The array of a new volume: the mount points of the block, sorted and compacted.
LEMMA MakeVolumeEffect ==
  ASSUME IInv, MakeVolume
  PROVE  LET points == mounts[block].points
             a == Len(heap) + 1
         IN  /\ heap' \in Seq(Seq(Nat)) /\ Len(heap') = a /\ a \in Nat
             /\ a \notin DOMAIN heap /\ \A k \in DOMAIN heap : k \in DOMAIN heap' /\ heap'[k] = heap[k]
             /\ volume' \in Slice /\ volume'.array = a /\ volume'.id = VolumeID(block)
             /\ InHeap(volume)' /\ Increasing(heap'[a], volume'.len)
             /\ Members(heap'[a], volume'.len) = Members(points, Len(points))
             /\ Len(points) <= Exact /\ (\A i, j \in DOMAIN points : i # j => points[i] # points[j]) =>
                  volume'.len = Len(heap'[a])
<1> DEFINE points == mounts[block].points
           c == Compacted(points, Len(points))
           a == Len(heap) + 1
<1>1. block \in Blocks /\ VolumeID(block) \in Nat
  BY InputFacts DEF IInv, MakeVolume, AtBlock
<1>2. points \in Seq(Nat) /\ Len(points) \in Nat /\ \A k \in 1..Len(points) : points[k] # 0
  <2>1. points \in Seq(Nat \ {0})
    BY <1>1 DEF IInv, Types
  <2> HIDE DEF points
  <2> QED
    BY <2>1
<1>3. PICK room \in Spare(Len(points)) : heap' = Append(heap, Grown(c.array, room))
  BY DEF MakeVolume
<1>4. volume' = [id |-> VolumeID(block), array |-> Len(heap) + 1, len |-> c.len]
  BY DEF MakeVolume
<1> HIDE DEF points
<1>5. /\ c.array \in Seq(Nat) /\ Len(c.array) = Len(points) /\ c.len \in 0..Len(points)
      /\ Increasing(c.array, c.len) /\ Members(c.array, c.len) = Members(points, Len(points))
      /\ (\A i, j \in 1..Len(points) : i # j => points[i] # points[j]) => c.len = Len(points)
  <2>1. Len(points) \in 0..Len(points)
    BY <1>2
  <2> QED
    BY <1>2, <2>1, CompactedFacts
<1> HIDE DEF c
<1>6. room \in Nat /\ (Len(points) <= Exact => room = 0)
  BY <1>3, InputsAssumption DEF Spare
<1> DEFINE g == Grown(c.array, room)
<1>7. /\ g \in Seq(Nat) /\ Len(g) = Len(points) + room
      /\ \A i \in 1..Len(points) : g[i] = c.array[i]
  BY <1>5, <1>6, GrownFacts
<1> HIDE DEF g
<1>8. /\ heap' \in Seq(Seq(Nat)) /\ Len(heap') = a /\ heap'[a] = g /\ a \in Nat /\ a \in DOMAIN heap'
      /\ a \notin DOMAIN heap /\ \A k \in DOMAIN heap : k \in DOMAIN heap' /\ heap'[k] = heap[k]
  <2>1. heap \in Seq(Seq(Nat)) /\ heap' = Append(heap, g)
    BY <1>3 DEF g, IInv, Types
  <2> QED
    BY <1>7, <2>1
<1>9. volume' \in Slice /\ volume'.array = a /\ volume'.id = VolumeID(block) /\ volume'.len = c.len
  BY <1>1, <1>4, <1>5, <1>8 DEF Slice
<1>10. 1..c.len \subseteq 1..Len(points) /\ c.len \in 0..Len(g) /\ c.len \in Nat
  BY <1>2, <1>5, <1>6, <1>7
<1>11. Increasing(g, c.len) /\ Members(g, c.len) = Members(points, Len(points))
  <2>1. \A k \in 1..c.len : g[k] = c.array[k]
    BY <1>7, <1>10
  <2>2. Increasing(g, c.len)
    BY <1>5, <2>1 DEF Increasing
  <2>3. Members(g, c.len) = Members(c.array, c.len)
    BY <2>1 DEF Members
  <2> QED
    BY <1>5, <2>2, <2>3
<1>12. \A k \in 1..c.len : g[k] # 0
  <2> SUFFICES ASSUME NEW k \in 1..c.len
               PROVE  g[k] # 0
    OBVIOUS
  <2>1. g[k] \in Members(points, Len(points))
    BY <1>11 DEF Members
  <2> QED
    BY <1>2, <2>1 DEF Members
<1>13. InHeap(volume)'
  BY <1>8, <1>9, <1>10, <1>12 DEF InHeap
<1>14. ASSUME Len(points) <= Exact, \A i, j \in DOMAIN points : i # j => points[i] # points[j]
       PROVE  volume'.len = Len(heap'[a])
  <2>1. DOMAIN points = 1..Len(points)
    BY <1>2
  <2>2. c.len = Len(points) /\ room = 0
    BY <1>5, <1>6, <1>14, <2>1
  <2> QED
    BY <1>2, <1>7, <1>8, <1>9, <2>2
<1> QED
  BY <1>8, <1>9, <1>11, <1>13, <1>14 DEF points

LEMMA MakeVolumeStep == IInv /\ MakeVolume => IInv' /\ \A p \in Partitions : Attached(p)' = Attached(p)
<1> SUFFICES ASSUME IInv, MakeVolume
             PROVE  IInv' /\ \A p \in Partitions : Attached(p)' = Attached(p)
  OBVIOUS
<1>1. /\ line > Len(input.mountinfo) /\ block \in input.graph.blocks /\ volume = NoVolume /\ todo = {}
      /\ HasFilesystem(block) /\ BackingOf(block) # {} /\ todo' = BackingOf(block)
      /\ UNCHANGED <<input, line, mounts, block, volumes, done>>
  BY DEF MakeVolume, AtBlock, IInv, Control
<1>2. /\ heap' \in Seq(Seq(Nat))
      /\ \A k \in DOMAIN heap : k \in DOMAIN heap' /\ heap'[k] = heap[k]
      /\ volume' \in Slice /\ volume'.id = VolumeID(block) /\ InHeap(volume)'
  BY MakeVolumeEffect
<1>3. /\ ~done /\ block \in Blocks /\ line \in Nat /\ Len(input.mountinfo) \in Nat
      /\ VolumeID(block) # 0 /\ BackingOf(block) \subseteq Partitions
  BY <1>1, InputFacts DEF IInv, Control, Blocks, BackingOf, Backing, Partitions
<1>4. Types'
  BY <1>1, <1>2, <1>3 DEF IInv, Types, Partitions
<1>5. Slices'
  <2>1. \A p : SlicesOf(p)' = SlicesOf(p)
    BY <1>1 DEF SlicesOf
  <2>2. \A s : InHeap(s) => InHeap(s)'
    BY <1>2 DEF InHeap
  <2> QED
    BY <1>1, <2>1, <2>2 DEF IInv, Slices, Partitions
<1>6. Control'
  <2>1. volume' # NoVolume /\ volume'.id = VolumeID(block)'
    BY <1>1, <1>2, <1>3, BlocksStay DEF NoVolume
  <2> QED
    BY <1>1, <1>2, <1>3, <2>1, BlocksStay DEF Control, NoVolume
<1>7. \A p \in Partitions : Attached(p)' = Attached(p)
  <2>1. \A b \in input.graph.blocks : b = block => ~(b < block)
    BY <1>3 DEF Blocks
  <2> QED
    BY <1>1, <2>1, BlocksStay DEF Attached
<1>8. Ids'
  BY <1>1, <1>7, IdsStay DEF IInv
<1> QED
  BY <1>4, <1>5, <1>6, <1>7, <1>8 DEF IInv

\* The volume of the current block is attached to p, the last of its partitions or not.
LEMMA AttachFacts ==
  ASSUME IInv, NEW p, AttachTo(p)
  PROVE  /\ p \in todo /\ p \in Partitions /\ todo' = todo \ {p}
         /\ UNCHANGED <<input, line, mounts, done>>
         /\ ~done /\ block \in input.graph.blocks /\ HasFilesystem(block) /\ p \in BackingOf(block)
         /\ volume.id = VolumeID(block) /\ volume.id # 0 /\ volume \in Slice /\ InHeap(volume)
         /\ todo' = {} => volume' = NoVolume /\ block' = block + 1
         /\ todo' # {} => volume' = volume /\ block' = block
<1>1. /\ p \in todo /\ todo' = todo \ {p} /\ UNCHANGED <<input, line, mounts, done>>
      /\ IF todo = {p} THEN volume' = NoVolume /\ block' = block + 1
                       ELSE UNCHANGED <<volume, block>>
  BY DEF AttachTo
<1>2. /\ p \in Partitions /\ volume \in Slice
      /\ block \in input.graph.blocks /\ HasFilesystem(block) /\ p \in BackingOf(block)
      /\ volume.id = VolumeID(block) /\ InHeap(volume)
  BY <1>1 DEF IInv, Types, Control
<1>3. block \in Blocks /\ VolumeID(block) # 0 /\ NBlocks \in Nat
  BY <1>2, InputFacts DEF IInv
<1>4. ~done
  BY <1>3 DEF IInv, Control, Blocks
<1>5. todo' = {} <=> todo = {p}
  BY <1>1
<1> QED
  BY <1>1, <1>2, <1>3, <1>4, <1>5

LEMMA AttachedGrows ==
  ASSUME IInv, NEW p, AttachTo(p)
  PROVE  /\ Attached(p)' = Attached(p) \cup {block}
         /\ \A q \in Partitions : q # p => Attached(q)' = Attached(q)
<1>1. /\ p \in todo /\ p \in Partitions /\ todo' = todo \ {p} /\ UNCHANGED <<input, mounts>>
      /\ block \in input.graph.blocks /\ HasFilesystem(block) /\ p \in BackingOf(block)
      /\ todo' = {} => block' = block + 1
      /\ todo' # {} => block' = block
  BY AttachFacts
<1>2. block \in Nat /\ \A b \in input.graph.blocks : b \in Nat
  BY InputFacts DEF IInv, Blocks
<1>3. ASSUME NEW q, NEW b \in input.graph.blocks
      PROVE  (b < block' \/ (b = block' /\ todo' # {} /\ q \notin todo')) <=>
               \/ b < block \/ (b = block /\ todo # {} /\ q \notin todo)
               \/ b = block /\ q = p
  <2>1. b \in Nat
    BY <1>2
  <2>2. CASE todo' = {}
    <3>1. \A e : e \in todo => e = p
      BY <1>1, <2>2
    <3>2. b < block' <=> b < block \/ b = block
      BY <1>1, <1>2, <2>1, <2>2
    <3> QED
      BY <1>1, <2>2, <3>1, <3>2
  <2>3. CASE todo' # {}
    <3>1. block' = block
      BY <1>1, <2>3
    <3> QED
      BY <1>1, <2>3, <3>1
  <2> QED
    BY <2>2, <2>3
<1>4. \A q : Attached(q)' = {b \in input.graph.blocks :
                               /\ HasFilesystem(b) /\ q \in BackingOf(b)
                               /\ \/ b < block \/ (b = block /\ todo # {} /\ q \notin todo)
                                  \/ b = block /\ q = p}
  BY <1>1, <1>3, BlocksStay DEF Attached
<1>5. \A q : q # p => Attached(q)' = Attached(q)
  BY <1>4 DEF Attached
<1>6. Attached(p)' = Attached(p) \cup {block}
  <2>1. Attached(p)' \subseteq Attached(p) \cup {block}
    BY <1>4 DEF Attached
  <2>2. Attached(p) \subseteq Attached(p)'
    BY <1>4 DEF Attached
  <2>3. block \in Attached(p)'
    BY <1>1, <1>4
  <2> QED
    BY <2>1, <2>2, <2>3
<1> QED
  BY <1>5, <1>6

\* What merging does to the heap and to the volume it merges into.
Merged(p, i, w) ==
    LET t == volumes[p][i]
    IN  /\ i \in DOMAIN volumes[p] /\ t.id = volume.id
        /\ w \in Slice /\ w.id = t.id
        /\ volumes' = [volumes EXCEPT ![p] = [@ EXCEPT ![i] = w]]
        /\ heap' \in Seq(Seq(Nat)) /\ w.array \in DOMAIN heap' /\ w.len \in 0..Len(heap'[w.array])
        /\ \A a \in DOMAIN heap :
             /\ a \in DOMAIN heap' /\ Len(heap'[a]) = Len(heap[a])
             /\ \A k \in 1..Len(heap[a]) : heap[a][k] # 0 => heap'[a][k] # 0
        /\ Increasing(heap'[w.array], w.len)
        /\ Members(heap'[w.array], w.len)
             = Members(heap[t.array], t.len) \cup Members(heap[volume.array], volume.len)
        /\ \/ w.array \notin DOMAIN heap /\ \A a \in DOMAIN heap : heap'[a] = heap[a]
           \/ /\ w.array = t.array /\ t.len + volume.len <= Len(heap[t.array])
              /\ \A a \in DOMAIN heap : a # t.array => heap'[a] = heap[a]
              /\ volume.len = 0 /\ Increasing(heap[t.array], t.len) => heap' = heap /\ w = t

LEMMA MergeVolumeEffect ==
  ASSUME IInv, NEW p, MergeVolume(p)
  PROVE  \E i, w : Merged(p, i, w)
<1>1. PICK i \in DOMAIN volumes[p], room \in Rooms :
        /\ volumes[p][i].id = volume.id
        /\ LET target == volumes[p][i]
               need   == target.len + volume.len
               old    == heap[target.array]
               inside == need <= Len(old)
               space  == IF inside THEN old ELSE Grown(old, need - Len(old) + room)
               filled == [k \in DOMAIN space |->
                            IF k \in (target.len + 1)..need
                            THEN heap[volume.array][k - target.len] ELSE space[k]]
               c == Compacted(filled, need)
           IN  /\ heap' = IF inside THEN [heap EXCEPT ![target.array] = c.array]
                                    ELSE Append(heap, c.array)
               /\ volumes' = [volumes EXCEPT ![p][i] =
                    [id |-> target.id, len |-> c.len,
                     array |-> IF inside THEN target.array ELSE Len(heap) + 1]]
  BY ZenonT(60) DEF MergeVolume
<1> DEFINE t == volumes[p][i]
           m == t.len
           n == volume.len
           old == heap[t.array]
           new == heap[volume.array]
           inside == m + n <= Len(old)
           space == IF inside THEN old ELSE Grown(old, (m + n) - Len(old) + room)
           filled == [k \in DOMAIN space |-> IF k \in (m + 1)..(m + n) THEN new[k - m] ELSE space[k]]
           c == Compacted(filled, m + n)
           w == [id |-> t.id, len |-> c.len, array |-> IF inside THEN t.array ELSE Len(heap) + 1]
<1>2. /\ heap' = IF inside THEN [heap EXCEPT ![t.array] = c.array] ELSE Append(heap, c.array)
      /\ volumes' = [volumes EXCEPT ![p] = [@ EXCEPT ![i] = w]]
      /\ t.id = volume.id
  BY <1>1
<1>3. /\ p \in Partitions /\ heap \in Seq(Seq(Nat)) /\ volume \in Slice /\ InHeap(volume)
      /\ t \in Slice /\ InHeap(t) /\ room \in Nat /\ volumes[p] \in Seq(Slice)
  <2>1. AttachTo(p)
    BY DEF MergeVolume
  <2>2. p \in Partitions /\ volume \in Slice /\ InHeap(volume)
    BY <2>1, AttachFacts
  <2>3. volumes[p] \in Seq(Slice) /\ t \in SlicesOf(p)
    BY <2>2 DEF IInv, Types, SlicesOf
  <2>4. t \in Slice
    BY <2>3
  <2>5. InHeap(t)
    BY <2>2, <2>3 DEF IInv, Slices
  <2> QED
    BY <2>2, <2>3, <2>4, <2>5, InputsAssumption DEF IInv, Types
<1>4. i \in DOMAIN volumes[p]
  BY <1>1
<1> HIDE DEF t
<1>5. /\ old \in Seq(Nat) /\ new \in Seq(Nat) /\ m \in 0..Len(old) /\ n \in 0..Len(new)
      /\ Len(old) \in Nat /\ Len(new) \in Nat /\ t.array \in DOMAIN heap
      /\ (\A k \in 1..m : old[k] # 0) /\ (\A k \in 1..n : new[k] # 0)
  <2>1. t.array \in DOMAIN heap /\ m \in 0..Len(old) /\ \A k \in 1..m : old[k] # 0
    BY <1>3 DEF InHeap
  <2>2. volume.array \in DOMAIN heap /\ n \in 0..Len(new) /\ \A k \in 1..n : new[k] # 0
    BY <1>3 DEF InHeap
  <2>3. old \in Seq(Nat) /\ new \in Seq(Nat)
    BY <1>3, <2>1, <2>2
  <2> HIDE DEF old, new, m, n
  <2> QED
    BY <2>1, <2>2, <2>3
<1> HIDE DEF old, new, m, n
<1>6. /\ space \in Seq(Nat) /\ m + n <= Len(space) /\ Len(old) <= Len(space)
      /\ \A k \in 1..Len(old) : space[k] = old[k]
  <2>1. CASE inside
    BY <1>5, <2>1
  <2>2. CASE ~inside
    <3>1. (m + n) - Len(old) + room \in Nat /\ Len(old) + ((m + n) - Len(old) + room) = m + n + room
      BY <1>3, <1>5, <2>2
    <3>2. /\ space \in Seq(Nat) /\ Len(space) = m + n + room
          /\ \A k \in 1..Len(old) : space[k] = old[k]
      BY <1>5, <2>2, <3>1, GrownFacts
    <3>3. m + n <= m + n + room /\ Len(old) <= m + n + room
      BY <1>3, <1>5, <2>2
    <3> QED
      BY <3>2, <3>3
  <2> QED
    BY <2>1, <2>2
<1>7. \A k \in 1..m : k \in 1..Len(old)
  BY <1>5
<1>8. inside => space = old
  OBVIOUS
<1> HIDE DEF space
<1>9. /\ c.array \in Seq(Nat) /\ Len(c.array) = Len(space) /\ c.len \in 0..(m + n)
      /\ Increasing(c.array, c.len)
      /\ Members(c.array, c.len) = Members(old, m) \cup Members(new, n)
      /\ \A k \in 1..Len(space) : space[k] # 0 => c.array[k] # 0
      /\ n = 0 /\ Increasing(old, m) => c.array = space /\ c.len = m
  <2>1. Merging(old, m, new, n, space, c)
    BY <1>5, <1>6, <1>7 DEF Merging
  <2> HIDE DEF c
  <2>2. Compact(old, m, new, n, space, c)
    BY <2>1, MergedFacts
  <2> QED
    BY <2>2 DEF Compact
<1> HIDE DEF c
<1>10. c.len \in Nat /\ c.len \in 0..Len(c.array) /\ Len(c.array) \in Nat
  <2>1. Len(c.array) \in Nat
    <3>1. c.array \in Seq(Nat)
      BY <1>9
    <3> QED
      BY <3>1
  <2>2. Len(c.array) = Len(space) /\ c.len \in 0..(m + n) /\ m + n <= Len(space)
    BY <1>6, <1>9
  <2>3. m + n \in Nat
    BY <1>5
  <2> HIDE DEF m, n, space
  <2> QED
    BY <2>1, <2>2, <2>3
<1>11. w \in Slice /\ w.id = t.id /\ w.len = c.len
  BY <1>3, <1>10 DEF Slice
<1>12. CASE inside
  <2>1. /\ heap' = [heap EXCEPT ![t.array] = c.array] /\ w.array = t.array
        /\ space = old
    BY <1>2, <1>8, <1>12
  <2>2. /\ heap' \in Seq(Seq(Nat)) /\ DOMAIN heap' = DOMAIN heap /\ heap'[t.array] = c.array
        /\ \A a \in DOMAIN heap : a # t.array => heap'[a] = heap[a]
    <3> DEFINE e == c.array
    <3>1. e \in Seq(Nat) /\ heap' = [heap EXCEPT ![t.array] = e]
      BY <1>9, <2>1
    <3> HIDE DEF e
    <3>2. heap' \in Seq(Seq(Nat))
      <4>1. /\ Len(heap) \in Nat /\ DOMAIN heap = 1..Len(heap)
            /\ \A a \in 1..Len(heap) : heap[a] \in Seq(Nat)
        <5>1. heap \in Seq(Seq(Nat))
          BY <1>3
        <5> QED
          BY <5>1
      <4>2. heap' = [a \in 1..Len(heap) |-> IF a = t.array THEN e ELSE heap[a]]
        BY <3>1, <4>1
      <4>3. heap' \in [1..Len(heap) -> Seq(Nat)]
        BY <3>1, <4>1, <4>2
      <4> QED
        BY <4>1, <4>3, FunctionIsSeq
    <3>3. DOMAIN heap' = DOMAIN heap /\ heap'[t.array] = e
      BY <1>3, <1>5, <3>1
    <3>4. \A a \in DOMAIN heap : a # t.array => heap'[a] = heap[a]
      BY <1>3, <1>5, <3>1
    <3> QED
      BY <3>2, <3>3, <3>4 DEF e
  <2>3. \A a \in DOMAIN heap :
          /\ Len(heap'[a]) = Len(heap[a])
          /\ \A k \in 1..Len(heap[a]) : heap[a][k] # 0 => heap'[a][k] # 0
    <3> SUFFICES ASSUME NEW a \in DOMAIN heap
                 PROVE  /\ Len(heap'[a]) = Len(heap[a])
                        /\ \A k \in 1..Len(heap[a]) : heap[a][k] # 0 => heap'[a][k] # 0
      OBVIOUS
    <3>1. CASE a = t.array
      BY <1>9, <2>1, <2>2, <3>1 DEF old
    <3>2. CASE a # t.array
      BY <2>2, <3>2
    <3> QED
      BY <3>1, <3>2
  <2>4. n = 0 /\ Increasing(old, m) => heap' = heap /\ w = t
    <3> SUFFICES ASSUME n = 0, Increasing(old, m)
                 PROVE  heap' = heap /\ w = t
      OBVIOUS
    <3>1. c.array = heap[t.array] /\ c.len = t.len
      BY <1>9, <2>1 DEF old, m
    <3>2. heap' = heap
      BY <1>3, <2>1, <3>1
    <3>3. w = t
      <4>1. w = [id |-> t.id, len |-> t.len, array |-> t.array]
        BY <1>12, <3>1
      <4> QED
        BY <1>3, <4>1 DEF Slice
    <3> QED
      BY <3>2, <3>3
  <2> HIDE DEF w
  <2>5. Merged(p, i, w)
    <3>1. t.len + volume.len <= Len(heap[t.array])
      BY <1>12 DEF m, n, old
    <3> QED
      BY <1>2, <1>4, <1>5, <1>9, <1>10, <1>11, <2>1, <2>2, <2>3, <2>4, <3>1
         DEF Merged, t, m, n, old, new
  <2> QED
    BY <2>5
<1>13. CASE ~inside
  <2>1. heap' = Append(heap, c.array) /\ w.array = Len(heap) + 1
    BY <1>2, <1>13
  <2>2. /\ heap' \in Seq(Seq(Nat)) /\ w.array \in DOMAIN heap' /\ heap'[w.array] = c.array
        /\ w.array \notin DOMAIN heap
        /\ \A a \in DOMAIN heap : a \in DOMAIN heap' /\ heap'[a] = heap[a]
    <3> DEFINE e == c.array
    <3>1. e \in Seq(Nat) /\ heap \in Seq(Seq(Nat)) /\ heap' = Append(heap, e)
      BY <1>3, <1>9, <2>1
    <3> HIDE DEF e, w
    <3> QED
      BY <2>1, <3>1 DEF e
  <2> HIDE DEF w
  <2>3. Merged(p, i, w)
    BY <1>2, <1>4, <1>9, <1>10, <1>11, <2>2 DEF Merged, t, m, n, old, new
  <2> QED
    BY <2>3
<1> QED
  BY <1>12, <1>13

\* The slices in the heap stay in the heap.
LEMMA HeapStays ==
  ASSUME heap \in Seq(Seq(Nat)), heap' \in Seq(Seq(Nat)),
         \A a \in DOMAIN heap :
           /\ a \in DOMAIN heap' /\ Len(heap'[a]) = Len(heap[a])
           /\ \A k \in 1..Len(heap[a]) : heap[a][k] # 0 => heap'[a][k] # 0
  PROVE  \A s : InHeap(s) =>
           /\ s.array \in DOMAIN heap' /\ s.len \in 0..Len(heap'[s.array])
           /\ \A k \in 1..s.len : heap'[s.array][k] # 0
<1> SUFFICES ASSUME NEW s, InHeap(s)
             PROVE  /\ s.array \in DOMAIN heap' /\ s.len \in 0..Len(heap'[s.array])
                    /\ \A k \in 1..s.len : heap'[s.array][k] # 0
  OBVIOUS
<1>1. s.array \in DOMAIN heap /\ s.len \in 0..Len(heap[s.array]) /\ Len(heap[s.array]) \in Nat
  BY DEF InHeap
<1>2. \A k \in 1..s.len : k \in 1..Len(heap[s.array]) /\ heap[s.array][k] # 0
  BY <1>1 DEF InHeap
<1> QED
  BY <1>1, <1>2

\* What both ways to attach a volume leave for the next step.
LEMMA AttachStep ==
  ASSUME IInv, NEW p, AttachTo(p), heap' \in Seq(Seq(Nat)),
         volumes' \in [Partitions -> Seq(Slice)],
         \A a \in DOMAIN heap :
           /\ a \in DOMAIN heap' /\ Len(heap'[a]) = Len(heap[a])
           /\ \A k \in 1..Len(heap[a]) : heap[a][k] # 0 => heap'[a][k] # 0,
         \A q \in Partitions : q # p => volumes'[q] = volumes[q],
         \A s \in SlicesOf(p)' : s.id # 0 /\ (s \in SlicesOf(p) \/ InHeap(s)')
  PROVE  Types' /\ Slices' /\ Control'
<1>1. /\ p \in todo /\ p \in Partitions /\ todo' = todo \ {p}
      /\ UNCHANGED <<input, line, mounts, done>>
      /\ ~done /\ block \in input.graph.blocks /\ HasFilesystem(block) /\ p \in BackingOf(block)
      /\ volume.id = VolumeID(block) /\ volume.id # 0 /\ volume \in Slice /\ InHeap(volume)
      /\ todo' = {} => volume' = NoVolume /\ block' = block + 1
      /\ todo' # {} => volume' = volume /\ block' = block
  BY AttachFacts
<1>2. block \in Blocks /\ NBlocks \in Nat /\ block \in 1..NBlocks
  BY <1>1, InputFacts DEF IInv, Blocks
<1>3. heap \in Seq(Seq(Nat))
  BY DEF IInv, Types
<1>4. \A s : InHeap(s) => InHeap(s)'
  <2> SUFFICES ASSUME NEW s, InHeap(s)
               PROVE  InHeap(s)'
    OBVIOUS
  <2>1. /\ s.array \in DOMAIN heap' /\ s.len \in 0..Len(heap'[s.array])
        /\ \A k \in 1..s.len : heap'[s.array][k] # 0
    BY <1>3, HeapStays
  <2> QED
    BY <2>1 DEF InHeap
<1>5. Types'
  <2>1. volume' \in Slice
    BY <1>1 DEF NoVolume, Slice
  <2>2. block' \in 1..(NBlocks + 1)
    BY <1>1, <1>2
  <2> QED
    BY <1>1, <2>1, <2>2 DEF IInv, Types, Partitions
<1>6. Slices'
  <2>1. \A q \in Partitions : q # p => SlicesOf(q)' = SlicesOf(q)
    BY DEF SlicesOf
  <2>2. ASSUME NEW q \in Partitions, NEW s \in SlicesOf(q)'
        PROVE  s.id # 0 /\ InHeap(s)'
    <3>1. CASE s \in SlicesOf(q)
      <4>1. s.id # 0 /\ InHeap(s)
        BY <3>1 DEF IInv, Slices
      <4> QED
        BY <1>4, <4>1
    <3>2. CASE s \notin SlicesOf(q)
      <4>1. q = p
        BY <2>1, <2>2, <3>2
      <4> QED
        BY <2>2, <3>2, <4>1
    <3> QED
      BY <3>1, <3>2
  <2>3. Partitions' = Partitions
    BY <1>1 DEF Partitions
  <2> QED
    BY <2>2, <2>3 DEF Slices
<1>7. Control'
  <2>1. line > Len(input.mountinfo) /\ line \in Nat /\ Len(input.mountinfo) \in Nat
    BY <1>1, InputFacts DEF IInv, Control
  <2>2. todo' = {} <=> volume' = NoVolume
    BY <1>1 DEF NoVolume
  <2>3. todo' # {} => /\ HasFilesystem(block)' /\ todo' \subseteq BackingOf(block)'
                      /\ volume'.id = VolumeID(block)' /\ InHeap(volume)'
    <3>1. ASSUME todo' # {}
          PROVE  volume' = volume /\ block' = block
      BY <1>1, <3>1
    <3>2. todo' \subseteq BackingOf(block)
      BY <1>1 DEF IInv, Control
    <3>3. ASSUME todo' # {}
          PROVE  InHeap(volume)'
      <4>1. InHeap(volume)' <=> /\ volume'.array \in DOMAIN heap'
                                /\ volume'.len \in 0..Len(heap'[volume'.array])
                                /\ \A k \in 1..volume'.len : heap'[volume'.array][k] # 0
        BY DEF InHeap
      <4>2. /\ volume.array \in DOMAIN heap' /\ volume.len \in 0..Len(heap'[volume.array])
            /\ \A k \in 1..volume.len : heap'[volume.array][k] # 0
        BY <1>1, <1>3, HeapStays
      <4> QED
        BY <3>1, <3>3, <4>1, <4>2
    <3>4. ASSUME todo' # {}
          PROVE  HasFilesystem(block)' /\ BackingOf(block)' = BackingOf(block) /\ VolumeID(block)' = VolumeID(block)
      BY <1>1, <3>1, <3>4 DEF HasFilesystem, BackingOf, VolumeID
    <3> QED
      BY <1>1, <3>1, <3>2, <3>3, <3>4
  <2> QED
    BY <1>1, <2>1, <2>2, <2>3 DEF Control
<1> QED
  BY <1>5, <1>6, <1>7

LEMMA AppendVolumeEffect ==
  ASSUME IInv, NEW p, AppendVolume(p)
  PROVE  /\ heap' = heap /\ volumes' \in [Partitions -> Seq(Slice)]
         /\ volumes'[p] = Append(volumes[p], volume)
         /\ \A q \in Partitions : q # p => volumes'[q] = volumes[q]
         /\ SlicesOf(p)' = SlicesOf(p) \cup {volume}
         /\ IdsOf(p)' = IdsOf(p) \cup {volume.id}
         /\ \A s \in SlicesOf(p) : s.id # volume.id
         /\ \A i, j \in DOMAIN volumes'[p] : volumes'[p][i].id = volumes'[p][j].id => i = j
<1>1. AttachTo(p)
  BY DEF AppendVolume
<1>2. p \in Partitions /\ volume \in Slice
  BY <1>1, AttachFacts
<1>3. /\ heap' = heap /\ volumes' = [volumes EXCEPT ![p] = Append(@, volume)]
      /\ \A i \in DOMAIN volumes[p] : volumes[p][i].id # volume.id
  BY DEF AppendVolume
<1>4. volumes \in [Partitions -> Seq(Slice)] /\ volumes[p] \in Seq(Slice)
  BY <1>2 DEF IInv, Types
<1>5. /\ volumes' \in [Partitions -> Seq(Slice)] /\ volumes'[p] = Append(volumes[p], volume)
      /\ \A q \in Partitions : q # p => volumes'[q] = volumes[q]
  BY <1>2, <1>3, <1>4
<1> DEFINE s == volumes[p]
           n == Len(s) + 1
<1>6. /\ DOMAIN s = 1..Len(s) /\ Len(s) \in Nat /\ DOMAIN Append(s, volume) = 1..n
      /\ Append(s, volume)[n] = volume
      /\ \A i \in 1..Len(s) : Append(s, volume)[i] = s[i]
  BY <1>2, <1>4
<1>7. \A i \in 1..n : i \in 1..Len(s) \/ i = n
  BY <1>6
<1>8. n \in 1..n /\ n \notin 1..Len(s) /\ \A i \in 1..Len(s) : i \in 1..n
  BY <1>6
<1> HIDE DEF n
<1>9. SlicesOf(p)' = SlicesOf(p) \cup {volume}
  BY <1>5, <1>6, <1>7, <1>8 DEF SlicesOf
<1>10. IdsOf(p)' = IdsOf(p) \cup {volume.id}
  BY <1>5, <1>6, <1>7, <1>8 DEF IdsOf
<1>11. \A i, j \in DOMAIN volumes'[p] : volumes'[p][i].id = volumes'[p][j].id => i = j
  <2>1. \A i, j \in DOMAIN s : s[i].id = s[j].id => i = j
    BY <1>2 DEF IInv, Ids
  <2> QED
    BY <1>3, <1>5, <1>6, <1>7, <2>1
<1>12. \A t \in SlicesOf(p) : t.id # volume.id
  BY <1>3 DEF SlicesOf
<1> QED
  BY <1>3, <1>5, <1>9, <1>10, <1>11, <1>12

\* The ids of the partition the volume is attached to.
LEMMA IdsGrow ==
  ASSUME IInv, NEW p, AttachTo(p),
         \A q \in Partitions : q # p => volumes'[q] = volumes[q],
         \A i, j \in DOMAIN volumes'[p] : volumes'[p][i].id = volumes'[p][j].id => i = j,
         IdsOf(p)' = IdsOf(p) \cup {volume.id}
  PROVE  Ids'
<1>1. /\ p \in Partitions /\ UNCHANGED <<input, mounts, done>> /\ ~done
      /\ volume.id = VolumeID(block)
  BY AttachFacts
<1>2. /\ Attached(p)' = Attached(p) \cup {block}
      /\ \A q \in Partitions : q # p => Attached(q)' = Attached(q)
  BY AttachedGrows
<1>3. Partitions' = Partitions /\ \A b : VolumeID(b)' = VolumeID(b)
  BY <1>1, BlocksStay
<1>4. ASSUME NEW q \in Partitions
      PROVE  /\ \A i, j \in DOMAIN volumes'[q] : volumes'[q][i].id = volumes'[q][j].id => i = j
             /\ IdsOf(q)' = {VolumeID(b) : b \in Attached(q)'}
  <2>1. /\ \A i, j \in DOMAIN volumes[q] : volumes[q][i].id = volumes[q][j].id => i = j
        /\ IdsOf(q) = {VolumeID(b) : b \in Attached(q)}
    BY DEF IInv, Ids
  <2>2. CASE q # p
    <3>1. volumes'[q] = volumes[q] /\ Attached(q)' = Attached(q)
      BY <1>2, <2>2
    <3>2. IdsOf(q)' = IdsOf(q)
      BY <3>1 DEF IdsOf
    <3> QED
      BY <2>1, <3>1, <3>2
  <2>3. CASE q = p
    <3>1. IdsOf(p)' = {VolumeID(b) : b \in Attached(p)} \cup {VolumeID(block)}
      BY <1>1, <2>1, <2>3
    <3>2. {VolumeID(b) : b \in Attached(p)} \cup {VolumeID(block)}
            = {VolumeID(b) : b \in Attached(p) \cup {block}}
      OBVIOUS
    <3> QED
      BY <1>2, <2>3, <3>1, <3>2
  <2> QED
    BY <2>2, <2>3
<1>5. \A q \in Partitions : {VolumeID(b) : b \in Attached(q)}' = {VolumeID(b) : b \in Attached(q)'}
  BY <1>3
<1> QED
  BY <1>1, <1>3, <1>4, <1>5 DEF Ids

LEMMA AppendVolumeStep == ASSUME NEW p PROVE IInv /\ AppendVolume(p) => IInv'
<1> SUFFICES ASSUME IInv, AppendVolume(p) PROVE IInv'
  OBVIOUS
<1>1. AttachTo(p)
  BY DEF AppendVolume
<1>2. volume.id # 0 /\ InHeap(volume) /\ heap \in Seq(Seq(Nat)) /\ p \in Partitions
  BY <1>1, AttachFacts DEF IInv, Types
<1>3. /\ heap' = heap /\ volumes' \in [Partitions -> Seq(Slice)]
      /\ \A q \in Partitions : q # p => volumes'[q] = volumes[q]
      /\ SlicesOf(p)' = SlicesOf(p) \cup {volume}
      /\ IdsOf(p)' = IdsOf(p) \cup {volume.id}
      /\ \A i, j \in DOMAIN volumes'[p] : volumes'[p][i].id = volumes'[p][j].id => i = j
  BY AppendVolumeEffect
<1>4. \A s \in SlicesOf(p) : s.id # 0
  BY <1>2 DEF IInv, Slices
<1>5. ASSUME NEW s \in SlicesOf(p)'
      PROVE  s.id # 0 /\ (s \in SlicesOf(p) \/ InHeap(s)')
  <2>1. s \in SlicesOf(p) \/ s = volume
    BY <1>3, <1>5
  <2>2. ASSUME s = volume
        PROVE  InHeap(s)'
    BY <1>2, <1>3, <2>2 DEF InHeap
  <2> QED
    BY <1>2, <1>4, <2>1, <2>2
<1>6. Types' /\ Slices' /\ Control'
  BY <1>1, <1>2, <1>3, <1>5, AttachStep
<1>7. Ids'
  BY <1>1, <1>3, IdsGrow
<1> QED
  BY <1>6, <1>7 DEF IInv

LEMMA MergedSlices ==
  ASSUME IInv, NEW p, MergeVolume(p), NEW i, NEW w, Merged(p, i, w)
  PROVE  /\ volumes' \in [Partitions -> Seq(Slice)] /\ i \in DOMAIN volumes[p]
         /\ \A q \in Partitions : q # p => volumes'[q] = volumes[q]
         /\ DOMAIN volumes'[p] = DOMAIN volumes[p] /\ volumes'[p][i] = w
         /\ w.id = volumes[p][i].id /\ volumes[p][i].id = volume.id
         /\ \A j \in DOMAIN volumes[p] : j # i => volumes'[p][j] = volumes[p][j]
         /\ \A j \in DOMAIN volumes[p] : volumes'[p][j].id = volumes[p][j].id
         /\ InHeap(w)'
<1>1. p \in Partitions
  <2>1. AttachTo(p)
    BY DEF MergeVolume
  <2> QED
    BY <2>1, AttachFacts
<1>2. volumes \in [Partitions -> Seq(Slice)] /\ volumes[p] \in Seq(Slice)
  BY <1>1 DEF IInv, Types
<1>3. /\ i \in DOMAIN volumes[p] /\ volumes[p][i].id = volume.id /\ w \in Slice
      /\ w.id = volumes[p][i].id
      /\ volumes' = [volumes EXCEPT ![p] = [@ EXCEPT ![i] = w]]
  BY DEF Merged
<1> DEFINE new == [volumes[p] EXCEPT ![i] = w]
<1>4. /\ new \in Seq(Slice) /\ DOMAIN new = DOMAIN volumes[p] /\ new[i] = w
      /\ \A j \in DOMAIN volumes[p] : j # i => new[j] = volumes[p][j]
  BY <1>2, <1>3
<1>5. volumes' = [volumes EXCEPT ![p] = new]
  BY <1>3
<1> HIDE DEF new
<1>6. /\ volumes' \in [Partitions -> Seq(Slice)] /\ volumes'[p] = new
      /\ \A q \in Partitions : q # p => volumes'[q] = volumes[q]
  BY <1>1, <1>2, <1>4, <1>5
<1>7. InHeap(w)'
  <2> DEFINE t == volumes[p][i]
  <2>1. /\ w.array \in DOMAIN heap' /\ w.len \in 0..Len(heap'[w.array])
        /\ Members(heap'[w.array], w.len)
             = Members(heap[t.array], t.len) \cup Members(heap[volume.array], volume.len)
    BY DEF Merged
  <2>2. (\A k \in 1..t.len : heap[t.array][k] # 0) /\ \A k \in 1..volume.len : heap[volume.array][k] # 0
    <3>1. AttachTo(p)
      BY DEF MergeVolume
    <3>2. InHeap(volume)
      BY <3>1, AttachFacts
    <3>3. InHeap(t)
      BY <1>1, <1>3 DEF IInv, Slices, SlicesOf
    <3> QED
      BY <3>2, <3>3 DEF InHeap
  <2> HIDE DEF t
  <2>3. 0 \notin Members(heap'[w.array], w.len)
    BY <2>1, <2>2 DEF Members
  <2>4. \A k \in 1..w.len : heap'[w.array][k] # 0
    BY <2>3 DEF Members
  <2> QED
    BY <2>1, <2>4 DEF InHeap
<1> QED
  BY <1>3, <1>4, <1>6, <1>7

LEMMA MergeVolumeStep == ASSUME NEW p PROVE IInv /\ MergeVolume(p) => IInv'
<1> SUFFICES ASSUME IInv, MergeVolume(p) PROVE IInv'
  OBVIOUS
<1>1. AttachTo(p)
  BY DEF MergeVolume
<1>2. PICK i, w : Merged(p, i, w)
  BY MergeVolumeEffect
<1>3. p \in Partitions /\ volume.id # 0
  BY <1>1, AttachFacts
<1>4. /\ volumes' \in [Partitions -> Seq(Slice)] /\ i \in DOMAIN volumes[p]
      /\ \A q \in Partitions : q # p => volumes'[q] = volumes[q]
      /\ DOMAIN volumes'[p] = DOMAIN volumes[p] /\ volumes'[p][i] = w
      /\ w.id = volumes[p][i].id /\ volumes[p][i].id = volume.id
      /\ \A j \in DOMAIN volumes[p] : j # i => volumes'[p][j] = volumes[p][j]
      /\ \A j \in DOMAIN volumes[p] : volumes'[p][j].id = volumes[p][j].id
      /\ InHeap(w)'
  BY <1>2, MergedSlices
<1>5. ASSUME NEW s \in SlicesOf(p)'
      PROVE  s.id # 0 /\ (s \in SlicesOf(p) \/ InHeap(s)')
  <2>1. PICK j \in DOMAIN volumes[p] : s = volumes'[p][j]
    BY <1>4 DEF SlicesOf
  <2>2. CASE j = i
    BY <1>3, <1>4, <2>1, <2>2
  <2>3. CASE j # i
    <3>1. s \in SlicesOf(p)
      BY <1>4, <2>1, <2>3 DEF SlicesOf
    <3> QED
      BY <1>3, <3>1 DEF IInv, Slices
  <2> QED
    BY <2>2, <2>3
<1>6. Types' /\ Slices' /\ Control'
  <2>1. /\ heap' \in Seq(Seq(Nat))
        /\ \A a \in DOMAIN heap :
             /\ a \in DOMAIN heap' /\ Len(heap'[a]) = Len(heap[a])
             /\ \A k \in 1..Len(heap[a]) : heap[a][k] # 0 => heap'[a][k] # 0
    BY <1>2 DEF Merged
  <2> QED
    BY <1>1, <1>4, <1>5, <2>1, AttachStep
<1>7. Ids'
  <2>1. \A j, k \in DOMAIN volumes'[p] : volumes'[p][j].id = volumes'[p][k].id => j = k
    BY <1>3, <1>4 DEF IInv, Ids
  <2>2. IdsOf(p)' = IdsOf(p)
    BY <1>4 DEF IdsOf
  <2>3. volume.id \in IdsOf(p)
    BY <1>4 DEF IdsOf
  <2>4. IdsOf(p)' = IdsOf(p) \cup {volume.id}
    BY <2>2, <2>3
  <2> QED
    BY <1>1, <1>4, <2>1, <2>4, IdsGrow
<1> QED
  BY <1>6, <1>7 DEF IInv

\* Sorting the volumes of a partition by their ids.
LEMMA SortedSlices ==
  ASSUME NEW s \in Seq(Slice), \A i, j \in DOMAIN s : s[i].id = s[j].id => i = j
  PROVE  LET t == SortedBy(s, [i \in DOMAIN s |-> s[i].id])
         IN  /\ t \in Seq(Slice) /\ DOMAIN t = DOMAIN s
             /\ \A i, j \in DOMAIN t : i < j => t[i].id < t[j].id
             /\ \A i \in DOMAIN t : \E k \in DOMAIN s : t[i] = s[k]
             /\ \A k \in DOMAIN s : \E i \in DOMAIN t : t[i] = s[k]
<1> DEFINE n == Len(s)
           key == [i \in DOMAIN s |-> s[i].id]
           t == SortedBy(s, key)
<1>1. n \in Nat /\ DOMAIN s = 1..n /\ \A i \in 1..n : s[i] \in Slice
  OBVIOUS
<1>2. \A i \in 1..n : s[i].id \in Nat /\ s[i].id \in Int /\ key[i] = s[i].id
  BY <1>1 DEF Slice
<1>3. key \in [1..n -> Int]
  BY <1>1, <1>2
<1> HIDE DEF key, n
<1>4. PICK p : Sorting(n, key, p) /\ t = [i \in 1..n |-> s[p[i]]]
  <2>1. n \in Nat /\ DOMAIN s = 1..n
    BY <1>1
  <2>2. ByKey(n, s, key)
    BY <1>3, <2>1, SortedByOrder
  <2> QED
    BY <2>2 DEF ByKey
<1> HIDE DEF t
<1>5. p \in [1..n -> 1..n] /\ \A i, j \in 1..n : i < j => p[i] # p[j] /\ key[p[i]] <= key[p[j]]
  BY <1>4 DEF Sorting
<1>6. \A k \in 1..n : \E i \in 1..n : p[i] = k
  <2>1. \A i, j \in 1..n : i < j => p[i] # p[j]
    BY <1>5
  <2>2. n \in Nat /\ p \in [1..n -> 1..n]
    BY <1>1, <1>5
  <2> QED
    BY <2>1, <2>2, PlacesOnto
<1>7. DOMAIN t = 1..n /\ \A i \in 1..n : t[i] = s[p[i]] /\ p[i] \in 1..n
  BY <1>4, <1>5
<1>8. t \in Seq(Slice)
  <2>1. t \in [1..n -> Slice]
    BY <1>1, <1>4, <1>7
  <2> QED
    BY <1>1, <2>1, FunctionIsSeq
<1>9. ASSUME NEW i \in 1..n, NEW j \in 1..n, i < j
      PROVE  t[i].id < t[j].id
  <2>1. p[i] # p[j] /\ s[p[i]].id <= s[p[j]].id
    <3>1. p[i] # p[j] /\ key[p[i]] <= key[p[j]] /\ p[i] \in 1..n /\ p[j] \in 1..n
      BY <1>5, <1>7, <1>9
    <3> QED
      BY <1>2, <3>1
  <2>2. s[p[i]].id # s[p[j]].id
    BY <1>1, <1>7, <2>1
  <2>3. s[p[i]].id \in Nat /\ s[p[j]].id \in Nat
    BY <1>2, <1>7
  <2>4. s[p[i]].id < s[p[j]].id
    <3>1. \A a, b \in Nat : a <= b /\ a # b => a < b
      OBVIOUS
    <3> QED
      BY <2>1, <2>2, <2>3, <3>1, Zenon
  <2>5. t[i] = s[p[i]] /\ t[j] = s[p[j]]
    BY <1>7
  <2> QED
    BY <2>4, <2>5, Zenon
<1>10. \A i \in 1..n : \E k \in 1..n : t[i] = s[k]
  BY <1>7
<1>11. ASSUME NEW k \in 1..n
       PROVE  \E i \in 1..n : t[i] = s[k]
  <2>1. PICK i \in 1..n : p[i] = k
    BY <1>6
  <2>2. t[i] = s[k]
    BY <1>7, <2>1
  <2> QED
    BY <2>2
<1> QED
  BY <1>1, <1>7, <1>8, <1>9, <1>10, <1>11 DEF t, key

LEMMA SameElements ==
  ASSUME NEW s, NEW t,
         \A i \in DOMAIN t : \E k \in DOMAIN s : t[i] = s[k],
         \A k \in DOMAIN s : \E i \in DOMAIN t : t[i] = s[k]
  PROVE  {t[i] : i \in DOMAIN t} = {s[k] : k \in DOMAIN s}
<1>1. {t[i] : i \in DOMAIN t} \subseteq {s[k] : k \in DOMAIN s}
  OBVIOUS
<1>2. {s[k] : k \in DOMAIN s} \subseteq {t[i] : i \in DOMAIN t}
  OBVIOUS
<1> QED
  BY <1>1, <1>2

LEMMA IdsOfElements ==
  ASSUME NEW s
  PROVE  {s[i].id : i \in DOMAIN s} = {x.id : x \in {s[i] : i \in DOMAIN s}}
OBVIOUS

LEMMA SortVolumesEffect ==
  ASSUME IInv, SortVolumes
  PROVE  /\ UNCHANGED <<input, line, mounts, block, volume, todo, heap>>
         /\ done' = TRUE /\ todo = {} /\ line > Len(input.mountinfo) /\ block = NBlocks + 1
         /\ volumes' \in [Partitions -> Seq(Slice)]
         /\ \A p \in Partitions :
              /\ SlicesOf(p)' = SlicesOf(p) /\ IdsOf(p)' = IdsOf(p)
              /\ \A i, j \in DOMAIN volumes'[p] : i < j => volumes'[p][i].id < volumes'[p][j].id
<1>1. /\ UNCHANGED <<input, line, mounts, block, volume, todo, heap>>
      /\ done' = TRUE /\ line > Len(input.mountinfo) /\ block > NBlocks
      /\ volumes' = [p \in Partitions |->
                       SortedBy(volumes[p], [i \in DOMAIN volumes[p] |-> volumes[p][i].id])]
  BY DEF SortVolumes
<1>2. NBlocks \in Nat /\ block \in 1..(NBlocks + 1) /\ input.graph.blocks \subseteq Blocks
  BY InputFacts DEF IInv, Types
<1>3. block = NBlocks + 1 /\ block \notin Blocks
  BY <1>1, <1>2 DEF Blocks
<1>4. todo = {}
  BY <1>2, <1>3 DEF IInv, Control
<1>5. ASSUME NEW p \in Partitions
      PROVE  /\ volumes'[p] \in Seq(Slice)
             /\ SlicesOf(p)' = SlicesOf(p) /\ IdsOf(p)' = IdsOf(p)
             /\ \A i, j \in DOMAIN volumes'[p] : i < j => volumes'[p][i].id < volumes'[p][j].id
  <2> DEFINE s == volumes[p]
             t == SortedBy(s, [i \in DOMAIN s |-> s[i].id])
  <2>1. s \in Seq(Slice) /\ \A i, j \in DOMAIN s : s[i].id = s[j].id => i = j
    BY DEF IInv, Types, Ids
  <2>2. volumes'[p] = t
    BY <1>1
  <2> HIDE DEF s
  <2>3. /\ t \in Seq(Slice) /\ DOMAIN t = DOMAIN s
        /\ \A i, j \in DOMAIN t : i < j => t[i].id < t[j].id
        /\ \A i \in DOMAIN t : \E k \in DOMAIN s : t[i] = s[k]
        /\ \A k \in DOMAIN s : \E i \in DOMAIN t : t[i] = s[k]
    BY <2>1, SortedSlices
  <2> HIDE DEF t
  <2>4. SlicesOf(p)' = SlicesOf(p)
    <3>1. SlicesOf(p)' = {t[i] : i \in DOMAIN t} /\ SlicesOf(p) = {s[k] : k \in DOMAIN s}
      BY <2>2 DEF SlicesOf, s
    <3> QED
      BY <2>3, <3>1, SameElements
  <2>5. IdsOf(p)' = IdsOf(p)
    <3>1. IdsOf(p)' = {t[i].id : i \in DOMAIN t} /\ IdsOf(p) = {s[k].id : k \in DOMAIN s}
      BY <2>2 DEF IdsOf, s
    <3>2. {t[i] : i \in DOMAIN t} = {s[k] : k \in DOMAIN s}
      BY <2>3, SameElements
    <3>3. /\ {t[i].id : i \in DOMAIN t} = {x.id : x \in {t[i] : i \in DOMAIN t}}
          /\ {s[i].id : i \in DOMAIN s} = {x.id : x \in {s[i] : i \in DOMAIN s}}
      BY IdsOfElements
    <3> QED
      BY <3>1, <3>2, <3>3
  <2> QED
    BY <2>2, <2>3, <2>4, <2>5
<1>6. volumes' \in [Partitions -> Seq(Slice)]
  BY <1>1, <1>5
<1> QED
  BY <1>1, <1>3, <1>4, <1>5, <1>6

LEMMA SortVolumesStep == IInv /\ SortVolumes => IInv' /\ \A p \in Partitions : Attached(p)' = Attached(p)
<1> SUFFICES ASSUME IInv, SortVolumes
             PROVE  IInv' /\ \A p \in Partitions : Attached(p)' = Attached(p)
  OBVIOUS
<1>1. /\ UNCHANGED <<input, line, mounts, block, volume, todo, heap>>
      /\ done' = TRUE /\ todo = {} /\ line > Len(input.mountinfo) /\ block = NBlocks + 1
      /\ volumes' \in [Partitions -> Seq(Slice)]
  BY SortVolumesEffect
<1>2. \A p \in Partitions :
        /\ SlicesOf(p)' = SlicesOf(p) /\ IdsOf(p)' = IdsOf(p)
        /\ \A i, j \in DOMAIN volumes'[p] : i < j => volumes'[p][i].id < volumes'[p][j].id
  BY SortVolumesEffect
<1>3. Partitions' = Partitions
  BY <1>1 DEF Partitions
<1>4. Types'
  BY <1>1, <1>3 DEF IInv, Types
<1>5. Slices'
  <2>1. \A s : InHeap(s)' <=> InHeap(s)
    BY <1>1 DEF InHeap
  <2> QED
    BY <1>2, <1>3, <2>1 DEF IInv, Slices
<1>6. Control'
  BY <1>1 DEF IInv, Control, NoVolume
<1>7. \A p \in Partitions : Attached(p)' = Attached(p)
  BY <1>1, BlocksStay DEF Attached
<1>8. Ids'
  <2>1. \A b : VolumeID(b)' = VolumeID(b)
    BY <1>1, BlocksStay
  <2>2. ASSUME NEW p \in Partitions
        PROVE  /\ \A i, j \in DOMAIN volumes'[p] : volumes'[p][i].id = volumes'[p][j].id => i = j
               /\ IdsOf(p)' = {VolumeID(b) : b \in Attached(p)}
    <3>1. IdsOf(p)' = {VolumeID(b) : b \in Attached(p)}
      BY <1>2 DEF IInv, Ids
    <3>2. volumes'[p] \in Seq(Slice)
      BY <1>1
    <3>3. ASSUME NEW i \in DOMAIN volumes'[p], NEW j \in DOMAIN volumes'[p], i # j
          PROVE  volumes'[p][i].id # volumes'[p][j].id
      <4>1. i \in Nat /\ j \in Nat /\ volumes'[p][i] \in Slice /\ volumes'[p][j] \in Slice
        BY <3>2
      <4>2. volumes'[p][i].id \in Nat /\ volumes'[p][j].id \in Nat
        BY <4>1 DEF Slice
      <4>3. i < j \/ j < i
        BY <3>3, <4>1
      <4>4. volumes'[p][i].id < volumes'[p][j].id \/ volumes'[p][j].id < volumes'[p][i].id
        BY <1>2, <4>3
      <4> QED
        BY <4>2, <4>4
    <3> QED
      BY <3>1, <3>3
  <2>3. \A p \in Partitions : {VolumeID(b) : b \in Attached(p)}' = {VolumeID(b) : b \in Attached(p)}
    BY <1>7, <2>1
  <2> QED
    BY <1>2, <1>3, <2>2, <2>3 DEF Ids
<1> QED
  BY <1>4, <1>5, <1>6, <1>7, <1>8 DEF IInv

LEMMA StutterStep == IInv /\ UNCHANGED vars => IInv'
<1> SUFFICES ASSUME IInv, UNCHANGED vars PROVE IInv'
  OBVIOUS
<1>1. UNCHANGED <<input, line, mounts, block, volume, todo, volumes, heap, done>>
  BY DEF vars
<1>2. Types'
  BY <1>1 DEF IInv, Types, Partitions
<1>3. Slices'
  BY <1>1 DEF IInv, Slices, SlicesOf, InHeap, Partitions
<1>4. Control'
  BY <1>1, BlocksStay DEF IInv, Control, InHeap, NoVolume
<1>5. \A p \in Partitions : Attached(p)' = Attached(p)
  BY <1>1, BlocksStay DEF Attached
<1>6. Ids'
  BY <1>1, <1>5, IdsStay DEF IInv
<1> QED
  BY <1>2, <1>3, <1>4, <1>6 DEF IInv

\* Every state satisfies the invariant.
THEOREM Invariance == Spec => []IInv
<1>1. IInv /\ [Next]_vars => IInv'
  <2> SUFFICES ASSUME IInv, [Next]_vars PROVE IInv'
    OBVIOUS
  <2>1. CASE ReadLine
    BY <2>1, ReadLineStep
  <2>2. CASE SkipBlock
    BY <2>2, SkipBlockStep
  <2>3. CASE MakeVolume
    BY <2>3, MakeVolumeStep
  <2>4. CASE SortVolumes
    BY <2>4, SortVolumesStep
  <2>5. CASE \E p \in Partitions : AppendVolume(p)
    BY <2>5, AppendVolumeStep
  <2>6. CASE \E p \in Partitions : MergeVolume(p)
    BY <2>6, MergeVolumeStep
  <2>7. CASE UNCHANGED vars
    BY <2>7, StutterStep
  <2> QED
    BY <2>1, <2>2, <2>3, <2>4, <2>5, <2>6, <2>7 DEF Next
<1> QED
  BY <1>1, InitIInv, PTL DEF Spec

\* Every slice stays inside an array of the heap, and the reading, attaching and
\* sorting of attachLinuxVolumes never meets a value of another kind.
THEOREM TypeCorrect == Spec => []TypeOK
<1>1. IInv => TypeOK
  <2> SUFFICES ASSUME IInv PROVE TypeOK
    OBVIOUS
  <2>1. Machine(input)
    BY InputFacts DEF IInv
  <2>2. \A i \in DOMAIN heap : heap[i] \in Seq(Nat)
    BY DEF IInv, Types
  <2>3. \A p \in Partitions : \A i \in DOMAIN volumes[p] :
          LET v == volumes[p][i]
          IN  v.id # 0 /\ v.array \in DOMAIN heap /\ v.len \in 0..Len(heap[v.array])
    BY DEF IInv, Slices, SlicesOf, InHeap
  <2> QED
    BY <2>1, <2>2, <2>3 DEF IInv, Types, TypeOK
<1> QED
  BY <1>1, Invariance, PTL

\* VolumesExact, for every mount table and every graph of devices: each
\* partition lists, once and in order, the volumes of the blocks it carries.
THEOREM ExactlyTheirVolumes == Spec => []VolumesExact
<1>1. IInv => VolumesExact
  <2> SUFFICES ASSUME IInv, done, NEW p \in Partitions
               PROVE  /\ \A i, j \in DOMAIN volumes[p] : i < j => volumes[p][i].id < volumes[p][j].id
                      /\ IdsOf(p) = {VolumeID(b) : b \in {c \in input.graph.blocks :
                                                   HasFilesystem(c) /\ p \in BackingOf(c)}}
    BY DEF VolumesExact, IdsOf
  <2>1. block = NBlocks + 1 /\ NBlocks \in Nat /\ \A b \in input.graph.blocks : b \in Blocks
    BY InputFacts DEF IInv, Control
  <2>2. \A b \in input.graph.blocks : b < block
    BY <2>1 DEF Blocks
  <2>3. Attached(p) = {c \in input.graph.blocks : HasFilesystem(c) /\ p \in BackingOf(c)}
    BY <2>2 DEF Attached
  <2> QED
    BY <2>3 DEF IInv, Ids
<1> QED
  BY <1>1, Invariance, PTL

-------------------------------------------------------------------------------
(****************************************************************************)
(* Where the mount points are right.  Merging in place is harmless as long  *)
(* as an array with room is in one partition only: the mount points of a    *)
(* block either fill the array they are copied to, or go to one partition.  *)
(****************************************************************************)
\* The lines of the mount table about b.
LinesOf(in, b) == {n \in DOMAIN in.mountinfo : Target(in.mountinfo[n]) = b}

\* No path is mounted twice, and there are few enough to be allocated exactly.
Snug(in, b) ==
    /\ Cardinality(LinesOf(in, b)) <= Exact
    /\ \A m, n \in LinesOf(in, b) : in.mountinfo[m].path = in.mountinfo[n].path => m = n

Unshared(in, b) == \A p, q \in Backing(in.graph, b, Blocks) : p = q

RoomNeverShared == \A in \in Inputs : \A b \in Blocks : Snug(in, b) \/ Unshared(in, b)

\* The mount points of a block are the paths of lines that have been read.
FromLines ==
    \A b \in Blocks : \E f \in [1..Len(mounts[b].points) -> LinesOf(input, b)] :
      /\ \A i \in DOMAIN f : f[i] < line /\ mounts[b].points[i] = input.mountinfo[f[i]].path
      /\ \A i, j \in DOMAIN f : f[i] = f[j] => i = j

Full(s) == s.len = Len(heap[s.array])

\* A slice that shares its array has no room, nor has the volume in hand once it
\* may have to be shared.
Sharing ==
    /\ \A p, q \in Partitions : \A s \in SlicesOf(p), t \in SlicesOf(q) :
         s.array = t.array /\ (p # q \/ s.id # t.id) => Full(s)
    /\ todo # {} =>
         \/ /\ Full(volume)
            /\ \A p \in Partitions : \A s \in SlicesOf(p) : s.array = volume.array => Full(s)
         \/ /\ \A p \in Partitions : \A s \in SlicesOf(p) : s.array # volume.array
            /\ \A p, q \in todo : p = q

\* The mount points of the blocks with one volume ID that p carries so far.
PathsUnder(p, id) == UNION {PathsOf(b) : b \in {c \in Attached(p) : VolumeID(c) = id}}

Contents ==
    /\ \A p \in Partitions : \A s \in SlicesOf(p) :
         /\ Increasing(heap[s.array], s.len)
         /\ Members(heap[s.array], s.len) = PathsUnder(p, s.id)
    /\ todo # {} => /\ Increasing(heap[volume.array], volume.len)
                    /\ Members(heap[volume.array], volume.len) = PathsOf(block)

JInv == FromLines /\ Sharing /\ Contents

\* Read lines fill no array beyond what the hypothesis allows.
LEMMA SnugPoints ==
  ASSUME IInv, FromLines, NEW b \in Blocks, Snug(input, b)
  PROVE  LET points == mounts[b].points
         IN  Len(points) <= Exact /\ \A i, j \in DOMAIN points : i # j => points[i] # points[j]
<1> DEFINE points == mounts[b].points
           n == Len(points)
           L == LinesOf(input, b)
<1>1. points \in Seq(Nat \ {0}) /\ n \in Nat /\ DOMAIN points = 1..n
  <2>1. points \in Seq(Nat \ {0})
    BY DEF IInv, Types
  <2> QED
    BY <2>1
<1>2. PICK f \in [1..n -> L] :
        /\ \A i \in DOMAIN f : f[i] < line /\ points[i] = input.mountinfo[f[i]].path
        /\ \A i, j \in DOMAIN f : f[i] = f[j] => i = j
  BY DEF FromLines
<1>3. IsFiniteSet(L) /\ Cardinality(L) \in Nat /\ Cardinality(L) <= Exact /\ Exact \in Nat
  <2>1. Len(input.mountinfo) \in Nat /\ input.mountinfo \in Seq(Line) /\ Exact \in Nat
    BY InputFacts DEF IInv, Machine
  <2>2. L \subseteq 1..Len(input.mountinfo)
    BY <2>1 DEF LinesOf
  <2>3. IsFiniteSet(1..Len(input.mountinfo))
    BY <2>1, FS_Interval
  <2> QED
    BY <2>1, <2>2, <2>3, FS_Subset, FS_CardinalityType DEF Snug
<1> HIDE DEF points, L, n
<1>4. n <= Cardinality(L)
  <2>1. IsFiniteSet(1..n) /\ Cardinality(1..n) = n
    BY <1>1, FS_Interval
  <2>2. ASSUME Cardinality(L) < Cardinality(1..n)
        PROVE  FALSE
    <3>1. \E x, y \in 1..n : x # y /\ f[x] = f[y]
      BY <1>2, <1>3, <2>1, <2>2, FS_PigeonHole
    <3> QED
      BY <1>2, <3>1
  <2> QED
    BY <1>1, <1>3, <2>1, <2>2
<1>5. n <= Exact
  BY <1>1, <1>3, <1>4
<1>6. \A i, j \in 1..n : i # j => points[i] # points[j]
  <2> SUFFICES ASSUME NEW i \in 1..n, NEW j \in 1..n, points[i] = points[j]
               PROVE  i = j
    OBVIOUS
  <2>1. f[i] \in L /\ f[j] \in L /\ input.mountinfo[f[i]].path = input.mountinfo[f[j]].path
    BY <1>2
  <2>2. f[i] = f[j]
    BY <2>1 DEF Snug, L
  <2> QED
    BY <1>2, <2>2
<1> QED
  BY <1>1, <1>5, <1>6 DEF points, n

\* Where no volume is attached and none is in hand, there is nothing to share.
LEMMA NothingAttached ==
  ASSUME Ids, todo = {}, \A p \in Partitions : Attached(p) = {}
  PROVE  Sharing /\ Contents
<1>1. \A p \in Partitions : SlicesOf(p) = {}
  <2> SUFFICES ASSUME NEW p \in Partitions
               PROVE  SlicesOf(p) = {}
    OBVIOUS
  <2>1. IdsOf(p) = {}
    BY DEF Ids
  <2> QED
    BY <2>1 DEF IdsOf, SlicesOf
<1> QED
  BY <1>1 DEF Sharing, Contents

LEMMA InitJInv == Init => JInv
<1> SUFFICES ASSUME Init PROVE JInv
  OBVIOUS
<1>1. IInv
  BY InitIInv
<1>2. \A p \in Partitions : Attached(p) = {}
  <2>1. \A b \in input.graph.blocks : ~(b < 1)
    BY <1>1, InputFacts DEF IInv, Blocks
  <2> QED
    BY <2>1 DEF Init, Attached
<1>3. Sharing /\ Contents
  BY <1>1, <1>2, NothingAttached DEF IInv, Init
<1>4. FromLines
  <2> SUFFICES ASSUME NEW b \in Blocks
               PROVE  \E f \in [1..Len(mounts[b].points) -> LinesOf(input, b)] :
                        /\ \A i \in DOMAIN f : f[i] < line /\ mounts[b].points[i] = input.mountinfo[f[i]].path
                        /\ \A i, j \in DOMAIN f : f[i] = f[j] => i = j
    BY DEF FromLines
  <2> DEFINE f == [i \in {} |-> 0]
  <2>1. mounts[b].points = << >>
    BY DEF Init
  <2>2. 1..Len(mounts[b].points) = {}
    BY <2>1
  <2>3. f \in [{} -> LinesOf(input, b)] /\ DOMAIN f = {}
    OBVIOUS
  <2> HIDE DEF f
  <2> QED
    BY <2>2, <2>3
<1> QED
  BY <1>3, <1>4 DEF JInv

LEMMA ReadLineMounts == IInv /\ JInv /\ ReadLine => JInv'
<1> SUFFICES ASSUME IInv, JInv, ReadLine PROVE JInv'
  OBVIOUS
<1>1. /\ line <= Len(input.mountinfo) /\ line' = line + 1 /\ block = 1 /\ todo = {}
      /\ UNCHANGED <<input, block, volume, todo, volumes, heap, done>>
      /\ line \in Nat /\ Len(input.mountinfo) \in Nat
  BY InputFacts DEF ReadLine, IInv, Control
<1>2. Sharing' /\ Contents'
  <2>1. Ids' /\ todo' = {}
    BY <1>1, ReadLineStep DEF IInv
  <2>2. \A b \in input.graph.blocks : ~(b < 1)
    BY InputFacts DEF IInv, Blocks
  <2>3. \A p \in Partitions : SlicesOf(p)' = {}
    <3> SUFFICES ASSUME NEW p \in Partitions
                 PROVE  SlicesOf(p)' = {}
      OBVIOUS
    <3>1. Attached(p) = {}
      BY <1>1, <2>2 DEF Attached
    <3>2. IdsOf(p) = {}
      BY <3>1 DEF IInv, Ids
    <3> QED
      BY <1>1, <3>2 DEF IdsOf, SlicesOf
  <2>4. Partitions' = Partitions
    BY <1>1 DEF Partitions
  <2> QED
    BY <2>1, <2>3, <2>4 DEF Sharing, Contents
<1>3. FromLines'
  <2> SUFFICES ASSUME NEW b \in Blocks
               PROVE  \E f \in [1..Len(mounts'[b].points) -> LinesOf(input, b)] :
                        /\ \A i \in DOMAIN f : f[i] < line' /\ mounts'[b].points[i] = input.mountinfo[f[i]].path
                        /\ \A i, j \in DOMAIN f : f[i] = f[j] => i = j
    BY <1>1, ZenonT(60) DEF FromLines
  <2> DEFINE l == input.mountinfo[line]
             s == mounts[b].points
             n == Len(s)
  <2>1. s \in Seq(Nat \ {0}) /\ n \in Nat
    <3>1. s \in Seq(Nat \ {0})
      BY DEF IInv, Types
    <3> QED
      BY <3>1
  <2>2. PICK f \in [1..n -> LinesOf(input, b)] :
          /\ \A i \in DOMAIN f : f[i] < line /\ s[i] = input.mountinfo[f[i]].path
          /\ \A i, j \in DOMAIN f : f[i] = f[j] => i = j
    BY DEF JInv, FromLines
  <2>3. \A i \in 1..n : f[i] \in LinesOf(input, b) /\ f[i] \in Nat /\ f[i] < line /\ f[i] < line'
    <3>1. LinesOf(input, b) \subseteq DOMAIN input.mountinfo
      BY DEF LinesOf
    <3>2. input.mountinfo \in Seq(Line)
      BY InputFacts DEF IInv, Machine
    <3>3. LinesOf(input, b) \subseteq Nat
      BY <3>1, <3>2
    <3> QED
      BY <1>1, <2>2, <3>3
  <2>4. CASE Target(l) # b
    <3>1. mounts'[b] = mounts[b]
      BY <2>4 DEF ReadLine, IInv, Types
    <3> QED
      BY <2>2, <2>3, <3>1
  <2>5. CASE Target(l) = b
    <3>1. b # 0
      BY InputFacts DEF IInv, Blocks
    <3>2. mounts'[b].points = Append(s, l.path)
      BY <2>5, <3>1 DEF ReadLine, IInv, Types
    <3>3. line \in LinesOf(input, b)
      <4>1. input.mountinfo \in Seq(Line)
        BY InputFacts DEF IInv, Machine
      <4>2. line \in DOMAIN input.mountinfo
        BY <1>1, <4>1 DEF IInv, Types
      <4> QED
        BY <2>5, <4>2 DEF LinesOf
    <3> DEFINE g == [i \in 1..(n + 1) |-> IF i <= n THEN f[i] ELSE line]
    <3>4. /\ l.path \in Nat \ {0}
          /\ Len(Append(s, l.path)) = n + 1 /\ Append(s, l.path)[n + 1] = l.path
          /\ \A i \in 1..n : Append(s, l.path)[i] = s[i]
      <4>1. l \in Line
        <5>1. input.mountinfo \in Seq(Line) /\ line \in DOMAIN input.mountinfo
          BY <3>3, InputFacts DEF IInv, Machine, LinesOf
        <5> QED
          BY <5>1
      <4>2. l.path \in Nat \ {0}
        BY <4>1 DEF Line
      <4> HIDE DEF l, s
      <4> QED
        BY <2>1, <4>2 DEF s
    <3>5. \A i \in 1..(n + 1) : (i \in 1..n /\ g[i] = f[i] /\ i # n + 1) \/ (i = n + 1 /\ g[i] = line)
      BY <2>1
    <3>6. DOMAIN g = 1..(n + 1)
      OBVIOUS
    <3> HIDE DEF g
    <3>7. g \in [1..(n + 1) -> LinesOf(input, b)]
      <4>1. \A i \in 1..(n + 1) : g[i] \in LinesOf(input, b)
        BY <2>3, <3>3, <3>5
      <4> QED
        BY <4>1 DEF g
    <3>8. \A i \in 1..(n + 1) : g[i] < line' /\ mounts'[b].points[i] = input.mountinfo[g[i]].path
      <4> SUFFICES ASSUME NEW i \in 1..(n + 1)
                   PROVE  g[i] < line' /\ mounts'[b].points[i] = input.mountinfo[g[i]].path
        OBVIOUS
      <4>1. CASE i \in 1..n /\ g[i] = f[i]
        BY <2>2, <2>3, <3>2, <3>4, <4>1
      <4>2. CASE i = n + 1 /\ g[i] = line
        BY <1>1, <3>2, <3>4, <4>2
      <4> QED
        BY <3>5, <4>1, <4>2
    <3>9. \A i, j \in 1..(n + 1) : g[i] = g[j] => i = j
      <4>1. \A i \in 1..n : f[i] # line
        BY <1>1, <2>3
      <4> QED
        BY <2>2, <3>5, <4>1
    <3>10. Len(mounts'[b].points) = n + 1
      BY <3>2, <3>4
    <3> QED
      BY <3>6, <3>7, <3>8, <3>9, <3>10
  <2> QED
    BY <2>4, <2>5
<1> QED
  BY <1>2, <1>3 DEF JInv

LEMMA FromLinesStay ==
  ASSUME FromLines, UNCHANGED <<input, line, mounts>>
  PROVE  FromLines'
BY ZenonT(60) DEF FromLines

\* A step that attaches nothing leaves every partition its mount points.
LEMMA SlicesStay ==
  ASSUME IInv, Contents, UNCHANGED <<input, mounts>>,
         \A p \in Partitions : SlicesOf(p)' = SlicesOf(p) /\ Attached(p)' = Attached(p),
         \A a \in DOMAIN heap : a \in DOMAIN heap' /\ heap'[a] = heap[a]
  PROVE  /\ \A p \in Partitions : \A s \in SlicesOf(p) : s.array \in DOMAIN heap /\ (Full(s)' <=> Full(s))
         /\ \A p \in Partitions : \A s \in SlicesOf(p)' :
              /\ Increasing(heap'[s.array], s.len)
              /\ Members(heap'[s.array], s.len) = PathsUnder(p, s.id)'
<1>1. \A p \in Partitions : \A s \in SlicesOf(p) : s.array \in DOMAIN heap /\ heap'[s.array] = heap[s.array]
  BY DEF IInv, Slices, InHeap
<1>2. \A p \in Partitions : \A s \in SlicesOf(p) : Full(s)' <=> Full(s)
  BY <1>1 DEF Full
<1>3. \A p \in Partitions : \A id : PathsUnder(p, id)' = PathsUnder(p, id)
  BY BlocksStay DEF PathsUnder
<1> QED
  BY <1>1, <1>2, <1>3 DEF Contents

LEMMA SkipBlockMounts == IInv /\ JInv /\ SkipBlock => JInv'
<1> SUFFICES ASSUME IInv, JInv, SkipBlock PROVE JInv'
  OBVIOUS
<1>1. UNCHANGED <<input, line, mounts, volume, todo, volumes, heap, done>> /\ todo = {}
  BY DEF SkipBlock, IInv, Control
<1>2. \A p : Attached(p)' = Attached(p)
  BY SkipBlockStep
<1>3. Partitions' = Partitions /\ \A p : SlicesOf(p)' = SlicesOf(p)
  BY <1>1 DEF Partitions, SlicesOf
<1>4. /\ \A p \in Partitions : \A s \in SlicesOf(p) : Full(s)' <=> Full(s)
      /\ \A p \in Partitions : \A s \in SlicesOf(p)' :
           /\ Increasing(heap'[s.array], s.len)
           /\ Members(heap'[s.array], s.len) = PathsUnder(p, s.id)'
  BY <1>1, <1>2, <1>3, SlicesStay DEF JInv
<1>5. FromLines'
  BY <1>1, FromLinesStay DEF JInv
<1>6. Sharing'
  BY <1>1, <1>3, <1>4 DEF JInv, Sharing
<1>7. Contents'
  BY <1>1, <1>3, <1>4 DEF Contents
<1> QED
  BY <1>5, <1>6, <1>7 DEF JInv

LEMMA SortVolumesMounts == IInv /\ JInv /\ SortVolumes => JInv'
<1> SUFFICES ASSUME IInv, JInv, SortVolumes PROVE JInv'
  OBVIOUS
<1>1. /\ UNCHANGED <<input, line, mounts, block, volume, todo, heap>> /\ todo = {}
      /\ \A p \in Partitions : SlicesOf(p)' = SlicesOf(p)
  BY SortVolumesEffect
<1>2. \A p \in Partitions : Attached(p)' = Attached(p)
  BY SortVolumesStep
<1>3. Partitions' = Partitions
  BY <1>1 DEF Partitions
<1>4. /\ \A p \in Partitions : \A s \in SlicesOf(p) : Full(s)' <=> Full(s)
      /\ \A p \in Partitions : \A s \in SlicesOf(p)' :
           /\ Increasing(heap'[s.array], s.len)
           /\ Members(heap'[s.array], s.len) = PathsUnder(p, s.id)'
  BY <1>1, <1>2, SlicesStay DEF JInv
<1>5. FromLines'
  BY <1>1, FromLinesStay DEF JInv
<1>6. Sharing'
  BY <1>1, <1>3, <1>4 DEF JInv, Sharing
<1>7. Contents'
  BY <1>1, <1>3, <1>4 DEF Contents
<1> QED
  BY <1>5, <1>6, <1>7 DEF JInv

LEMMA MakeVolumeMounts ==
  ASSUME RoomNeverShared
  PROVE  IInv /\ JInv /\ MakeVolume => JInv'
<1> SUFFICES ASSUME IInv, JInv, MakeVolume PROVE JInv'
  OBVIOUS
<1> DEFINE points == mounts[block].points
           a == Len(heap) + 1
<1>1. /\ block \in input.graph.blocks /\ todo = {} /\ todo' = BackingOf(block)
      /\ UNCHANGED <<input, line, mounts, block, volumes, done>>
  BY DEF MakeVolume, AtBlock, IInv, Control
<1>2. /\ a \notin DOMAIN heap /\ \A k \in DOMAIN heap : k \in DOMAIN heap' /\ heap'[k] = heap[k]
      /\ volume'.array = a /\ Increasing(heap'[a], volume'.len)
      /\ Members(heap'[a], volume'.len) = Members(points, Len(points))
      /\ Len(points) <= Exact /\ (\A i, j \in DOMAIN points : i # j => points[i] # points[j]) =>
           volume'.len = Len(heap'[a])
  BY MakeVolumeEffect
<1>3. Partitions' = Partitions /\ \A p : SlicesOf(p)' = SlicesOf(p)
  BY <1>1 DEF Partitions, SlicesOf
<1>4. block \in Blocks /\ input \in Inputs
  BY <1>1, InputFacts DEF IInv, Types
<1>5. /\ \A p \in Partitions : \A s \in SlicesOf(p) : s.array \in DOMAIN heap /\ (Full(s)' <=> Full(s))
      /\ \A p \in Partitions : \A s \in SlicesOf(p)' :
           /\ Increasing(heap'[s.array], s.len)
           /\ Members(heap'[s.array], s.len) = PathsUnder(p, s.id)'
  <2>1. \A p \in Partitions : Attached(p)' = Attached(p)
    BY MakeVolumeStep
  <2> HIDE DEF a, points
  <2>2. UNCHANGED <<input, mounts>>
    BY <1>1
  <2>3. Contents
    BY DEF JInv
  <2> QED
    BY <1>2, <1>3, <2>1, <2>2, <2>3, SlicesStay
<1>6. Members(points, Len(points)) = PathsOf(block)
  <2>1. points \in Seq(Nat \ {0})
    BY <1>4 DEF IInv, Types
  <2>2. DOMAIN points = 1..Len(points)
    BY <2>1
  <2> QED
    BY <2>2 DEF PathsOf, Members
<1>7. Snug(input, block) => Full(volume)'
  <2>1. ASSUME Snug(input, block)
        PROVE  Len(points) <= Exact /\ \A i, j \in DOMAIN points : i # j => points[i] # points[j]
    BY <1>4, <2>1, SnugPoints DEF JInv
  <2>2. Full(volume)' <=> volume'.len = Len(heap'[volume'.array])
    BY DEF Full
  <2> QED
    BY <1>2, <2>1, <2>2
<1> HIDE DEF a, points
<1>8. FromLines'
  BY <1>1, FromLinesStay DEF JInv
<1>9. Sharing'
  <2>1. \A p \in Partitions : \A s \in SlicesOf(p) : s.array # volume'.array
    BY <1>2, <1>5
  <2>2. Snug(input, block) \/ Unshared(input, block)
    BY <1>4 DEF RoomNeverShared
  <2>3. Unshared(input, block) => \A p, q \in todo' : p = q
    BY <1>1 DEF Unshared, BackingOf
  <2>4. \A p, q \in Partitions : \A s \in SlicesOf(p), t \in SlicesOf(q) :
          s.array = t.array /\ (p # q \/ s.id # t.id) => Full(s)'
    BY <1>5 DEF JInv, Sharing
  <2> QED
    BY <1>3, <1>7, <2>1, <2>2, <2>3, <2>4 DEF Sharing
<1>10. Contents'
  <2>1. PathsOf(block)' = PathsOf(block)
    BY <1>1 DEF PathsOf
  <2> QED
    BY <1>2, <1>3, <1>5, <1>6, <2>1 DEF Contents
<1> QED
  BY <1>8, <1>9, <1>10 DEF JInv

\* The paths under the partition the volume is attached to.
LEMMA PathsGrow ==
  ASSUME IInv, NEW p, AttachTo(p)
  PROVE  /\ \A q \in Partitions : \A id : q # p \/ id # volume.id => PathsUnder(q, id)' = PathsUnder(q, id)
         /\ \A id : id = volume.id => PathsUnder(p, id)' = PathsUnder(p, id) \cup PathsOf(block)
<1>1. UNCHANGED <<input, mounts>> /\ volume.id = VolumeID(block)
  BY AttachFacts
<1>2. /\ Attached(p)' = Attached(p) \cup {block}
      /\ \A q \in Partitions : q # p => Attached(q)' = Attached(q)
  BY AttachedGrows
<1>3. \A b : VolumeID(b)' = VolumeID(b) /\ PathsOf(b)' = PathsOf(b)
  BY <1>1, BlocksStay
<1> DEFINE All(S) == UNION {PathsOf(b) : b \in S}
           Of(S, id) == {c \in S : VolumeID(c) = id}
<1>4. \A q : \A id : PathsUnder(q, id)' = All(Of(Attached(q)', id)) /\ PathsUnder(q, id) = All(Of(Attached(q), id))
  BY <1>3 DEF PathsUnder
<1>5. ASSUME NEW q \in Partitions, NEW id, q # p \/ id # volume.id
      PROVE  PathsUnder(q, id)' = PathsUnder(q, id)
  <2>1. Of(Attached(q)', id) = Of(Attached(q), id)
    <3>1. CASE q # p
      BY <1>2, <3>1
    <3>2. CASE q = p
      BY <1>1, <1>2, <1>5, <3>2
    <3> QED
      BY <3>1, <3>2
  <2> HIDE DEF All, Of
  <2> QED
    BY <1>4, <2>1
<1>6. ASSUME NEW id, id = volume.id
      PROVE  PathsUnder(p, id)' = PathsUnder(p, id) \cup PathsOf(block)
  <2> DEFINE C == Of(Attached(p), id)
  <2>1. Of(Attached(p)', id) = C \cup {block}
    BY <1>1, <1>2, <1>6
  <2>2. All(C \cup {block}) = All(C) \cup PathsOf(block)
    OBVIOUS
  <2> HIDE DEF All, Of
  <2> QED
    BY <1>4, <2>1, <2>2
<1> QED
  BY <1>5, <1>6

\* The volume in hand does not have to be shared only if this is its last partition.
LEMMA StillToShare ==
  ASSUME IInv, Sharing, NEW p, AttachTo(p), todo' # {}
  PROVE  /\ Full(volume)
         /\ \A q \in Partitions : \A s \in SlicesOf(q) : s.array = volume.array => Full(s)
<1>1. p \in todo /\ todo' = todo \ {p}
  BY AttachFacts
<1>2. PICK q \in todo : q # p
  BY <1>1
<1> QED
  BY <1>1, <1>2 DEF Sharing

LEMMA AppendVolumeMounts == ASSUME NEW p PROVE IInv /\ JInv /\ AppendVolume(p) => JInv'
<1> SUFFICES ASSUME IInv, JInv, AppendVolume(p) PROVE JInv'
  OBVIOUS
<1>1. AttachTo(p)
  BY DEF AppendVolume
<1>2. /\ p \in todo /\ p \in Partitions /\ todo # {} /\ UNCHANGED <<input, line, mounts, done>>
      /\ volume.id = VolumeID(block)
      /\ todo' # {} => volume' = volume /\ block' = block
  BY <1>1, AttachFacts
<1>3. /\ heap' = heap
      /\ \A q \in Partitions : q # p => volumes'[q] = volumes[q]
      /\ SlicesOf(p)' = SlicesOf(p) \cup {volume}
      /\ \A s \in SlicesOf(p) : s.id # volume.id
  BY AppendVolumeEffect
<1>4. \A q \in Partitions : q # p => SlicesOf(q)' = SlicesOf(q)
  BY <1>3 DEF SlicesOf
<1>5. Partitions' = Partitions /\ \A s : Full(s)' <=> s.len = Len(heap[s.array])
  BY <1>2, <1>3 DEF Partitions, Full
<1>6. FromLines'
  BY <1>2, FromLinesStay DEF JInv
<1>7. Sharing'
  <2>1. ASSUME NEW q \in Partitions, NEW s \in SlicesOf(q), s.array = volume.array
        PROVE  Full(s) /\ Full(volume)
    BY <1>2, <2>1 DEF JInv, Sharing
  <2>2. ASSUME NEW q \in Partitions, NEW r \in Partitions,
               NEW s \in SlicesOf(q)', NEW t \in SlicesOf(r)',
               s.array = t.array, q # r \/ s.id # t.id
        PROVE  Full(s)
    <3>1. s \in SlicesOf(q) \/ (q = p /\ s = volume)
      BY <1>3, <1>4
    <3>2. t \in SlicesOf(r) \/ (r = p /\ t = volume)
      BY <1>3, <1>4
    <3>3. CASE s \in SlicesOf(q) /\ t \in SlicesOf(r)
      BY <2>2, <3>3 DEF JInv, Sharing
    <3>4. CASE s \in SlicesOf(q) /\ t = volume
      BY <2>1, <2>2, <3>4
    <3>5. CASE s = volume /\ t \in SlicesOf(r)
      BY <2>1, <2>2, <3>5
    <3>6. CASE q = p /\ s = volume /\ r = p /\ t = volume
      BY <2>2, <3>6
    <3> QED
      BY <3>1, <3>2, <3>3, <3>4, <3>5, <3>6
  <2>3. todo' # {} => /\ Full(volume)
                      /\ \A q \in Partitions : \A s \in SlicesOf(q)' : s.array = volume.array => Full(s)
    <3>1. ASSUME todo' # {}
          PROVE  /\ Full(volume)
                 /\ \A q \in Partitions : \A s \in SlicesOf(q) : s.array = volume.array => Full(s)
      BY <1>1, <3>1, StillToShare DEF JInv
    <3>2. \A q \in Partitions : \A s \in SlicesOf(q)' : s \in SlicesOf(q) \/ s = volume
      BY <1>3, <1>4
    <3> QED
      BY <3>1, <3>2
  <2>4. \A s : Full(s)' <=> Full(s)
    BY <1>5 DEF Full
  <2>5. todo' # {} => (Full(volume)' <=> Full(volume))
    BY <1>2, <1>3 DEF Full
  <2> QED
    BY <1>2, <1>5, <2>2, <2>3, <2>4, <2>5 DEF Sharing
<1>8. Contents'
  <2>1. /\ \A q \in Partitions : \A id : q # p \/ id # volume.id => PathsUnder(q, id)' = PathsUnder(q, id)
        /\ \A id : id = volume.id => PathsUnder(p, id)' = PathsUnder(p, id) \cup PathsOf(block)
    BY <1>1, PathsGrow
  <2>2. /\ Increasing(heap[volume.array], volume.len)
        /\ Members(heap[volume.array], volume.len) = PathsOf(block)
    BY <1>2 DEF JInv, Contents
  <2>3. PathsUnder(p, volume.id) = {}
    <3>1. volume.id \notin IdsOf(p)
      BY <1>3 DEF IdsOf, SlicesOf
    <3>2. \A b \in Attached(p) : VolumeID(b) # volume.id
      BY <1>2, <3>1 DEF IInv, Ids
    <3>3. {c \in Attached(p) : VolumeID(c) = volume.id} = {}
      BY <3>2
    <3> QED
      BY <3>3 DEF PathsUnder
  <2>4. ASSUME NEW q \in Partitions, NEW s \in SlicesOf(q)'
        PROVE  /\ Increasing(heap[s.array], s.len)
               /\ Members(heap[s.array], s.len) = PathsUnder(q, s.id)'
    <3>1. CASE s \in SlicesOf(q) /\ (q # p \/ s.id # volume.id)
      BY <2>1, <3>1 DEF JInv, Contents
    <3>2. CASE q = p /\ s = volume
      <4>1. PathsUnder(q, s.id)' = PathsUnder(q, s.id) \cup PathsOf(block)
        BY <2>1, <3>2
      <4>2. PathsUnder(q, s.id) = {}
        BY <2>3, <3>2
      <4> QED
        BY <2>2, <3>2, <4>1, <4>2
    <3> QED
      BY <1>3, <1>4, <3>1, <3>2
  <2>5. PathsOf(block)' = PathsOf(block) \/ todo' = {}
    BY <1>2 DEF PathsOf
  <2> QED
    BY <1>2, <1>3, <1>5, <2>2, <2>4, <2>5 DEF Contents
<1> QED
  BY <1>6, <1>7, <1>8 DEF JInv

\* Merging changes no array but the one of the volume merged into, and that one
\* only if nothing else is in it.
LEMMA MergeKeeps ==
  ASSUME IInv, JInv, NEW p, MergeVolume(p), NEW i, NEW w, Merged(p, i, w)
  PROVE  LET t == volumes[p][i]
         IN  /\ \A q \in Partitions : \A s \in SlicesOf(q) :
                  s.array \in DOMAIN heap /\ (q # p \/ s.id # t.id => heap'[s.array] = heap[s.array])
             /\ volume.array \in DOMAIN heap
             /\ todo' # {} => heap'[volume.array] = heap[volume.array]
             /\ w.array \notin DOMAIN heap \/ w.array = t.array
             /\ w.array \in DOMAIN heap /\ Full(t) => heap' = heap /\ w = t
<1> DEFINE t == volumes[p][i]
<1>1. AttachTo(p)
  BY DEF MergeVolume
<1>2. /\ p \in Partitions /\ todo # {} /\ volume \in Slice /\ InHeap(volume)
      /\ i \in DOMAIN volumes[p]
  BY <1>1, AttachFacts DEF Merged
<1>3. t \in SlicesOf(p) /\ t \in Slice /\ InHeap(t) /\ Increasing(heap[t.array], t.len)
  <2>1. t \in SlicesOf(p)
    BY <1>2 DEF SlicesOf
  <2>2. volumes[p] \in Seq(Slice)
    BY <1>2 DEF IInv, Types
  <2>3. t \in Slice
    BY <1>2, <2>2
  <2>4. InHeap(t)
    BY <1>2, <2>1 DEF IInv, Slices
  <2>5. Increasing(heap[t.array], t.len)
    BY <1>2, <2>1 DEF JInv, Contents
  <2> QED
    BY <2>1, <2>3, <2>4, <2>5
<1>4. \A q \in Partitions : \A s \in SlicesOf(q) : s.array \in DOMAIN heap
  BY DEF IInv, Slices, InHeap
<1>5. volume.array \in DOMAIN heap
  BY <1>2 DEF InHeap
<1> HIDE DEF t
<1>6. \/ w.array \notin DOMAIN heap /\ \A a \in DOMAIN heap : heap'[a] = heap[a]
      \/ /\ w.array = t.array /\ t.len + volume.len <= Len(heap[t.array])
         /\ \A a \in DOMAIN heap : a # t.array => heap'[a] = heap[a]
         /\ volume.len = 0 => heap' = heap /\ w = t
  BY <1>3 DEF Merged, t
<1>7. ASSUME Full(t), w.array \in DOMAIN heap
      PROVE  heap' = heap /\ w = t
  <2>1. t.len \in Nat /\ volume.len \in Nat /\ Len(heap[t.array]) = t.len
    BY <1>2, <1>3, <1>7 DEF Slice, Full
  <2>2. volume.len = 0
    BY <1>6, <1>7, <2>1
  <2> QED
    BY <1>6, <1>7, <2>2
<1>8. ASSUME NEW q \in Partitions, NEW s \in SlicesOf(q), q # p \/ s.id # t.id
      PROVE  heap'[s.array] = heap[s.array]
  <2>1. CASE s.array # t.array
    BY <1>4, <1>6, <2>1
  <2>2. CASE s.array = t.array
    <3>1. Full(t)
      BY <1>2, <1>3, <1>8, <2>2 DEF JInv, Sharing
    <3> QED
      BY <1>4, <1>6, <1>7, <3>1
  <2> QED
    BY <2>1, <2>2
<1>9. ASSUME todo' # {}
      PROVE  heap'[volume.array] = heap[volume.array]
  <2>1. CASE volume.array # t.array
    BY <1>5, <1>6, <2>1
  <2>2. CASE volume.array = t.array
    <3>1. Full(t)
      BY <1>1, <1>2, <1>3, <1>9, <2>2, StillToShare DEF JInv
    <3> QED
      BY <1>5, <1>6, <1>7, <3>1
  <2> QED
    BY <2>1, <2>2
<1>10. w.array \notin DOMAIN heap \/ w.array = t.array
  BY <1>6
<1> QED
  BY <1>4, <1>5, <1>7, <1>8, <1>9, <1>10 DEF t

LEMMA MergeVolumeMounts == ASSUME NEW p PROVE IInv /\ JInv /\ MergeVolume(p) => JInv'
<1> SUFFICES ASSUME IInv, JInv, MergeVolume(p) PROVE JInv'
  OBVIOUS
<1>1. AttachTo(p)
  BY DEF MergeVolume
<1>2. PICK i, w : Merged(p, i, w)
  BY MergeVolumeEffect
<1> DEFINE t == volumes[p][i]
<1>3. /\ p \in todo /\ p \in Partitions /\ todo # {} /\ UNCHANGED <<input, line, mounts, done>>
      /\ volume.id = VolumeID(block)
      /\ todo' # {} => volume' = volume /\ block' = block
  BY <1>1, AttachFacts
<1>4. /\ i \in DOMAIN volumes[p]
      /\ \A q \in Partitions : q # p => volumes'[q] = volumes[q]
      /\ DOMAIN volumes'[p] = DOMAIN volumes[p] /\ volumes'[p][i] = w
      /\ w.id = t.id /\ t.id = volume.id
      /\ \A j \in DOMAIN volumes[p] : j # i => volumes'[p][j] = volumes[p][j]
  BY <1>2, MergedSlices
<1>5. /\ \A q \in Partitions : \A s \in SlicesOf(q) :
           s.array \in DOMAIN heap /\ (q # p \/ s.id # t.id => heap'[s.array] = heap[s.array])
      /\ volume.array \in DOMAIN heap
      /\ todo' # {} => heap'[volume.array] = heap[volume.array]
      /\ w.array \notin DOMAIN heap \/ w.array = t.array
      /\ w.array \in DOMAIN heap /\ Full(t) => heap' = heap /\ w = t
  BY <1>2, MergeKeeps
<1>6. t \in SlicesOf(p)
  BY <1>4 DEF SlicesOf
<1>7. /\ Increasing(heap'[w.array], w.len)
      /\ Members(heap'[w.array], w.len)
           = Members(heap[t.array], t.len) \cup Members(heap[volume.array], volume.len)
  BY <1>2 DEF Merged
\* A slice afterwards is the merged one or one that was there and is kept.
<1>8. ASSUME NEW q \in Partitions, NEW s \in SlicesOf(q)'
      PROVE  \/ q = p /\ s = w
             \/ s \in SlicesOf(q) /\ (q # p \/ s.id # t.id)
  <2>1. CASE q # p
    BY <1>4, <2>1 DEF SlicesOf
  <2>2. CASE q = p
    <3>1. PICK j \in DOMAIN volumes[p] : s = volumes'[p][j]
      BY <1>4, <2>2 DEF SlicesOf
    <3>2. CASE j = i
      BY <1>4, <2>2, <3>1, <3>2
    <3>3. CASE j # i
      <4>1. s = volumes[p][j] /\ s.id # t.id
        BY <1>3, <1>4, <3>1, <3>3 DEF IInv, Ids
      <4> QED
        BY <2>2, <4>1 DEF SlicesOf
    <3> QED
      BY <3>2, <3>3
  <2> QED
    BY <2>1, <2>2
<1> HIDE DEF t
<1>9. Partitions' = Partitions
  BY <1>3 DEF Partitions
<1>10. \A s : Full(s)' <=> s.len = Len(heap'[s.array])
  BY DEF Full
<1>11. ASSUME NEW q \in Partitions, NEW s \in SlicesOf(q), q # p \/ s.id # t.id, Full(s)
       PROVE  Full(s)'
  BY <1>5, <1>10, <1>11 DEF Full
<1>12. FromLines'
  BY <1>3, FromLinesStay DEF JInv
<1>13. Sharing'
  \* What is in the array of the merged volume.
  <2>1. ASSUME NEW q \in Partitions, NEW s \in SlicesOf(q), q # p \/ s.id # t.id, s.array = w.array
        PROVE  Full(s)' /\ Full(w)'
    <3>1. w.array \in DOMAIN heap /\ s.array = t.array
      BY <1>5, <2>1
    <3>2. Full(t) /\ Full(s)
      BY <1>3, <1>6, <2>1, <3>1 DEF JInv, Sharing
    <3>3. heap' = heap /\ w = t
      BY <1>5, <3>1, <3>2
    <3> QED
      BY <1>10, <3>2, <3>3 DEF Full
  <2>2. ASSUME NEW q \in Partitions, NEW r \in Partitions,
               NEW s \in SlicesOf(q)', NEW u \in SlicesOf(r)',
               s.array = u.array, q # r \/ s.id # u.id
        PROVE  Full(s)'
    <3>1. CASE q = p /\ s = w /\ r = p /\ u = w
      BY <2>2, <3>1
    <3>2. CASE q = p /\ s = w /\ u \in SlicesOf(r) /\ (r # p \/ u.id # t.id)
      <4>1. Full(w)'
        BY <2>1, <2>2, <3>2
      <4> QED
        BY <1>10, <3>2, <4>1
    <3>3. CASE s \in SlicesOf(q) /\ (q # p \/ s.id # t.id) /\ r = p /\ u = w
      BY <2>1, <2>2, <3>3
    <3>4. CASE s \in SlicesOf(q) /\ (q # p \/ s.id # t.id) /\ u \in SlicesOf(r)
      <4>1. Full(s)
        BY <2>2, <3>4 DEF JInv, Sharing
      <4> QED
        BY <1>11, <3>4, <4>1
    <3>5. (q = p /\ s = w) \/ (s \in SlicesOf(q) /\ (q # p \/ s.id # t.id))
      BY <1>8
    <3>6. (r = p /\ u = w) \/ (u \in SlicesOf(r) /\ (r # p \/ u.id # t.id))
      BY <1>8
    <3> QED
      BY <3>1, <3>2, <3>3, <3>4, <3>5, <3>6
  <2>3. ASSUME todo' # {}
        PROVE  /\ Full(volume)'
               /\ \A q \in Partitions : \A s \in SlicesOf(q)' : s.array = volume'.array => Full(s)'
    <3>1. /\ Full(volume)
          /\ \A q \in Partitions : \A s \in SlicesOf(q) : s.array = volume.array => Full(s)
      BY <1>1, <2>3, StillToShare DEF JInv
    <3>2. Full(volume)'
      <4>1. Full(volume)' <=> volume'.len = Len(heap'[volume'.array])
        BY DEF Full
      <4> QED
        BY <1>3, <1>5, <2>3, <3>1, <4>1 DEF Full
    <3>3. ASSUME NEW q \in Partitions, NEW s \in SlicesOf(q)', s.array = volume.array
          PROVE  Full(s)'
      <4>1. CASE s \in SlicesOf(q) /\ (q # p \/ s.id # t.id)
        BY <1>11, <3>1, <3>3, <4>1
      <4>2. CASE q = p /\ s = w
        <5>1. w.array \in DOMAIN heap /\ t.array = volume.array
          BY <1>5, <3>3, <4>2
        <5>2. Full(t)
          BY <1>3, <1>6, <3>1, <5>1
        <5>3. heap' = heap /\ w = t
          BY <1>5, <5>1, <5>2
        <5> QED
          BY <1>10, <4>2, <5>2, <5>3 DEF Full
      <4> QED
        BY <1>8, <4>1, <4>2
    <3> QED
      BY <1>3, <2>3, <3>2, <3>3
  <2> QED
    BY <1>9, <2>2, <2>3 DEF Sharing
<1>14. Contents'
  <2>1. /\ \A q \in Partitions : \A id : q # p \/ id # volume.id => PathsUnder(q, id)' = PathsUnder(q, id)
        /\ \A id : id = volume.id => PathsUnder(p, id)' = PathsUnder(p, id) \cup PathsOf(block)
    BY <1>1, PathsGrow
  <2>2. /\ Increasing(heap[volume.array], volume.len)
        /\ Members(heap[volume.array], volume.len) = PathsOf(block)
    BY <1>3 DEF JInv, Contents
  <2>3. ASSUME NEW q \in Partitions, NEW s \in SlicesOf(q)'
        PROVE  /\ Increasing(heap'[s.array], s.len)
               /\ Members(heap'[s.array], s.len) = PathsUnder(q, s.id)'
    <3>1. CASE s \in SlicesOf(q) /\ (q # p \/ s.id # t.id)
      <4>1. /\ Increasing(heap[s.array], s.len)
            /\ Members(heap[s.array], s.len) = PathsUnder(q, s.id)
        BY <3>1 DEF JInv, Contents
      <4>2. heap'[s.array] = heap[s.array]
        BY <1>5, <3>1
      <4>3. PathsUnder(q, s.id)' = PathsUnder(q, s.id)
        BY <1>4, <2>1, <3>1
      <4> QED
        BY <4>1, <4>2, <4>3
    <3>2. CASE q = p /\ s = w
      <4>1. PathsUnder(q, s.id)' = PathsUnder(q, s.id) \cup PathsOf(block)
        BY <1>4, <2>1, <3>2
      <4>2. Members(heap[t.array], t.len) = PathsUnder(q, s.id)
        BY <1>3, <1>4, <1>6, <3>2 DEF JInv, Contents
      <4> QED
        BY <1>7, <2>2, <3>2, <4>1, <4>2
    <3> QED
      BY <1>8, <3>1, <3>2
  <2>4. todo' # {} => /\ Increasing(heap'[volume'.array], volume'.len)
                      /\ Members(heap'[volume'.array], volume'.len) = PathsOf(block)'
    <3>1. PathsOf(block)' = PathsOf(block) \/ todo' = {}
      BY <1>3 DEF PathsOf
    <3> QED
      BY <1>3, <1>5, <2>2, <3>1
  <2> QED
    BY <1>9, <2>3, <2>4 DEF Contents
<1> QED
  BY <1>12, <1>13, <1>14 DEF JInv

\* With no room ever shared, every state satisfies both invariants.
THEOREM MountsInvariance ==
  ASSUME RoomNeverShared
  PROVE  Spec => [](IInv /\ JInv)
<1>1. IInv /\ JInv /\ [Next]_vars => JInv'
  <2> SUFFICES ASSUME IInv, JInv, [Next]_vars PROVE JInv'
    OBVIOUS
  <2>1. CASE ReadLine
    BY <2>1, ReadLineMounts
  <2>2. CASE SkipBlock
    BY <2>2, SkipBlockMounts
  <2>3. CASE MakeVolume
    BY <2>3, MakeVolumeMounts
  <2>4. CASE SortVolumes
    BY <2>4, SortVolumesMounts
  <2>5. CASE \E p \in Partitions : AppendVolume(p)
    BY <2>5, AppendVolumeMounts
  <2>6. CASE \E p \in Partitions : MergeVolume(p)
    BY <2>6, MergeVolumeMounts
  <2>7. CASE UNCHANGED vars
    <3>1. UNCHANGED <<input, line, mounts, block, volume, todo, volumes, heap, done>>
      BY <2>7 DEF vars
    <3>2. FromLines'
      BY <3>1, FromLinesStay DEF JInv
    <3>3. Sharing'
      BY <3>1 DEF JInv, Sharing, SlicesOf, Full, Partitions
    <3>4. \A p : Attached(p)' = Attached(p) /\ SlicesOf(p)' = SlicesOf(p)
      BY <3>1, BlocksStay DEF Attached, SlicesOf
    <3>5. Partitions' = Partitions /\ PathsOf(block)' = PathsOf(block)
      BY <3>1 DEF Partitions, PathsOf
    <3>6. \A p, id : PathsUnder(p, id)' = PathsUnder(p, id)
      BY <3>1, <3>4, BlocksStay DEF PathsUnder
    <3>7. Contents'
      BY <3>1, <3>4, <3>5, <3>6 DEF JInv, Contents
    <3> QED
      BY <3>2, <3>3, <3>7 DEF JInv
  <2> QED
    BY <2>1, <2>2, <2>3, <2>4, <2>5, <2>6, <2>7 DEF Next
<1> QED
  BY <1>1, InitIInv, InitJInv, Invariance, PTL DEF Spec

\* MountPointsExact for every machine on which no room is shared: however many
\* blocks carry a volume, on however many partitions, its mount points are those
\* of all the blocks that carry it there, in order and without repetition.
THEOREM ExactMountPoints ==
  ASSUME RoomNeverShared
  PROVE  Spec => []MountPointsExact
<1>1. IInv /\ JInv => MountPointsExact
  <2> SUFFICES ASSUME IInv, JInv, done, NEW p \in Partitions, NEW i \in DOMAIN volumes[p]
               PROVE  LET s == Points(p, i)
                      IN  /\ \A k \in 1..(Len(s) - 1) : s[k] < s[k + 1]
                          /\ {s[k] : k \in DOMAIN s}
                               = UNION {PathsOf(b) : b \in CarriedBy(p, volumes[p][i].id)}
    BY DEF MountPointsExact
  <2> DEFINE v == volumes[p][i]
             s == Points(p, i)
             h == heap[v.array]
  <2>1. v \in SlicesOf(p)
    BY DEF SlicesOf
  <2>2. Increasing(h, v.len) /\ Members(h, v.len) = PathsUnder(p, v.id)
    BY <2>1 DEF JInv, Contents
  <2>3. v.len \in Nat /\ v.len \in 0..Len(h) /\ h \in Seq(Nat)
    <3>1. InHeap(v)
      BY <2>1 DEF IInv, Slices
    <3>2. heap \in Seq(Seq(Nat))
      BY DEF IInv, Types
    <3>3. h \in Seq(Nat) /\ v.len \in 0..Len(h)
      BY <3>1, <3>2 DEF InHeap
    <3> QED
      BY <3>3
  <2>4. s = [k \in 1..v.len |-> h[k]]
    BY DEF Points, Elements
  <2> HIDE DEF s, h
  <2>5. Len(s) = v.len /\ DOMAIN s = 1..v.len /\ \A k \in 1..v.len : s[k] = h[k]
    <3>1. \A k \in 1..v.len : h[k] \in Nat
      BY <2>3
    <3>2. s \in [1..v.len -> Nat]
      BY <2>4, <3>1
    <3>3. Len(s) = v.len
      BY <2>3, <3>2, FunctionIsSeq
    <3> QED
      BY <2>4, <3>3
  <2>6. \A k \in 1..(Len(s) - 1) : s[k] < s[k + 1]
    <3>1. \A k \in 1..(v.len - 1) : k \in 1..v.len /\ k + 1 \in 1..v.len /\ k < k + 1
      BY <2>3
    <3> HIDE DEF v
    <3> QED
      BY <2>2, <2>5, <3>1 DEF Increasing
  <2>7. {s[k] : k \in DOMAIN s} = Members(h, v.len)
    BY <2>5 DEF Members
  <2>8. {c \in Attached(p) : VolumeID(c) = v.id} = CarriedBy(p, v.id)
    <3>1. block = NBlocks + 1 /\ NBlocks \in Nat /\ \A b \in input.graph.blocks : b \in Blocks
      BY InputFacts DEF IInv, Control
    <3>2. \A b \in input.graph.blocks : b < block
      BY <3>1 DEF Blocks
    <3> QED
      BY <3>2 DEF Attached, CarriedBy
  <2>9. PathsUnder(p, v.id) = UNION {PathsOf(b) : b \in CarriedBy(p, v.id)}
    BY <2>8 DEF PathsUnder
  <2> QED
    BY <2>2, <2>6, <2>7, <2>9 DEF s
<1> QED
  BY <1>1, MountsInvariance, PTL

\* OtherPartitionsUntouched, on the same machines: merging a volume under one
\* partition writes nothing that another one reports.
THEOREM OthersUntouched ==
  ASSUME RoomNeverShared
  PROVE  Spec => OtherPartitionsUntouched
<1> DEFINE Untouched == \A p \in Partitions : ~done' /\ p \notin todo \ todo' =>
                          /\ volumes'[p] = volumes[p]
                          /\ \A i \in DOMAIN volumes[p] : Points(p, i)' = Points(p, i)
<1>1. IInv /\ JInv /\ [Next]_vars => [Untouched]_vars
  <2> SUFFICES ASSUME IInv, JInv, Next, NEW q \in Partitions, ~done', q \notin todo \ todo'
               PROVE  /\ volumes'[q] = volumes[q]
                      /\ \A i \in DOMAIN volumes[q] : Points(q, i)' = Points(q, i)
    OBVIOUS
  <2> SUFFICES /\ volumes'[q] = volumes[q]
               /\ \A s \in SlicesOf(q) : heap'[s.array] = heap[s.array]
    BY DEF Points, Elements, SlicesOf
  <2>1. CASE ReadLine \/ SkipBlock
    BY <2>1 DEF ReadLine, SkipBlock
  <2>2. CASE MakeVolume
    <3>1. UNCHANGED volumes /\ \A k \in DOMAIN heap : heap'[k] = heap[k]
      BY <2>2, MakeVolumeEffect DEF MakeVolume
    <3>2. \A s \in SlicesOf(q) : s.array \in DOMAIN heap
      BY DEF IInv, Slices, InHeap
    <3> QED
      BY <3>1, <3>2
  <2>3. CASE SortVolumes
    BY <2>3 DEF SortVolumes
  <2>4. ASSUME NEW p \in Partitions, AppendVolume(p)
        PROVE  /\ volumes'[q] = volumes[q]
               /\ \A s \in SlicesOf(q) : heap'[s.array] = heap[s.array]
    <3>1. p \in todo \ todo'
      BY <2>4, AttachFacts DEF AppendVolume
    <3> QED
      BY <2>4, <3>1, AppendVolumeEffect
  <2>5. ASSUME NEW p \in Partitions, MergeVolume(p)
        PROVE  /\ volumes'[q] = volumes[q]
               /\ \A s \in SlicesOf(q) : heap'[s.array] = heap[s.array]
    <3>1. p \in todo \ todo'
      BY <2>5, AttachFacts DEF MergeVolume
    <3>2. PICK i, w : Merged(p, i, w)
      BY <2>5, MergeVolumeEffect
    <3>3. volumes'[q] = volumes[q]
      BY <2>5, <3>1, <3>2, MergedSlices
    <3>4. \A s \in SlicesOf(q) : heap'[s.array] = heap[s.array]
      BY <2>5, <3>1, <3>2, MergeKeeps
    <3> QED
      BY <3>3, <3>4
  <2> QED
    BY <2>1, <2>2, <2>3, <2>4, <2>5 DEF Next
<1>2. OtherPartitionsUntouched <=> [][Untouched]_vars
  BY DEF OtherPartitionsUntouched
<1> QED
  BY <1>1, <1>2, MountsInvariance, PTL DEF Spec
===============================================================================
