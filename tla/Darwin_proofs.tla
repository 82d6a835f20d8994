----------------------------- MODULE Darwin_proofs -----------------------------
(****************************************************************************)
(* Proofs about the two native layers of macOS: the disks that              *)
(* collectDarwinDisks puts together from what hw_storage found in the I/O    *)
(* registry (DarwinStorage), and the text that carries rows from C to Go     *)
(* (DarwinRows).  The two parts share no state and no lemma but those of     *)
(* OrderLemmas.                                                             *)
(*                                                                          *)
(* Disks.  The invariant IInv says of every medium found where its row is:   *)
(* still queued, or told, in a place that the remembered positions name.     *)
(*                                                                          *)
(* Text.  RowsInv says that the text, split in lines and cells as Go splits  *)
(* it, is the table of the rows meant, as long as no append was dropped.     *)
(****************************************************************************)
EXTENDS DarwinStorage, DarwinRows, OrderLemmas, SequenceTheorems

-------------------------------------------------------------------------------
\* What the registry is made of, apart from the state of a collection.
Physical(r)  == {x \in r.whole : r.path[x] \cap r.virtual = {} /\ r.name[x] # << >>}
Below(r, d)  == {x \in Media \ (r.whole \cup {d}) : d \in r.path[x]}
Slices(r, d) == {p \in Media \ r.whole : /\ r.parent[p] = d /\ r.name[p] # << >>
                                         /\ r.base[p] # 0 \/ r.name[p][2] # 0}
Files(r, p)  == {x \in Media \ r.whole : r.volume[x].described /\ p \in r.path[x]}
Slice(r, x, d) == Len(r.name[x]) = 2 /\ r.name[x][1] = r.name[d][1]

LEMMA RegistryNames ==
  /\ PhysicalDisks = Physical(registry)
  /\ \A d : Children(d) = Below(registry, d)
  /\ \A d : Partitions(d) = Slices(registry, d)
  /\ \A p : Filesystems(p) = Files(registry, p)
  /\ \A x, d : BelongsTo(x, d) <=> Slice(registry, x, d)
BY DEF PhysicalDisks, Physical, Children, Below, Partitions, Slices, Filesystems, Files,
       BelongsTo, Slice, IsPhysical, Above, Name

\* A path holds a medium and all that is on the path of the one above it; the
\* media above have smaller numbers.
LEMMA PathStep ==
  ASSUME NEW r, Registry(r), NEW x \in Media
  PROVE  /\ x \in r.path[x] /\ r.path[x] \subseteq Media
         /\ r.parent[x] = 0 => r.path[x] = {x}
         /\ r.parent[x] # 0 => /\ r.parent[x] \in Media /\ r.parent[x] < x
                               /\ r.path[x] = {x} \cup r.path[r.parent[x]]
<1>1. /\ r.parent[x] \in Media \cup {0} /\ r.parent[x] < x
      /\ r.path[x] \in SUBSET Media
      /\ r.path[x] = {x} \cup UNION {r.path[y] : y \in {r.parent[x]} \ {0}}
  BY DEF Registry
<1>2. CASE r.parent[x] = 0
  <2>1. {r.parent[x]} \ {0} = {}
    BY <1>2
  <2>2. UNION {r.path[y] : y \in {r.parent[x]} \ {0}} = {}
    BY <2>1
  <2> QED
    BY <1>1, <1>2, <2>2
<1>3. CASE r.parent[x] # 0
  <2>1. {r.parent[x]} \ {0} = {r.parent[x]}
    BY <1>3
  <2>2. UNION {r.path[y] : y \in {r.parent[x]} \ {0}} = r.path[r.parent[x]]
    BY <2>1
  <2> QED
    BY <1>1, <1>3, <2>2
<1> QED
  BY <1>2, <1>3

LEMMA PathUp ==
  ASSUME NEW r, Registry(r), NEW x \in Media, NEW y \in r.path[x]
  PROVE  /\ y \in Media /\ y <= x /\ r.path[y] \subseteq r.path[x]
         /\ r.parent[y] # 0 => r.parent[y] \in r.path[x]
<1>0. Media \subseteq Nat
  BY DarwinAssumption
<1> DEFINE Good(z) == \A u \in r.path[z] : u <= z /\ r.path[u] \subseteq r.path[z]
           Bad == {z \in Media : ~Good(z)}
<1>1. ASSUME Bad # {}
      PROVE  FALSE
  <2>1. PICK z \in Bad : \A v \in Bad : z <= v
    <3>1. Bad \in SUBSET Nat
      BY <1>0
    <3> HIDE DEF Bad
    <3> QED
      BY <1>1, <3>1, NaturalLeast
  <2>2. z \in Media /\ ~Good(z)
    OBVIOUS
  <2> DEFINE w == r.parent[z]
  <2>3. CASE w = 0
    <3>1. r.path[z] = {z}
      BY <2>2, <2>3, PathStep
    <3> QED
      BY <1>0, <2>2, <3>1
  <2>4. CASE w # 0
    <3>1. w \in Media /\ w < z /\ r.path[z] = {z} \cup r.path[w] /\ w \in r.path[w]
      BY <2>2, <2>4, PathStep
    <3>2. w \notin Bad
      <4>0. z \in Nat /\ w \in Nat /\ w < z
        BY <1>0, <2>2, <3>1
      <4>1. ~(z <= w)
        BY <4>0
      <4> HIDE DEF Bad
      <4> QED
        BY <2>1, <4>1
    <3>3. Good(w)
      BY <3>1, <3>2
    <3>4. ASSUME NEW u \in r.path[z]
          PROVE  u <= z /\ r.path[u] \subseteq r.path[z]
      <4>1. CASE u = z
        BY <1>0, <2>2, <4>1
      <4>2. CASE u # z
        <5>1. u \in r.path[w] /\ u <= w /\ r.path[u] \subseteq r.path[w]
          BY <3>1, <3>3, <3>4, <4>2
        <5>2. u \in Media
          BY <3>1, <5>1, PathStep
        <5>3. u <= z
          <6>1. u \in Nat /\ z \in Nat /\ w \in Nat /\ u <= w /\ w < z
            BY <1>0, <2>2, <3>1, <5>1, <5>2
          <6> QED
            BY <6>1
        <5> QED
          BY <3>1, <5>1, <5>3
      <4> QED
        BY <4>1, <4>2
    <3> QED
      BY <2>2, <3>4
  <2> QED
    BY <2>3, <2>4
<1>2. Good(x)
  BY <1>1
<1>3. y \in Media /\ y <= x /\ r.path[y] \subseteq r.path[x]
  BY <1>2, PathStep
<1>4. ASSUME r.parent[y] # 0
      PROVE  r.parent[y] \in r.path[x]
  BY <1>3, <1>4, PathStep
<1> QED
  BY <1>3, <1>4

\* Of the media right below one there is only one on a path.
LEMMA PathOnce ==
  ASSUME NEW r, Registry(r), NEW x \in Media, NEW d \in Media,
         NEW y \in r.path[x], NEW z \in r.path[x], r.parent[y] = d, r.parent[z] = d
  PROVE  y = z
<1>0. Media \subseteq Nat \ {0} /\ d # 0
  BY DarwinAssumption
<1> DEFINE Good(v) == \A s, t \in r.path[v] : r.parent[s] = d /\ r.parent[t] = d => s = t
           Bad == {v \in Media : ~Good(v)}
<1>1. ASSUME Bad # {}
      PROVE  FALSE
  <2>1. PICK v \in Bad : \A w \in Bad : v <= w
    <3>1. Bad \in SUBSET Nat
      BY <1>0
    <3> HIDE DEF Bad
    <3> QED
      BY <1>1, <3>1, NaturalLeast
  <2>2. v \in Media /\ v \in Nat /\ ~Good(v)
    BY <1>0
  <2>3. PICK s \in r.path[v], t \in r.path[v] : r.parent[s] = d /\ r.parent[t] = d /\ s # t
    BY <2>2
  <2> DEFINE w == r.parent[v]
  <2>4. w # 0
    BY <2>2, <2>3, PathStep
  <2>5. w \in Media /\ w < v /\ r.path[v] = {v} \cup r.path[w] /\ w \in Nat
    BY <1>0, <2>2, <2>4, PathStep
  <2>6. w \notin Bad
    BY <2>1, <2>2, <2>5
  <2>7. ~(s \in r.path[w] /\ t \in r.path[w])
    BY <2>3, <2>5, <2>6
  <2>8. ASSUME NEW a \in r.path[w], r.parent[a] = d, w = d
        PROVE  FALSE
    <3>1. a \in Media /\ a <= d
      BY <2>5, <2>8, PathUp
    <3>2. d < a
      BY <2>8, <3>1, <1>0, PathStep
    <3> QED
      BY <1>0, <3>1, <3>2
  <2>9. CASE s = v
    BY <2>3, <2>5, <2>8, <2>9
  <2>10. CASE t = v
    BY <2>3, <2>5, <2>8, <2>10
  <2> QED
    BY <2>3, <2>5, <2>7, <2>9, <2>10
<1>2. Good(x)
  BY <1>1
<1> QED
  BY <1>2

\* The names of the slices of a disk tell that they are, and right below it.
LEMMA SliceOf ==
  ASSUME NEW r, Registry(r), NEW d \in Physical(r), NEW y \in Media
  PROVE  /\ Slice(r, y, d) <=> y \notin r.whole /\ r.parent[y] = d /\ r.name[y] # << >>
         /\ Slice(r, y, d) => Len(r.name[y]) = 2 /\ <<r.name[y][1]>> = r.name[d]
<1>1. /\ d \in r.whole /\ d \in Media /\ r.name[d] # << >> /\ r.name[d] \in Seq(Nat)
      /\ Len(r.name[d]) < 2 /\ r.name[y] \in Seq(Nat)
  BY DEF Physical, Registry
<1>2. Len(r.name[d]) = 1 /\ r.name[d] = <<r.name[d][1]>>
  <2> DEFINE s == r.name[d]
  <2>1. s \in Seq(Nat) /\ s # << >> /\ Len(s) < 2
    BY <1>1
  <2> HIDE DEF s
  <2>2. Len(s) \in Nat /\ Len(s) # 0
    BY <2>1, EmptySeq
  <2>3. Len(s) = 1 /\ DOMAIN s = 1..1
    <3>0. \A n \in Nat : n # 0 /\ n < 2 => n = 1
      OBVIOUS
    <3>1. Len(s) = 1
      BY <2>1, <2>2, <3>0, Zenon
    <3> QED
      BY <2>1, <3>1, LenProperties
  <2>4. s = <<s[1]>>
    BY <2>1, <2>3
  <2> QED
    BY <2>3, <2>4 DEF s
<1>3. Len(r.name[y]) = 2 <=> y \notin r.whole /\ r.name[y] # << >> /\ r.parent[y] \in r.whole
  BY DEF Registry
<1>4. Len(r.name[y]) = 2 => <<r.name[y][1]>> = r.name[r.parent[y]]
  BY DEF Registry
<1>5. ASSUME Slice(r, y, d)
      PROVE  y \notin r.whole /\ r.parent[y] = d /\ r.name[y] # << >> /\ Len(r.name[y]) = 2
  <2>1. Len(r.name[y]) = 2 /\ r.name[y][1] = r.name[d][1]
    BY <1>5 DEF Slice
  <2>2. r.name[r.parent[y]] = r.name[d] /\ r.parent[y] \in r.whole /\ r.whole \subseteq Media
    BY <1>2, <1>3, <1>4, <2>1 DEF Registry
  <2>3. r.parent[y] = d
    BY <1>1, <2>2 DEF Registry
  <2> QED
    BY <1>3, <2>1, <2>3
<1>6. ASSUME y \notin r.whole, r.parent[y] = d, r.name[y] # << >>
      PROVE  Slice(r, y, d)
  <2>1. Len(r.name[y]) = 2 /\ <<r.name[y][1]>> = r.name[d]
    BY <1>1, <1>3, <1>4, <1>6
  <2> QED
    BY <1>2, <2>1 DEF Slice
<1>7. ASSUME Slice(r, y, d)
      PROVE  <<r.name[y][1]>> = r.name[d]
  BY <1>2, <1>7 DEF Slice
<1> QED
  BY <1>5, <1>6, <1>7

\* The search upwards finds the slice of the disk that the medium is on, which
\* is the only one, or none.
LEMMA AncestorIs ==
  ASSUME Registry(registry), NEW d \in Physical(registry), NEW x \in Media
  PROVE  /\ Ancestor(x, d) # 0 => /\ Ancestor(x, d) \in registry.path[x] \ registry.whole
                                  /\ Slice(registry, Ancestor(x, d), d)
         /\ \A p \in registry.path[x] \ registry.whole :
              Slice(registry, p, d) => Ancestor(x, d) = p
<1> DEFINE found == {y \in registry.path[x] \ registry.whole : Slice(registry, y, d)}
           named == {y \in Above(x) \ registry.whole : BelongsTo(y, d)}
<1>0. Media \subseteq Nat \ {0} /\ d \in Media
  BY DarwinAssumption DEF Physical, Registry
<1>1. named = found
  BY RegistryNames DEF Above
<1>2. Ancestor(x, d) = IF found = {} THEN 0 ELSE CHOOSE y \in found : \A z \in found : z <= y
  <2>1. Ancestor(x, d) = IF named = {} THEN 0 ELSE CHOOSE y \in named : \A z \in named : z <= y
    BY DEF Ancestor
  <2> HIDE DEF named, found
  <2> QED
    BY <1>1, <2>1, Zenon
<1>3. \A y, z \in found : y = z /\ y \in Media
  <2> SUFFICES ASSUME NEW y \in found, NEW z \in found
               PROVE  y = z /\ y \in Media
    OBVIOUS
  <2>1. y \in Media /\ z \in Media /\ y \in registry.path[x] /\ z \in registry.path[x]
    BY PathStep
  <2>2. registry.parent[y] = d /\ registry.parent[z] = d
    BY <2>1, SliceOf
  <2> QED
    BY <1>0, <2>1, <2>2, PathOnce
<1>4. ASSUME NEW p \in found
      PROVE  Ancestor(x, d) = p
  <2>1. \A z \in found : z <= p
    BY <1>0, <1>3
  <2> HIDE DEF found
  <2>2. \E y \in found : \A z \in found : z <= y
    BY <2>1
  <2>3. Ancestor(x, d) \in found
    BY <1>2, <2>2
  <2> QED
    BY <1>3, <2>3
<1>5. ASSUME Ancestor(x, d) # 0
      PROVE  Ancestor(x, d) \in found
  <2>1. PICK p \in found : TRUE
    BY <1>2, <1>5
  <2> HIDE DEF found
  <2> QED
    BY <1>4
<1> QED
  BY <1>4, <1>5

\* The media of a disk and of a slice are below the disk.
LEMMA PartsBelow ==
  ASSUME NEW r, Registry(r), NEW d \in Physical(r), NEW p \in Slices(r, d)
  PROVE  p \in Below(r, d) /\ Files(r, p) \subseteq Below(r, d) /\ Slice(r, p, d)
<1>0. Media \subseteq Nat \ {0} /\ d \in Media /\ d \in r.whole /\ p \in Media /\ p \notin r.whole
  BY DarwinAssumption DEF Physical, Registry, Slices
<1>1. r.parent[p] = d /\ d # 0 /\ r.name[p] # << >>
  BY <1>0 DEF Slices
<1>2. d \in r.path[p]
  BY <1>0, <1>1, PathStep, PathUp
<1>3. p \in Below(r, d)
  BY <1>0, <1>2 DEF Below
<1>4. ASSUME NEW x \in Files(r, p)
      PROVE  x \in Below(r, d)
  <2>1. x \in Media /\ x \notin r.whole /\ p \in r.path[x]
    BY <1>4 DEF Files
  <2>2. d \in r.path[x]
    BY <1>2, <2>1, PathUp
  <2> QED
    BY <1>0, <2>1, <2>2 DEF Below
<1> QED
  BY <1>0, <1>1, <1>3, <1>4, SliceOf

\* A medium on a slice of the disk is that slice or finds it above.
LEMMA OnSlice ==
  ASSUME Registry(registry), NEW d \in Physical(registry), NEW p \in Slices(registry, d),
         NEW x \in Files(registry, p)
  PROVE  IF Slice(registry, x, d) THEN x = p ELSE Ancestor(x, d) = p
<1>1. /\ x \in Media /\ p \in Media /\ p \in registry.path[x] /\ p \notin registry.whole
      /\ registry.parent[p] = d /\ d \in Media
  BY DEF Files, Slices, Physical, Registry
<1>2. CASE Slice(registry, x, d)
  <2>1. registry.parent[x] = d /\ x \in registry.path[x]
    BY <1>1, <1>2, SliceOf, PathStep
  <2>2. x = p
    BY <1>1, <2>1, PathOnce
  <2> QED
    BY <1>2, <2>2
<1>3. CASE ~Slice(registry, x, d)
  <2>1. Slice(registry, p, d)
    BY PartsBelow
  <2> QED
    BY <1>1, <1>3, <2>1, AncestorIs
<1> QED
  BY <1>2, <1>3

-------------------------------------------------------------------------------
\* Queues: what is added at the end and taken from the front.
LEMMA AppendFacts ==
  ASSUME NEW S, NEW s \in Seq(S), NEW e \in S
  PROVE  /\ Append(s, e) \in Seq(S)
         /\ DOMAIN Append(s, e) = DOMAIN s \cup {Len(s) + 1} /\ Len(s) + 1 \notin DOMAIN s
         /\ \A i \in DOMAIN s : Append(s, e)[i] = s[i]
         /\ Append(s, e)[Len(s) + 1] = e
<1>1. Len(s) \in Nat /\ DOMAIN s = 1..Len(s)
  BY LenProperties
<1>2. /\ Append(s, e) \in Seq(S) /\ Len(Append(s, e)) = Len(s) + 1
      /\ \A i \in 1..Len(s) : Append(s, e)[i] = s[i]
      /\ Append(s, e)[Len(s) + 1] = e
  BY AppendProperties
<1>3. DOMAIN Append(s, e) = 1..(Len(s) + 1)
  BY <1>2, LenProperties
<1> DEFINE n == Len(s)
<1>4. n \in Nat
  BY <1>1
<1>5. 1..(n + 1) = (1..n) \cup {n + 1} /\ n + 1 \notin 1..n
  <2> HIDE DEF n
  <2> QED
    BY <1>4
<1> QED
  BY <1>1, <1>2, <1>3, <1>5

LEMMA TailFacts ==
  ASSUME NEW S, NEW s \in Seq(S), s # << >>
  PROVE  /\ Tail(s) \in Seq(S) /\ 1 \in DOMAIN s /\ Head(s) = s[1]
         /\ \A i \in DOMAIN Tail(s) : /\ i + 1 \in DOMAIN s /\ i + 1 # 1
                                      /\ Tail(s)[i] = s[i + 1]
         /\ \A i \in DOMAIN s :
              i # 1 => i - 1 \in DOMAIN Tail(s) /\ Tail(s)[i - 1] = s[i]
         /\ \A i, j \in DOMAIN Tail(s) : i + 1 = j + 1 => i = j
<1> DEFINE n == Len(s)  t == Tail(s)
<1>1. /\ Head(s) = s[1] /\ t \in Seq(S) /\ Len(t) = n - 1
      /\ \A i \in 1..(n - 1) : t[i] = s[i + 1]
  <2>1. /\ Head(s) \in S /\ Tail(s) \in Seq(S) /\ Len(Tail(s)) = Len(s) - 1
        /\ \A i \in 1..Len(Tail(s)) : Tail(s)[i] = s[i + 1]
    BY HeadTailProperties
  <2>2. Head(s) = s[1]
    BY DEF Head
  <2> QED
    BY <2>1, <2>2
<1>2. DOMAIN s = 1..n /\ DOMAIN t = 1..(n - 1) /\ n \in Nat /\ n # 0
  <2>1. Len(s) # 0
    BY EmptySeq
  <2> QED
    BY <1>1, <2>1, LenProperties
<1> HIDE DEF n, t
<1>3. /\ \A i \in 1..(n - 1) : i + 1 \in 1..n /\ i + 1 # 1
      /\ \A i \in 1..n : i # 1 => i - 1 \in 1..(n - 1) /\ (i - 1) + 1 = i
      /\ \A i, j \in 1..(n - 1) : i + 1 = j + 1 => i = j
      /\ 1 \in 1..n
  BY <1>2
<1>4. \A i \in 1..n : i # 1 => i - 1 \in 1..(n - 1) /\ t[i - 1] = s[i]
  <2>1. ASSUME NEW i \in 1..n, i # 1
        PROVE  i - 1 \in 1..(n - 1) /\ t[i - 1] = s[i]
    <3>1. i - 1 \in 1..(n - 1) /\ (i - 1) + 1 = i
      BY <1>3, <2>1
    <3>2. t[i - 1] = s[(i - 1) + 1]
      BY <1>1, <3>1
    <3> QED
      BY <3>1, <3>2
  <2> QED
    BY <2>1
<1> QED
  BY <1>1, <1>2, <1>3, <1>4 DEF t

-------------------------------------------------------------------------------
\* The rows not yet read: what they say is in the registry.
QueueRow == [of : Media, parent : Seq(Nat)]
Queues == [disk : Seq(Media), partition : Seq(QueueRow), volume : Seq(QueueRow)]

SliceRow(r, s, d, w, e) ==
    \E a \in s \cap Physical(r) : /\ e.of \in Slices(r, a) /\ e.parent = r.name[a]
                                  /\ a = d => e.of \in w
FileRow(r, e) ==
    \E p \in Media : r.name[p] # << >> /\ e.parent = r.name[p] /\ e.of \in Files(r, p)

Right(r, s, d, w, q) ==
    /\ q \in Queues
    /\ \A i \in DOMAIN q.partition : SliceRow(r, s, d, w, q.partition[i])
    /\ \A i, j \in DOMAIN q.partition : q.partition[i].of = q.partition[j].of => i = j
    /\ \A i \in DOMAIN q.volume : FileRow(r, q.volume[i])

\* The disks of the rows are the physical ones among those looked at, each once.
Once(s, S) == /\ \A i, j \in DOMAIN s : s[i] = s[j] => i = j
              /\ \A i \in DOMAIN s : s[i] \in S
              /\ \A e \in S : \E i \in DOMAIN s : s[i] = e

\* A slice, or a medium on it, is in a row or in the disks.
SliceTold(q, ds, p) ==
    \/ \E i \in DOMAIN q.partition : q.partition[i].of = p
    \/ \E k \in DOMAIN ds : \E i \in DOMAIN ds[k].partitions : ds[k].partitions[i].of = p
FileTold(r, q, ds, p, x) ==
    \/ \E i \in DOMAIN q.volume : q.volume[i] = [of |-> x, parent |-> r.name[p]]
    \/ \E k \in DOMAIN ds : \E i \in DOMAIN ds[k].partitions :
         /\ ds[k].partitions[i].of = p
         /\ \E j \in DOMAIN ds[k].partitions[i].volumes : x \in ds[k].partitions[i].volumes[j].of
Complete(r, s, d, w, q, ds) ==
    \A a \in s \cap Physical(r) : \A p \in Slices(r, a) :
      /\ a # d \/ p \in w => SliceTold(q, ds, p)
      /\ \A x \in Files(r, p) : a # d \/ x \in w => FileTold(r, q, ds, p, x)

LEMMA QueueFields ==
  ASSUME NEW q \in Queues
  PROVE  /\ q.disk \in Seq(Media) /\ q.partition \in Seq(QueueRow) /\ q.volume \in Seq(QueueRow)
         /\ \A s \in Seq(Media) : [q EXCEPT !.disk = s] \in Queues
         /\ \A s \in Seq(QueueRow) : [q EXCEPT !.partition = s] \in Queues
         /\ \A s \in Seq(QueueRow) : [q EXCEPT !.volume = s] \in Queues
         /\ \A s : /\ [q EXCEPT !.disk = s].disk = s
                   /\ [q EXCEPT !.disk = s].partition = q.partition
                   /\ [q EXCEPT !.disk = s].volume = q.volume
                   /\ [q EXCEPT !.partition = s].disk = q.disk
                   /\ [q EXCEPT !.partition = s].partition = s
                   /\ [q EXCEPT !.partition = s].volume = q.volume
                   /\ [q EXCEPT !.volume = s].disk = q.disk
                   /\ [q EXCEPT !.volume = s].partition = q.partition
                   /\ [q EXCEPT !.volume = s].volume = s
BY DEF Queues

\* A disk more.
LEMMA OnceMore ==
  ASSUME NEW S \in SUBSET Media, NEW s \in Seq(Media), Once(s, S), NEW x \in Media \ S
  PROVE  Once(Append(s, x), S \cup {x})
<1> DEFINE t == Append(s, x)  n == Len(s) + 1
<1>1. /\ DOMAIN t = DOMAIN s \cup {n} /\ n \notin DOMAIN s /\ t[n] = x
      /\ \A i \in DOMAIN s : t[i] = s[i]
  BY AppendFacts
<1> HIDE DEF t, n
<1>2. \A i, j \in DOMAIN t : t[i] = t[j] => i = j
  BY <1>1 DEF Once
<1>3. \A i \in DOMAIN t : t[i] \in S \cup {x}
  BY <1>1 DEF Once
<1>4. \A e \in S \cup {x} : \E i \in DOMAIN t : t[i] = e
  BY <1>1 DEF Once
<1> QED
  BY <1>2, <1>3, <1>4 DEF Once, t

\* A volume row more: what was right stays right, and one more file is told.
LEMMA VolumeAppended ==
  ASSUME NEW r, NEW s, NEW d, NEW w, NEW q, NEW ds, NEW e \in QueueRow,
         Right(r, s, d, w, q), FileRow(r, e)
  PROVE  LET z == [q EXCEPT !.volume = Append(@, e)]
         IN  /\ Right(r, s, d, w, z) /\ z.partition = q.partition /\ z.disk = q.disk
             /\ \A p, x : FileTold(r, q, ds, p, x) => FileTold(r, z, ds, p, x)
             /\ \A p, x : e = [of |-> x, parent |-> r.name[p]] => FileTold(r, z, ds, p, x)
<1> DEFINE v == q.volume  t == Append(v, e)  n == Len(v) + 1  z == [q EXCEPT !.volume = t]
<1>0. q \in Queues /\ v \in Seq(QueueRow)
  BY QueueFields DEF Right
<1>1. /\ DOMAIN t = DOMAIN v \cup {n} /\ n \notin DOMAIN v /\ t[n] = e
      /\ \A i \in DOMAIN v : t[i] = v[i]
      /\ t \in Seq(QueueRow)
  BY <1>0, AppendFacts
<1>2. z \in Queues /\ z.volume = t /\ z.partition = q.partition /\ z.disk = q.disk
  BY <1>0, <1>1, QueueFields
<1> HIDE DEF t, n, z
<1>3. \A i \in DOMAIN t : FileRow(r, t[i])
  BY <1>1 DEF Right
<1>4. Right(r, s, d, w, z)
  BY <1>2, <1>3 DEF Right
<1>5. ASSUME NEW p, NEW x, FileTold(r, q, ds, p, x)
      PROVE  FileTold(r, z, ds, p, x)
  BY <1>1, <1>2, <1>5 DEF FileTold
<1>6. ASSUME NEW p, NEW x, e = [of |-> x, parent |-> r.name[p]]
      PROVE  FileTold(r, z, ds, p, x)
  BY <1>1, <1>2, <1>6 DEF FileTold
<1> QED
  BY <1>2, <1>4, <1>5, <1>6 DEF z, t

\* A partition row more, of a slice of the disk that is looked at now.
LEMMA PartitionAppended ==
  ASSUME NEW r, Registry(r), NEW s, NEW d \in s \cap Physical(r), NEW w, NEW q, NEW ds,
         NEW x \in Slices(r, d), x \notin w, Right(r, s, d, w, q)
  PROVE  LET z == [q EXCEPT !.partition = Append(@, [of |-> x, parent |-> r.name[d]])]
         IN  /\ Right(r, s, d, w \cup {x}, z) /\ z.volume = q.volume /\ z.disk = q.disk
             /\ \A p : SliceTold(q, ds, p) \/ p = x => SliceTold(z, ds, p)
<1> DEFINE e == [of |-> x, parent |-> r.name[d]]
           v == q.partition  t == Append(v, e)  n == Len(v) + 1  z == [q EXCEPT !.partition = t]
<1>0. q \in Queues /\ v \in Seq(QueueRow)
  BY QueueFields DEF Right
<1>e. e \in QueueRow /\ e.of = x /\ e.parent = r.name[d]
  BY DEF QueueRow, Slices, Physical, Registry
<1> HIDE DEF e
<1>1. /\ DOMAIN t = DOMAIN v \cup {n} /\ n \notin DOMAIN v /\ t[n] = e
      /\ \A i \in DOMAIN v : t[i] = v[i]
      /\ t \in Seq(QueueRow)
  BY <1>0, <1>e, AppendFacts
<1> HIDE DEF t, n
<1>2. z \in Queues /\ z.partition = t /\ z.volume = q.volume /\ z.disk = q.disk
  BY <1>0, <1>1, QueueFields
<1> HIDE DEF z
<1>3. \A i \in DOMAIN v : SliceRow(r, s, d, w, v[i])
  BY DEF Right
<1>4. \A i \in DOMAIN v : v[i].of # x
  <2> SUFFICES ASSUME NEW i \in DOMAIN v, v[i].of = x
               PROVE  FALSE
    OBVIOUS
  <2>1. PICK a \in s \cap Physical(r) : v[i].of \in Slices(r, a) /\ (a = d => v[i].of \in w)
    BY <1>3 DEF SliceRow
  <2>2. a = d
    BY <2>1 DEF Slices
  <2> QED
    BY <2>1, <2>2
<1>5. \A i \in DOMAIN t : SliceRow(r, s, d, w \cup {x}, t[i])
  <2>1. \A i \in DOMAIN v : SliceRow(r, s, d, w \cup {x}, v[i])
    BY <1>3 DEF SliceRow
  <2>2. SliceRow(r, s, d, w \cup {x}, e)
    BY <1>e DEF SliceRow
  <2> QED
    BY <1>1, <2>1, <2>2
<1>6. \A i, j \in DOMAIN t : t[i].of = t[j].of => i = j
  <2>1. \A i, j \in DOMAIN v : v[i].of = v[j].of => i = j
    BY DEF Right
  <2> QED
    BY <1>1, <1>e, <1>4, <2>1
<1>7. Right(r, s, d, w \cup {x}, z)
  BY <1>2, <1>5, <1>6 DEF Right
<1>8. ASSUME NEW p, SliceTold(q, ds, p) \/ p = x
      PROVE  SliceTold(z, ds, p)
  BY <1>1, <1>2, <1>e, <1>8 DEF SliceTold
<1> QED
  BY <1>2, <1>7, <1>8 DEF z, t, e

-------------------------------------------------------------------------------
\* The inductive invariant.  Where the walk is:
Walking ==
    /\ Registry(registry)
    /\ phase \in {"walk", "disks", "partitions", "volumes", "done"}
    /\ seen \subseteq registry.whole
    /\ disk \in (seen \cap Physical(registry)) \cup {0}
    /\ disk # 0 => walked \subseteq Below(registry, disk)
    /\ cut \in BOOLEAN /\ (cut => Interrupted)
    /\ phase # "walk" => disk = 0 /\ registry.whole \subseteq seen

\* Before the rows of disks are read there are no disks.
Unread ==
    phase \in {"walk", "disks"} =>
      /\ disks = << >> /\ diskByID = << >> /\ partitionByID = << >>
      /\ Once(rows.disk, seen \cap Physical(registry))

\* The disks that rows of partitions and volumes are put into: what is said of a
\* disk, a partition or a volume is about one medium.
FoundVolumes(r, p) ==
    {[of     |-> {x},
      id     |-> IF r.volume[x].uuid # 0 THEN <<"uuid", r.volume[x].uuid>> ELSE <<"dev", r.name[p]>>,
      label  |-> r.volume[x].label,
      mounts |-> {r.volume[x].mount} \ {0}] : x \in Files(r, p)}
FoundPartitions(r, a) ==
    UNION {[of : {p}, id : {r.name[p]}, volumes : Seq(FoundVolumes(r, p))] : p \in Slices(r, a)}
FoundDisks(r) ==
    UNION {[of : {a}, id : {r.name[a]}, partitions : Seq(FoundPartitions(r, a))] : a \in Physical(r)}

Disks(ds) == [k \in DOMAIN ds |-> ds[k].of]

\* The remembered positions are those of the partitions, each of which has one;
\* what is still in a row has none.
Positions(q, ds, parts) ==
    /\ \A k \in DOMAIN ds : \A i \in DOMAIN ds[k].partitions :
         /\ ds[k].partitions[i].id \in DOMAIN parts
         /\ parts[ds[k].partitions[i].id] = [disk |-> k, partition |-> i]
         /\ \A j \in DOMAIN q.partition : q.partition[j].of # ds[k].partitions[i].of
    /\ \A n \in DOMAIN parts : \E k \in DOMAIN ds : \E i \in DOMAIN ds[k].partitions :
         ds[k].partitions[i].id = n

Placed ==
    phase \in {"partitions", "volumes"} =>
      /\ disks \in Seq(FoundDisks(registry))
      /\ Once(Disks(disks), Physical(registry))
      /\ \A k \in DOMAIN disks : disks[k].id \in DOMAIN diskByID /\ diskByID[disks[k].id] = k
      /\ Positions(rows, disks, partitionByID)

IInv ==
    /\ Walking
    /\ Unread
    /\ Right(registry, seen, disk, walked, rows)
    /\ phase = "volumes" => rows.partition = << >>
    /\ Placed
    /\ phase # "done" /\ ~cut => Complete(registry, seen, disk, walked, rows, disks)
    /\ \A n \in DOMAIN diskByID : diskByID[n] \in DOMAIN disks
    /\ phase # "done" => \A n \in DOMAIN diskByID : disks[diskByID[n]].id = n
    /\ phase = "done" => /\ \A k \in DOMAIN disks : disks[k].of \in seen
                         /\ VolumesOnTheirPartition /\ NothingMissing

-------------------------------------------------------------------------------
\* The walk.

LEMMA NotZero ==
  ASSUME NEW r, Registry(r)
  PROVE  Physical(r) \subseteq Media \ {0} /\ Physical(r) \subseteq r.whole /\ r.whole \subseteq Media
BY DarwinAssumption DEF Physical, Registry

\* One medium more is looked at, and walked from now on if it is a physical disk.
LEMMA WholeSeen ==
  ASSUME NEW r, Registry(r), NEW s, NEW w, NEW q, NEW ds, NEW x \in Media \ s,
         Right(r, s, 0, w, q),
         NEW z \in Queues, z.partition = q.partition, z.volume = q.volume,
         NEW d, d = IF x \in Physical(r) THEN x ELSE 0
  PROVE  /\ Right(r, s \cup {x}, d, {}, z)
         /\ Complete(r, s, 0, w, q, ds) => Complete(r, s \cup {x}, d, {}, z, ds)
<1>0. Physical(r) \subseteq Media \ {0}
  BY NotZero
<1>1. ASSUME NEW e, SliceRow(r, s, 0, w, e)
      PROVE  SliceRow(r, s \cup {x}, d, {}, e)
  <2>1. PICK a \in s \cap Physical(r) : e.of \in Slices(r, a) /\ e.parent = r.name[a]
    BY <1>1 DEF SliceRow
  <2>2. a # d /\ a \in (s \cup {x}) \cap Physical(r)
    BY <1>0
  <2> QED
    BY <2>1, <2>2 DEF SliceRow
<1>2. Right(r, s \cup {x}, d, {}, z)
  BY <1>1 DEF Right
<1>3. ASSUME Complete(r, s, 0, w, q, ds)
      PROVE  Complete(r, s \cup {x}, d, {}, z, ds)
  <2> SUFFICES ASSUME NEW a \in (s \cup {x}) \cap Physical(r), NEW p \in Slices(r, a)
               PROVE  /\ a # d \/ p \in {} => SliceTold(z, ds, p)
                      /\ \A y \in Files(r, p) : a # d \/ y \in {} => FileTold(r, z, ds, p, y)
    BY DEF Complete
  <2>1. CASE a # d
    <3>1. a \in s \cap Physical(r) /\ a # 0
      BY <1>0, <2>1
    <3>2. /\ SliceTold(q, ds, p)
          /\ \A y \in Files(r, p) : FileTold(r, q, ds, p, y)
      BY <1>3, <3>1 DEF Complete
    <3>3. SliceTold(z, ds, p)
      BY <3>2 DEF SliceTold
    <3>4. \A y \in Files(r, p) : FileTold(r, z, ds, p, y)
      BY <3>2 DEF FileTold
    <3> QED
      BY <3>3, <3>4
  <2>2. CASE a = d
    BY <2>2
  <2> QED
    BY <2>1, <2>2
<1> QED
  BY <1>2, <1>3

LEMMA NextWholeStep ==
  ASSUME IInv, NextWhole
  PROVE  IInv'
<1>1. /\ phase = "walk" /\ disk = 0 /\ walked' = {}
      /\ registry' = registry /\ phase' = phase /\ disks' = disks /\ cut' = cut
      /\ diskByID' = diskByID /\ partitionByID' = partitionByID
  BY DEF NextWhole, maps
<1>2. PICK x \in registry.whole \ seen :
        /\ seen' = seen \cup {x}
        /\ IF Name(x) = << >> \/ ~IsPhysical(x)
           THEN UNCHANGED <<disk, rows>>
           ELSE /\ disk' = x
                /\ rows' = [rows EXCEPT !.disk = Append(@, x)]
  BY DEF NextWhole
<1>3. /\ Registry(registry) /\ seen \subseteq registry.whole /\ cut \in BOOLEAN
      /\ cut => Interrupted
      /\ disks = << >> /\ diskByID = << >> /\ partitionByID = << >>
      /\ Once(rows.disk, seen \cap Physical(registry))
      /\ Right(registry, seen, 0, walked, rows)
      /\ ~cut => Complete(registry, seen, 0, walked, rows, disks)
  BY <1>1 DEF IInv, Walking, Unread
<1>4. Physical(registry) \subseteq Media \ {0} /\ registry.whole \subseteq Media
  BY <1>3, NotZero
<1>5. x \in Physical(registry) <=> ~(Name(x) = << >> \/ ~IsPhysical(x))
  BY DEF Physical, Name, IsPhysical, Above
<1>6. rows \in Queues /\ rows.disk \in Seq(Media)
  BY <1>3, QueueFields DEF Right
<1>7. /\ disk' = IF x \in Physical(registry) THEN x ELSE 0
      /\ rows' \in Queues /\ rows'.partition = rows.partition /\ rows'.volume = rows.volume
      /\ Once(rows'.disk, seen' \cap Physical(registry))
  <2>1. CASE x \in Physical(registry)
    <3>1. disk' = x /\ rows' = [rows EXCEPT !.disk = Append(rows.disk, x)]
      BY <1>2, <1>5, <2>1
    <3>2. Append(rows.disk, x) \in Seq(Media)
      BY <1>4, <1>6, <2>1, AppendFacts
    <3>3. /\ rows' \in Queues /\ rows'.disk = Append(rows.disk, x)
          /\ rows'.partition = rows.partition /\ rows'.volume = rows.volume
      <4> DEFINE t == Append(rows.disk, x)
      <4>1. t \in Seq(Media) /\ rows' = [rows EXCEPT !.disk = t]
        BY <3>1, <3>2
      <4> HIDE DEF t
      <4>2. /\ rows' \in Queues /\ rows'.disk = t
            /\ rows'.partition = rows.partition /\ rows'.volume = rows.volume
        BY <1>6, <4>1, QueueFields
      <4> QED
        BY <4>2 DEF t
    <3> DEFINE S == seen \cap Physical(registry)
    <3>4. S \in SUBSET Media /\ x \in Media \ S /\ seen' \cap Physical(registry) = S \cup {x}
      BY <1>2, <1>4, <2>1
    <3>5. Once(Append(rows.disk, x), S \cup {x})
      <4> HIDE DEF S
      <4>1. Once(rows.disk, S)
        BY <1>3 DEF S
      <4> QED
        BY <1>6, <3>4, <4>1, OnceMore
    <3> QED
      BY <2>1, <3>1, <3>3, <3>4, <3>5
  <2>2. CASE x \notin Physical(registry)
    <3>1. disk' = 0 /\ rows' = rows
      BY <1>1, <1>2, <1>5, <2>2
    <3>2. seen' \cap Physical(registry) = seen \cap Physical(registry)
      BY <1>2, <2>2
    <3> QED
      BY <1>3, <1>6, <2>2, <3>1, <3>2
  <2> QED
    BY <2>1, <2>2
<1>8. /\ Right(registry, seen', disk', {}, rows')
      /\ ~cut => Complete(registry, seen', disk', {}, rows', disks)
  <2>1. x \in Media \ seen
    BY <1>4
  <2> QED
    BY <1>2, <1>3, <1>7, <2>1, WholeSeen
<1>9. Walking'
  <2>1. disk' \in (seen' \cap Physical(registry)) \cup {0} /\ seen' \subseteq registry.whole
    BY <1>2, <1>3, <1>7
  <2>2. walked' \subseteq Below(registry, disk')
    BY <1>1
  <2> QED
    BY <1>1, <1>3, <2>1, <2>2 DEF Walking
<1>10. Unread'
  BY <1>1, <1>3, <1>7 DEF Unread
<1>11. Placed'
  BY <1>1 DEF Placed
<1>12. \A n \in DOMAIN diskByID' : diskByID'[n] \in DOMAIN disks'
  BY <1>1 DEF IInv
<1> QED
  BY <1>1, <1>8, <1>9, <1>10, <1>11, <1>12 DEF IInv

\* hw_append_volume: if the medium has a description there is a row of it.
LEMMA AppendVolumeFacts ==
  ASSUME Registry(registry), NEW s, NEW d, NEW w, NEW ds, Right(registry, s, d, w, rows),
         NEW x \in Media \ registry.whole, NEW p \in registry.path[x], registry.name[p] # << >>
  PROVE  LET z == AppendVolume(x, p)
         IN  /\ Right(registry, s, d, w, z) /\ z.partition = rows.partition /\ z.disk = rows.disk
             /\ \A o, y : FileTold(registry, rows, ds, o, y) => FileTold(registry, z, ds, o, y)
             /\ x \in Files(registry, p) => FileTold(registry, z, ds, p, x)
<1> DEFINE e == [of |-> x, parent |-> registry.name[p]]
           z == [rows EXCEPT !.volume = Append(@, e)]
<1>1. CASE registry.volume[x].described
  <2>1. AppendVolume(x, p) = z
    BY <1>1 DEF AppendVolume, Name
  <2>2. p \in Media /\ x \in Files(registry, p)
    BY <1>1, PathStep DEF Files
  <2>3. e \in QueueRow /\ e.parent = registry.name[p] /\ e.of = x
    BY <2>2 DEF QueueRow, Registry
  <2>4. FileRow(registry, e)
    BY <2>2, <2>3 DEF FileRow
  <2> HIDE DEF e
  <2>5. /\ Right(registry, s, d, w, z) /\ z.partition = rows.partition /\ z.disk = rows.disk
        /\ \A o, y : FileTold(registry, rows, ds, o, y) => FileTold(registry, z, ds, o, y)
        /\ \A o, y : e = [of |-> y, parent |-> registry.name[o]] => FileTold(registry, z, ds, o, y)
    BY <2>3, <2>4, VolumeAppended
  <2>6. FileTold(registry, z, ds, p, x)
    BY <2>5 DEF e
  <2> HIDE DEF z
  <2> QED
    BY <2>1, <2>5, <2>6
<1>2. CASE ~registry.volume[x].described
  <2>1. AppendVolume(x, p) = rows /\ x \notin Files(registry, p)
    BY <1>2 DEF AppendVolume, Files
  <2> QED
    BY <2>1
<1> QED
  BY <1>1, <1>2

\* A medium more of the walk leaves the rows right.
LEMMA RightLater ==
  ASSUME NEW r, NEW s, NEW d, NEW w, NEW v, w \subseteq v, NEW q, Right(r, s, d, w, q)
  PROVE  Right(r, s, d, v, q)
BY DEF Right, SliceRow

\* What a medium below the disk is told to be on, if anything.
LEMMA NextChildStep ==
  ASSUME IInv, NextChild
  PROVE  IInv'
<1>1. /\ phase = "walk" /\ disk # 0
      /\ registry' = registry /\ phase' = phase /\ disks' = disks /\ cut' = cut
      /\ diskByID' = diskByID /\ partitionByID' = partitionByID
      /\ disk' = disk /\ seen' = seen
  BY DEF NextChild, maps
<1>2. PICK x \in Children(disk) \ walked :
        /\ walked' = walked \cup {x}
        /\ \/ /\ BelongsTo(x, disk)
              /\ registry.base[x] # 0 \/ Name(x)[2] # 0
              /\ rows' = [AppendVolume(x, x) EXCEPT
                             !.partition = Append(@, [of |-> x, parent |-> Name(disk)])]
           \/ /\ ~BelongsTo(x, disk) /\ Ancestor(x, disk) # 0
              /\ rows' = AppendVolume(x, Ancestor(x, disk))
           \/ /\ IF BelongsTo(x, disk) THEN registry.base[x] = 0 /\ Name(x)[2] = 0
                                       ELSE Ancestor(x, disk) = 0
              /\ UNCHANGED rows
  BY DEF NextChild
<1> DEFINE r == registry  d == disk  w == walked \cup {x}
<1>3. /\ Registry(r) /\ d \in seen \cap Physical(r) /\ walked \subseteq Below(r, d)
      /\ Right(r, seen, d, walked, rows)
      /\ Once(rows.disk, seen \cap Physical(r))
      /\ ~cut => Complete(r, seen, d, walked, rows, disks)
  BY <1>1 DEF IInv, Walking, Unread
<1>4. x \in Below(r, d) /\ x \in Media /\ x \notin r.whole /\ x \notin walked /\ d \in r.path[x]
  BY <1>2, RegistryNames DEF Below
<1>5. BelongsTo(x, d) <=> Slice(r, x, d)
  BY RegistryNames
<1>n. \A p : Name(p) = r.name[p]
  BY DEF Name
\* All that is known of the new rows: they are right, the others are still
\* there, and what the medium is on is told.
<1>6. /\ Right(r, seen, d, w, rows') /\ rows'.disk = rows.disk
      /\ \A p : SliceTold(rows, disks, p) => SliceTold(rows', disks, p)
      /\ \A p, y : FileTold(r, rows, disks, p, y) => FileTold(r, rows', disks, p, y)
      /\ x \in Slices(r, d) => SliceTold(rows', disks, x)
      /\ \A p \in Slices(r, d) : x \in Files(r, p) => FileTold(r, rows', disks, p, x)
  <2>1. rows \in Queues /\ d \in Physical(r) /\ x \in r.path[x] /\ d \in Media
    BY <1>3, <1>4, PathStep, NotZero DEF Right
  <2>2. \A p \in Slices(r, d) : x \in Files(r, p) =>
          IF Slice(r, x, d) THEN x = p ELSE Ancestor(x, d) = p
    BY <1>3, <2>1, OnSlice
  <2>3. x \in Slices(r, d) <=> Slice(r, x, d) /\ (r.base[x] # 0 \/ r.name[x][2] # 0)
    BY <1>3, <1>4, <2>1, SliceOf DEF Slices
  <2>4. CASE /\ BelongsTo(x, disk)
             /\ registry.base[x] # 0 \/ Name(x)[2] # 0
             /\ rows' = [AppendVolume(x, x) EXCEPT
                            !.partition = Append(@, [of |-> x, parent |-> Name(disk)])]
    <3> DEFINE z == AppendVolume(x, x)
    <3>1. x \in Slices(r, d) /\ r.name[x] # << >> /\ Slice(r, x, d)
      BY <1>3, <1>4, <1>5, <1>n, <2>1, <2>3, <2>4, SliceOf
    <3>2. /\ Right(r, seen, d, walked, z) /\ z.partition = rows.partition /\ z.disk = rows.disk
          /\ \A o, y : FileTold(r, rows, disks, o, y) => FileTold(r, z, disks, o, y)
          /\ x \in Files(r, x) => FileTold(r, z, disks, x, x)
      BY <1>3, <1>4, <2>1, <3>1, AppendVolumeFacts
    <3>3. rows' = [z EXCEPT !.partition = Append(@, [of |-> x, parent |-> r.name[d]])]
      BY <1>n, <2>4
    <3> HIDE DEF z
    <3>4. /\ Right(r, seen, d, w, rows') /\ rows'.volume = z.volume /\ rows'.disk = z.disk
          /\ \A p : SliceTold(z, disks, p) \/ p = x => SliceTold(rows', disks, p)
      <4> HIDE DEF r, d
      <4>1. /\ Registry(r) /\ d \in seen \cap Physical(r) /\ x \in Slices(r, d) /\ x \notin walked
            /\ Right(r, seen, d, walked, z)
        BY <1>3, <1>4, <3>1, <3>2
      <4> DEFINE y == [z EXCEPT !.partition = Append(@, [of |-> x, parent |-> r.name[d]])]
      <4>2. /\ Right(r, seen, d, walked \cup {x}, y) /\ y.volume = z.volume /\ y.disk = z.disk
            /\ \A p : SliceTold(z, disks, p) \/ p = x => SliceTold(y, disks, p)
        BY <4>1, PartitionAppended
      <4> HIDE DEF y
      <4> QED
        BY <3>3, <4>2 DEF y
    <3>5. \A p : SliceTold(rows, disks, p) => SliceTold(z, disks, p)
      BY <3>2 DEF SliceTold
    <3>6. \A p, y : FileTold(r, z, disks, p, y) => FileTold(r, rows', disks, p, y)
      BY <3>4 DEF FileTold
    <3>7. \A p \in Slices(r, d) : x \in Files(r, p) => FileTold(r, rows', disks, p, x)
      BY <2>2, <3>1, <3>2, <3>6
    <3> QED
      BY <3>2, <3>4, <3>5, <3>6, <3>7
  <2>5. CASE /\ ~BelongsTo(x, disk) /\ Ancestor(x, disk) # 0
             /\ rows' = AppendVolume(x, Ancestor(x, disk))
    <3> DEFINE o == Ancestor(x, d)
    <3>1. o \in r.path[x] /\ o \in Media /\ Slice(r, o, d) /\ r.name[o] # << >>
      <4>1. o \in r.path[x] \ r.whole /\ Slice(r, o, d)
        BY <1>3, <1>4, <2>1, <2>5, AncestorIs
      <4>2. o \in Media
        BY <1>3, <1>4, <4>1, PathStep
      <4> QED
        BY <1>3, <2>1, <4>1, <4>2, SliceOf
    <3>2. x \notin Slices(r, d)
      BY <1>5, <2>3, <2>5
    <3>3. /\ Right(r, seen, d, walked, rows') /\ rows'.partition = rows.partition
          /\ rows'.disk = rows.disk
          /\ \A p, y : FileTold(r, rows, disks, p, y) => FileTold(r, rows', disks, p, y)
          /\ x \in Files(r, o) => FileTold(r, rows', disks, o, x)
      <4> HIDE DEF o
      <4>1. rows' = AppendVolume(x, o)
        BY <2>5 DEF o
      <4> QED
        BY <1>3, <1>4, <3>1, <4>1, AppendVolumeFacts
    <3>4. \A p \in Slices(r, d) : x \in Files(r, p) => FileTold(r, rows', disks, p, x)
      BY <1>5, <2>2, <2>5, <3>3
    <3>5. \A p : SliceTold(rows, disks, p) => SliceTold(rows', disks, p)
      BY <3>3 DEF SliceTold
    <3>6. Right(r, seen, d, w, rows')
      <4> HIDE DEF r, d
      <4>1. walked \subseteq w
        OBVIOUS
      <4> QED
        BY <3>3, <4>1, RightLater
    <3> QED
      BY <3>2, <3>3, <3>4, <3>5, <3>6
  <2>6. CASE /\ IF BelongsTo(x, disk) THEN registry.base[x] = 0 /\ Name(x)[2] = 0
                                      ELSE Ancestor(x, disk) = 0
             /\ UNCHANGED rows
    <3>1. rows' = rows /\ x \notin Slices(r, d)
      BY <1>5, <1>n, <2>3, <2>6
    <3>2. ASSUME NEW p \in Slices(r, d), x \in Files(r, p)
          PROVE  FALSE
      <4>1. 0 \notin Media /\ p \in Media
        BY DarwinAssumption DEF Slices
      <4> QED
        BY <1>5, <2>2, <2>6, <3>1, <3>2, <4>1
    <3>3. Right(r, seen, d, w, rows')
      <4> HIDE DEF r, d
      <4>1. walked \subseteq w
        OBVIOUS
      <4> QED
        BY <1>3, <3>1, <4>1, RightLater
    <3> QED
      BY <3>1, <3>2, <3>3
  <2> QED
    BY <1>2, <2>4, <2>5, <2>6
<1>7. ~cut => Complete(r, seen, d, w, rows', disks)
  <2> SUFFICES ASSUME ~cut, NEW a \in seen \cap Physical(r), NEW p \in Slices(r, a)
               PROVE  /\ a # d \/ p \in w => SliceTold(rows', disks, p)
                      /\ \A y \in Files(r, p) : a # d \/ y \in w => FileTold(r, rows', disks, p, y)
    BY DEF Complete
  <2>1. /\ a # d \/ p \in walked => SliceTold(rows, disks, p)
        /\ \A y \in Files(r, p) : a # d \/ y \in walked => FileTold(r, rows, disks, p, y)
    BY <1>3 DEF Complete
  <2> HIDE DEF r
  <2>2. a # d \/ p \in w => SliceTold(rows', disks, p)
    BY <1>6, <2>1
  <2>3. ASSUME NEW y \in Files(r, p), a # d \/ y \in w
        PROVE  FileTold(r, rows', disks, p, y)
    BY <1>6, <2>1, <2>3
  <2> QED
    BY <2>2, <2>3
<1>8. Walking'
  <2>1. walked' \subseteq Below(registry, disk')
    BY <1>1, <1>2, <1>3, <1>4
  <2> QED
    BY <1>1, <2>1 DEF IInv, Walking
<1>9. Unread'
  BY <1>1, <1>3, <1>6 DEF IInv, Unread
<1>10. Placed' /\ \A n \in DOMAIN diskByID' : diskByID'[n] \in DOMAIN disks'
  BY <1>1 DEF IInv, Placed
<1>11. Right(registry', seen', disk', walked', rows')
  BY <1>1, <1>2, <1>6
<1>12. ~cut' => Complete(registry', seen', disk', walked', rows', disks')
  BY <1>1, <1>2, <1>7
<1> QED
  BY <1>1, <1>8, <1>9, <1>10, <1>11, <1>12 DEF IInv

\* A walk that ends where there is no more leaves nothing untold; if it may end
\* before, what is told is right all the same.
LEMMA DiskDoneStep ==
  ASSUME IInv, DiskDone
  PROVE  IInv'
<1> DEFINE r == registry
<1>1. /\ phase = "walk" /\ disk # 0 /\ disk' = 0
      /\ registry' = registry /\ phase' = phase /\ seen' = seen /\ walked' = walked
      /\ rows' = rows /\ disks' = disks /\ diskByID' = diskByID /\ partitionByID' = partitionByID
      /\ \/ walked = Below(r, disk) /\ cut' = cut
         \/ Interrupted /\ cut' = TRUE
  BY RegistryNames DEF DiskDone, maps
<1>2. /\ Registry(r) /\ disk \in seen \cap Physical(r)
      /\ Right(r, seen, disk, walked, rows)
      /\ ~cut => Complete(r, seen, disk, walked, rows, disks)
  BY <1>1 DEF IInv, Walking
<1>3. 0 \notin Physical(r)
  BY <1>2, NotZero
<1>4. Right(r, seen, 0, walked, rows)
  <2>1. ASSUME NEW e, SliceRow(r, seen, disk, walked, e)
        PROVE  SliceRow(r, seen, 0, walked, e)
    BY <1>3, <2>1 DEF SliceRow
  <2> HIDE DEF r
  <2> QED
    BY <1>2, <2>1 DEF Right
<1>5. ASSUME ~cut'
      PROVE  Complete(r, seen, 0, walked, rows, disks)
  <2>1. walked = Below(r, disk) /\ Complete(r, seen, disk, walked, rows, disks)
    BY <1>1, <1>2, <1>5
  <2> HIDE DEF r
  <2> SUFFICES ASSUME NEW a \in seen \cap Physical(r), NEW p \in Slices(r, a)
               PROVE  /\ SliceTold(rows, disks, p)
                      /\ \A y \in Files(r, p) : FileTold(r, rows, disks, p, y)
    BY DEF Complete
  <2>2. a = disk => p \in walked /\ Files(r, p) \subseteq walked
    BY <1>2, <2>1, PartsBelow
  <2>3. SliceTold(rows, disks, p)
    BY <2>1, <2>2 DEF Complete
  <2>4. ASSUME NEW y \in Files(r, p)
        PROVE  FileTold(r, rows, disks, p, y)
    BY <2>1, <2>2, <2>4 DEF Complete
  <2> QED
    BY <2>3, <2>4
<1>6. Walking'
  <2>1. cut' \in BOOLEAN /\ (cut' => Interrupted)
    <3>1. cut \in BOOLEAN /\ (cut => Interrupted)
      BY DEF IInv, Walking
    <3>2. CASE cut' = cut
      BY <3>1, <3>2
    <3>3. CASE Interrupted /\ cut' = TRUE
      BY <3>3
    <3> QED
      BY <1>1, <3>2, <3>3
  <2> QED
    BY <1>1, <2>1 DEF IInv, Walking
<1>7. Unread' /\ Placed' /\ \A n \in DOMAIN diskByID' : diskByID'[n] \in DOMAIN disks'
  BY <1>1 DEF IInv, Unread, Placed
<1> QED
  BY <1>1, <1>4, <1>5, <1>6, <1>7 DEF IInv

LEMMA WalkDoneStep ==
  ASSUME IInv, WalkDone
  PROVE  IInv'
<1>1. /\ phase = "walk" /\ disk = 0 /\ registry.whole \subseteq seen /\ phase' = "disks"
      /\ registry' = registry /\ disk' = disk /\ seen' = seen /\ walked' = walked /\ cut' = cut
      /\ rows' = rows /\ disks' = disks /\ diskByID' = diskByID /\ partitionByID' = partitionByID
  BY DEF WalkDone, walk, maps
<1>2. Walking' /\ Unread' /\ Placed'
  BY <1>1 DEF IInv, Walking, Unread, Placed
<1> QED
  BY <1>1, <1>2 DEF IInv

\* The disks get the positions of their rows, the media of which differ.
LEMMA ReadDisksStep ==
  ASSUME IInv, ReadDisks
  PROVE  IInv'
<1> DEFINE r == registry  q == rows.disk
<1>1. /\ phase = "disks" /\ phase' = "partitions"
      /\ disks' = [k \in DOMAIN q |-> [of |-> q[k], id |-> r.name[q[k]], partitions |-> << >>]]
      /\ diskByID' = [n \in {r.name[x] : x \in ToSet(q)} |->
                        CHOOSE k \in DOMAIN q : r.name[q[k]] = n]
      /\ rows' = [rows EXCEPT !.disk = << >>]
      /\ registry' = registry /\ disk' = disk /\ seen' = seen /\ walked' = walked /\ cut' = cut
      /\ partitionByID' = partitionByID
  BY DEF ReadDisks, walk, Name
<1>2. /\ Registry(r) /\ disk = 0 /\ r.whole \subseteq seen /\ seen \subseteq r.whole
      /\ disks = << >> /\ partitionByID = << >> /\ Once(q, seen \cap Physical(r))
      /\ Right(r, seen, disk, walked, rows)
      /\ ~cut => Complete(r, seen, disk, walked, rows, disks)
  BY <1>1 DEF IInv, Walking, Unread
<1>3. rows \in Queues /\ q \in Seq(Media)
  BY <1>2, QueueFields DEF Right
<1>4. /\ rows' \in Queues /\ rows'.partition = rows.partition /\ rows'.volume = rows.volume
  <2>1. << >> \in Seq(Media)
    OBVIOUS
  <2> QED
    BY <1>1, <1>3, <2>1, QueueFields
<1>5. Physical(r) \subseteq Media /\ Physical(r) \subseteq r.whole /\ seen \cap Physical(r) = Physical(r)
  BY <1>2, NotZero
<1>6. Once(q, Physical(r))
  BY <1>2, <1>5
<1>7. /\ DOMAIN disks' = DOMAIN q
      /\ \A k \in DOMAIN q : /\ disks'[k].of = q[k] /\ disks'[k].id = r.name[q[k]]
                             /\ disks'[k].partitions = << >>
                             /\ disks'[k] \in FoundDisks(r)
  <2>1. ASSUME NEW k \in DOMAIN q
        PROVE  [of |-> q[k], id |-> r.name[q[k]], partitions |-> << >>] \in FoundDisks(r)
    <3>1. q[k] \in Physical(r)
      BY <1>6 DEF Once
    <3>2. << >> \in Seq(FoundPartitions(r, q[k]))
      OBVIOUS
    <3> DEFINE T(a) == [of : {a}, id : {r.name[a]}, partitions : Seq(FoundPartitions(r, a))]
    <3>3. [of |-> q[k], id |-> r.name[q[k]], partitions |-> << >>] \in T(q[k])
      BY <3>2
    <3> QED
      BY <3>1, <3>3 DEF FoundDisks
  <2> HIDE DEF r, q
  <2> QED
    BY <1>1, <2>1
<1>8. disks' \in Seq(FoundDisks(r))
  <2>1. DOMAIN q = 1..Len(q) /\ Len(q) \in Nat
    BY <1>3, LenProperties
  <2>2. disks' \in [1..Len(q) -> FoundDisks(r)]
    <3>1. disks' = [k \in DOMAIN disks' |-> disks'[k]]
      BY <1>1
    <3> HIDE DEF q, r
    <3> QED
      BY <1>7, <2>1, <3>1
  <2> QED
    BY <2>1, <2>2, SeqDef
<1>9. Once(Disks(disks'), Physical(r))
  <2> HIDE DEF q, r
  <2>1. DOMAIN Disks(disks') = DOMAIN q /\ \A k \in DOMAIN q : Disks(disks')[k] = q[k]
    BY <1>7 DEF Disks
  <2> QED
    BY <1>6, <2>1 DEF Once
<1>10. ASSUME NEW k \in DOMAIN q
       PROVE  r.name[q[k]] \in DOMAIN diskByID' /\ diskByID'[r.name[q[k]]] = k
  <2>1. r.name[q[k]] \in {r.name[x] : x \in ToSet(q)}
    BY DEF ToSet
  <2>2. \A m \in DOMAIN q : r.name[q[m]] = r.name[q[k]] => m = k
    <3> SUFFICES ASSUME NEW m \in DOMAIN q, r.name[q[m]] = r.name[q[k]]
                 PROVE  m = k
      OBVIOUS
    <3>1. q[m] \in Media /\ q[k] \in Media /\ r.name[q[k]] # << >>
      BY <1>5, <1>6 DEF Once, Physical
    <3>2. q[m] = q[k]
      BY <1>2, <3>1 DEF Registry
    <3> QED
      BY <1>6, <3>2 DEF Once
  <2>3. (CHOOSE m \in DOMAIN q : r.name[q[m]] = r.name[q[k]]) = k
    <3> HIDE DEF q, r
    <3> QED
      BY <2>2
  <2> HIDE DEF q, r
  <2> QED
    BY <1>1, <2>1, <2>3
<1>11. \A n \in DOMAIN diskByID' :
         diskByID'[n] \in DOMAIN disks' /\ disks'[diskByID'[n]].id = n
  <2> SUFFICES ASSUME NEW n \in DOMAIN diskByID'
               PROVE  diskByID'[n] \in DOMAIN disks' /\ disks'[diskByID'[n]].id = n
    OBVIOUS
  <2>1. n \in {r.name[x] : x \in ToSet(q)}
    BY <1>1
  <2>2. PICK k \in DOMAIN q : n = r.name[q[k]]
    BY <2>1 DEF ToSet
  <2> QED
    BY <1>7, <1>10, <2>2
<1>12. Positions(rows', disks', partitionByID')
  <2>1. partitionByID' = << >>
    BY <1>1, <1>2
  <2>2. DOMAIN partitionByID' = {}
    BY <2>1
  <2> QED
    BY <1>7, <2>2 DEF Positions
<1>13. Right(r, seen, 0, walked, rows')
  BY <1>2, <1>4 DEF Right
<1>14. ASSUME ~cut
       PROVE  Complete(r, seen, 0, walked, rows', disks')
  <2>1. Complete(r, seen, 0, walked, rows, << >>)
    BY <1>2, <1>14
  <2>2. \A p : SliceTold(rows, << >>, p) => SliceTold(rows', disks', p)
    BY <1>4 DEF SliceTold
  <2>3. \A p, x : FileTold(r, rows, << >>, p, x) => FileTold(r, rows', disks', p, x)
    BY <1>4 DEF FileTold
  <2> HIDE DEF r, q
  <2> QED
    BY <2>1, <2>2, <2>3 DEF Complete
<1>15. Placed'
  <2>1. \A k \in DOMAIN disks' : disks'[k].id \in DOMAIN diskByID' /\ diskByID'[disks'[k].id] = k
    BY <1>7, <1>10
  <2> QED
    BY <1>1, <1>8, <1>9, <1>12, <2>1 DEF Placed
<1>16. Walking' /\ Unread'
  BY <1>1, <1>2 DEF IInv, Walking, Unread
<1> QED
  BY <1>1, <1>2, <1>11, <1>13, <1>14, <1>15, <1>16 DEF IInv

LEMMA PartitionsReadStep ==
  ASSUME IInv, PartitionsRead
  PROVE  IInv'
<1>1. /\ phase = "partitions" /\ phase' = "volumes" /\ rows.partition = << >>
      /\ registry' = registry /\ disk' = disk /\ seen' = seen /\ walked' = walked /\ cut' = cut
      /\ rows' = rows /\ disks' = disks /\ diskByID' = diskByID /\ partitionByID' = partitionByID
  BY DEF PartitionsRead, walk, maps
<1>2. Walking' /\ Unread' /\ Placed'
  BY <1>1 DEF IInv, Walking, Unread, Placed
<1> QED
  BY <1>1, <1>2 DEF IInv

LEMMA InitHolds ==
  ASSUME Init
  PROVE  IInv
<1>1. /\ Registry(registry) /\ phase = "walk" /\ disk = 0 /\ seen = {} /\ walked = {} /\ cut = FALSE
      /\ rows = [disk |-> << >>, partition |-> << >>, volume |-> << >>]
      /\ disks = << >> /\ diskByID = << >> /\ partitionByID = << >>
  BY DarwinAssumption DEF Init
<1>2. Walking
  BY <1>1 DEF Walking
<1>3. Unread
  BY <1>1 DEF Unread, Once
<1>4. Right(registry, seen, disk, walked, rows)
  BY <1>1 DEF Right, Queues
<1>5. Complete(registry, seen, disk, walked, rows, disks)
  BY <1>1 DEF Complete
<1>6. \A n \in DOMAIN diskByID : diskByID[n] \in DOMAIN disks
  BY <1>1
<1> QED
  BY <1>1, <1>2, <1>3, <1>4, <1>5, <1>6 DEF IInv, Placed

-------------------------------------------------------------------------------
\* Rows put into the disks.

LEMMA DiskFields ==
  ASSUME NEW r, NEW e \in FoundDisks(r)
  PROVE  /\ e.of \in Physical(r) /\ e.id = r.name[e.of]
         /\ e.partitions \in Seq(FoundPartitions(r, e.of))
BY DEF FoundDisks

\* A disk, a partition and the disks with another content.
Parted(e, ps) == [e EXCEPT !.partitions = ps]
Filled(e, vs) == [e EXCEPT !.volumes = vs]
Reparted(ds, k, ps) == [ds EXCEPT ![k] = Parted(ds[k], ps)]

LEMMA DiskParted ==
  ASSUME NEW r, NEW e \in FoundDisks(r), NEW ps \in Seq(FoundPartitions(r, e.of))
  PROVE  /\ Parted(e, ps) \in FoundDisks(r) /\ Parted(e, ps).of = e.of
         /\ Parted(e, ps).id = e.id /\ Parted(e, ps).partitions = ps
<1> DEFINE T(a) == [of : {a}, id : {r.name[a]}, partitions : Seq(FoundPartitions(r, a))]
<1>1. PICK a \in Physical(r) : e \in T(a)
  BY DEF FoundDisks
<1>2. e.of = a /\ e.id = r.name[a] /\ e.partitions \in Seq(FoundPartitions(r, a))
  BY <1>1
<1> DEFINE f == Parted(e, ps)
<1>3. f \in T(a) /\ f.of = e.of /\ f.id = e.id /\ f.partitions = ps
  BY <1>1 DEF Parted
<1>4. f \in FoundDisks(r)
  BY <1>3 DEF FoundDisks
<1> QED
  BY <1>3, <1>4

LEMMA PartitionFields ==
  ASSUME NEW r, NEW a, NEW e \in FoundPartitions(r, a)
  PROVE  /\ e.of \in Slices(r, a) /\ e.id = r.name[e.of]
         /\ e.volumes \in Seq(FoundVolumes(r, e.of))
BY DEF FoundPartitions

LEMMA PartitionFilled ==
  ASSUME NEW r, NEW a, NEW e \in FoundPartitions(r, a), NEW vs
  PROVE  /\ Filled(e, vs).of = e.of /\ Filled(e, vs).id = e.id /\ Filled(e, vs).volumes = vs
         /\ vs \in Seq(FoundVolumes(r, e.of)) => Filled(e, vs) \in FoundPartitions(r, a)
<1> DEFINE f == Filled(e, vs)
<1> DEFINE T(p) == [of : {p}, id : {r.name[p]}, volumes : Seq(FoundVolumes(r, p))]
<1>1. PICK p \in Slices(r, a) : e \in T(p)
  BY DEF FoundPartitions
<1>2. /\ f.of = e.of /\ f.id = e.id /\ f.volumes = vs /\ e.of = p
      /\ vs \in Seq(FoundVolumes(r, p)) => f \in T(p)
  BY <1>1 DEF Filled
<1>3. vs \in Seq(FoundVolumes(r, p)) => f \in FoundPartitions(r, a)
  BY <1>2 DEF FoundPartitions
<1> QED
  BY <1>2, <1>3

\* The partitions of one disk are replaced.
LEMMA DisksReparted ==
  ASSUME NEW r, NEW ds \in Seq(FoundDisks(r)), NEW k \in DOMAIN ds,
         NEW ps \in Seq(FoundPartitions(r, ds[k].of))
  PROVE  LET z == Reparted(ds, k, ps)
         IN  /\ z \in Seq(FoundDisks(r)) /\ DOMAIN z = DOMAIN ds /\ Disks(z) = Disks(ds)
             /\ \A m \in DOMAIN ds : /\ z[m].of = ds[m].of /\ z[m].id = ds[m].id
                                     /\ m # k => z[m].partitions = ds[m].partitions
             /\ z[k].partitions = ps
<1> DEFINE e == Parted(ds[k], ps)  z == Reparted(ds, k, ps)
<1>1. z = [ds EXCEPT ![k] = e]
  BY DEF Reparted
<1>2. /\ Len(ds) \in Nat /\ DOMAIN ds = 1..Len(ds) /\ \A m \in DOMAIN ds : ds[m] \in FoundDisks(r)
      /\ ds \in [1..Len(ds) -> FoundDisks(r)]
  BY LenProperties, ElementOfSeq
<1>3. e \in FoundDisks(r) /\ e.of = ds[k].of /\ e.id = ds[k].id /\ e.partitions = ps
  BY <1>2, DiskParted
<1> HIDE DEF e, z
<1>4. /\ z \in [1..Len(ds) -> FoundDisks(r)] /\ z[k] = e
      /\ \A m \in DOMAIN ds : m # k => z[m] = ds[m]
  BY <1>1, <1>2, <1>3
<1>5. z \in Seq(FoundDisks(r)) /\ DOMAIN z = DOMAIN ds
  BY <1>2, <1>4, SeqDef
<1>6. \A m \in DOMAIN ds : z[m].of = ds[m].of /\ z[m].id = ds[m].id
  BY <1>3, <1>4
<1>7. Disks(z) = Disks(ds)
  BY <1>5, <1>6 DEF Disks
<1> QED
  BY <1>3, <1>4, <1>5, <1>6, <1>7 DEF z

\* What was told in the disks is told in others that have the same partitions
\* with the same volumes, or more.
Kept(ds, z) ==
    \A k \in DOMAIN ds : \A i \in DOMAIN ds[k].partitions :
      /\ k \in DOMAIN z /\ i \in DOMAIN z[k].partitions
      /\ z[k].partitions[i].of = ds[k].partitions[i].of
      /\ \A j \in DOMAIN ds[k].partitions[i].volumes :
           /\ j \in DOMAIN z[k].partitions[i].volumes
           /\ z[k].partitions[i].volumes[j] = ds[k].partitions[i].volumes[j]

LEMMA KeptTold ==
  ASSUME NEW r, NEW q, NEW ds, NEW z, Kept(ds, z)
  PROVE  /\ \A p : SliceTold(q, ds, p) => SliceTold(q, z, p)
         /\ \A p, x : FileTold(r, q, ds, p, x) => FileTold(r, q, z, p, x)
<1>1. ASSUME NEW p, SliceTold(q, ds, p)
      PROVE  SliceTold(q, z, p)
  BY <1>1 DEF SliceTold, Kept
<1>2. ASSUME NEW p, NEW x, FileTold(r, q, ds, p, x)
      PROVE  FileTold(r, q, z, p, x)
  <2>1. CASE \E i \in DOMAIN q.volume : q.volume[i] = [of |-> x, parent |-> r.name[p]]
    BY <2>1 DEF FileTold
  <2>2. CASE \E k \in DOMAIN ds : \E i \in DOMAIN ds[k].partitions :
               /\ ds[k].partitions[i].of = p
               /\ \E j \in DOMAIN ds[k].partitions[i].volumes : x \in ds[k].partitions[i].volumes[j].of
    <3>0. PICK k \in DOMAIN ds : \E i \in DOMAIN ds[k].partitions :
            /\ ds[k].partitions[i].of = p
            /\ \E j \in DOMAIN ds[k].partitions[i].volumes : x \in ds[k].partitions[i].volumes[j].of
      BY <2>2
    <3>1. PICK i \in DOMAIN ds[k].partitions :
            /\ ds[k].partitions[i].of = p
            /\ \E j \in DOMAIN ds[k].partitions[i].volumes : x \in ds[k].partitions[i].volumes[j].of
      BY <3>0
    <3>2. PICK j \in DOMAIN ds[k].partitions[i].volumes : x \in ds[k].partitions[i].volumes[j].of
      BY <3>1
    <3>3. /\ k \in DOMAIN z /\ i \in DOMAIN z[k].partitions /\ z[k].partitions[i].of = p
          /\ j \in DOMAIN z[k].partitions[i].volumes
          /\ x \in z[k].partitions[i].volumes[j].of
      BY <3>1, <3>2 DEF Kept
    <3> QED
      BY <3>3 DEF FileTold
  <2> QED
    BY <1>2, <2>1, <2>2 DEF FileTold
<1> QED
  BY <1>1, <1>2

LEMMA NameOnce ==
  ASSUME NEW r, Registry(r), NEW x \in Media, NEW y \in Media, r.name[x] = r.name[y],
         r.name[x] # << >>
  PROVE  x = y
BY DEF Registry

\* The disk of a row is found by its name, and the partition gets a place of its own.
LEMMA ReadPartitionStep ==
  ASSUME IInv, ReadPartition
  PROVE  IInv'
<1> DEFINE r == registry  v == rows.partition  e == v[1]  x == e.of  t == Tail(v)
           k == diskByID[e.parent]
           s == disks[k].partitions
           n == Len(s) + 1
           new == [of |-> x, id |-> r.name[x], volumes |-> << >>]
           ps == Append(s, new)
\* What is known before.
<1>1. /\ phase = "partitions" /\ Registry(r) /\ disk = 0 /\ v # << >>
      /\ r.whole \subseteq seen /\ seen \subseteq r.whole
      /\ Right(r, seen, disk, walked, rows)
      /\ disks \in Seq(FoundDisks(r)) /\ Once(Disks(disks), Physical(r))
      /\ \A m \in DOMAIN disks : disks[m].id \in DOMAIN diskByID /\ diskByID[disks[m].id] = m
      /\ Positions(rows, disks, partitionByID)
      /\ ~cut => Complete(r, seen, disk, walked, rows, disks)
      /\ \A m \in DOMAIN diskByID :
           diskByID[m] \in DOMAIN disks /\ disks[diskByID[m]].id = m
  BY DEF ReadPartition, IInv, Walking, Placed
<1>2. rows \in Queues /\ v \in Seq(QueueRow)
  BY <1>1, QueueFields DEF Right
<1>3. /\ t \in Seq(QueueRow) /\ 1 \in DOMAIN v /\ Head(v) = e
      /\ \A i \in DOMAIN t : i + 1 \in DOMAIN v /\ i + 1 # 1 /\ t[i] = v[i + 1]
      /\ \A i \in DOMAIN v : i # 1 => i - 1 \in DOMAIN t /\ t[i - 1] = v[i]
      /\ \A i, j \in DOMAIN t : i + 1 = j + 1 => i = j
  BY <1>1, <1>2, TailFacts
<1>4. PICK a \in Physical(r) : x \in Slices(r, a) /\ e.parent = r.name[a]
  BY <1>1, <1>3 DEF Right, SliceRow
<1>5. k \in DOMAIN disks /\ disks[k].of = a
  <2>1. PICK m \in DOMAIN Disks(disks) : Disks(disks)[m] = a
    BY <1>1, <1>4 DEF Once
  <2>2. m \in DOMAIN disks /\ disks[m].of = a
    BY <2>1 DEF Disks
  <2>3. disks[m] \in FoundDisks(r)
    BY <1>1, <2>2
  <2>4. disks[m].id = r.name[a]
    BY <2>2, <2>3, DiskFields
  <2> QED
    BY <1>1, <1>4, <2>2, <2>4
<1>6. s \in Seq(FoundPartitions(r, a))
  <2>1. disks[k] \in FoundDisks(r)
    BY <1>1, <1>5
  <2> QED
    BY <1>5, <2>1, DiskFields
<1>7. new \in FoundPartitions(r, a) /\ new.of = x /\ new.id = r.name[x] /\ new.volumes = << >>
  <2> DEFINE T(p) == [of : {p}, id : {r.name[p]}, volumes : Seq(FoundVolumes(r, p))]
  <2>1. << >> \in Seq(FoundVolumes(r, x))
    OBVIOUS
  <2>2. new \in T(x) /\ new.of = x /\ new.id = r.name[x] /\ new.volumes = << >>
    BY <2>1
  <2> QED
    BY <1>4, <2>2 DEF FoundPartitions
\* The step.
<1>8. /\ disks' = [disks EXCEPT ![k].partitions = ps]
      /\ partitionByID' = [m \in DOMAIN partitionByID \cup {r.name[x]} |->
                             IF m = r.name[x] THEN [disk |-> k, partition |-> n]
                             ELSE partitionByID[m]]
      /\ rows' = [rows EXCEPT !.partition = t]
      /\ registry' = registry /\ phase' = phase /\ disk' = disk /\ seen' = seen
      /\ walked' = walked /\ cut' = cut /\ diskByID' = diskByID
  BY <1>3 DEF ReadPartition, walk, Name
<1>k. v[1] = e /\ e.of = x /\ 1 \in DOMAIN v
  BY <1>3
<1>u. /\ registry' = registry /\ phase' = phase /\ disk' = disk /\ seen' = seen
      /\ walked' = walked /\ cut' = cut /\ diskByID' = diskByID
  BY <1>8
<1> HIDE DEF new, k, x, e
<1>9. /\ ps \in Seq(FoundPartitions(r, a)) /\ DOMAIN ps = DOMAIN s \cup {n} /\ n \notin DOMAIN s
      /\ ps[n] = new /\ \A i \in DOMAIN s : ps[i] = s[i]
  <2> HIDE DEF s
  <2> QED
    BY <1>6, <1>7, AppendFacts
<1> HIDE DEF ps, n
<1>10. /\ disks' \in Seq(FoundDisks(r)) /\ DOMAIN disks' = DOMAIN disks
       /\ Disks(disks') = Disks(disks)
       /\ \A m \in DOMAIN disks : /\ disks'[m].of = disks[m].of /\ disks'[m].id = disks[m].id
                                  /\ m # k => disks'[m].partitions = disks[m].partitions
       /\ disks'[k].partitions = ps
  <2>1. k \in DOMAIN disks /\ ps \in Seq(FoundPartitions(r, disks[k].of))
    BY <1>5, <1>9
  <2>2. disks \in Seq(FoundDisks(r)) /\ disks' = Reparted(disks, k, ps)
    BY <1>1, <1>8 DEF Reparted, Parted
  <2> HIDE DEF r
  <2> QED
    BY <2>1, <2>2, DisksReparted
<1>11. rows' \in Queues /\ rows'.partition = t /\ rows'.volume = rows.volume
  <2> HIDE DEF t
  <2> QED
    BY <1>2, <1>3, <1>8, QueueFields
<1>12. /\ DOMAIN partitionByID' = {r.name[x]} \cup DOMAIN partitionByID
       /\ partitionByID'[r.name[x]] = [disk |-> k, partition |-> n]
       /\ \A m \in DOMAIN partitionByID :
            m # r.name[x] => partitionByID'[m] = partitionByID[m]
  BY <1>8
\* Another entry is not of x and has another name.
<1>13. ASSUME NEW m \in DOMAIN disks, NEW i \in DOMAIN disks[m].partitions
       PROVE  /\ disks[m].partitions[i].of # x
              /\ disks[m].partitions[i].id # r.name[x]
  <2>1. disks[m].partitions[i].of # x
    <3>1. Positions(rows, disks, partitionByID) /\ v[1].of = x /\ 1 \in DOMAIN rows.partition
      BY <1>1, <1>k
    <3>2. \A j \in DOMAIN rows.partition : rows.partition[j].of # disks[m].partitions[i].of
      BY <3>1 DEF Positions
    <3> QED
      BY <3>1, <3>2
  <2>2. disks[m] \in FoundDisks(r)
    BY <1>1
  <2>3. disks[m].partitions \in Seq(FoundPartitions(r, disks[m].of))
    BY <2>2, DiskFields
  <2>4. disks[m].partitions[i] \in FoundPartitions(r, disks[m].of)
    BY <2>3
  <2>5. /\ disks[m].partitions[i].of \in Media
        /\ disks[m].partitions[i].id = r.name[disks[m].partitions[i].of]
    BY <2>4, PartitionFields DEF Slices
  <2>6. x \in Media /\ r.name[x] # << >>
    BY <1>4 DEF Slices
  <2> QED
    BY <1>1, <2>1, <2>5, <2>6, NameOnce
<1>14. Kept(disks, disks')
  <2>1. \A m \in DOMAIN disks : \A i \in DOMAIN disks[m].partitions :
          i \in DOMAIN disks'[m].partitions /\ disks'[m].partitions[i] = disks[m].partitions[i]
    BY <1>9, <1>10
  <2> QED
    BY <1>10, <2>1 DEF Kept
<1>15. Right(r, seen, disk, walked, rows')
  <2>1. \A i \in DOMAIN t : SliceRow(r, seen, disk, walked, t[i])
    BY <1>1, <1>3 DEF Right
  <2>2. \A i, j \in DOMAIN t : t[i].of = t[j].of => i = j
    BY <1>1, <1>3 DEF Right
  <2> HIDE DEF t
  <2> QED
    BY <1>1, <1>11, <2>1, <2>2 DEF Right
<1>16. Positions(rows', disks', partitionByID')
  <2>1. ASSUME NEW m \in DOMAIN disks', NEW i \in DOMAIN disks'[m].partitions
        PROVE  /\ disks'[m].partitions[i].id \in DOMAIN partitionByID'
               /\ partitionByID'[disks'[m].partitions[i].id] = [disk |-> m, partition |-> i]
               /\ \A j \in DOMAIN t : t[j].of # disks'[m].partitions[i].of
    <3>1. CASE m = k /\ i = n
      <4>1. disks'[m].partitions[i].of = x /\ disks'[m].partitions[i].id = r.name[x]
        BY <1>7, <1>9, <1>10, <3>1
      <4>2. \A j \in DOMAIN t : t[j].of # x
        <5>1. \A h, j \in DOMAIN v : v[h].of = v[j].of => h = j
          BY <1>1 DEF Right
        <5>2. \A j \in DOMAIN t : j + 1 \in DOMAIN v /\ j + 1 # 1 /\ t[j] = v[j + 1]
          BY <1>3
        <5> HIDE DEF t, v
        <5> QED
          BY <1>k, <5>1, <5>2
      <4> QED
        BY <1>12, <3>1, <4>1, <4>2
    <3>2. CASE ~(m = k /\ i = n)
      <4>1. /\ m \in DOMAIN disks /\ i \in DOMAIN disks[m].partitions
            /\ disks'[m].partitions[i] = disks[m].partitions[i]
        <5>1. CASE m # k
          BY <1>10, <2>1, <5>1
        <5>2. CASE m = k /\ i # n
          BY <1>9, <1>10, <2>1, <5>2
        <5> QED
          BY <3>2, <5>1, <5>2
      <4>2. disks[m].partitions[i].id # r.name[x]
        BY <1>13, <4>1
      <4>3. /\ disks[m].partitions[i].id \in DOMAIN partitionByID
            /\ partitionByID[disks[m].partitions[i].id] = [disk |-> m, partition |-> i]
            /\ \A j \in DOMAIN v : v[j].of # disks[m].partitions[i].of
        BY <1>1, <4>1 DEF Positions
      <4>4. \A j \in DOMAIN t : t[j].of # disks[m].partitions[i].of
        BY <1>3, <4>3
      <4> QED
        BY <1>12, <4>1, <4>2, <4>3, <4>4
    <3> QED
      BY <3>1, <3>2
  <2>2. ASSUME NEW o \in DOMAIN partitionByID'
        PROVE  \E m \in DOMAIN disks' : \E i \in DOMAIN disks'[m].partitions :
                 disks'[m].partitions[i].id = o
    <3>1. CASE o = r.name[x]
      <4>1. /\ k \in DOMAIN disks' /\ n \in DOMAIN disks'[k].partitions
            /\ disks'[k].partitions[n].id = o
        BY <1>5, <1>7, <1>9, <1>10, <3>1
      <4> QED
        BY <4>1
    <3>2. CASE o # r.name[x]
      <4>1. o \in DOMAIN partitionByID
        BY <1>12, <2>2, <3>2
      <4>2. PICK m \in DOMAIN disks : \E i \in DOMAIN disks[m].partitions :
              disks[m].partitions[i].id = o
        BY <1>1, <4>1 DEF Positions
      <4>3. PICK i \in DOMAIN disks[m].partitions : disks[m].partitions[i].id = o
        BY <4>2
      <4>4. /\ m \in DOMAIN disks' /\ i \in DOMAIN disks'[m].partitions
            /\ disks'[m].partitions[i] = disks[m].partitions[i]
        BY <1>9, <1>10
      <4> QED
        BY <4>3, <4>4
    <3> QED
      BY <3>1, <3>2
  <2> QED
    BY <1>11, <2>1, <2>2 DEF Positions
<1>17. ASSUME ~cut
       PROVE  Complete(r, seen, disk, walked, rows', disks')
  <2>1. Complete(r, seen, disk, walked, rows, disks)
    BY <1>1, <1>17
  <2>2. ASSUME NEW p, SliceTold(rows, disks, p)
        PROVE  SliceTold(rows', disks', p)
    <3>1. CASE p = x
      <4>1. /\ k \in DOMAIN disks' /\ n \in DOMAIN disks'[k].partitions
            /\ disks'[k].partitions[n].of = p
        BY <1>5, <1>7, <1>9, <1>10, <3>1
      <4> QED
        BY <4>1 DEF SliceTold
    <3>2. CASE p # x
      <4>1. SliceTold(rows', disks, p)
        <5>1. CASE \E i \in DOMAIN v : v[i].of = p
          <6>1. PICK i \in DOMAIN v : v[i].of = p
            BY <5>1
          <6>2. i - 1 \in DOMAIN t /\ t[i - 1].of = p
            BY <1>3, <1>k, <3>2, <6>1
          <6> QED
            BY <1>11, <6>2 DEF SliceTold
        <5>2. CASE ~ \E i \in DOMAIN v : v[i].of = p
          BY <2>2, <5>2 DEF SliceTold
        <5> QED
          BY <5>1, <5>2
      <4> QED
        BY <1>14, <4>1, KeptTold
    <3> QED
      BY <3>1, <3>2
  <2>3. ASSUME NEW p, NEW y, FileTold(r, rows, disks, p, y)
        PROVE  FileTold(r, rows', disks', p, y)
    <3>1. FileTold(r, rows', disks, p, y)
      BY <1>11, <2>3 DEF FileTold
    <3> QED
      BY <1>14, <3>1, KeptTold
  <2> HIDE DEF r
  <2> QED
    BY <2>1, <2>2, <2>3 DEF Complete
<1>18. Placed'
  <2>1. \A m \in DOMAIN disks' : disks'[m].id \in DOMAIN diskByID' /\ diskByID'[disks'[m].id] = m
    BY <1>1, <1>u, <1>10
  <2> QED
    BY <1>1, <1>u, <1>10, <1>16, <2>1 DEF Placed
<1>19. Walking' /\ Unread'
  BY <1>1, <1>u DEF IInv, Walking, Unread
<1>20. \A m \in DOMAIN diskByID' :
         diskByID'[m] \in DOMAIN disks' /\ disks'[diskByID'[m]].id = m
  BY <1>1, <1>u, <1>10
<1> QED
  BY <1>1, <1>u, <1>15, <1>17, <1>18, <1>19, <1>20 DEF IInv

\* One partition of one disk gets another volume.
Added(ds, k, i, new) == [ds EXCEPT ![k].partitions[i].volumes = Append(@, new)]

LEMMA VolumeAdded ==
  ASSUME NEW r, NEW ds \in Seq(FoundDisks(r)), NEW k \in DOMAIN ds,
         NEW i \in DOMAIN ds[k].partitions, NEW new \in FoundVolumes(r, ds[k].partitions[i].of)
  PROVE  /\ Added(ds, k, i, new) \in Seq(FoundDisks(r))
         /\ DOMAIN Added(ds, k, i, new) = DOMAIN ds /\ Disks(Added(ds, k, i, new)) = Disks(ds)
         /\ \A m \in DOMAIN ds :
              /\ Added(ds, k, i, new)[m].of = ds[m].of /\ Added(ds, k, i, new)[m].id = ds[m].id
              /\ DOMAIN Added(ds, k, i, new)[m].partitions = DOMAIN ds[m].partitions
              /\ \A j \in DOMAIN ds[m].partitions :
                   /\ Added(ds, k, i, new)[m].partitions[j].of = ds[m].partitions[j].of
                   /\ Added(ds, k, i, new)[m].partitions[j].id = ds[m].partitions[j].id
         /\ Kept(ds, Added(ds, k, i, new))
         /\ \E j \in DOMAIN Added(ds, k, i, new)[k].partitions[i].volumes :
              Added(ds, k, i, new)[k].partitions[i].volumes[j] = new
<1> DEFINE z == Added(ds, k, i, new)
<1> DEFINE s == ds[k].partitions  c == s[i]  vs == Append(c.volumes, new)
           ps == [s EXCEPT ![i] = Filled(c, vs)]
<1>1. z = Reparted(ds, k, ps)
  BY DEF Reparted, Parted, Filled, Added
<1> HIDE DEF z
<1>2. ds[k] \in FoundDisks(r)
  BY ElementOfSeq, LenProperties
<1> DEFINE a == ds[k].of
<1>3. s \in Seq(FoundPartitions(r, a))
  BY <1>2, DiskFields
<1>4. c \in FoundPartitions(r, a)
  <2> HIDE DEF s
  <2> QED
    BY <1>3 DEF s
<1>5. c.volumes \in Seq(FoundVolumes(r, c.of))
  <2> HIDE DEF c
  <2> QED
    BY <1>4, PartitionFields
<1>6. /\ vs \in Seq(FoundVolumes(r, c.of)) /\ DOMAIN vs = DOMAIN c.volumes \cup {Len(c.volumes) + 1}
      /\ vs[Len(c.volumes) + 1] = new
      /\ \A j \in DOMAIN c.volumes : vs[j] = c.volumes[j]
  BY <1>5, AppendFacts
<1> HIDE DEF vs
<1>7. /\ Filled(c, vs) \in FoundPartitions(r, a) /\ Filled(c, vs).of = c.of
      /\ Filled(c, vs).id = c.id /\ Filled(c, vs).volumes = vs
  BY <1>4, <1>6, PartitionFilled
<1>8. /\ ps \in Seq(FoundPartitions(r, a)) /\ DOMAIN ps = DOMAIN s /\ ps[i] = Filled(c, vs)
      /\ \A j \in DOMAIN s : j # i => ps[j] = s[j]
  <2> DEFINE g == Filled(c, vs)
  <2>1. g \in FoundPartitions(r, a) /\ i \in DOMAIN s
    BY <1>7
  <2> HIDE DEF g, s
  <2>2. /\ Len(s) \in Nat /\ DOMAIN s = 1..Len(s) /\ s \in [1..Len(s) -> FoundPartitions(r, a)]
    BY <1>3, LenProperties
  <2>3. [s EXCEPT ![i] = g] \in [1..Len(s) -> FoundPartitions(r, a)]
    BY <2>1, <2>2
  <2>4. /\ [s EXCEPT ![i] = g] \in Seq(FoundPartitions(r, a))
        /\ DOMAIN [s EXCEPT ![i] = g] = DOMAIN s /\ [s EXCEPT ![i] = g][i] = g
        /\ \A j \in DOMAIN s : j # i => [s EXCEPT ![i] = g][j] = s[j]
    BY <2>1, <2>2, <2>3, SeqDef
  <2> QED
    BY <2>4 DEF g
<1> HIDE DEF ps
<1>9. /\ z \in Seq(FoundDisks(r)) /\ DOMAIN z = DOMAIN ds /\ Disks(z) = Disks(ds)
      /\ \A m \in DOMAIN ds : /\ z[m].of = ds[m].of /\ z[m].id = ds[m].id
                              /\ m # k => z[m].partitions = ds[m].partitions
      /\ z[k].partitions = ps
  <2>1. ps \in Seq(FoundPartitions(r, ds[k].of))
    BY <1>8
  <2> QED
    BY <1>1, <2>1, DisksReparted
\* The partition (k, i) is filled, the others are the same.
<1>10. /\ \A m \in DOMAIN ds : DOMAIN z[m].partitions = DOMAIN ds[m].partitions
       /\ \A m \in DOMAIN ds : \A j \in DOMAIN ds[m].partitions :
            ~(m = k /\ j = i) => z[m].partitions[j] = ds[m].partitions[j]
       /\ z[k].partitions[i] = Filled(c, vs)
  BY <1>8, <1>9
<1>11. ASSUME NEW m \in DOMAIN ds, NEW j \in DOMAIN ds[m].partitions
       PROVE  /\ z[m].partitions[j].of = ds[m].partitions[j].of
              /\ z[m].partitions[j].id = ds[m].partitions[j].id
              /\ \A l \in DOMAIN ds[m].partitions[j].volumes :
                   /\ l \in DOMAIN z[m].partitions[j].volumes
                   /\ z[m].partitions[j].volumes[l] = ds[m].partitions[j].volumes[l]
  <2>1. CASE m = k /\ j = i
    <3>1. z[m].partitions[j] = Filled(c, vs) /\ ds[m].partitions[j] = c
      BY <1>10, <2>1
    <3> HIDE DEF c
    <3>2. DOMAIN c.volumes \subseteq DOMAIN vs
      BY <1>6
    <3> QED
      BY <1>6, <1>7, <3>1, <3>2
  <2>2. CASE ~(m = k /\ j = i)
    BY <1>10, <2>2
  <2> QED
    BY <2>1, <2>2
<1>12. Kept(ds, z)
  BY <1>9, <1>10, <1>11 DEF Kept
<1>13. \E j \in DOMAIN z[k].partitions[i].volumes : z[k].partitions[i].volumes[j] = new
  BY <1>6, <1>7, <1>10
<1> QED
  BY <1>9, <1>10, <1>11, <1>12, <1>13 DEF z

\* The partition of a row is found by its name; a row of none that is reported
\* is left out.
LEMMA ReadVolumeStep ==
  ASSUME IInv, ReadVolume
  PROVE  IInv'
<1> DEFINE r == registry  v == rows.volume  e == v[1]  x == e.of  t == Tail(v)
           new == NewVolume(e)
\* What is known before.
<1>1. /\ phase = "volumes" /\ Registry(r) /\ disk = 0 /\ v # << >> /\ rows.partition = << >>
      /\ Right(r, seen, disk, walked, rows)
      /\ disks \in Seq(FoundDisks(r)) /\ Once(Disks(disks), Physical(r))
      /\ \A m \in DOMAIN disks : disks[m].id \in DOMAIN diskByID /\ diskByID[disks[m].id] = m
      /\ Positions(rows, disks, partitionByID)
      /\ ~cut => Complete(r, seen, disk, walked, rows, disks)
      /\ \A m \in DOMAIN diskByID :
           diskByID[m] \in DOMAIN disks /\ disks[diskByID[m]].id = m
  BY DEF ReadVolume, IInv, Walking, Placed
<1>2. rows \in Queues /\ v \in Seq(QueueRow)
  BY <1>1, QueueFields DEF Right
<1>3. /\ t \in Seq(QueueRow) /\ 1 \in DOMAIN v /\ Head(v) = e
      /\ \A i \in DOMAIN t : i + 1 \in DOMAIN v /\ i + 1 # 1 /\ t[i] = v[i + 1]
      /\ \A i \in DOMAIN v : i # 1 => i - 1 \in DOMAIN t /\ t[i - 1] = v[i]
  BY <1>1, <1>2, TailFacts
<1>4. PICK p \in Media : r.name[p] # << >> /\ e.parent = r.name[p] /\ x \in Files(r, p)
  BY <1>1, <1>3 DEF Right, FileRow
<1>5. new \in FoundVolumes(r, p) /\ x \in new.of
  <2>1. new = [of     |-> {x},
               id     |-> IF r.volume[x].uuid # 0 THEN <<"uuid", r.volume[x].uuid>>
                          ELSE <<"dev", r.name[p]>>,
               label  |-> r.volume[x].label,
               mounts |-> {r.volume[x].mount} \ {0}]
    BY <1>4 DEF NewVolume
  <2> HIDE DEF x, new, r
  <2> QED
    BY <1>4, <2>1 DEF FoundVolumes
<1>6. /\ IF e.parent \in DOMAIN partitionByID
         THEN disks' = [disks EXCEPT ![partitionByID[e.parent].disk].
                                       partitions[partitionByID[e.parent].partition].volumes =
                           Append(@, new)]
         ELSE disks' = disks
      /\ rows' = [rows EXCEPT !.volume = t]
  BY <1>3 DEF ReadVolume
<1>u. /\ registry' = registry /\ phase' = phase /\ disk' = disk /\ seen' = seen
      /\ walked' = walked /\ cut' = cut /\ diskByID' = diskByID /\ partitionByID' = partitionByID
  BY DEF ReadVolume, walk, maps
<1>k. v[1] = e /\ e.of = x /\ 1 \in DOMAIN v
  BY <1>3
<1> HIDE DEF new, x, e
<1>7. rows' \in Queues /\ rows'.partition = rows.partition /\ rows'.volume = t
  <2> HIDE DEF t
  <2> QED
    BY <1>2, <1>3, <1>6, QueueFields
\* What the two cases have in common.
<1>8. /\ disks' \in Seq(FoundDisks(r)) /\ DOMAIN disks' = DOMAIN disks
      /\ Disks(disks') = Disks(disks)
      /\ \A m \in DOMAIN disks :
           /\ disks'[m].of = disks[m].of /\ disks'[m].id = disks[m].id
           /\ DOMAIN disks'[m].partitions = DOMAIN disks[m].partitions
           /\ \A j \in DOMAIN disks[m].partitions :
                /\ disks'[m].partitions[j].of = disks[m].partitions[j].of
                /\ disks'[m].partitions[j].id = disks[m].partitions[j].id
      /\ Kept(disks, disks')
      /\ (\E k \in DOMAIN disks : \E i \in DOMAIN disks[k].partitions : disks[k].partitions[i].of = p) =>
           \E k \in DOMAIN disks' : \E i \in DOMAIN disks'[k].partitions :
             /\ disks'[k].partitions[i].of = p
             /\ \E j \in DOMAIN disks'[k].partitions[i].volumes :
                  x \in disks'[k].partitions[i].volumes[j].of
  <2>0. ASSUME NEW k \in DOMAIN disks, NEW i \in DOMAIN disks[k].partitions
        PROVE  /\ disks[k].partitions[i].of \in Media
               /\ disks[k].partitions[i].id = r.name[disks[k].partitions[i].of]
    <3>1. disks[k] \in FoundDisks(r)
      BY <1>1
    <3>2. disks[k].partitions \in Seq(FoundPartitions(r, disks[k].of))
      BY <3>1, DiskFields
    <3>3. disks[k].partitions[i] \in FoundPartitions(r, disks[k].of)
      BY <3>2
    <3> QED
      BY <3>3, PartitionFields DEF Slices
  <2>1. CASE e.parent \in DOMAIN partitionByID
    <3>1. PICK k \in DOMAIN disks : \E i \in DOMAIN disks[k].partitions :
            disks[k].partitions[i].id = e.parent
      BY <1>1, <2>1 DEF Positions
    <3>2. PICK i \in DOMAIN disks[k].partitions : disks[k].partitions[i].id = e.parent
      BY <3>1
    <3>3. disks[k].partitions[i].of = p
      BY <1>1, <1>4, <2>0, <3>2, NameOnce
    <3>4. partitionByID[e.parent] = [disk |-> k, partition |-> i]
      BY <1>1, <3>2 DEF Positions
    <3>5. disks' = Added(disks, k, i, new)
      BY <1>6, <2>1, <3>4 DEF Added
    <3>6. disks \in Seq(FoundDisks(r)) /\ new \in FoundVolumes(r, disks[k].partitions[i].of)
      BY <1>1, <1>5, <3>3
    <3>7. /\ disks' \in Seq(FoundDisks(r)) /\ DOMAIN disks' = DOMAIN disks
          /\ Disks(disks') = Disks(disks)
          /\ \A m \in DOMAIN disks :
               /\ disks'[m].of = disks[m].of /\ disks'[m].id = disks[m].id
               /\ DOMAIN disks'[m].partitions = DOMAIN disks[m].partitions
               /\ \A j \in DOMAIN disks[m].partitions :
                    /\ disks'[m].partitions[j].of = disks[m].partitions[j].of
                    /\ disks'[m].partitions[j].id = disks[m].partitions[j].id
          /\ Kept(disks, disks')
          /\ \E j \in DOMAIN disks'[k].partitions[i].volumes :
               disks'[k].partitions[i].volumes[j] = new
      <4> HIDE DEF r
      <4> QED
        BY <3>5, <3>6, VolumeAdded
    <3>8. /\ k \in DOMAIN disks' /\ i \in DOMAIN disks'[k].partitions
          /\ disks'[k].partitions[i].of = p
          /\ \E j \in DOMAIN disks'[k].partitions[i].volumes :
               x \in disks'[k].partitions[i].volumes[j].of
      BY <1>5, <3>3, <3>7
    <3> QED
      BY <3>7, <3>8
  <2>2. CASE e.parent \notin DOMAIN partitionByID
    <3>1. disks' = disks
      BY <1>6, <2>2
    <3>2. ASSUME NEW k \in DOMAIN disks, NEW i \in DOMAIN disks[k].partitions,
                 disks[k].partitions[i].of = p
          PROVE  FALSE
      <4>1. disks[k].partitions[i].id = e.parent
        BY <1>4, <2>0, <3>2
      <4>2. Positions(rows, disks, partitionByID)
        BY <1>1
      <4>3. disks[k].partitions[i].id \in DOMAIN partitionByID
        BY <4>2 DEF Positions
      <4> QED
        BY <2>2, <4>1, <4>3
    <3>3. Kept(disks, disks)
      BY DEF Kept
    <3> QED
      BY <1>1, <3>1, <3>2, <3>3
  <2> QED
    BY <2>1, <2>2
<1>9. Right(r, seen, disk, walked, rows')
  <2>1. \A i \in DOMAIN t : FileRow(r, t[i])
    BY <1>1, <1>3 DEF Right
  <2> HIDE DEF t
  <2> QED
    BY <1>1, <1>7, <2>1 DEF Right
<1>10. Positions(rows', disks', partitionByID')
  <2>1. ASSUME NEW m \in DOMAIN disks', NEW i \in DOMAIN disks'[m].partitions
        PROVE  /\ disks'[m].partitions[i].id \in DOMAIN partitionByID
               /\ partitionByID[disks'[m].partitions[i].id] = [disk |-> m, partition |-> i]
               /\ \A j \in DOMAIN rows.partition : rows.partition[j].of # disks'[m].partitions[i].of
    <3>1. /\ m \in DOMAIN disks /\ i \in DOMAIN disks[m].partitions
          /\ disks'[m].partitions[i].id = disks[m].partitions[i].id
          /\ disks'[m].partitions[i].of = disks[m].partitions[i].of
      BY <1>8
    <3> QED
      BY <1>1, <3>1 DEF Positions
  <2>2. ASSUME NEW o \in DOMAIN partitionByID
        PROVE  \E m \in DOMAIN disks' : \E i \in DOMAIN disks'[m].partitions :
                 disks'[m].partitions[i].id = o
    <3>1. PICK m \in DOMAIN disks : \E i \in DOMAIN disks[m].partitions :
            disks[m].partitions[i].id = o
      BY <1>1 DEF Positions
    <3>2. PICK i \in DOMAIN disks[m].partitions : disks[m].partitions[i].id = o
      BY <3>1
    <3>3. /\ m \in DOMAIN disks' /\ i \in DOMAIN disks'[m].partitions
          /\ disks'[m].partitions[i].id = o
      BY <1>8, <3>2
    <3> QED
      BY <3>3
  <2> QED
    BY <1>7, <1>u, <2>1, <2>2 DEF Positions
<1>11. ASSUME ~cut
       PROVE  Complete(r, seen, disk, walked, rows', disks')
  <2> SUFFICES ASSUME NEW a \in seen \cap Physical(r), NEW o \in Slices(r, a)
               PROVE  /\ SliceTold(rows', disks', o)
                      /\ \A y \in Files(r, o) : FileTold(r, rows', disks', o, y)
    BY DEF Complete
  <2>1. a # disk
    BY <1>1, NotZero
  <2>2. /\ SliceTold(rows, disks, o)
        /\ \A y \in Files(r, o) : FileTold(r, rows, disks, o, y)
    BY <1>1, <1>11, <2>1 DEF Complete
  <2>3. SliceTold(rows', disks', o)
    <3>1. SliceTold(rows', disks, o)
      BY <1>7, <2>2 DEF SliceTold
    <3> QED
      BY <1>8, <3>1, KeptTold
  <2>4. ASSUME NEW y \in Files(r, o)
        PROVE  FileTold(r, rows', disks', o, y)
    <3>1. CASE FileTold(r, rows', disks, o, y)
      BY <1>8, <3>1, KeptTold
    <3>2. CASE ~FileTold(r, rows', disks, o, y)
      <4>1. PICK i \in DOMAIN v : v[i] = [of |-> y, parent |-> r.name[o]]
        BY <2>2, <2>4, <3>2 DEF FileTold
      <4>2. i = 1
        <5> SUFFICES ASSUME i # 1
                     PROVE  FALSE
          OBVIOUS
        <5>1. i - 1 \in DOMAIN t /\ t[i - 1] = [of |-> y, parent |-> r.name[o]]
          BY <1>3, <4>1
        <5> QED
          BY <1>7, <3>2, <5>1 DEF FileTold
      <4>3. e.of = y /\ e.parent = r.name[o]
        BY <1>k, <4>1, <4>2
      <4>4. o = p /\ x = y
        <5>1. o \in Media /\ r.name[o] = r.name[p]
          BY <1>4, <4>3 DEF Slices
        <5>2. o = p
          BY <1>1, <1>4, <5>1, NameOnce
        <5> QED
          BY <1>k, <4>3, <5>2
      <4>5. \E k \in DOMAIN disks : \E h \in DOMAIN disks[k].partitions :
              disks[k].partitions[h].of = p
        BY <1>1, <2>2, <4>4 DEF SliceTold
      <4> QED
        BY <1>8, <4>4, <4>5 DEF FileTold
    <3> QED
      BY <3>1, <3>2
  <2> QED
    BY <2>3, <2>4
<1>12. Placed'
  <2>1. \A m \in DOMAIN disks' : disks'[m].id \in DOMAIN diskByID' /\ diskByID'[disks'[m].id] = m
    BY <1>1, <1>u, <1>8
  <2> QED
    BY <1>1, <1>u, <1>8, <1>10, <2>1 DEF Placed
<1>13. Walking' /\ Unread'
  BY <1>1, <1>u DEF IInv, Walking, Unread
<1>14. \A m \in DOMAIN diskByID' :
         diskByID'[m] \in DOMAIN disks' /\ disks'[diskByID'[m]].id = m
  BY <1>1, <1>u, <1>8
<1> QED
  BY <1>1, <1>u, <1>7, <1>9, <1>11, <1>12, <1>13, <1>14 DEF IInv

-------------------------------------------------------------------------------
\* Volumes of one partition are merged.

IdOf(r, p, x) == IF r.volume[x].uuid # 0 THEN <<"uuid", r.volume[x].uuid>> ELSE <<"dev", r.name[p]>>

\* Two media are of one volume.
Alike(r, x, y) == /\ r.volume[x].uuid = r.volume[y].uuid
                  /\ r.volume[x].uuid = 0 => r.volume[x].label = r.volume[y].label

\* An entry that stands for media alike: their ID and, without UUID, their label,
\* and all their mount points.
Means(r, p, v) ==
    /\ v.of # {} /\ v.of \subseteq Files(r, p)
    /\ \A x \in v.of : v.id = IdOf(r, p, x) /\ (r.volume[x].uuid = 0 => v.label = r.volume[x].label)
    /\ v.mounts = {r.volume[x].mount : x \in v.of} \ {0}
Entries(r, p) ==
    {v \in [of : SUBSET Media, id : {IdOf(r, p, x) : x \in Media}, label : Nat, mounts : SUBSET Nat] :
       Means(r, p, v)}

LEMMA VolumeType ==
  ASSUME NEW r, Registry(r), NEW x \in Media
  PROVE  r.volume[x].uuid \in Nat /\ r.volume[x].label \in Nat /\ r.volume[x].mount \in Nat
BY DEF Registry

LEMMA FoundIsEntry ==
  ASSUME NEW r, Registry(r), NEW p, NEW v \in FoundVolumes(r, p)
  PROVE  v \in Entries(r, p)
<1>1. PICK x \in Files(r, p) : v = [of |-> {x}, id |-> IdOf(r, p, x), label |-> r.volume[x].label,
                                    mounts |-> {r.volume[x].mount} \ {0}]
  BY DEF FoundVolumes, IdOf
<1>2. x \in Media
  BY DEF Files
<1>3. r.volume[x].label \in Nat /\ r.volume[x].mount \in Nat
  BY <1>2, VolumeType
<1>4. v.of = {x} /\ v.id = IdOf(r, p, x) /\ v.label = r.volume[x].label
      /\ v.mounts = {r.volume[x].mount} \ {0}
  BY <1>1
<1>5. v \in [of : SUBSET Media, id : {IdOf(r, p, y) : y \in Media}, label : Nat, mounts : SUBSET Nat]
  BY <1>1, <1>2, <1>3
<1>6. v.mounts = {r.volume[y].mount : y \in v.of} \ {0}
  BY <1>4
<1>7. Means(r, p, v)
  BY <1>4, <1>6 DEF Means
<1> QED
  BY <1>5, <1>7 DEF Entries

LEMMA EntryFields ==
  ASSUME NEW r, NEW p, NEW v \in Entries(r, p)
  PROVE  /\ v \in [of : SUBSET Media, id : {IdOf(r, p, x) : x \in Media}, label : Nat, mounts : SUBSET Nat]
         /\ Means(r, p, v) /\ v.of \subseteq Media /\ v.label \in Nat
         /\ v.mounts \in SUBSET Nat
BY DEF Entries

\* The key tells media apart exactly if they are not alike.
LEMMA KeyTells ==
  ASSUME NEW r, NEW p, NEW v \in Entries(r, p), NEW w \in Entries(r, p),
         NEW x \in v.of, NEW y \in w.of
  PROVE  Key(v) = Key(w) <=> Alike(r, x, y)
<1>1. v.id = IdOf(r, p, x) /\ (r.volume[x].uuid = 0 => v.label = r.volume[x].label)
  BY EntryFields DEF Means
<1>2. w.id = IdOf(r, p, y) /\ (r.volume[y].uuid = 0 => w.label = r.volume[y].label)
  BY EntryFields DEF Means
<1> DEFINE a == r.volume[x].uuid  b == r.volume[y].uuid
<1>3. CASE a # 0 /\ b # 0
  <2>1. v.id = <<"uuid", a>> /\ w.id = <<"uuid", b>>
    BY <1>1, <1>2, <1>3 DEF IdOf
  <2>2. Key(v) = <<v.id>> /\ Key(w) = <<w.id>>
    BY <2>1 DEF Key
  <2> QED
    BY <1>3, <2>1, <2>2 DEF Alike
<1>4. CASE a = 0 /\ b = 0
  <2>1. v.id = <<"dev", r.name[p]>> /\ w.id = v.id
    BY <1>1, <1>2, <1>4 DEF IdOf
  <2>2. v.id[1] # "uuid"
    BY <2>1
  <2>3. Key(v) = <<v.id, v.label>> /\ Key(w) = <<v.id, w.label>>
    BY <2>1, <2>2 DEF Key
  <2> QED
    BY <1>1, <1>2, <1>4, <2>3 DEF Alike
<1>5. CASE a # 0 /\ b = 0
  <2>1. v.id = <<"uuid", a>> /\ w.id = <<"dev", r.name[p]>>
    BY <1>1, <1>2, <1>5 DEF IdOf
  <2>2. v.id[1] = "uuid" /\ w.id[1] = "dev"
    BY <2>1
  <2>3. Key(v)[1] = v.id /\ Key(w)[1] = w.id
    BY <2>2 DEF Key
  <2> QED
    BY <1>5, <2>2, <2>3 DEF Alike
<1>6. CASE a = 0 /\ b # 0
  <2>1. w.id = <<"uuid", b>> /\ v.id = <<"dev", r.name[p]>>
    BY <1>1, <1>2, <1>6 DEF IdOf
  <2>2. w.id[1] = "uuid" /\ v.id[1] = "dev"
    BY <2>1
  <2>3. Key(v)[1] = v.id /\ Key(w)[1] = w.id
    BY <2>2 DEF Key
  <2> QED
    BY <1>6, <2>2, <2>3 DEF Alike
<1> QED
  BY <1>3, <1>4, <1>5, <1>6

LEMMA AlikeIsEqual ==
  ASSUME NEW r, NEW x, NEW y, NEW z
  PROVE  /\ Alike(r, x, x) /\ (Alike(r, x, y) => Alike(r, y, x))
         /\ Alike(r, x, y) /\ Alike(r, y, z) => Alike(r, x, z)
BY DEF Alike

\* The entry that another joined.
LEMMA JointIsEntry ==
  ASSUME NEW r, NEW p, NEW w \in Entries(r, p), NEW v \in Entries(r, p), Key(w) = Key(v)
  PROVE  /\ Joint(w, v) \in Entries(r, p) /\ Joint(w, v).of = w.of \cup v.of
         /\ Key(Joint(w, v)) = Key(w)
<1> DEFINE u == Joint(w, v)
<1>1. /\ v \in [of : SUBSET Media, id : {IdOf(r, p, x) : x \in Media}, label : Nat, mounts : SUBSET Nat]
      /\ w \in [of : SUBSET Media, id : {IdOf(r, p, x) : x \in Media}, label : Nat, mounts : SUBSET Nat]
  BY EntryFields
<1>2. Means(r, p, v) /\ Means(r, p, w)
  BY EntryFields
<1>3. /\ u.of = w.of \cup v.of /\ u.id = w.id /\ u.mounts = w.mounts \cup v.mounts
      /\ u.label = IF w.label # 0 THEN w.label ELSE v.label
      /\ u \in [of : SUBSET Media, id : {IdOf(r, p, x) : x \in Media}, label : Nat, mounts : SUBSET Nat]
  BY <1>1 DEF Joint
<1> HIDE DEF u
<1>4. PICK x \in w.of : TRUE
  BY <1>2 DEF Means
<1>5. \A y \in v.of : Alike(r, x, y)
  BY KeyTells
<1>6. \A y \in w.of : Alike(r, x, y)
  BY KeyTells
<1>7. \A y \in u.of : Alike(r, x, y)
  BY <1>3, <1>5, <1>6
<1>8. r.volume[x].uuid = 0 => u.label = w.label
  <2> SUFFICES ASSUME r.volume[x].uuid = 0
               PROVE  u.label = w.label
    OBVIOUS
  <2>1. PICK y \in v.of : TRUE
    BY <1>2 DEF Means
  <2>2. w.label = r.volume[x].label
    BY <1>2 DEF Means
  <2>3. r.volume[y].uuid = 0 /\ r.volume[y].label = r.volume[x].label
    BY <1>5 DEF Alike
  <2>4. v.label = w.label
    BY <1>2, <2>2, <2>3 DEF Means
  <2> QED
    BY <1>3, <2>4
<1>9. \A y \in u.of : u.id = IdOf(r, p, y) /\ (r.volume[y].uuid = 0 => u.label = r.volume[y].label)
  <2> SUFFICES ASSUME NEW y \in u.of
               PROVE  u.id = IdOf(r, p, y) /\ (r.volume[y].uuid = 0 => u.label = r.volume[y].label)
    OBVIOUS
  <2>1. w.id = IdOf(r, p, x) /\ (r.volume[x].uuid = 0 => w.label = r.volume[x].label)
    BY <1>2 DEF Means
  <2>2. Alike(r, x, y)
    BY <1>7
  <2> QED
    BY <1>3, <1>8, <2>1, <2>2 DEF Alike, IdOf
<1>10. u.mounts = {r.volume[y].mount : y \in u.of} \ {0}
  <2>1. w.mounts = {r.volume[y].mount : y \in w.of} \ {0}
    BY <1>2 DEF Means
  <2>2. v.mounts = {r.volume[y].mount : y \in v.of} \ {0}
    BY <1>2 DEF Means
  <2> QED
    BY <1>3, <2>1, <2>2
<1>11. Means(r, p, u)
  BY <1>2, <1>3, <1>9, <1>10 DEF Means
<1>12. u \in Entries(r, p)
  BY <1>3, <1>11 DEF Entries
<1>13. Key(u) = Key(w)
  <2>1. x \in u.of
    BY <1>3
  <2> QED
    BY <1>12, <2>1, KeyTells, AlikeIsEqual
<1> QED
  BY <1>3, <1>12, <1>13 DEF u

\* Entries of different keys that together stand for the media X.
Summed(r, p, m, X) ==
    /\ m \in Seq(Entries(r, p))
    /\ \A j, l \in DOMAIN m : Key(m[j]) = Key(m[l]) => j = l
    /\ \A j \in DOMAIN m : m[j].of \subseteq X
    /\ \A x \in X : \E j \in DOMAIN m : x \in m[j].of

LEMMA SummedMore ==
  ASSUME NEW r, NEW p, NEW m, NEW X, Summed(r, p, m, X), NEW v \in Entries(r, p)
  PROVE  Summed(r, p, MergeVolume(m, v), X \cup v.of)
<1> DEFINE same == {k \in DOMAIN m : Key(m[k]) = Key(v)}
<1>1. /\ m \in Seq(Entries(r, p))
      /\ \A j, l \in DOMAIN m : Key(m[j]) = Key(m[l]) => j = l
      /\ \A j \in DOMAIN m : m[j].of \subseteq X
      /\ \A x \in X : \E j \in DOMAIN m : x \in m[j].of
  BY DEF Summed
<1>2. CASE same = {}
  <2> DEFINE t == Append(m, v)  n == Len(m) + 1
  <2>1. MergeVolume(m, v) = t
    BY <1>2 DEF MergeVolume
  <2>2. /\ t \in Seq(Entries(r, p)) /\ DOMAIN t = DOMAIN m \cup {n} /\ n \notin DOMAIN m
        /\ t[n] = v /\ \A i \in DOMAIN m : t[i] = m[i]
    BY <1>1, AppendFacts
  <2> HIDE DEF t, n
  <2>3. \A k \in DOMAIN m : Key(m[k]) # Key(v)
    BY <1>2
  <2>4. \A j, l \in DOMAIN t : Key(t[j]) = Key(t[l]) => j = l
    BY <1>1, <2>2, <2>3
  <2>5. \A j \in DOMAIN t : t[j].of \subseteq X \cup v.of
    BY <1>1, <2>2
  <2>6. \A x \in X \cup v.of : \E j \in DOMAIN t : x \in t[j].of
    BY <1>1, <2>2
  <2> QED
    BY <2>1, <2>2, <2>4, <2>5, <2>6 DEF Summed
<1>3. CASE same # {}
  <2> DEFINE k == CHOOSE k \in same : TRUE
             u == Joint(m[k], v)
             t == [m EXCEPT ![k] = u]
  <2>1. MergeVolume(m, v) = t
    <3>1. MergeVolume(m, v) = IF same = {} THEN Append(m, v) ELSE t
      BY DEF MergeVolume
    <3> HIDE DEF same, t
    <3> QED
      BY <1>3, <3>1
  <2>2. k \in DOMAIN m /\ Key(m[k]) = Key(v)
    BY <1>3
  <2> HIDE DEF k, same
  <2>3. m[k] \in Entries(r, p)
    BY <1>1, <2>2
  <2>4. u \in Entries(r, p) /\ u.of = m[k].of \cup v.of /\ Key(u) = Key(m[k])
    BY <2>2, <2>3, JointIsEntry
  <2> HIDE DEF u
  <2>5. t \in Seq(Entries(r, p)) /\ DOMAIN t = DOMAIN m /\ t[k] = u
        /\ \A j \in DOMAIN m : j # k => t[j] = m[j]
    <3>1. Len(m) \in Nat /\ DOMAIN m = 1..Len(m) /\ m \in [1..Len(m) -> Entries(r, p)]
      BY <1>1, LenProperties
    <3>2. t \in [1..Len(m) -> Entries(r, p)]
      BY <2>2, <2>4, <3>1
    <3> QED
      BY <2>2, <3>1, <3>2, SeqDef
  <2> HIDE DEF t
  <2>6. \A j, l \in DOMAIN t : Key(t[j]) = Key(t[l]) => j = l
    <3>1. \A j \in DOMAIN t : Key(t[j]) = Key(m[j])
      BY <2>4, <2>5
    <3> QED
      BY <1>1, <2>5, <3>1
  <2>7. \A j \in DOMAIN t : t[j].of \subseteq X \cup v.of
    BY <1>1, <2>2, <2>4, <2>5
  <2>8. \A x \in X \cup v.of : \E j \in DOMAIN t : x \in t[j].of
    <3>1. \A j \in DOMAIN t : m[j].of \subseteq t[j].of
      BY <2>4, <2>5
    <3>2. v.of \subseteq t[k].of /\ k \in DOMAIN t
      BY <2>2, <2>4, <2>5
    <3> QED
      BY <1>1, <2>5, <3>1, <3>2
  <2> QED
    BY <2>1, <2>5, <2>6, <2>7, <2>8 DEF Summed
<1> QED
  BY <1>2, <1>3

\* The loop over the volumes of a partition.
Merge(vs, n, g) == g = [i \in 0..n |-> IF i = 0 THEN << >> ELSE MergeVolume(g[i - 1], vs[i])]

LEMMA MergeExists ==
  ASSUME NEW vs, NEW n \in Nat
  PROVE  \E g : Merge(vs, n, g)
<1> DEFINE Bad == {m \in Nat : ~ \E g : Merge(vs, m, g)}
<1>1. ASSUME Bad # {}
      PROVE  FALSE
  <2>1. PICK m \in Bad : \A l \in Bad : m <= l
    <3>1. Bad \in SUBSET Nat
      OBVIOUS
    <3> HIDE DEF Bad
    <3> QED
      BY <1>1, <3>1, NaturalLeast
  <2>2. CASE m = 0
    <3>1. Merge(vs, 0, [i \in 0..0 |-> << >>])
      BY DEF Merge
    <3> QED
      BY <2>2, <3>1
  <2>3. CASE m # 0
    <3>1. m \in Nat /\ m - 1 \in Nat /\ m - 1 < m
      BY <2>3
    <3>2. PICK g : Merge(vs, m - 1, g)
      BY <2>1, <3>1
    <3> DEFINE h == [i \in 0..m |-> IF i = m THEN MergeVolume(g[m - 1], vs[m]) ELSE g[i]]
    <3>3. \A i \in 0..m : h[i] = IF i = 0 THEN << >> ELSE MergeVolume(h[i - 1], vs[i])
      <4> SUFFICES ASSUME NEW i \in 0..m
                   PROVE  h[i] = IF i = 0 THEN << >> ELSE MergeVolume(h[i - 1], vs[i])
        OBVIOUS
      <4>1. i = 0 \/ (i - 1 \in 0..m /\ i - 1 # m)
        BY <3>1
      <4>2. i # m => i \in 0..(m - 1)
        BY <3>1
      <4>3. i # m => g[i] = IF i = 0 THEN << >> ELSE MergeVolume(g[i - 1], vs[i])
        BY <3>2, <4>2 DEF Merge
      <4> QED
        BY <2>3, <4>1, <4>3
    <3>4. Merge(vs, m, h)
      <4>1. h = [i \in 0..m |-> h[i]]
        OBVIOUS
      <4> HIDE DEF h
      <4> QED
        BY <3>3, <4>1 DEF Merge
    <3> QED
      BY <3>4
  <2> QED
    BY <2>2, <2>3
<1> QED
  BY <1>1

\* What is merged stands for the media that stood in the single entries.
LEMMA MergedSums ==
  ASSUME NEW r, Registry(r), NEW p, NEW vs \in Seq(FoundVolumes(r, p))
  PROVE  Summed(r, p, MergeVolumes(vs), UNION {vs[i].of : i \in DOMAIN vs})
<1> DEFINE n == Len(vs)
           after == CHOOSE g : Merge(vs, n, g)
           X(i) == UNION {vs[j].of : j \in 1..i}
<1>1. n \in Nat /\ DOMAIN vs = 1..n /\ \A i \in 1..n : vs[i] \in Entries(r, p)
  <2>1. n \in Nat /\ DOMAIN vs = 1..n /\ \A i \in 1..n : vs[i] \in FoundVolumes(r, p)
    BY LenProperties, ElementOfSeq
  <2> QED
    BY <2>1, FoundIsEntry
<1>2. Merge(vs, n, after)
  BY <1>1, MergeExists
<1>3. MergeVolumes(vs) = after[n]
  BY DEF MergeVolumes, Merge
<1>4. \A i \in 0..n : after[i] = IF i = 0 THEN << >> ELSE MergeVolume(after[i - 1], vs[i])
  <2> HIDE DEF after, n
  <2> QED
    BY <1>2 DEF Merge
<1> HIDE DEF after, n
<1> DEFINE Bad == {i \in Nat : i <= n /\ ~Summed(r, p, after[i], X(i))}
<1>5. ASSUME Bad # {}
      PROVE  FALSE
  <2>1. PICK m \in Bad : \A l \in Bad : m <= l
    <3>1. Bad \in SUBSET Nat
      OBVIOUS
    <3> HIDE DEF Bad
    <3> QED
      BY <1>5, <3>1, NaturalLeast
  <2>2. m \in 0..n /\ m \in Nat
    BY <1>1
  <2>3. m # 0
    <3>1. X(0) = {}
      OBVIOUS
    <3>2. after[0] = << >>
      BY <1>1, <1>4
    <3>3. << >> \in Seq(Entries(r, p)) /\ DOMAIN << >> = {}
      OBVIOUS
    <3>4. Summed(r, p, after[0], X(0))
      <4> HIDE DEF X
      <4> QED
        BY <3>1, <3>2, <3>3 DEF Summed
    <3> QED
      BY <3>4
  <2>4. m - 1 \in 0..n /\ m - 1 \in Nat /\ m \in 1..n /\ ~(m <= m - 1) /\ m - 1 <= n
    BY <1>1, <2>2, <2>3
  <2>5. Summed(r, p, after[m - 1], X(m - 1))
    BY <2>1, <2>4
  <2>6. after[m] = MergeVolume(after[m - 1], vs[m])
    BY <1>4, <2>2, <2>3
  <2>7. X(m) = X(m - 1) \cup vs[m].of
    <3>1. 1..m = (1..(m - 1)) \cup {m}
      BY <2>2, <2>3
    <3> QED
      BY <3>1
  <2>8. Summed(r, p, after[m], X(m - 1) \cup vs[m].of)
    <3> HIDE DEF X
    <3> QED
      BY <1>1, <2>4, <2>5, <2>6, SummedMore
  <2>9. Summed(r, p, after[m], X(m))
    BY <2>7, <2>8
  <2> QED
    BY <2>9
<1>6. Summed(r, p, after[n], X(n))
  <2>1. n <= n
    BY <1>1
  <2> QED
    BY <1>1, <1>5, <2>1
<1> QED
  BY <1>1, <1>3, <1>6

-------------------------------------------------------------------------------
\* Sorting.

LEMMA FunctionIsSeq ==
  ASSUME NEW S, NEW n \in Nat, NEW f \in [1..n -> S]
  PROVE  f \in Seq(S) /\ Len(f) = n
<1>1. f \in Seq(S)
  BY SeqDef
<1>2. Len(f) \in Nat /\ DOMAIN f = 1..Len(f)
  BY <1>1, LenProperties
<1>3. DOMAIN f = 1..n
  OBVIOUS
<1> DEFINE m == Len(f)
<1>4. 1..m = 1..n /\ m \in Nat
  BY <1>2, <1>3
<1> HIDE DEF m
<1>5. m = n
  <2>1. m \in 1..n \/ m = 0
    BY <1>4
  <2>2. n \in 1..m \/ n = 0
    BY <1>4
  <2> QED
    BY <1>4, <2>1, <2>2
<1> QED
  BY <1>1, <1>5 DEF m

\* What is sorted by distinct numbers is in their order, and nothing is lost.
LEMMA SortedFacts ==
  ASSUME NEW S, NEW s \in Seq(S), \A i \in DOMAIN s : Index(s[i].of) \in Nat,
         \A i, j \in DOMAIN s : Index(s[i].of) = Index(s[j].of) => i = j
  PROVE  /\ Sorted(s) \in Seq(S) /\ DOMAIN Sorted(s) = DOMAIN s
         /\ \A i \in DOMAIN s : \E j \in DOMAIN s : Sorted(s)[i] = s[j]
         /\ \A j \in DOMAIN s : \E i \in DOMAIN s : Sorted(s)[i] = s[j]
         /\ \A i, j \in DOMAIN s : i < j => Index(Sorted(s)[i].of) < Index(Sorted(s)[j].of)
<1> DEFINE n == Len(s)
           key == [i \in 1..n |-> Index(s[i].of)]
           P(p) == \A i, j \in DOMAIN s :
                     i < j => p[i] # p[j] /\ Index(s[p[i]].of) <= Index(s[p[j]].of)
           order == CHOOSE p \in [DOMAIN s -> DOMAIN s] : P(p)
<1>1. n \in Nat /\ DOMAIN s = 1..n /\ s \in [1..n -> S]
  BY LenProperties
<1>2. Sorted(s) = [i \in 1..n |-> s[order[i]]]
  BY <1>1 DEF Sorted
<1>3. key \in [1..n -> Int] /\ \A i \in 1..n : key[i] = Index(s[i].of)
  BY <1>1
<1>4. PICK p : Sorting(n, key, p)
  BY <1>1, <1>3, SortingExists
<1>5. p \in [DOMAIN s -> DOMAIN s] /\ P(p)
  <2> HIDE DEF key, n
  <2>1. /\ p \in [1..n -> 1..n]
        /\ \A i, j \in 1..n : i < j => p[i] # p[j] /\ key[p[i]] <= key[p[j]]
    BY <1>4 DEF Sorting
  <2>2. ASSUME NEW i \in DOMAIN s, NEW j \in DOMAIN s, i < j
        PROVE  p[i] # p[j] /\ Index(s[p[i]].of) <= Index(s[p[j]].of)
    <3>1. i \in 1..n /\ j \in 1..n /\ p[i] \in 1..n /\ p[j] \in 1..n
      BY <1>1, <2>1
    <3>2. key[p[i]] = Index(s[p[i]].of) /\ key[p[j]] = Index(s[p[j]].of)
      BY <1>3, <3>1
    <3>3. p[i] # p[j] /\ key[p[i]] <= key[p[j]]
      BY <2>1, <2>2, <3>1
    <3> QED
      BY <3>2, <3>3
  <2>3. p \in [DOMAIN s -> DOMAIN s]
    BY <1>1, <2>1
  <2> QED
    BY <2>2, <2>3
<1> HIDE DEF P, n, key
<1>6. order \in [1..n -> 1..n] /\ P(order)
  <2>1. order \in [DOMAIN s -> DOMAIN s] /\ P(order)
    BY <1>5
  <2> HIDE DEF order
  <2> QED
    BY <1>1, <2>1
<1> HIDE DEF order
<1>o. order \in [1..n -> 1..n]
  BY <1>6
<1> DEFINE z == Sorted(s)
<1>7. \A i, j \in 1..n : i < j => order[i] # order[j]
  BY <1>1, <1>6 DEF P
<1>8. \A k \in 1..n : \E i \in 1..n : order[i] = k
  <2>1. n \in Nat
    BY <1>1
  <2> QED
    BY <1>o, <1>7, <2>1, PlacesOnto, Zenon
<1>9. z \in [1..n -> S] /\ \A i \in 1..n : z[i] = s[order[i]] /\ order[i] \in 1..n
  <2>1. \A i \in 1..n : order[i] \in 1..n
    BY <1>o
  <2>2. \A i \in 1..n : s[order[i]] \in S
    BY <1>1, <2>1
  <2>3. z = [i \in 1..n |-> s[order[i]]]
    BY <1>2
  <2> HIDE DEF z
  <2> QED
    BY <2>1, <2>2, <2>3
<1> HIDE DEF z
<1>10. z \in Seq(S) /\ DOMAIN z = 1..n
  BY <1>1, <1>9, SeqDef
<1>11. ASSUME NEW i \in 1..n, NEW j \in 1..n, i < j
       PROVE  Index(z[i].of) < Index(z[j].of)
  <2>1. Index(s[order[i]].of) <= Index(s[order[j]].of)
    BY <1>1, <1>6, <1>11 DEF P
  <2>2. order[i] # order[j] /\ order[i] \in 1..n /\ order[j] \in 1..n
    BY <1>7, <1>9, <1>11
  <2>3. Index(s[order[i]].of) # Index(s[order[j]].of)
    BY <1>1, <2>2
  <2>4. Index(s[order[i]].of) \in Nat /\ Index(s[order[j]].of) \in Nat
    BY <1>1, <2>2
  <2> DEFINE a == Index(s[order[i]].of)  b == Index(s[order[j]].of)
  <2>5. a <= b /\ a # b /\ a \in Nat /\ b \in Nat
    BY <2>1, <2>3, <2>4
  <2> HIDE DEF a, b
  <2>6. a < b
    BY <2>5
  <2> QED
    BY <1>9, <2>6 DEF a, b
<1>12. \A i \in 1..n : \E j \in 1..n : z[i] = s[j]
  BY <1>9
<1>13. \A j \in 1..n : \E i \in 1..n : z[i] = s[j]
  BY <1>8, <1>9
<1> QED
  BY <1>1, <1>10, <1>11, <1>12, <1>13 DEF z

\* The numbers of disks differ, and those of the slices of one disk.
LEMMA DiskNumbers ==
  ASSUME Registry(registry), NEW d \in Physical(registry), NEW e \in Physical(registry)
  PROVE  Index(d) \in Nat /\ (Index(d) = Index(e) => d = e)
<1>1. ASSUME NEW a \in Physical(registry)
      PROVE  /\ a \in Media /\ registry.name[a] # << >> /\ registry.name[a] \in Seq(Nat)
             /\ Len(registry.name[a]) = 1 /\ Index(a) = registry.name[a][1]
  <2>1. a \in Media /\ a \in registry.whole /\ registry.name[a] # << >>
    BY DEF Physical, Registry
  <2> DEFINE s == registry.name[a]
  <2>2. s \in Seq(Nat) /\ s # << >> /\ Len(s) < 2
    BY <2>1 DEF Registry
  <2>3. Index(a) = IF Len(s) = 0 THEN 0 ELSE s[Len(s)]
    BY DEF Index, Last, Name
  <2> HIDE DEF s
  <2>4. Len(s) \in Nat /\ Len(s) # 0
    BY <2>2, EmptySeq
  <2>5. Len(s) = 1
    <3> DEFINE n == Len(s)
    <3>1. n \in Nat /\ n # 0 /\ n < 2
      BY <2>2, <2>4
    <3> HIDE DEF n
    <3>2. n = 1
      BY <3>1
    <3> QED
      BY <3>2 DEF n
  <2> QED
    BY <2>1, <2>2, <2>3, <2>5 DEF s
<1> DEFINE s == registry.name[d]  t == registry.name[e]
<1>2. s \in Seq(Nat) /\ t \in Seq(Nat) /\ Len(s) = 1 /\ Len(t) = 1
      /\ Index(d) = s[1] /\ Index(e) = t[1]
  BY <1>1
<1>3. Index(d) = Index(e) => s = t
  <2> HIDE DEF s, t
  <2> SUFFICES ASSUME s[1] = t[1]
               PROVE  s = t
    BY <1>2
  <2>1. \A i \in 1..Len(s) : s[i] = t[i]
    BY <1>2
  <2> QED
    BY <1>2, <2>1, SeqEqual
<1>4. Index(d) \in Nat
  <2> HIDE DEF s
  <2> QED
    BY <1>2
<1>5. s = t => d = e
  BY <1>1, NameOnce
<1> QED
  BY <1>3, <1>4, <1>5

LEMMA SliceNumbers ==
  ASSUME Registry(registry), NEW d \in Physical(registry),
         NEW p \in Slices(registry, d), NEW q \in Slices(registry, d)
  PROVE  Index(p) \in Nat /\ (Index(p) = Index(q) => p = q)
<1>1. ASSUME NEW a \in Slices(registry, d)
      PROVE  /\ a \in Media /\ registry.name[a] # << >> /\ registry.name[a] \in Seq(Nat)
             /\ Len(registry.name[a]) = 2 /\ Index(a) = registry.name[a][2]
             /\ registry.name[a][1] = registry.name[d][1]
  <2>1. a \in Media /\ registry.name[a] # << >> /\ registry.name[a] \in Seq(Nat)
    BY DEF Slices, Registry
  <2>2. Slice(registry, a, d)
    BY PartsBelow
  <2>3. Len(registry.name[a]) = 2 /\ registry.name[a][1] = registry.name[d][1]
    BY <2>2 DEF Slice
  <2>4. Index(a) = registry.name[a][2]
    BY <2>3 DEF Index, Last, Name
  <2> QED
    BY <2>1, <2>3, <2>4
<1> DEFINE s == registry.name[p]  t == registry.name[q]
<1>2. s \in Seq(Nat) /\ t \in Seq(Nat) /\ Len(s) = 2 /\ Len(t) = 2 /\ s[1] = t[1]
      /\ Index(p) = s[2] /\ Index(q) = t[2]
  BY <1>1
<1>3. Index(p) = Index(q) => s = t
  <2> HIDE DEF s, t
  <2> SUFFICES ASSUME s[2] = t[2]
               PROVE  s = t
    BY <1>2
  <2>1. \A i \in 1..Len(s) : s[i] = t[i]
    BY <1>2
  <2> QED
    BY <1>2, <2>1, SeqEqual
<1>4. Index(p) \in Nat
  <2> HIDE DEF s
  <2>1. 2 \in 1..Len(s)
    BY <1>2
  <2> QED
    BY <1>2, <2>1
<1>5. s = t => p = q
  BY <1>1, NameOnce
<1> QED
  BY <1>3, <1>4, <1>5

LEMMA OnceCounts ==
  ASSUME NEW S, NEW n \in Nat, NEW s, DOMAIN s = 1..n, Once(s, S)
  PROVE  Cardinality(S) = n
<1> DEFINE f == [i \in 1..n |-> s[i]]
<1>1. f \in Bijection(1..n, S)
  <2>1. f \in [1..n -> S] /\ \A i, j \in 1..n : f[i] = f[j] => i = j
    BY DEF Once
  <2>2. \A e \in S : \E i \in 1..n : f[i] = e
    BY DEF Once
  <2> HIDE DEF f
  <2> QED
    BY <2>1, <2>2 DEF Bijection, Injection, Surjection, IsInjective
<1>2. IsFiniteSet(1..n) /\ Cardinality(1..n) = n
  BY FS_Interval, SMTT(40)
<1> HIDE DEF f
<1>3. ExistsBijection(1..n, S)
  BY <1>1 DEF ExistsBijection
<1> QED
  BY <1>2, <1>3, FS_Bijection

-------------------------------------------------------------------------------
\* What is reported.

MergedOne(e) == Filled(e, MergeVolumes(e.volumes))
Straight(c)  == Parted(c, [i \in DOMAIN Sorted(c.partitions) |-> MergedOne(Sorted(c.partitions)[i])])

\* The media in the volumes of a partition.
Covered(e) == UNION {e.volumes[i].of : i \in DOMAIN e.volumes}

\* What a merged list says of its media.
Tells(r, p, m) ==
    /\ \A j \in DOMAIN m :
         /\ \A x \in m[j].of : p \in r.path[x]
         /\ Cardinality({r.volume[x].uuid : x \in m[j].of}) = 1
         /\ m[j].mounts = {r.volume[x].mount : x \in m[j].of} \ {0}
    /\ \A j, l \in DOMAIN m : \A x \in m[j].of, y \in m[l].of : j = l <=> Alike(r, x, y)

LEMMA SummedTells ==
  ASSUME NEW r, NEW p, NEW m, NEW X, Summed(r, p, m, X)
  PROVE  Tells(r, p, m) /\ UNION {v.of : v \in ToSet(m)} = X
<1>1. /\ m \in Seq(Entries(r, p))
      /\ \A j, l \in DOMAIN m : Key(m[j]) = Key(m[l]) => j = l
      /\ \A j \in DOMAIN m : m[j].of \subseteq X
      /\ \A x \in X : \E j \in DOMAIN m : x \in m[j].of
  BY DEF Summed
<1>2. \A j \in DOMAIN m : m[j] \in Entries(r, p)
  BY <1>1
<1>3. ASSUME NEW j \in DOMAIN m
      PROVE  /\ \A x \in m[j].of : p \in r.path[x]
             /\ Cardinality({r.volume[x].uuid : x \in m[j].of}) = 1
             /\ m[j].mounts = {r.volume[x].mount : x \in m[j].of} \ {0}
  <2> DEFINE v == m[j]
  <2>1. v \in Entries(r, p)
    BY <1>2
  <2> HIDE DEF v
  <2>2. Means(r, p, v)
    BY <2>1, EntryFields
  <2>3. PICK x \in v.of : TRUE
    BY <2>2 DEF Means
  <2>4. \A y \in v.of : r.volume[y].uuid = r.volume[x].uuid
    BY <2>1, KeyTells DEF Alike
  <2>5. {r.volume[y].uuid : y \in v.of} = {r.volume[x].uuid}
    BY <2>3, <2>4
  <2>6. Cardinality({r.volume[y].uuid : y \in v.of}) = 1
    BY <2>5, FS_Singleton
  <2>7. \A y \in v.of : p \in r.path[y]
    BY <2>2 DEF Means, Files
  <2>8. v.mounts = {r.volume[y].mount : y \in v.of} \ {0}
    BY <2>2 DEF Means
  <2> QED
    BY <2>6, <2>7, <2>8 DEF v
<1>4. ASSUME NEW j \in DOMAIN m, NEW l \in DOMAIN m, NEW x \in m[j].of, NEW y \in m[l].of
      PROVE  j = l <=> Alike(r, x, y)
  <2>1. Key(m[j]) = Key(m[l]) <=> Alike(r, x, y)
    BY <1>2, KeyTells
  <2> QED
    BY <1>1, <2>1
<1>5. UNION {v.of : v \in ToSet(m)} = X
  <2>1. ToSet(m) = {m[i] : i \in DOMAIN m}
    BY DEF ToSet
  <2> QED
    BY <1>1, <2>1
<1> QED
  BY <1>3, <1>4, <1>5 DEF Tells

LEMMA MergedOneTells ==
  ASSUME NEW r, Registry(r), NEW a, NEW e \in FoundPartitions(r, a)
  PROVE  /\ MergedOne(e).of = e.of /\ e.of \in Slices(r, a)
         /\ Tells(r, e.of, MergedOne(e).volumes)
         /\ UNION {v.of : v \in ToSet(MergedOne(e).volumes)} = Covered(e)
<1>1. e.of \in Slices(r, a) /\ e.volumes \in Seq(FoundVolumes(r, e.of))
  BY PartitionFields
<1>2. MergedOne(e).of = e.of /\ MergedOne(e).volumes = MergeVolumes(e.volumes)
  BY PartitionFilled DEF MergedOne
<1>3. Summed(r, e.of, MergeVolumes(e.volumes), Covered(e))
  BY <1>1, MergedSums DEF Covered
<1> QED
  BY <1>1, <1>2, <1>3, SummedTells

\* A disk is reported with its partitions, merged and in order.
Reported(d, c) ==
    /\ d.of = c.of /\ DOMAIN d.partitions = DOMAIN c.partitions
    /\ Len(d.partitions) = Len(c.partitions)
    /\ \A i \in DOMAIN c.partitions : \E j \in DOMAIN c.partitions :
         d.partitions[i] = MergedOne(c.partitions[j])
    /\ \A j \in DOMAIN c.partitions : \E i \in DOMAIN c.partitions :
         d.partitions[i] = MergedOne(c.partitions[j])
    /\ \A i, j \in DOMAIN c.partitions :
         i < j => Index(d.partitions[i].of) < Index(d.partitions[j].of)

LEMMA StraightIsReported ==
  ASSUME Registry(registry), NEW c \in FoundDisks(registry),
         \A i, j \in DOMAIN c.partitions : c.partitions[i].of = c.partitions[j].of => i = j
  PROVE  Reported(Straight(c), c)
<1> DEFINE a == c.of  s == c.partitions  S == FoundPartitions(registry, a)  t == Sorted(s)
           ps == [i \in DOMAIN t |-> MergedOne(t[i])]
           d == Straight(c)
<1>1. a \in Physical(registry) /\ s \in Seq(S)
  BY DiskFields
<1>2. /\ d.of = c.of /\ d.partitions = ps
  <2>1. PICK b \in Physical(registry) :
          c \in [of : {b}, id : {registry.name[b]}, partitions : Seq(FoundPartitions(registry, b))]
    BY DEF FoundDisks
  <2> HIDE DEF ps
  <2>2. Parted(c, ps).of = c.of /\ Parted(c, ps).partitions = ps
    BY <2>1 DEF Parted
  <2> QED
    BY <2>2 DEF Straight, ps
<1>3. \A i \in DOMAIN s : s[i] \in S
  BY <1>1
<1>4. \A i \in DOMAIN s : s[i].of \in Slices(registry, a)
  BY <1>3, PartitionFields
<1>5. /\ \A i \in DOMAIN s : Index(s[i].of) \in Nat
      /\ \A i, j \in DOMAIN s : Index(s[i].of) = Index(s[j].of) => i = j
  BY <1>1, <1>4, SliceNumbers
<1> HIDE DEF d, S
<1>6. /\ t \in Seq(S) /\ DOMAIN t = DOMAIN s
      /\ \A i \in DOMAIN s : \E j \in DOMAIN s : t[i] = s[j]
      /\ \A j \in DOMAIN s : \E i \in DOMAIN s : t[i] = s[j]
      /\ \A i, j \in DOMAIN s : i < j => Index(t[i].of) < Index(t[j].of)
  <2> HIDE DEF s
  <2> QED
    BY <1>1, <1>5, SortedFacts
<1> HIDE DEF t
<1>7. \A i \in DOMAIN s : ps[i] = MergedOne(t[i]) /\ ps[i].of = t[i].of
  <2>1. \A i \in DOMAIN s : ps[i] = MergedOne(t[i])
    BY <1>6
  <2>2. \A i \in DOMAIN s : t[i] \in S
    BY <1>3, <1>6
  <2> QED
    BY <2>1, <2>2, MergedOneTells DEF S
<1>8. DOMAIN ps = DOMAIN s /\ Len(ps) = Len(s)
  <2> DEFINE n == Len(s)
  <2>1. n \in Nat /\ DOMAIN s = 1..n
    BY <1>1, LenProperties
  <2>2. ps \in [1..n -> {ps[i] : i \in 1..n}]
    BY <1>6, <2>1
  <2> HIDE DEF ps, n
  <2> QED
    BY <2>1, <2>2, FunctionIsSeq DEF n
<1> HIDE DEF ps
<1>9. \A i, j \in DOMAIN s : i < j => Index(ps[i].of) < Index(ps[j].of)
  BY <1>6, <1>7
<1>10. \A i \in DOMAIN s : \E j \in DOMAIN s : ps[i] = MergedOne(s[j])
  BY <1>6, <1>7
<1>11. \A j \in DOMAIN s : \E i \in DOMAIN s : ps[i] = MergedOne(s[j])
  BY <1>6, <1>7
<1> QED
  BY <1>2, <1>8, <1>9, <1>10, <1>11 DEF Reported, d

\* The disks are reported each once and in order.
AllReported(z, ds) ==
    /\ DOMAIN z = DOMAIN ds /\ Len(z) = Len(ds)
    /\ \A k \in DOMAIN ds : \E m \in DOMAIN ds : Reported(z[k], ds[m])
    /\ \A m \in DOMAIN ds : \E k \in DOMAIN ds : Reported(z[k], ds[m])
    /\ \A k, m \in DOMAIN ds : k < m => Index(z[k].of) < Index(z[m].of)

LEMMA PartsOnce ==
  ASSUME NEW r, Registry(r), NEW q, NEW ds \in Seq(FoundDisks(r)), NEW parts,
         Positions(q, ds, parts)
  PROVE  \A k, m \in DOMAIN ds : \A i \in DOMAIN ds[k].partitions, j \in DOMAIN ds[m].partitions :
           ds[k].partitions[i].of = ds[m].partitions[j].of => k = m /\ i = j
<1> SUFFICES ASSUME NEW k \in DOMAIN ds, NEW m \in DOMAIN ds,
                    NEW i \in DOMAIN ds[k].partitions, NEW j \in DOMAIN ds[m].partitions,
                    ds[k].partitions[i].of = ds[m].partitions[j].of
             PROVE  k = m /\ i = j
  OBVIOUS
<1>1. ASSUME NEW h \in DOMAIN ds, NEW l \in DOMAIN ds[h].partitions
      PROVE  /\ ds[h].partitions[l].id = r.name[ds[h].partitions[l].of]
             /\ parts[ds[h].partitions[l].id] = [disk |-> h, partition |-> l]
  <2>1. ds[h] \in FoundDisks(r)
    OBVIOUS
  <2>2. ds[h].partitions \in Seq(FoundPartitions(r, ds[h].of))
    BY <2>1, DiskFields
  <2>3. ds[h].partitions[l] \in FoundPartitions(r, ds[h].of)
    BY <2>2
  <2>4. ds[h].partitions[l].id = r.name[ds[h].partitions[l].of]
    BY <2>3, PartitionFields
  <2> QED
    BY <2>4 DEF Positions
<1>2. [disk |-> k, partition |-> i] = [disk |-> m, partition |-> j]
  BY <1>1
<1> QED
  BY <1>2

LEMMA SortReports ==
  ASSUME IInv, Sort
  PROVE  AllReported(disks', disks)
<1> DEFINE r == registry  f == [k \in DOMAIN disks |-> Straight(disks[k])]
           S == {Straight(disks[k]) : k \in DOMAIN disks}
           n == Len(disks)
<1>1. /\ phase = "volumes" /\ Registry(r) /\ disks \in Seq(FoundDisks(r))
      /\ Once(Disks(disks), Physical(r)) /\ Positions(rows, disks, partitionByID)
  BY DEF Sort, IInv, Placed, Walking
<1>2. disks' = Sorted(f)
  BY DEF Sort, Straight, Parted, MergedOne, Filled
<1>3. n \in Nat /\ DOMAIN disks = 1..n /\ \A k \in DOMAIN disks : disks[k] \in FoundDisks(r)
  BY <1>1, LenProperties, ElementOfSeq
<1>o. \A k, m \in DOMAIN disks :
        \A i \in DOMAIN disks[k].partitions, j \in DOMAIN disks[m].partitions :
          disks[k].partitions[i].of = disks[m].partitions[j].of => k = m /\ i = j
  <2>1. Registry(r) /\ disks \in Seq(FoundDisks(r)) /\ Positions(rows, disks, partitionByID)
    BY <1>1
  <2> HIDE DEF r
  <2> QED
    BY <2>1, PartsOnce
<1>4. ASSUME NEW k \in DOMAIN disks
      PROVE  Reported(Straight(disks[k]), disks[k])
  <2>1. \A i, j \in DOMAIN disks[k].partitions :
          disks[k].partitions[i].of = disks[k].partitions[j].of => i = j
    BY <1>o
  <2> QED
    BY <1>1, <1>3, <2>1, StraightIsReported
<1>5. f \in Seq(S) /\ DOMAIN f = DOMAIN disks /\ \A k \in DOMAIN disks : f[k] = Straight(disks[k])
  <2>1. f \in [1..n -> S] /\ DOMAIN f = DOMAIN disks
    BY <1>3
  <2> HIDE DEF S, n
  <2>2. f \in Seq(S)
    <3> HIDE DEF f
    <3> QED
      BY <1>3, <2>1, FunctionIsSeq
  <2> QED
    BY <2>1, <2>2
<1> HIDE DEF f, S, n
<1>6. \A k \in DOMAIN disks : f[k].of = disks[k].of /\ disks[k].of \in Physical(r)
  <2>1. \A k \in DOMAIN disks : f[k].of = disks[k].of
    BY <1>4, <1>5 DEF Reported
  <2>2. \A k \in DOMAIN disks : disks[k].of \in Physical(r)
    BY <1>3, DiskFields
  <2> QED
    BY <2>1, <2>2
<1>7. /\ \A k \in DOMAIN disks : Index(f[k].of) \in Nat
      /\ \A k, m \in DOMAIN disks : Index(f[k].of) = Index(f[m].of) => k = m
  <2>1. \A k, m \in DOMAIN disks : disks[k].of = disks[m].of => k = m
    BY <1>1 DEF Once, Disks
  <2>2. \A k, m \in DOMAIN disks :
          /\ Index(disks[k].of) \in Nat
          /\ Index(disks[k].of) = Index(disks[m].of) => disks[k].of = disks[m].of
    BY <1>1, <1>6, DiskNumbers
  <2> QED
    BY <1>6, <2>1, <2>2
<1> DEFINE z == disks'
<1>8. /\ z \in Seq(S) /\ DOMAIN z = DOMAIN disks
      /\ \A k \in DOMAIN disks : \E m \in DOMAIN disks : z[k] = f[m]
      /\ \A m \in DOMAIN disks : \E k \in DOMAIN disks : z[k] = f[m]
      /\ \A k, m \in DOMAIN disks : k < m => Index(z[k].of) < Index(z[m].of)
  BY <1>2, <1>5, <1>7, SortedFacts
<1> HIDE DEF z
<1>9. Len(z) = n
  <2>1. z \in [1..n -> S]
    <3>1. z \in [1..Len(z) -> S] /\ DOMAIN z = 1..Len(z)
      BY <1>8, LenProperties
    <3> QED
      BY <1>3, <1>8, <3>1
  <2> QED
    BY <1>3, <2>1, FunctionIsSeq
<1>10. \A k \in DOMAIN disks : \E m \in DOMAIN disks : Reported(z[k], disks[m])
  BY <1>4, <1>5, <1>8
<1>11. \A m \in DOMAIN disks : \E k \in DOMAIN disks : Reported(z[k], disks[m])
  BY <1>4, <1>5, <1>8
<1> QED
  BY <1>8, <1>9, <1>10, <1>11 DEF AllReported, z, n

\* A reported partition comes from one that was read, of the same disk.
LEMMA ReportedFrom ==
  ASSUME NEW r, Registry(r), NEW c \in FoundDisks(r), NEW d, Reported(d, c),
         NEW i \in DOMAIN d.partitions
  PROVE  \E j \in DOMAIN c.partitions :
           /\ d.partitions[i] = MergedOne(c.partitions[j])
           /\ d.partitions[i].of = c.partitions[j].of
           /\ d.partitions[i].of \in Slices(r, d.of)
           /\ Tells(r, d.partitions[i].of, d.partitions[i].volumes)
           /\ UNION {v.of : v \in ToSet(d.partitions[i].volumes)} = Covered(c.partitions[j])
<1>1. PICK j \in DOMAIN c.partitions : d.partitions[i] = MergedOne(c.partitions[j])
  BY DEF Reported
<1> DEFINE e == c.partitions[j]
<1>2. c.partitions \in Seq(FoundPartitions(r, c.of)) /\ d.of = c.of
  BY DiskFields DEF Reported
<1>3. e \in FoundPartitions(r, c.of)
  BY <1>2
<1> HIDE DEF e
<1>4. /\ MergedOne(e).of = e.of /\ e.of \in Slices(r, c.of)
      /\ Tells(r, e.of, MergedOne(e).volumes)
      /\ UNION {v.of : v \in ToSet(MergedOne(e).volumes)} = Covered(e)
  BY <1>3, MergedOneTells
<1>5. d.partitions[i] = MergedOne(e)
  BY <1>1 DEF e
<1> QED
  BY <1>2, <1>4, <1>5 DEF e

\* What the property says of one reported partition.
Held(r, p, a) ==
    /\ r.parent[p.of] = a
    /\ \A j \in DOMAIN p.volumes :
         LET v == p.volumes[j]
             uuids == {r.volume[x].uuid : x \in v.of}
         IN  /\ \A x \in v.of : p.of \in r.path[x]
             /\ Cardinality(uuids) = 1
             /\ v.mounts = {r.volume[x].mount : x \in v.of} \ {0}
    /\ \A j, m \in DOMAIN p.volumes :
         \A x \in p.volumes[j].of, y \in p.volumes[m].of :
           LET v == r.volume[x]  w == r.volume[y]
           IN  j = m <=> v.uuid = w.uuid /\ (v.uuid = 0 => v.label = w.label)

LEMMA SortPlaces ==
  ASSUME IInv, Sort
  PROVE  VolumesOnTheirPartition'
<1> DEFINE r == registry  z == disks'
<1>1. Registry(r) /\ disks \in Seq(FoundDisks(r)) /\ registry' = registry
  BY DEF Sort, IInv, Placed, Walking
<1>2. AllReported(z, disks)
  BY SortReports
<1> HIDE DEF z
<1>3. ASSUME NEW k \in DOMAIN z, NEW i \in DOMAIN z[k].partitions
      PROVE  /\ r.parent[z[k].partitions[i].of] = z[k].of
             /\ Tells(r, z[k].partitions[i].of, z[k].partitions[i].volumes)
  <2>1. PICK m \in DOMAIN disks : Reported(z[k], disks[m])
    BY <1>2 DEF AllReported
  <2>2. disks[m] \in FoundDisks(r)
    BY <1>1
  <2>3. /\ z[k].partitions[i].of \in Slices(r, z[k].of)
        /\ Tells(r, z[k].partitions[i].of, z[k].partitions[i].volumes)
    BY <1>1, <2>1, <2>2, ReportedFrom
  <2> QED
    BY <2>3 DEF Slices
<1>4. ASSUME NEW k \in DOMAIN z, NEW i \in DOMAIN z[k].partitions
      PROVE  Held(r, z[k].partitions[i], z[k].of)
  <2> DEFINE p == z[k].partitions[i]  a == z[k].of
  <2>1. r.parent[p.of] = a /\ Tells(r, p.of, p.volumes)
    BY <1>3
  <2> HIDE DEF p, a, r
  <2>2. \A j, l \in DOMAIN p.volumes : \A x \in p.volumes[j].of, y \in p.volumes[l].of :
          j = l <=> Alike(r, x, y)
    BY <2>1 DEF Tells
  <2>3. \A j \in DOMAIN p.volumes :
          /\ \A x \in p.volumes[j].of : p.of \in r.path[x]
          /\ Cardinality({r.volume[x].uuid : x \in p.volumes[j].of}) = 1
          /\ p.volumes[j].mounts = {r.volume[x].mount : x \in p.volumes[j].of} \ {0}
    BY <2>1 DEF Tells
  <2>4. Held(r, p, a)
    BY <2>1, <2>2, <2>3 DEF Held, Alike
  <2> QED
    BY <2>4 DEF p, a
<1>5. VolumesOnTheirPartition' <=>
        (phase' = "done" =>
           \A k \in DOMAIN disks' : \A i \in DOMAIN disks'[k].partitions :
             Held(registry', disks'[k].partitions[i], disks'[k].of))
  BY DEF VolumesOnTheirPartition, Held, Above
<1> QED
  BY <1>1, <1>4, <1>5 DEF z

LEMMA SortCompletes ==
  ASSUME IInv, Sort
  PROVE  NothingMissing' /\ \A k \in DOMAIN disks' : disks'[k].of \in seen'
<1> DEFINE r == registry  z == disks'
<1>1. /\ Registry(r) /\ disks \in Seq(FoundDisks(r)) /\ registry' = registry
      /\ seen' = seen /\ cut' = cut /\ r.whole \subseteq seen /\ disk = 0
      /\ Once(Disks(disks), Physical(r)) /\ Positions(rows, disks, partitionByID)
      /\ rows.volume = << >> /\ rows.partition = << >>
      /\ ~cut => Complete(r, seen, disk, walked, rows, disks)
  BY DEF Sort, IInv, Placed, Walking, walk
<1>2. AllReported(z, disks)
  BY SortReports
<1> HIDE DEF z
<1>3. \A k \in DOMAIN z : z[k].of \in Physical(r)
  <2> SUFFICES ASSUME NEW k \in DOMAIN z
               PROVE  z[k].of \in Physical(r)
    OBVIOUS
  <2>1. PICK m \in DOMAIN disks : Reported(z[k], disks[m])
    BY <1>2 DEF AllReported
  <2>2. disks[m] \in FoundDisks(r) /\ z[k].of = disks[m].of
    BY <1>1, <2>1 DEF Reported
  <2> QED
    BY <2>2, DiskFields
<1>4. \A k \in DOMAIN z : z[k].of \in seen
  BY <1>1, <1>3 DEF Physical
\* Order.
<1>5. ASSUME NEW k \in DOMAIN z, NEW i \in DOMAIN z[k].partitions, NEW j \in DOMAIN z[k].partitions,
             i < j
      PROVE  Index(z[k].partitions[i].of) < Index(z[k].partitions[j].of)
  <2>1. PICK m \in DOMAIN disks : Reported(z[k], disks[m])
    BY <1>2 DEF AllReported
  <2> QED
    BY <1>5, <2>1 DEF Reported
<1>6. \A k, m \in DOMAIN z : k < m => Index(z[k].of) < Index(z[m].of)
  BY <1>2 DEF AllReported
<1>7. Ordered'
  <2>1. \A x : Index(x)' = Index(x)
    BY <1>1 DEF Index, Name
  <2> QED
    BY <1>5, <1>6, <2>1 DEF Ordered, z
<1>o. \A k, m \in DOMAIN disks :
        \A i \in DOMAIN disks[k].partitions, j \in DOMAIN disks[m].partitions :
          disks[k].partitions[i].of = disks[m].partitions[j].of => k = m /\ i = j
  <2>1. Registry(r) /\ disks \in Seq(FoundDisks(r)) /\ Positions(rows, disks, partitionByID)
    BY <1>1
  <2> HIDE DEF r
  <2> QED
    BY <2>1, PartsOnce
\* All disks.
<1>8. Len(z) = Cardinality(Physical(r))
  <2>1. Len(disks) \in Nat /\ DOMAIN Disks(disks) = 1..Len(disks)
    BY <1>1, LenProperties DEF Disks
  <2>2. Cardinality(Physical(r)) = Len(disks)
    BY <1>1, <2>1, OnceCounts
  <2> QED
    BY <1>2, <2>2 DEF AllReported
<1>9. {z[k].of : k \in DOMAIN z} = Physical(r)
  <2>1. ASSUME NEW a \in Physical(r)
        PROVE  \E k \in DOMAIN z : z[k].of = a
    <3>1. PICK m \in DOMAIN disks : disks[m].of = a
      BY <1>1 DEF Once, Disks
    <3>2. PICK k \in DOMAIN disks : Reported(z[k], disks[m])
      BY <1>2 DEF AllReported
    <3> QED
      BY <1>2, <3>1, <3>2 DEF AllReported, Reported
  <2> QED
    BY <1>3, <2>1
\* All partitions of a disk, with all media on them.
<1>10. ASSUME ~cut, NEW k \in DOMAIN z
       PROVE  /\ Len(z[k].partitions) = Cardinality(Slices(r, z[k].of))
              /\ {z[k].partitions[i].of : i \in DOMAIN z[k].partitions} = Slices(r, z[k].of)
              /\ \A i \in DOMAIN z[k].partitions :
                   UNION {v.of : v \in ToSet(z[k].partitions[i].volumes)} =
                     Files(r, z[k].partitions[i].of)
  <2>1. PICK m \in DOMAIN disks : Reported(z[k], disks[m])
    BY <1>2 DEF AllReported
  <2> DEFINE c == disks[m]  d == z[k]  a == c.of
  <2>2. c \in FoundDisks(r) /\ d.of = a
    BY <1>1, <2>1 DEF Reported
  <2>3. a \in Physical(r) /\ c.partitions \in Seq(FoundPartitions(r, a))
    BY <2>2, DiskFields
  <2>4. ASSUME NEW p \in Slices(r, a)
        PROVE  /\ \E j \in DOMAIN c.partitions : c.partitions[j].of = p
               /\ \A x \in Files(r, p) : FileTold(r, rows, disks, p, x)
    <3>1. a \in seen \cap Physical(r) /\ a # disk
      <4>1. disk = 0 /\ a \in seen
        BY <1>1, <2>3 DEF Physical
      <4> QED
        BY <1>1, <2>3, <4>1, NotZero
    <3>2. Complete(r, seen, disk, walked, rows, disks)
      BY <1>1, <1>10
    <3> HIDE DEF a, c, r
    <3>3. SliceTold(rows, disks, p) /\ \A x \in Files(r, p) : FileTold(r, rows, disks, p, x)
      BY <3>1, <3>2 DEF Complete
    <3>4. PICK h \in DOMAIN disks : \E j \in DOMAIN disks[h].partitions :
            disks[h].partitions[j].of = p
      BY <1>1, <3>3 DEF SliceTold
    <3>5. PICK j \in DOMAIN disks[h].partitions : disks[h].partitions[j].of = p
      BY <3>4
    <3>6. disks[h] \in FoundDisks(r)
      BY <1>1
    <3>7. disks[h].partitions \in Seq(FoundPartitions(r, disks[h].of))
      BY <3>6, DiskFields
    <3>8. disks[h].partitions[j] \in FoundPartitions(r, disks[h].of)
      BY <3>7
    <3>9. p \in Slices(r, disks[h].of)
      BY <3>5, <3>8, PartitionFields
    <3>10. disks[h].of = a
      BY <3>9 DEF Slices
    <3>11. h = m
      BY <1>1, <3>10 DEF Once, Disks, a, c
    <3> QED
      BY <3>3, <3>5, <3>11 DEF c
  <2>5. \A j \in DOMAIN c.partitions : c.partitions[j].of \in Slices(r, a)
    <3> SUFFICES ASSUME NEW j \in DOMAIN c.partitions
                 PROVE  c.partitions[j].of \in Slices(r, a)
      OBVIOUS
    <3>1. c.partitions[j] \in FoundPartitions(r, a)
      BY <2>3
    <3> QED
      BY <3>1, PartitionFields
  <2>6. Len(d.partitions) = Cardinality(Slices(r, a))
    <3> DEFINE s == [j \in DOMAIN c.partitions |-> c.partitions[j].of]  n == Len(c.partitions)
    <3>1. n \in Nat /\ DOMAIN s = 1..n /\ DOMAIN s = DOMAIN c.partitions
      BY <2>3, LenProperties
    <3>2. \A i, j \in DOMAIN s : s[i] = s[j] => i = j
      BY <1>o
    <3>3. \A i \in DOMAIN s : s[i] \in Slices(r, a)
      BY <2>5
    <3>4. \A p \in Slices(r, a) : \E j \in DOMAIN s : s[j] = p
      BY <2>4
    <3> HIDE DEF s
    <3>5. Once(s, Slices(r, a))
      BY <3>2, <3>3, <3>4 DEF Once
    <3> HIDE DEF n
    <3>6. Cardinality(Slices(r, a)) = n
      BY <3>1, <3>5, OnceCounts
    <3> QED
      BY <2>1, <3>6 DEF Reported, n
  <2>7. ASSUME NEW i \in DOMAIN d.partitions
        PROVE  /\ d.partitions[i].of \in Slices(r, a)
               /\ UNION {v.of : v \in ToSet(d.partitions[i].volumes)} = Files(r, d.partitions[i].of)
    <3>1. PICK j \in DOMAIN c.partitions :
            /\ d.partitions[i].of = c.partitions[j].of
            /\ UNION {v.of : v \in ToSet(d.partitions[i].volumes)} = Covered(c.partitions[j])
      BY <1>1, <2>1, <2>2, ReportedFrom
    <3> DEFINE e == c.partitions[j]  p == e.of
    <3>2. e \in FoundPartitions(r, a)
      BY <2>3
    <3>3. p \in Slices(r, a) /\ e.volumes \in Seq(FoundVolumes(r, p))
      BY <3>2, PartitionFields
    <3>4. Covered(e) \subseteq Files(r, p)
      <4> SUFFICES ASSUME NEW l \in DOMAIN e.volumes, NEW x \in e.volumes[l].of
                   PROVE  x \in Files(r, p)
        BY DEF Covered
      <4>1. e.volumes[l] \in FoundVolumes(r, p)
        BY <3>3
      <4>2. e.volumes[l].of \subseteq Files(r, p)
        BY <4>1 DEF FoundVolumes
      <4> QED
        BY <4>2
    <3>5. ASSUME NEW x \in Files(r, p)
          PROVE  x \in Covered(e)
      <4>1. FileTold(r, rows, disks, p, x)
        BY <2>4, <3>3
      <4>2. PICK h \in DOMAIN disks : \E g \in DOMAIN disks[h].partitions :
              /\ disks[h].partitions[g].of = p
              /\ \E l \in DOMAIN disks[h].partitions[g].volumes :
                   x \in disks[h].partitions[g].volumes[l].of
        BY <1>1, <4>1 DEF FileTold
      <4>3. PICK g \in DOMAIN disks[h].partitions :
              /\ disks[h].partitions[g].of = p
              /\ \E l \in DOMAIN disks[h].partitions[g].volumes :
                   x \in disks[h].partitions[g].volumes[l].of
        BY <4>2
      <4>4. h = m /\ g = j
        BY <1>o, <4>3
      <4> QED
        BY <4>3, <4>4 DEF Covered
    <3> QED
      BY <3>1, <3>3, <3>4, <3>5
  <2>8. ASSUME NEW p \in Slices(r, a)
        PROVE  \E i \in DOMAIN d.partitions : d.partitions[i].of = p
    <3>1. PICK j \in DOMAIN c.partitions : c.partitions[j].of = p
      BY <2>4
    <3>2. PICK i \in DOMAIN c.partitions : d.partitions[i] = MergedOne(c.partitions[j])
      BY <2>1 DEF Reported
    <3>3. c.partitions[j] \in FoundPartitions(r, a)
      BY <2>3
    <3>4. d.partitions[i].of = p
      BY <1>1, <3>1, <3>2, <3>3, MergedOneTells
    <3> QED
      BY <2>1, <3>4 DEF Reported
  <2> QED
    BY <2>2, <2>6, <2>7, <2>8
<1>11. NothingMissing'
  <2>1. /\ PhysicalDisks' = Physical(r)
        /\ \A d : Partitions(d)' = Slices(r, d)
        /\ \A p : Filesystems(p)' = Files(r, p)
    BY <1>1 DEF PhysicalDisks, Physical, Partitions, Slices, Filesystems, Files, IsPhysical,
                Above, Name
  <2> QED
    BY <1>1, <1>7, <1>8, <1>9, <1>10, <2>1 DEF NothingMissing, z
<1> QED
  BY <1>1, <1>4, <1>11 DEF z

LEMMA Stutter ==
  ASSUME IInv, UNCHANGED vars
  PROVE  IInv'
<1>1. /\ registry' = registry /\ phase' = phase /\ disk' = disk /\ seen' = seen
      /\ walked' = walked /\ rows' = rows /\ disks' = disks /\ diskByID' = diskByID
      /\ partitionByID' = partitionByID /\ cut' = cut
  BY DEF vars, walk, maps
<1>2. VolumesOnTheirPartition => VolumesOnTheirPartition'
  <2>1. VolumesOnTheirPartition <=>
          (phase = "done" => \A k \in DOMAIN disks : \A i \in DOMAIN disks[k].partitions :
                               Held(registry, disks[k].partitions[i], disks[k].of))
    BY DEF VolumesOnTheirPartition, Held, Above
  <2>2. VolumesOnTheirPartition' <=>
          (phase' = "done" => \A k \in DOMAIN disks' : \A i \in DOMAIN disks'[k].partitions :
                                Held(registry', disks'[k].partitions[i], disks'[k].of))
    BY DEF VolumesOnTheirPartition, Held, Above
  <2> QED
    BY <1>1, <2>1, <2>2
<1>3. NothingMissing => NothingMissing'
  <2>1. /\ PhysicalDisks' = PhysicalDisks
        /\ \A d : Partitions(d)' = Partitions(d)
        /\ \A p : Filesystems(p)' = Filesystems(p)
    BY <1>1 DEF PhysicalDisks, Partitions, Filesystems, IsPhysical, Above, Name
  <2>2. Ordered => Ordered'
    <3>1. \A x : Index(x)' = Index(x)
      BY <1>1 DEF Index, Name
    <3> QED
      BY <1>1, <3>1 DEF Ordered
  <2>3. (phase' = "done" /\ ~cut') <=> (phase = "done" /\ ~cut)
    BY <1>1
  <2> QED
    BY <1>1, <2>1, <2>2, <2>3 DEF NothingMissing
<1>4. Walking' /\ Unread' /\ Placed'
  BY <1>1 DEF IInv, Walking, Unread, Placed
<1>5. Right(registry, seen, disk, walked, rows)'
  BY <1>1 DEF IInv
<1>6. (phase # "done" /\ ~cut => Complete(registry, seen, disk, walked, rows, disks))'
  BY <1>1 DEF IInv
<1> QED
  BY <1>1, <1>2, <1>3, <1>4, <1>5, <1>6 DEF IInv

LEMMA SortStep ==
  ASSUME IInv, Sort
  PROVE  IInv'
<1>1. /\ phase' = "done" /\ registry' = registry /\ disk' = disk /\ seen' = seen
      /\ walked' = walked /\ cut' = cut /\ rows' = rows /\ diskByID' = diskByID
  BY DEF Sort, walk, maps
<1>2. Walking' /\ Unread' /\ Placed'
  BY <1>1 DEF IInv, Walking, Unread, Placed, Sort
<1>3. Right(registry, seen, disk, walked, rows)'
  BY <1>1 DEF IInv
<1>4. \A n \in DOMAIN diskByID' : diskByID'[n] \in DOMAIN disks'
  <2>1. DOMAIN disks' = DOMAIN disks
    BY SortReports DEF AllReported
  <2> QED
    BY <1>1, <2>1 DEF IInv
<1>5. VolumesOnTheirPartition' /\ NothingMissing' /\ \A k \in DOMAIN disks' : disks'[k].of \in seen'
  BY SortPlaces, SortCompletes
<1> QED
  BY <1>1, <1>2, <1>3, <1>4, <1>5 DEF IInv

\* Every medium that hw_storage found is queued or told at its place, in every
\* state of the walk and of collectDarwinDisks after it.
THEOREM CollectionInvariance == Spec => []IInv
<1>1. Init => IInv
  BY InitHolds
<1>2. IInv /\ [Next]_vars => IInv'
  <2> SUFFICES ASSUME IInv, [Next]_vars
               PROVE  IInv'
    OBVIOUS
  <2>1. CASE NextWhole
    BY <2>1, NextWholeStep
  <2>2. CASE NextChild
    BY <2>2, NextChildStep
  <2>3. CASE DiskDone
    BY <2>3, DiskDoneStep
  <2>4. CASE WalkDone
    BY <2>4, WalkDoneStep
  <2>5. CASE ReadDisks
    BY <2>5, ReadDisksStep
  <2>6. CASE ReadPartition
    BY <2>6, ReadPartitionStep
  <2>7. CASE PartitionsRead
    BY <2>7, PartitionsReadStep
  <2>8. CASE ReadVolume
    BY <2>8, ReadVolumeStep
  <2>9. CASE Sort
    BY <2>9, SortStep
  <2>10. CASE UNCHANGED vars
    BY <2>10, Stutter
  <2> QED
    BY <2>1, <2>2, <2>3, <2>4, <2>5, <2>6, <2>7, <2>8, <2>9, <2>10 DEF Next
<1> QED
  BY <1>1, <1>2, PTL DEF Spec

\* Whatever the walk meets and whenever it is cut short, every position that is
\* remembered is, until the final sort, that of the disk or partition it is
\* remembered for, and every disk is a whole medium that was seen (hw_storage,
\* collectDarwinDisks).
THEOREM CollectionTypes == Spec => []TypeOK
<1>1. IInv => TypeOK
  <2> SUFFICES ASSUME IInv
               PROVE  TypeOK
    OBVIOUS
  <2>1. /\ Walking /\ \A n \in DOMAIN diskByID : diskByID[n] \in DOMAIN disks
        /\ phase # "done" => \A n \in DOMAIN diskByID : disks[diskByID[n]].id = n
    BY DEF IInv
  <2>2. disk \in Media \cup {0} /\ (disk # 0 => walked \subseteq Children(disk))
    BY <2>1, RegistryNames DEF Walking, Physical, Registry
  <2>3. ASSUME NEW k \in DOMAIN disks
        PROVE  disks[k].of \in seen
    <3>1. CASE phase \in {"walk", "disks"}
      <4>1. disks = << >>
        BY <3>1 DEF IInv, Unread
      <4> QED
        BY <2>3, <4>1
    <3>2. CASE phase \in {"partitions", "volumes"}
      <4>1. disks[k] \in FoundDisks(registry)
        BY <3>2 DEF IInv, Placed
      <4>2. disks[k].of \in Physical(registry)
        BY <4>1, DiskFields
      <4> QED
        BY <2>1, <3>2, <4>2 DEF Walking, Physical
    <3>3. CASE phase = "done"
      BY <3>3 DEF IInv
    <3> QED
      BY <2>1, <3>1, <3>2, <3>3 DEF Walking
  <2>4. ASSUME phase # "done", NEW n \in DOMAIN partitionByID
        PROVE  /\ partitionByID[n].disk \in DOMAIN disks
               /\ partitionByID[n].partition \in DOMAIN disks[partitionByID[n].disk].partitions
               /\ disks[partitionByID[n].disk].partitions[partitionByID[n].partition].id = n
    <3>1. CASE phase \in {"walk", "disks"}
      <4>1. partitionByID = << >>
        BY <3>1 DEF IInv, Unread
      <4> QED
        BY <2>4, <4>1
    <3>2. CASE phase \in {"partitions", "volumes"}
      <4>1. Positions(rows, disks, partitionByID)
        BY <3>2 DEF IInv, Placed
      <4>2. PICK k \in DOMAIN disks : \E i \in DOMAIN disks[k].partitions :
              disks[k].partitions[i].id = n
        BY <2>4, <4>1 DEF Positions
      <4>3. PICK i \in DOMAIN disks[k].partitions : disks[k].partitions[i].id = n
        BY <4>2
      <4>4. partitionByID[n] = [disk |-> k, partition |-> i]
        BY <4>1, <4>3 DEF Positions
      <4>5. partitionByID[n].disk = k /\ partitionByID[n].partition = i
        BY <4>4
      <4> QED
        BY <4>3, <4>5
    <3> QED
      BY <2>1, <2>4, <3>1, <3>2 DEF Walking
  <2> QED
    BY <2>1, <2>2, <2>3, <2>4 DEF TypeOK, Walking
<1> QED
  BY <1>1, CollectionInvariance, PTL

\* The volumes reported under a partition are on it, each entry is of media that
\* are alike, with all their mount points, and no two entries are
\* (hw_append_volume, mergeAndSortDarwinVolumes).
THEOREM VolumesArePlaced == Spec => []VolumesOnTheirPartition
<1>1. IInv => VolumesOnTheirPartition
  BY DEF IInv, Walking, VolumesOnTheirPartition
<1> QED
  BY <1>1, CollectionInvariance, PTL

\* Unless a walk was cut short every physical disk is reported once with all its
\* partitions and all the filesystems on them; whatever is reported is in order
\* (hw_storage, collectDarwinDisks).
THEOREM CollectionIsComplete == Spec => []NothingMissing
<1>1. IInv => NothingMissing
  BY DEF IInv, Walking, NothingMissing, Ordered
<1> QED
  BY <1>1, CollectionInvariance, PTL

-------------------------------------------------------------------------------
\* The buffer.  A buffer of which Good is said holds what it allocated for.
Good(b) ==
    /\ b \in [data : Text, capacity : Nat, lost : BOOLEAN]
    /\ b.capacity <= heap.sizeMax
    /\ b.data # << >> => Len(b.data) < b.capacity

\* What an append makes of a buffer: unless it drops something it adds the text.
Longer(b, c, text) ==
    /\ Good(c)
    /\ b.lost => c.lost
    /\ ~c.lost => c.data = b.data \o text

\* The loop of hw_buffer_reserve, from any capacity.
DoublingFrom(needed, most, n, f) ==
    IF n >= needed THEN n ELSE IF n > most \div 2 THEN needed ELSE f[2 * n]

\* The loop ends: from all that is enough at once, one capacity back at a time.
LEMMA DoublingEnds ==
  ASSUME NEW needed \in Nat, NEW most \in Nat
  PROVE  \E f : f = [n \in Nat \ {0} |-> DoublingFrom(needed, most, n, f)]
<1> DEFINE Works(m, f) == /\ f = [n \in Nat \ {0} |-> f[n]]
                          /\ \A n \in Nat \ {0} : n >= m => f[n] = DoublingFrom(needed, most, n, f)
           Enough == {m \in Nat : \E f : Works(m, f)}
<1>1. needed \in Enough
  <2> DEFINE f == [n \in Nat \ {0} |-> n]
  <2>1. \A n \in Nat \ {0} : n >= needed => f[n] = DoublingFrom(needed, most, n, f)
    BY DEF DoublingFrom
  <2>2. f = [n \in Nat \ {0} |-> f[n]]
    OBVIOUS
  <2> QED
    BY <2>1, <2>2
<1>2. PICK m \in Enough : \A e \in Enough : m <= e
  <2>1. Enough \in SUBSET Nat /\ Enough # {}
    BY <1>1
  <2> HIDE DEF Enough
  <2> QED
    BY <2>1, NaturalLeast
<1>3. PICK f : Works(m, f)
  OBVIOUS
<1>4. m <= 1
  <2> SUFFICES ASSUME ~(m <= 1)
               PROVE  FALSE
    OBVIOUS
  <2> DEFINE l == m - 1
             h == [n \in Nat \ {0} |-> IF n = l THEN DoublingFrom(needed, most, n, f) ELSE f[n]]
  <2>1. m \in Nat
    OBVIOUS
  <2>2. l \in Nat \ {0} /\ l < m /\ \A n \in Nat : n >= l => n = l \/ n >= m
    BY <2>1
  <2>3. \A n \in Nat \ {0} : 2 * n \in Nat \ {0} /\ (n >= l => 2 * n # l)
    BY <2>2
  <2> HIDE DEF l
  <2>4. \A n \in Nat \ {0} : n >= l => h[n] = DoublingFrom(needed, most, n, f)
    BY <1>3, <2>2
  <2>5. \A n \in Nat \ {0} : n >= l => h[2 * n] = f[2 * n]
    BY <2>3
  <2>6. \A n \in Nat \ {0} : n >= l => DoublingFrom(needed, most, n, h) = DoublingFrom(needed, most, n, f)
    BY <2>5 DEF DoublingFrom
  <2>7. h = [n \in Nat \ {0} |-> h[n]]
    OBVIOUS
  <2> HIDE DEF h
  <2>8. Works(l, h)
    BY <2>4, <2>6, <2>7
  <2>9. l \in Enough
    BY <2>2, <2>8
  <2>10. m <= l
    BY <1>2, <2>9
  <2> QED
    BY <2>1, <2>2, <2>10
<1>5. \A n \in Nat \ {0} : n >= m
  BY <1>4
<1>6. f = [n \in Nat \ {0} |-> DoublingFrom(needed, most, n, f)]
  BY <1>3, <1>5, Zenon
<1> QED
  BY <1>6

\* It ends with enough, which is no more than there is.
LEMMA DoubledFits ==
  ASSUME heap.sizeMax \in Nat, NEW needed \in Nat, needed <= heap.sizeMax,
         NEW c \in Nat \ {0}, c <= heap.sizeMax
  PROVE  Doubled(c, needed) \in needed..heap.sizeMax
<1> DEFINE most == heap.sizeMax
           f == CHOOSE g : g = [n \in Nat \ {0} |-> DoublingFrom(needed, most, n, g)]
<1>1. f = [n \in Nat \ {0} |-> DoublingFrom(needed, most, n, f)]
  BY DoublingEnds, Zenon
<1>2. Doubled(c, needed) = f[c]
  BY DEF Doubled, DoublingFrom
<1> HIDE DEF f, most
<1>3. most \in Nat /\ needed <= most
  BY DEF most
<1> DEFINE Short == {k \in Nat : \E n \in 1..most : n + k = most /\ f[n] \notin needed..most}
<1>4. ASSUME Short # {}
      PROVE  FALSE
  <2>1. PICK k \in Short : \A e \in Short : k <= e
    <3>1. Short \in SUBSET Nat
      OBVIOUS
    <3> HIDE DEF Short
    <3> QED
      BY <1>4, <3>1, NaturalLeast
  <2>2. PICK n \in 1..most : n + k = most /\ f[n] \notin needed..most
    OBVIOUS
  <2>3. n \in Nat \ {0} /\ n <= most /\ k \in Nat
    BY <1>3
  <2>4. f[n] = DoublingFrom(needed, most, n, f)
    BY <1>1, <2>3
  <2>5. n < needed
    BY <1>3, <2>2, <2>3, <2>4 DEF DoublingFrom
  <2>6. ~(n > most \div 2)
    BY <1>3, <2>2, <2>4, <2>5 DEF DoublingFrom
  <2>7. f[n] = f[2 * n]
    BY <2>3, <2>4, <2>5, <2>6 DEF DoublingFrom
  <2>8. 2 * n <= most
    BY <1>3, <2>3, <2>6
  <2> DEFINE d == 2 * n  e == most - d
  <2>9. d \in 1..most /\ e \in Nat /\ d + e = most /\ e < k
    BY <1>3, <2>2, <2>3, <2>8
  <2>10. f[d] \notin needed..most
    BY <2>2, <2>7
  <2> HIDE DEF d, e
  <2>11. e \in Short
    BY <2>9, <2>10
  <2> QED
    BY <2>1, <2>3, <2>9, <2>11
<1>5. c \in 1..most /\ most - c \in Nat /\ c + (most - c) = most
  BY <1>3 DEF most
<1>6. f[c] \in needed..most
  BY <1>4, <1>5
<1> QED
  BY <1>2, <1>6 DEF most

\* hw_buffer_reserve leaves room for the text and its terminator, up to the
\* largest size there is.
LEMMA ReserveIsEnough ==
  ASSUME heap \in Heap, NEW b, Good(b), NEW extra \in Nat \ {0}, NEW c \in Reserve(b, extra)
  PROVE  c \in Nat /\ Len(b.data) + extra < c /\ c <= heap.sizeMax
<1>1. b.data \in Text /\ Len(b.data) \in Nat /\ b.capacity \in Nat /\ b.capacity <= heap.sizeMax
  BY DEF Good, Text
<1>2. heap.sizeMax \in Nat /\ FirstCapacity <= heap.sizeMax
  BY RowsAssumption DEF Heap
<1> DEFINE needed == Len(b.data) + extra + 1
           first == IF b.capacity = 0 THEN FirstCapacity ELSE b.capacity
<1>3. ~(extra > heap.sizeMax - Len(b.data) - 1)
  BY DEF Reserve
<1>4. needed \in Nat /\ needed <= heap.sizeMax
  BY <1>1, <1>2, <1>3
<1>5. (c = b.capacity /\ needed <= b.capacity) \/ c = Doubled(first, needed)
  BY <1>3 DEF Reserve
<1>6. first \in Nat \ {0} /\ first <= heap.sizeMax
  BY <1>1, <1>2, RowsAssumption
<1>7. Doubled(first, needed) \in needed..heap.sizeMax
  <2> HIDE DEF needed, first
  <2> QED
    BY <1>2, <1>4, <1>6, DoubledFits
<1> HIDE DEF first
<1> QED
  BY <1>1, <1>2, <1>4, <1>5, <1>7

\* An append adds its bytes in the room reserved for them, or drops them for good.
LEMMA BytesAppended ==
  ASSUME heap \in Heap, NEW b, Good(b), NEW text \in Text, NEW c \in AppendBytes(b, text)
  PROVE  Longer(b, c, text)
<1>1. b \in [data : Text, capacity : Nat, lost : BOOLEAN]
  BY DEF Good
<1>2. CASE text = << >>
  <2>1. c = b
    BY <1>2 DEF AppendBytes
  <2>2. b.data \o << >> = b.data
    BY <1>1, ConcatEmptySeq DEF Text
  <2> QED
    BY <1>2, <2>1, <2>2 DEF Longer
<1>3. CASE text # << >> /\ c = [b EXCEPT !.lost = TRUE]
  <2>1. /\ c \in [data : Text, capacity : Nat, lost : BOOLEAN]
        /\ c.data = b.data /\ c.capacity = b.capacity /\ c.lost = TRUE
    BY <1>1, <1>3
  <2> QED
    BY <2>1 DEF Longer, Good
<1>4. CASE text # << >> /\ \E k \in Reserve(b, Len(text)) :
                               c = [b EXCEPT !.data = @ \o text, !.capacity = k]
  <2>1. PICK k \in Reserve(b, Len(text)) : c = [b EXCEPT !.data = @ \o text, !.capacity = k]
    BY <1>4
  <2>2. Len(text) \in Nat \ {0}
    BY <1>4, EmptySeq DEF Text
  <2>3. k \in Nat /\ Len(b.data) + Len(text) < k /\ k <= heap.sizeMax
    BY <2>2, ReserveIsEnough
  <2>4. b.data \o text \in Text /\ Len(b.data \o text) = Len(b.data) + Len(text)
    BY <1>1, ConcatProperties DEF Text
  <2>5. /\ c \in [data : Text, capacity : Nat, lost : BOOLEAN]
        /\ c.data = b.data \o text /\ c.capacity = k /\ c.lost = b.lost
    BY <1>1, <2>1, <2>3, <2>4
  <2> QED
    BY <2>3, <2>4, <2>5 DEF Longer, Good
<1> QED
  BY <1>2, <1>3, <1>4 DEF AppendBytes

\* A cleaned text has no separators: each is a space.
LEMMA CleanIsText ==
  ASSUME NEW text \in Text
  PROVE  /\ Clean(text) \in Text /\ Len(Clean(text)) = Len(text)
         /\ \A i \in 1..Len(text) : Clean(text)[i] \notin {Tab, Newline}
<1>1. DOMAIN text = 1..Len(text) /\ Len(text) \in Nat /\ \A i \in 1..Len(text) : text[i] \in Characters
  BY DEF Text
<1>0. Space \in Characters
  BY RowsAssumption
<1>2. Clean(text) \in [1..Len(text) -> Characters]
  BY <1>0, <1>1 DEF Clean
<1>3. Clean(text) \in Seq(Characters) /\ Len(Clean(text)) = Len(text)
  BY <1>1, <1>2
<1>4. \A i \in 1..Len(text) : Clean(text)[i] \notin {Tab, Newline}
  BY <1>1 DEF Clean, Space, Tab, Newline
<1> QED
  BY <1>3, <1>4 DEF Text

\* Texts put together are texts.
LEMMA TextsJoin ==
  /\ << >> \in Text
  /\ \A x, y \in Text : x \o y \in Text /\ Len(x \o y) = Len(x) + Len(y)
  /\ \A x, y, z \in Text : (x \o y) \o z = x \o (y \o z)
  /\ \A x \in Text : x \o << >> = x /\ << >> \o x = x
<1> DEFINE S == Characters
<1>1. Text = Seq(S)
  BY DEF Text
<1> HIDE DEF S
<1> QED
  BY <1>1, EmptySeq, ConcatProperties, ConcatAssociative, ConcatEmptySeq

\* A text can be built up a character at a time.
LEMMA AppendJoins ==
  ASSUME NEW x \in Text, NEW y \in Text, NEW c \in Characters
  PROVE  Append(x \o y, c) = x \o Append(y, c)
<1>1. <<c>> \in Text
  BY DEF Text
<1>2. \A z \in Text : Append(z, c) = z \o <<c>>
  BY AppendIsConcat DEF Text
<1>3. Append(x \o y, c) = (x \o y) \o <<c>> /\ Append(y, c) = y \o <<c>>
  BY <1>2, TextsJoin
<1>4. (x \o y) \o <<c>> = x \o (y \o <<c>>)
  BY <1>1, TextsJoin
<1> QED
  BY <1>3, <1>4

\* What follows a text with one more character.
LEMMA AppendOpens ==
  ASSUME NEW x \in Text, NEW y \in Text, NEW c \in Characters
  PROVE  /\ Append(x, c) \in Text /\ <<c>> \in Text /\ <<c>> \o y \in Text
         /\ Append(x, c) \o y = x \o (<<c>> \o y)
         /\ x \o (<<c>> \o y) # << >> /\ Append(x, c) \o y \in Text
<1> DEFINE t == <<c>>
<1>1. t \in Text /\ Append(x, c) = x \o t /\ t # << >> /\ Append(x, c) \in Text
  BY AppendIsConcat DEF Text
<1> HIDE DEF t
<1>2. (x \o t) \o y = x \o (t \o y) /\ t \o y \in Text /\ x \o (t \o y) \in Text
  BY <1>1, TextsJoin
<1>3. x \o (t \o y) # << >>
  BY <1>1, <1>2, ConcatEqualIffEmpty DEF Text
<1> QED
  BY <1>1, <1>2, <1>3 DEF t

\* Two appends add both their texts.
LEMMA LongerTwice ==
  ASSUME NEW b, Good(b), NEW c, NEW d, NEW s \in Text, NEW t \in Text,
         Longer(b, c, s), Longer(c, d, t)
  PROVE  Longer(b, d, s \o t)
<1>1. b.data \in Text
  BY DEF Good
<1>2. (b.data \o s) \o t = b.data \o (s \o t)
  BY <1>1, TextsJoin
<1> QED
  BY <1>2 DEF Longer

\* What hw_buffer_append_clean has made of b after n characters.
Put(buffers, c) == UNION {AppendBytes(x, <<c>>) : x \in buffers}
AfterCharacters(b, text, n, f) ==
    f = [i \in 0..n |-> IF i = 0 THEN {b} ELSE Put(f[i - 1], Clean(text)[i])]

\* The buffers that appending character by character leads to.
LEMMA AfterExists ==
  ASSUME NEW b, NEW text, NEW n \in Nat
  PROVE  \E f : AfterCharacters(b, text, n, f)
<1> DEFINE Bad == {m \in Nat : ~ \E f : AfterCharacters(b, text, m, f)}
<1>1. ASSUME Bad # {}
      PROVE  FALSE
  <2>1. PICK m \in Bad : \A l \in Bad : m <= l
    <3>1. Bad \in SUBSET Nat
      OBVIOUS
    <3> HIDE DEF Bad
    <3> QED
      BY <1>1, <3>1, NaturalLeast
  <2>2. CASE m = 0
    <3>1. AfterCharacters(b, text, 0, [i \in 0..0 |-> {b}])
      BY DEF AfterCharacters
    <3> QED
      BY <2>2, <3>1
  <2>3. CASE m # 0
    <3>1. m \in Nat /\ m - 1 \in Nat /\ m - 1 < m
      BY <2>3
    <3>2. PICK g : AfterCharacters(b, text, m - 1, g)
      BY <2>1, <3>1
    <3> DEFINE h == [i \in 0..m |-> IF i = m THEN Put(g[m - 1], Clean(text)[m]) ELSE g[i]]
    <3>3. \A i \in 0..m : h[i] = IF i = 0 THEN {b} ELSE Put(h[i - 1], Clean(text)[i])
      <4> SUFFICES ASSUME NEW i \in 0..m
                   PROVE  h[i] = IF i = 0 THEN {b} ELSE Put(h[i - 1], Clean(text)[i])
        OBVIOUS
      <4>1. i = 0 \/ (i - 1 \in 0..m /\ i - 1 # m)
        BY <3>1
      <4>2. i # m => i \in 0..(m - 1)
        BY <3>1
      <4>3. i # m => g[i] = IF i = 0 THEN {b} ELSE Put(g[i - 1], Clean(text)[i])
        BY <3>2, <4>2 DEF AfterCharacters
      <4> QED
        BY <2>3, <4>1, <4>3
    <3>4. AfterCharacters(b, text, m, h)
      <4>1. h = [i \in 0..m |-> h[i]]
        OBVIOUS
      <4> HIDE DEF h
      <4> QED
        BY <3>3, <4>1 DEF AfterCharacters
    <3> QED
      BY <3>4
  <2> QED
    BY <2>2, <2>3
<1> QED
  BY <1>1

\* hw_buffer_append_clean adds the cleaned text, unless an append is dropped.
LEMMA CleanAppended ==
  ASSUME heap \in Heap, NEW b, Good(b), NEW text \in Text, NEW c \in AppendClean(b, text)
  PROVE  Longer(b, c, Clean(text))
<1> DEFINE k == Len(text)
           t == Clean(text)
<1>1. k \in Nat /\ t \in Text /\ Len(t) = k
  BY CleanIsText DEF Text
<1> DEFINE f == CHOOSE g : AfterCharacters(b, text, k, g)
<1>2. AfterCharacters(b, text, k, f)
  BY <1>1, AfterExists
<1>3. AppendClean(b, text) = f[k]
  BY DEF AppendClean, AfterCharacters, Put
<1> HIDE DEF f, k
<1>4. \A i \in 0..k : f[i] = IF i = 0 THEN {b} ELSE Put(f[i - 1], t[i])
  BY <1>2 DEF AfterCharacters
<1> HIDE DEF t
<1> DEFINE Bad == {n \in Nat : n <= k /\ \E d \in f[n] : ~Longer(b, d, SubSeq(t, 1, n))}
<1>5. ASSUME Bad # {}
      PROVE  FALSE
  <2>1. PICK n \in Bad : \A l \in Bad : n <= l
    <3>1. Bad \in SUBSET Nat
      OBVIOUS
    <3> HIDE DEF Bad
    <3> QED
      BY <1>5, <3>1, NaturalLeast
  <2>2. CASE n = 0
    <3>1. SubSeq(t, 1, 0) = << >>
      BY SubSeqEmpty
    <3>2. b.data \o << >> = b.data
      BY TextsJoin DEF Good
    <3>3. Longer(b, b, << >>)
      BY <3>2 DEF Longer
    <3>4. f[0] = {b}
      BY <1>1, <1>4
    <3>5. \A d \in f[0] : Longer(b, d, SubSeq(t, 1, 0))
      BY <3>1, <3>3, <3>4
    <3> QED
      BY <2>2, <3>5
  <2>3. CASE n # 0
    <3>1. n \in 1..k /\ n - 1 \in Nat /\ n - 1 < n /\ n - 1 <= k
      BY <1>1, <2>3
    <3>2. n - 1 \notin Bad
      BY <2>1, <3>1
    <3>3. \A d \in f[n - 1] : Longer(b, d, SubSeq(t, 1, n - 1))
      BY <3>1, <3>2
    <3>4. PICK d \in f[n] : ~Longer(b, d, SubSeq(t, 1, n))
      OBVIOUS
    <3>a. f[n] = Put(f[n - 1], t[n])
      BY <1>1, <1>4, <3>1
    <3>5. PICK x \in f[n - 1] : d \in AppendBytes(x, <<t[n]>>)
      BY <3>a, <3>4 DEF Put
    <3>6. <<t[n]>> \in Text
      BY <1>1, <3>1 DEF Text
    <3>7. Longer(x, d, <<t[n]>>)
      BY <3>3, <3>5, <3>6, BytesAppended DEF Longer
    <3>8. SubSeq(t, 1, n - 1) \in Text /\ SubSeq(t, 1, n - 1) \o <<t[n]>> = SubSeq(t, 1, n)
      <4>1. t \in Seq(Characters) /\ n \in 1..Len(t) /\ 1 \in 1..Len(t) /\ n \in 1..n
        BY <1>1, <3>1 DEF Text
      <4>2. SubSeq(t, 1, n) = SubSeq(t, 1, n - 1) \o <<t[n]>>
        BY <4>1, SubSeqRecursiveSecond
      <4>3. \A i \in 1..(n - 1) : t[i] \in Characters
        BY <4>1
      <4>4. SubSeq(t, 1, n - 1) \in Seq(Characters)
        BY <3>1, <4>3, SubSeqProperties
      <4> QED
        BY <4>2, <4>4 DEF Text
    <3>9. Longer(b, d, SubSeq(t, 1, n - 1) \o <<t[n]>>)
      BY <3>3, <3>5, <3>6, <3>7, <3>8, LongerTwice
    <3> QED
      BY <3>4, <3>8, <3>9
  <2> QED
    BY <2>2, <2>3
<1>6. Longer(b, c, SubSeq(t, 1, k))
  BY <1>1, <1>3, <1>5
<1>7. SubSeq(t, 1, k) = t
  BY <1>1, SubSeqFull DEF Text
<1> QED
  BY <1>6, <1>7 DEF t

\* A separator and a cleaned text after it.
LEMMA AllAppended ==
  ASSUME heap \in Heap, NEW b, Good(b), NEW text \in Text, NEW more \in Text,
         NEW c \in AppendAll(b, text, more)
  PROVE  Longer(b, c, text \o Clean(more))
<1>1. PICK x \in AppendBytes(b, text) : c \in AppendClean(x, more)
  BY DEF AppendAll
<1>2. Longer(b, x, text)
  BY <1>1, BytesAppended
<1>3. Longer(x, c, Clean(more))
  BY <1>1, <1>2, CleanAppended DEF Longer
<1> QED
  BY <1>2, <1>3, CleanIsText, LongerTwice

-------------------------------------------------------------------------------
\* What strings.Split has found after n characters.
AfterParts(text, separator, n, f) ==
    f = [i \in 0..n |-> IF i = 0 THEN << << >> >> ELSE NextPart(f[i - 1], text[i], separator)]

\* The parts found after each character.
LEMMA PartsExist ==
  ASSUME NEW text, NEW separator, NEW n \in Nat
  PROVE  \E f : AfterParts(text, separator, n, f)
<1> DEFINE Bad == {m \in Nat : ~ \E f : AfterParts(text, separator, m, f)}
<1>1. ASSUME Bad # {}
      PROVE  FALSE
  <2>1. PICK m \in Bad : \A l \in Bad : m <= l
    <3>1. Bad \in SUBSET Nat
      OBVIOUS
    <3> HIDE DEF Bad
    <3> QED
      BY <1>1, <3>1, NaturalLeast
  <2>2. CASE m = 0
    <3>1. AfterParts(text, separator, 0, [i \in 0..0 |-> << << >> >>])
      BY DEF AfterParts
    <3> QED
      BY <2>2, <3>1
  <2>3. CASE m # 0
    <3>1. m \in Nat /\ m - 1 \in Nat /\ m - 1 < m
      BY <2>3
    <3>2. PICK g : AfterParts(text, separator, m - 1, g)
      BY <2>1, <3>1
    <3> DEFINE h == [i \in 0..m |-> IF i = m THEN NextPart(g[m - 1], text[m], separator) ELSE g[i]]
    <3>3. \A i \in 0..m : h[i] = IF i = 0 THEN << << >> >> ELSE NextPart(h[i - 1], text[i], separator)
      <4> SUFFICES ASSUME NEW i \in 0..m
                   PROVE  h[i] = IF i = 0 THEN << << >> >> ELSE NextPart(h[i - 1], text[i], separator)
        OBVIOUS
      <4>1. i = 0 \/ (i - 1 \in 0..m /\ i - 1 # m)
        BY <3>1
      <4>2. i # m => i \in 0..(m - 1)
        BY <3>1
      <4>3. i # m => g[i] = IF i = 0 THEN << << >> >> ELSE NextPart(g[i - 1], text[i], separator)
        BY <3>2, <4>2 DEF AfterParts
      <4> QED
        BY <2>3, <4>1, <4>3
    <3>4. AfterParts(text, separator, m, h)
      <4>1. h = [i \in 0..m |-> h[i]]
        OBVIOUS
      <4> HIDE DEF h
      <4> QED
        BY <3>3, <4>1 DEF AfterParts
    <3> QED
      BY <3>4
  <2> QED
    BY <2>2, <2>3
<1> QED
  BY <1>1

\* The parts found depend on the characters seen only.
LEMMA PartsAgree ==
  ASSUME NEW s, NEW t, NEW separator, NEW k \in Nat, NEW l \in Nat, k <= l,
         NEW f, AfterParts(s, separator, k, f), NEW g, AfterParts(t, separator, l, g),
         \A i \in 1..k : s[i] = t[i]
  PROVE  f[k] = g[k]
<1>1. /\ \A i \in 0..k : f[i] = IF i = 0 THEN << << >> >> ELSE NextPart(f[i - 1], s[i], separator)
      /\ \A i \in 0..l : g[i] = IF i = 0 THEN << << >> >> ELSE NextPart(g[i - 1], t[i], separator)
  BY DEF AfterParts
<1> DEFINE Bad == {n \in Nat : n <= k /\ f[n] # g[n]}
<1>2. ASSUME Bad # {}
      PROVE  FALSE
  <2>1. PICK n \in Bad : \A m \in Bad : n <= m
    <3>1. Bad \in SUBSET Nat
      OBVIOUS
    <3> HIDE DEF Bad
    <3> QED
      BY <1>2, <3>1, NaturalLeast
  <2>2. n # 0
    BY <1>1
  <2>3. n \in 1..k /\ n \in 0..k /\ n \in 0..l /\ n - 1 \in Nat /\ n - 1 < n /\ n - 1 <= k
    BY <2>2
  <2>4. f[n - 1] = g[n - 1]
    BY <2>1, <2>3
  <2> QED
    BY <1>1, <2>2, <2>3, <2>4
<1> QED
  BY <1>2

\* strings.Split of a text that is one character longer.
LEMMA SplitEmpty ==
  ASSUME NEW separator
  PROVE  Split(<< >>, separator) = << << >> >>
<1> DEFINE f == CHOOSE g : AfterParts(<< >>, separator, 0, g)
<1>1. AfterParts(<< >>, separator, 0, f)
  BY PartsExist
<1>2. Split(<< >>, separator) = f[0]
  BY DEF Split, AfterParts
<1> HIDE DEF f
<1> QED
  BY <1>1, <1>2 DEF AfterParts

\* The parts of a longer text come from those of the shorter.
LEMMA SplitAppend ==
  ASSUME NEW text \in Text, NEW c \in Characters, NEW separator
  PROVE  Split(Append(text, c), separator) = NextPart(Split(text, separator), c, separator)
<1> DEFINE k == Len(text)
           longer == Append(text, c)
<1>1. /\ k \in Nat /\ Len(longer) = k + 1
      /\ \A i \in 1..k : longer[i] = text[i]
      /\ longer[k + 1] = c
  BY AppendProperties DEF Text
<1> HIDE DEF k, longer
<1> DEFINE f == CHOOSE g : AfterParts(text, separator, k, g)
           h == CHOOSE g : AfterParts(longer, separator, k + 1, g)
<1>2. AfterParts(text, separator, k, f) /\ AfterParts(longer, separator, k + 1, h)
  <2>1. k \in Nat /\ k + 1 \in Nat
    BY <1>1
  <2>2. \E g : AfterParts(text, separator, k, g)
    BY <2>1, PartsExist
  <2>3. \E g : AfterParts(longer, separator, k + 1, g)
    <3> DEFINE l == k + 1
    <3> HIDE DEF l
    <3>1. l \in Nat
      BY <2>1 DEF l
    <3>2. \E g : AfterParts(longer, separator, l, g)
      BY <3>1, PartsExist
    <3> QED
      BY <3>2 DEF l
  <2> QED
    BY <2>2, <2>3
<1>3. Split(text, separator) = f[k]
  BY DEF Split, AfterParts, k
<1>4. Split(longer, separator) = h[k + 1]
  BY <1>1 DEF Split, AfterParts
<1> HIDE DEF f, h
<1>5. f[k] = h[k]
  BY <1>1, <1>2, PartsAgree
<1>6. h[k + 1] = NextPart(h[k], longer[k + 1], separator)
  <2> DEFINE l == k + 1
  <2>1. l \in 0..l /\ l # 0 /\ l - 1 = k
    BY <1>1
  <2>2. AfterParts(longer, separator, l, h)
    BY <1>2
  <2> HIDE DEF l
  <2>3. \A i \in 0..l : h[i] = IF i = 0 THEN << << >> >> ELSE NextPart(h[i - 1], longer[i], separator)
    BY <2>2 DEF AfterParts
  <2>4. h[l] = NextPart(h[l - 1], longer[l], separator)
    BY <2>1, <2>3
  <2> QED
    BY <2>1, <2>4 DEF l
<1> QED
  BY <1>1, <1>3, <1>4, <1>5, <1>6 DEF longer

\* What a further character does to the parts.
LEMMA PartAdded ==
  ASSUME NEW parts \in Seq(Text), parts # << >>, NEW c \in Characters, NEW separator
  PROVE  LET next == NextPart(parts, c, separator)
             n    == Len(parts)
         IN  /\ next \in Seq(Text) /\ next # << >>
             /\ n \in Nat \ {0} /\ parts[n] \in Text
             /\ c = separator => /\ Len(next) = n + 1 /\ next[n + 1] = << >>
                                 /\ \A i \in 1..n : next[i] = parts[i]
             /\ c # separator => /\ Len(next) = n /\ next[n] = Append(parts[n], c)
                                 /\ \A i \in 1..(n - 1) : next[i] = parts[i]
<1> DEFINE n == Len(parts)
<1>1. n \in Nat \ {0} /\ n \in 1..n /\ parts[n] \in Text
  <2>1. n \in Nat \ {0}
    BY EmptySeq
  <2> QED
    BY <2>1, ElementOfSeq
<1>2. << >> \in Text /\ Append(parts[n], c) \in Text
  BY <1>1 DEF Text
<1>3. CASE c = separator
  <2>1. NextPart(parts, c, separator) = Append(parts, << >>)
    BY <1>3 DEF NextPart
  <2> QED
    BY <1>1, <1>2, <1>3, <2>1, AppendProperties
<1>4. CASE c # separator
  <2>1. NextPart(parts, c, separator) = [parts EXCEPT ![n] = Append(parts[n], c)]
    BY <1>4 DEF NextPart
  <2> DEFINE next == NextPart(parts, c, separator)
             last == Append(parts[n], c)
  <2> HIDE DEF last
  <2>2. /\ next \in Seq(Text) /\ Len(next) = n
        /\ \A i \in 1..n : next[i] = IF i = n THEN last ELSE parts[i]
    BY <1>1, <1>2, <2>1, ExceptSeq DEF last
  <2>3. next # << >>
    BY <1>1, <2>2
  <2> HIDE DEF next
  <2>4. next[n] = last /\ \A i \in 1..(n - 1) : next[i] = parts[i]
    BY <1>1, <2>2
  <2> QED
    BY <1>1, <1>4, <2>2, <2>3, <2>4 DEF next, last
<1> QED
  BY <1>3, <1>4

\* The parts of a text, none of which has the separator.
LEMMA SplitParts ==
  ASSUME NEW separator
  PROVE  \A text \in Text : Split(text, separator) \in Seq(Text) /\ Split(text, separator) # << >>
<1> DEFINE Holds(text) == Split(text, separator) \in Seq(Text) /\ Split(text, separator) # << >>
           Bad == {n \in Nat : \E text \in Text : Len(text) = n /\ ~Holds(text)}
<1>1. ASSUME Bad # {}
      PROVE  FALSE
  <2>1. PICK n \in Bad : \A m \in Bad : n <= m
    <3>1. Bad \in SUBSET Nat
      OBVIOUS
    <3> HIDE DEF Bad
    <3> QED
      BY <1>1, <3>1, NaturalLeast
  <2>2. PICK text \in Text : Len(text) = n /\ ~Holds(text)
    OBVIOUS
  <2>3. CASE text = << >>
    <3>1. << << >> >> \in Seq(Text) /\ << << >> >> # << >>
      BY TextsJoin
    <3> QED
      BY <2>2, <2>3, <3>1, SplitEmpty
  <2>4. CASE text # << >>
    <3>1. PICK s \in Text, c \in Characters : text = Append(s, c)
      BY <2>4, SequenceEmptyOrAppend DEF Text
    <3>2. Len(s) \in Nat /\ Len(s) < n
      BY <2>2, <3>1 DEF Text
    <3>3. Holds(s)
      BY <2>1, <3>2
    <3>4. Split(text, separator) = NextPart(Split(s, separator), c, separator)
      BY <3>1, SplitAppend
    <3> QED
      BY <2>2, <3>3, <3>4, PartAdded
  <2> QED
    BY <2>3, <2>4
<1>2. ASSUME NEW text \in Text
      PROVE  Holds(text)
  <2>1. Len(text) \in Nat
    BY DEF Text
  <2> QED
    BY <1>1, <2>1
<1> QED
  BY <1>2

-------------------------------------------------------------------------------
\* The text in lines and cells, as darwinRecordsFromC takes it apart.
Table(text) == LET lines == Split(text, Newline)
               IN  [i \in 1..Len(lines) |-> Split(lines[i], Tab)]

\* The table of a text has a row per line and a cell per part of it, and never is empty.
LEMMA TableCells ==
  ASSUME NEW text \in Text
  PROVE  LET table == Table(text)
             n     == Len(table)
         IN  /\ table \in Seq(Seq(Text))
             /\ n = Len(Split(text, Newline)) /\ n \in Nat \ {0}
             /\ \A i \in 1..n : /\ table[i] = Split(Split(text, Newline)[i], Tab)
                               /\ table[i] \in Seq(Text) /\ table[i] # << >>
<1> DEFINE lines == Split(text, Newline)
           n == Len(lines)
<1>1. lines \in Seq(Text) /\ lines # << >>
  BY SplitParts
<1> HIDE DEF lines
<1>2. n \in Nat \ {0} /\ \A i \in 1..n : lines[i] \in Text
  BY <1>1, EmptySeq
<1>3. \A i \in 1..n : Split(lines[i], Tab) \in Seq(Text) /\ Split(lines[i], Tab) # << >>
  BY <1>2, SplitParts
<1> DEFINE table == [i \in 1..n |-> Split(lines[i], Tab)]
<1>4. table \in [1..n -> Seq(Text)]
  BY <1>3
<1>5. table \in Seq(Seq(Text)) /\ Len(table) = n
  BY <1>2, <1>4
<1>6. Table(text) = table
  BY DEF Table, lines
<1> QED
  BY <1>2, <1>3, <1>5, <1>6 DEF lines

\* No text is one line of one empty cell.
LEMMA TableEmpty ==
  /\ Len(Table(<< >>)) = 1 /\ Table(<< >>)[1] = << << >> >>
<1>1. Split(<< >>, Newline) = << << >> >> /\ Split(<< >>, Tab) = << << >> >>
  BY SplitEmpty
<1>2. << >> \in Text /\ 1 \in 1..1 /\ << << >> >>[1] = << >> /\ Len(<< << >> >>) = 1
  BY TextsJoin
<1> QED
  BY <1>1, <1>2, TableCells

\* A newline begins a row, anything else is for the last row.
LEMMA TableAppend ==
  ASSUME NEW text \in Text, NEW c \in Characters
  PROVE  LET table == Table(text)
             next  == Table(Append(text, c))
             n     == Len(table)
         IN  /\ c = Newline => /\ Len(next) = n + 1 /\ next[n + 1] = << << >> >>
                               /\ \A i \in 1..n : next[i] = table[i]
             /\ c # Newline => /\ Len(next) = n /\ next[n] = NextPart(table[n], c, Tab)
                               /\ \A i \in 1..(n - 1) : next[i] = table[i]
<1> DEFINE lines == Split(text, Newline)
           more == Split(Append(text, c), Newline)
           n == Len(lines)
           table == Table(text)
           next == Table(Append(text, c))
<1>1. lines \in Seq(Text) /\ lines # << >> /\ more = NextPart(lines, c, Newline)
  BY SplitParts, SplitAppend
<1>2. Append(text, c) \in Text
  BY DEF Text
<1>3. Len(table) = n /\ n \in Nat \ {0} /\ \A i \in 1..n : table[i] = Split(lines[i], Tab)
  BY TableCells
<1>4. Len(next) = Len(more) /\ \A i \in 1..Len(more) : next[i] = Split(more[i], Tab)
  BY <1>2, TableCells
<1> HIDE DEF lines, more, table, next
<1>5. CASE c = Newline
  <2>1. Len(more) = n + 1 /\ more[n + 1] = << >> /\ \A i \in 1..n : more[i] = lines[i]
    BY <1>1, <1>5, PartAdded
  <2>2. next[n + 1] = << << >> >>
    BY <1>3, <1>4, <2>1, SplitEmpty
  <2>3. \A i \in 1..n : next[i] = table[i]
    BY <1>3, <1>4, <2>1
  <2> QED
    BY <1>3, <1>4, <1>5, <2>1, <2>2, <2>3 DEF table, next
<1>6. CASE c # Newline
  <2>1. /\ Len(more) = n /\ more[n] = Append(lines[n], c) /\ lines[n] \in Text
        /\ \A i \in 1..(n - 1) : more[i] = lines[i]
    BY <1>1, <1>6, PartAdded
  <2>2. next[n] = NextPart(table[n], c, Tab)
    <3>1. n \in 1..n
      BY <1>3
    <3>2. Split(Append(lines[n], c), Tab) = NextPart(Split(lines[n], Tab), c, Tab)
      BY <2>1, SplitAppend
    <3> QED
      BY <1>3, <1>4, <2>1, <3>1, <3>2
  <2>3. \A i \in 1..(n - 1) : next[i] = table[i]
    BY <1>3, <1>4, <2>1
  <2> QED
    BY <1>3, <1>4, <1>6, <2>1, <2>2, <2>3 DEF table, next
<1> QED
  BY <1>5, <1>6

\* The last cell of the last row has a text added.
Grown(table, next, text) ==
    LET n == Len(table)
        m == Len(table[n])
    IN  /\ Len(next) = n
        /\ \A i \in 1..(n - 1) : next[i] = table[i]
        /\ Len(next[n]) = m
        /\ \A j \in 1..(m - 1) : next[n][j] = table[n][j]
        /\ next[n][m] = table[n][m] \o text

\* A character that is no separator goes to the last cell.
LEMMA CharacterFills ==
  ASSUME NEW before \in Text, NEW text \in Text, NEW c \in Characters \ {Tab, Newline},
         NEW table, table \in Seq(Seq(Text)), table # << >>, table[Len(table)] # << >>,
         Grown(table, Table(before), text)
  PROVE  Grown(table, Table(Append(before, c)), Append(text, c))
<1> DEFINE n == Len(table)
           m == Len(table[n])
           middle == Table(before)
           next == Table(Append(before, c))
<1>1. n \in Nat \ {0} /\ n \in 1..n /\ table[n] \in Seq(Text)
  <2>1. n \in Nat \ {0}
    BY EmptySeq
  <2> QED
    BY <2>1, ElementOfSeq
<1>2. m \in Nat \ {0} /\ m \in 1..m /\ table[n][m] \in Text
  <2>1. m \in Nat \ {0}
    BY <1>1, EmptySeq
  <2> QED
    BY <1>1, <2>1, ElementOfSeq
<1>3. /\ Len(middle) = n /\ \A i \in 1..(n - 1) : middle[i] = table[i]
      /\ Len(middle[n]) = m /\ \A j \in 1..(m - 1) : middle[n][j] = table[n][j]
      /\ middle[n][m] = table[n][m] \o text
  BY DEF Grown
<1>4. /\ Len(next) = Len(middle) /\ next[Len(middle)] = NextPart(middle[Len(middle)], c, Tab)
      /\ \A i \in 1..(Len(middle) - 1) : next[i] = middle[i]
  BY TableAppend
<1>5. middle[n] \in Seq(Text) /\ middle[n] # << >>
  BY <1>1, <1>3, TableCells
<1> HIDE DEF middle, next, n, m
<1> DEFINE cells == middle[n]
<1>6. /\ Len(next[n]) = m /\ next[n][m] = Append(middle[n][m], c)
      /\ \A j \in 1..(m - 1) : next[n][j] = middle[n][j]
  <2>1. cells \in Seq(Text) /\ cells # << >> /\ c # Tab /\ c \in Characters /\ Len(cells) = m
    BY <1>3, <1>5
  <2>2. next[n] = NextPart(cells, c, Tab)
    BY <1>3, <1>4
  <2> HIDE DEF cells
  <2>3. LET parts == NextPart(cells, c, Tab)
        IN  /\ Len(parts) = m /\ parts[m] = Append(cells[m], c)
            /\ \A j \in 1..(m - 1) : parts[j] = cells[j]
    BY <2>1, PartAdded
  <2> QED
    BY <2>2, <2>3 DEF cells
<1>7. Append(table[n][m] \o text, c) = table[n][m] \o Append(text, c)
  BY <1>2, AppendJoins
<1>8. /\ Len(next) = n /\ \A i \in 1..(n - 1) : next[i] = table[i]
      /\ Len(next[n]) = m /\ \A j \in 1..(m - 1) : next[n][j] = table[n][j]
      /\ next[n][m] = table[n][m] \o Append(text, c)
  BY <1>3, <1>4, <1>6, <1>7
<1> QED
  BY <1>8 DEF Grown, next, n, m

\* So does a text without separators.
LEMMA TextFills ==
  ASSUME NEW before \in Text, NEW text \in Text,
         \A i \in 1..Len(text) : text[i] \notin {Tab, Newline}
  PROVE  Grown(Table(before), Table(before \o text), text)
<1> DEFINE k == Len(text)
           table == Table(before)
           Part(n) == SubSeq(text, 1, n)
           Bad == {n \in Nat : n <= k /\ ~Grown(table, Table(before \o Part(n)), Part(n))}
<1>1. k \in Nat /\ \A i \in 1..k : text[i] \in Characters \ {Tab, Newline}
  BY DEF Text
<1>2. /\ table \in Seq(Seq(Text)) /\ table # << >> /\ table[Len(table)] # << >>
      /\ table[Len(table)] \in Seq(Text)
  <2>1. /\ table \in Seq(Seq(Text)) /\ Len(table) \in Nat \ {0}
        /\ \A i \in 1..Len(table) : table[i] \in Seq(Text) /\ table[i] # << >>
    BY TableCells
  <2> QED
    BY <2>1, EmptySeq
<1>3. ASSUME Bad # {}
      PROVE  FALSE
  <2>1. PICK n \in Bad : \A m \in Bad : n <= m
    <3>1. Bad \in SUBSET Nat
      OBVIOUS
    <3> HIDE DEF Bad
    <3> QED
      BY <1>3, <3>1, NaturalLeast
  <2>2. CASE n = 0
    <3>1. Part(0) = << >>
      BY SubSeqEmpty
    <3>2. before \o << >> = before
      BY TextsJoin
    <3>3. LET l == Len(table) IN table[l][Len(table[l])] \o << >> = table[l][Len(table[l])]
      <4>1. table[Len(table)][Len(table[Len(table)])] \in Text
        BY <1>2, EmptySeq, ElementOfSeq
      <4> QED
        BY <4>1, TextsJoin
    <3>4. Grown(table, table, << >>)
      BY <3>3 DEF Grown
    <3> QED
      BY <2>2, <3>1, <3>2, <3>4
  <2>3. CASE n # 0
    <3>1. n \in 1..k /\ n - 1 \in Nat /\ n - 1 < n /\ n - 1 <= k
      BY <1>1, <2>3
    <3>2. Grown(table, Table(before \o Part(n - 1)), Part(n - 1))
      BY <2>1, <3>1
    <3>3. /\ Part(n - 1) \in Text /\ text[n] \in Characters \ {Tab, Newline}
          /\ Part(n) = Append(Part(n - 1), text[n])
      <4>1. text \in Seq(Characters) /\ n \in 1..Len(text) /\ 1 \in 1..Len(text) /\ n \in 1..n
        BY <1>1, <3>1 DEF Text
      <4>2. SubSeq(text, 1, n) = SubSeq(text, 1, n - 1) \o <<text[n]>>
        BY <4>1, SubSeqRecursiveSecond
      <4>3. \A i \in 1..(n - 1) : text[i] \in Characters
        BY <4>1
      <4>4. SubSeq(text, 1, n - 1) \in Seq(Characters)
        BY <3>1, <4>3, SubSeqProperties
      <4>5. text[n] \in Characters \ {Tab, Newline}
        BY <1>1, <3>1
      <4> QED
        BY <4>2, <4>4, <4>5, AppendIsConcat DEF Text
    <3>4. /\ before \o Part(n - 1) \in Text
          /\ before \o Part(n) = Append(before \o Part(n - 1), text[n])
      <4>1. text[n] \in Characters
        BY <3>3
      <4>2. Append(before \o Part(n - 1), text[n]) = before \o Append(Part(n - 1), text[n])
        BY <3>3, <4>1, AppendJoins
      <4> QED
        BY <3>3, <4>2, TextsJoin
    <3> HIDE DEF Part, table
    <3>5. Grown(table, Table(Append(before \o Part(n - 1), text[n])), Append(Part(n - 1), text[n]))
      BY <1>2, <3>2, <3>3, <3>4, CharacterFills
    <3> QED
      BY <3>3, <3>4, <3>5
  <2> QED
    BY <2>2, <2>3
<1>4. Grown(table, Table(before \o Part(k)), Part(k))
  BY <1>1, <1>3
<1>5. Part(k) = text
  BY SubSeqFull DEF Text
<1> QED
  BY <1>4, <1>5

\* Kinds and keys have no separators to replace.
LEMMA WordIsClean ==
  ASSUME NEW word, Word(word)
  PROVE  word \in Text /\ word # << >> /\ Clean(word) = word
<1>1. word \in Seq(Characters) /\ \A i \in 1..Len(word) : word[i] \notin {Tab, Newline}
  BY DEF Word, Text
<1>2. word = [i \in 1..Len(word) |-> word[i]] /\ DOMAIN word = 1..Len(word)
  BY <1>1
<1>3. Clean(word) = [i \in 1..Len(word) |-> word[i]]
  BY <1>1, <1>2 DEF Clean
<1> QED
  BY <1>2, <1>3 DEF Word

\* A tab and a text are one more cell of the last row.
OneMore(table, next, text) ==
    LET n == Len(table)
        m == Len(table[n])
    IN  /\ Len(next) = n /\ \A i \in 1..(n - 1) : next[i] = table[i]
        /\ Len(next[n]) = m + 1 /\ next[n][m + 1] = text
        /\ \A j \in 1..m : next[n][j] = table[n][j]

\* A tab and a cleaned text make one more cell of the last row.
LEMMA CellWritten ==
  ASSUME NEW before \in Text, NEW text \in Text,
         \A i \in 1..Len(text) : text[i] \notin {Tab, Newline}
  PROVE  OneMore(Table(before), Table(before \o (<<Tab>> \o text)), text)
<1> DEFINE table == Table(before)
           after == Append(before, Tab)
           middle == Table(after)
           next == Table(before \o (<<Tab>> \o text))
           n == Len(table)
           m == Len(table[n])
<1>1. Tab \in Characters /\ Tab # Newline
  BY RowsAssumption DEF Tab, Newline
<1>2. /\ after \in Text /\ <<Tab>> \in Text
      /\ before \o (<<Tab>> \o text) = after \o text
  BY <1>1, AppendOpens
<1>3. n \in Nat \ {0} /\ table[n] \in Seq(Text) /\ table[n] # << >>
  <2>1. n \in Nat \ {0} /\ \A i \in 1..n : table[i] \in Seq(Text) /\ table[i] # << >>
    BY TableCells
  <2> QED
    BY <2>1
<1>4. /\ Len(middle) = n /\ middle[n] = NextPart(table[n], Tab, Tab)
      /\ \A i \in 1..(n - 1) : middle[i] = table[i]
  BY <1>1, TableAppend
<1>5. Grown(middle, next, text)
  BY <1>2, TextFills
<1> HIDE DEF table, middle, next
<1>6. m \in Nat /\ Len(middle[n]) = m + 1 /\ middle[n][m + 1] = << >>
      /\ \A j \in 1..m : middle[n][j] = table[n][j]
  BY <1>1, <1>3, <1>4, PartAdded
<1> HIDE DEF m
<1>7. /\ Len(next) = n /\ \A i \in 1..(n - 1) : next[i] = middle[i]
      /\ Len(next[n]) = m + 1 /\ next[n][m + 1] = << >> \o text
      /\ \A j \in 1..(m + 1 - 1) : next[n][j] = middle[n][j]
  BY <1>4, <1>5, <1>6 DEF Grown
<1>8. << >> \o text = text /\ m + 1 - 1 = m
  BY <1>6, TextsJoin
<1>9. /\ Len(next) = n /\ \A i \in 1..(n - 1) : next[i] = table[i]
      /\ Len(next[n]) = m + 1 /\ next[n][m + 1] = text
      /\ \A j \in 1..m : next[n][j] = table[n][j]
  BY <1>4, <1>6, <1>7, <1>8
<1> QED
  BY <1>9 DEF OneMore, table, next, m

-------------------------------------------------------------------------------
\* The rows meant and the table that is read.
MeantRows ==
    {w \in [kind : Text, fields : Seq(Text \X Text)] :
       /\ w.kind # << >>
       /\ \A j \in 1..Len(w.fields) : w.fields[j][1] # << >> /\ w.fields[j][2] # << >>}

IsLine(cells, w) ==
    /\ Len(cells) = 2 * Len(w.fields) + 1
    /\ cells[1] = w.kind
    /\ \A j \in 1..Len(w.fields) : /\ cells[2 * j] = w.fields[j][1]
                                  /\ cells[2 * j + 1] = Clean(w.fields[j][2])

Shape(text, meant) ==
    IF meant = << >> THEN text = << >>
    ELSE /\ text # << >> /\ Len(Table(text)) = Len(meant)
         /\ \A i \in 1..Len(meant) : IsLine(Table(text)[i], meant[i])

\* hw_row_start adds a row of one cell.
LEMMA RowWritten ==
  ASSUME NEW text \in Text, NEW meant \in Seq(MeantRows), Shape(text, meant), NEW kind, Word(kind)
  PROVE  LET new  == [kind |-> kind, fields |-> << >>]
             next == text \o ((IF text = << >> THEN << >> ELSE <<Newline>>) \o Clean(kind))
         IN  Shape(next, Append(meant, new)) /\ Append(meant, new) \in Seq(MeantRows)
<1> DEFINE new == [kind |-> kind, fields |-> << >>]
           next == text \o ((IF text = << >> THEN << >> ELSE <<Newline>>) \o Clean(kind))
<1>1. kind \in Text /\ kind # << >> /\ Clean(kind) = kind
  BY WordIsClean
<1>2. \A i \in 1..Len(kind) : kind[i] \notin {Tab, Newline}
  BY DEF Word, Text
<1>3. new \in MeantRows /\ new.kind = kind /\ Len(new.fields) = 0
  <2>1. << >> \in Seq(Text \X Text) /\ Len(<< >>) = 0
    BY EmptySeq
  <2> QED
    BY <1>1, <2>1 DEF MeantRows
<1>4. /\ Append(meant, new) \in Seq(MeantRows) /\ Len(Append(meant, new)) = Len(meant) + 1
      /\ Append(meant, new)[Len(meant) + 1] = new /\ Append(meant, new) # << >>
      /\ \A i \in 1..Len(meant) : Append(meant, new)[i] = meant[i]
      /\ Len(meant) \in Nat
  BY <1>3, AppendProperties, LenProperties
<1> HIDE DEF new
<1>5. CASE meant = << >>
  <2>1. text = << >> /\ Len(meant) = 0
    BY <1>5 DEF Shape
  <2>2. next = kind
    BY <1>1, <2>1, TextsJoin
  <2>3. Grown(Table(<< >>), Table(<< >> \o kind), kind)
    BY <1>1, <1>2, TextsJoin, TextFills
  <2>4. << >> \o kind = kind
    BY <1>1, TextsJoin
  <2>5. Len(Table(kind)) = 1 /\ Len(Table(kind)[1]) = 1 /\ Table(kind)[1][1] = kind
    <3> DEFINE table == Table(<< >>)
    <3>1. Len(table) = 1 /\ Len(table[1]) = 1 /\ table[1][1] = << >>
      <4> DEFINE row == << << >> >>
      <4>1. Len(row) = 1 /\ row[1] = << >>
        OBVIOUS
      <4>2. Len(table) = 1 /\ table[1] = row
        BY TableEmpty
      <4> HIDE DEF row, table
      <4> QED
        BY <4>1, <4>2
    <3>2. Grown(table, Table(kind), kind)
      BY <2>3, <2>4
    <3> HIDE DEF table
    <3> QED
      BY <2>4, <3>1, <3>2 DEF Grown
  <2>6. IsLine(Table(kind)[1], new)
    BY <1>3, <2>5 DEF IsLine
  <2> HIDE DEF next
  <2> QED
    BY <1>1, <1>4, <2>1, <2>2, <2>5, <2>6 DEF Shape, new, next
<1>6. CASE meant # << >>
  <2>1. text # << >> /\ Len(Table(text)) = Len(meant)
        /\ \A i \in 1..Len(meant) : IsLine(Table(text)[i], meant[i])
    BY <1>6 DEF Shape
  <2> DEFINE after == Append(text, Newline)
             n == Len(meant)
  <2>2. Newline \in Characters
    BY RowsAssumption
  <2>3. after \in Text /\ next = after \o kind /\ next # << >>
    <3>1. next = text \o (<<Newline>> \o kind)
      BY <1>1, <2>1
    <3> HIDE DEF next
    <3> QED
      BY <1>1, <2>2, <3>1, AppendOpens
  <2>4. /\ Len(Table(after)) = n + 1 /\ Table(after)[n + 1] = << << >> >>
        /\ \A i \in 1..n : Table(after)[i] = Table(text)[i]
    BY <2>1, <2>2, TableAppend
  <2>5. Grown(Table(after), Table(next), kind)
    BY <1>1, <1>2, <2>3, TextFills
  <2> HIDE DEF after, next
  <2>6. n + 1 - 1 = n /\ << >> \o kind = kind /\ Len(<< << >> >>) = 1 /\ << << >> >>[1] = << >>
    BY <1>1, <1>4, TextsJoin
  <2>7. /\ Len(Table(next)) = n + 1 /\ Len(Table(next)[n + 1]) = 1 /\ Table(next)[n + 1][1] = kind
        /\ \A i \in 1..(n + 1 - 1) : Table(next)[i] = Table(after)[i]
    <3> DEFINE table == Table(after)
               l == n + 1
    <3>1. Len(table) = l /\ Len(table[l]) = 1 /\ table[l][1] = << >>
      <4> DEFINE row == << << >> >>
      <4>1. Len(row) = 1 /\ row[1] = << >>
        OBVIOUS
      <4>2. Len(table) = l /\ table[l] = row
        BY <2>4
      <4> HIDE DEF row, table, l
      <4> QED
        BY <4>1, <4>2
    <3>2. Grown(table, Table(next), kind)
      BY <2>5
    <3> HIDE DEF table, l
    <3>3. /\ Len(Table(next)) = l /\ Len(Table(next)[l]) = 1
          /\ Table(next)[l][1] = << >> \o kind
          /\ \A i \in 1..(l - 1) : Table(next)[i] = table[i]
      BY <3>1, <3>2 DEF Grown
    <3> QED
      BY <2>6, <3>3 DEF table, l
  <2>8. \A i \in 1..n : Table(next)[i] = Table(text)[i]
    BY <2>4, <2>6, <2>7
  <2>9. IsLine(Table(next)[n + 1], new)
    BY <1>3, <2>7 DEF IsLine
  <2>10. \A i \in 1..(n + 1) : IsLine(Table(next)[i], Append(meant, new)[i])
    <3> SUFFICES ASSUME NEW i \in 1..(n + 1)
                 PROVE  IsLine(Table(next)[i], Append(meant, new)[i])
      OBVIOUS
    <3>1. i \in 1..n \/ i = n + 1
      BY <1>4
    <3> QED
      BY <1>4, <2>1, <2>8, <2>9, <3>1
  <2> QED
    BY <1>4, <2>3, <2>7, <2>10 DEF Shape, new, next
<1> QED
  BY <1>5, <1>6

\* A field written makes the last row a longer one.
WithField(w, key, value) == [kind |-> w.kind, fields |-> Append(w.fields, <<key, value>>)]
Extended(meant, key, value) ==
    [meant EXCEPT ![Len(meant)] = WithField(meant[Len(meant)], key, value)]

\* A field belongs to the last row, the others are as before.
LEMMA FieldMeant ==
  ASSUME NEW meant \in Seq(MeantRows), meant # << >>, NEW key, Word(key), NEW value \in Text, value # << >>
  PROVE  LET n    == Len(meant)
             last == meant[n]
             new  == WithField(last, key, value)
             more == Extended(meant, key, value)
             k    == Len(last.fields)
         IN  /\ n \in Nat \ {0} /\ k \in Nat /\ last \in MeantRows
             /\ new.kind = last.kind /\ Len(new.fields) = k + 1
             /\ \A j \in 1..k : new.fields[j] = last.fields[j]
             /\ new.fields[k + 1][1] = key /\ new.fields[k + 1][2] = value
             /\ more \in Seq(MeantRows) /\ Len(more) = n /\ more # << >>
             /\ \A i \in 1..n : more[i] = IF i = n THEN new ELSE meant[i]
<1> DEFINE n == Len(meant)
           last == meant[n]
           new == WithField(last, key, value)
           more == Extended(meant, key, value)
           k == Len(last.fields)
<1>1. key \in Text /\ key # << >>
  BY WordIsClean
<1>2. n \in Nat \ {0} /\ n \in 1..n /\ last \in MeantRows
  <2>1. n \in Nat \ {0}
    BY EmptySeq
  <2> QED
    BY <2>1, ElementOfSeq
<1>3. /\ last.kind \in Text /\ last.kind # << >> /\ last.fields \in Seq(Text \X Text) /\ k \in Nat
      /\ \A j \in 1..k : last.fields[j][1] # << >> /\ last.fields[j][2] # << >>
  BY <1>2 DEF MeantRows
<1> HIDE DEF last
<1>4. /\ new.kind = last.kind /\ Len(new.fields) = k + 1
      /\ \A j \in 1..k : new.fields[j] = last.fields[j]
      /\ new.fields[k + 1][1] = key /\ new.fields[k + 1][2] = value
      /\ new.fields \in Seq(Text \X Text)
  <2>1. <<key, value>> \in Text \X Text
    BY <1>1
  <2> QED
    BY <1>3, <2>1, AppendProperties DEF WithField
<1>5. new \in MeantRows
  <2>1. new \in [kind : Text, fields : Seq(Text \X Text)] /\ new.kind # << >>
    BY <1>3, <1>4 DEF WithField
  <2> HIDE DEF new, k
  <2>2. \A j \in 1..Len(new.fields) : new.fields[j][1] # << >> /\ new.fields[j][2] # << >>
    <3> SUFFICES ASSUME NEW j \in 1..(k + 1)
                 PROVE  new.fields[j][1] # << >> /\ new.fields[j][2] # << >>
      BY <1>4
    <3>1. j \in 1..k \/ j = k + 1
      BY <1>3
    <3>2. CASE j \in 1..k
      BY <1>3, <1>4, <3>2
    <3>3. CASE j = k + 1
      BY <1>1, <1>4, <3>3
    <3> QED
      BY <3>1, <3>2, <3>3
  <2> QED
    BY <2>1, <2>2 DEF MeantRows
<1> HIDE DEF new
<1>6. /\ more \in Seq(MeantRows) /\ Len(more) = n /\ more # << >>
      /\ \A i \in 1..n : more[i] = IF i = n THEN new ELSE meant[i]
  <2>1. more = [meant EXCEPT ![n] = new]
    BY DEF Extended, new, last
  <2> HIDE DEF more, n
  <2>2. n = Len(meant)
    BY DEF n
  <2>3. more \in Seq(MeantRows) /\ Len(more) = n /\ \A i \in 1..n : more[i] = IF i = n THEN new ELSE meant[i]
    BY <1>2, <1>5, <2>1, <2>2, ExceptSeq
  <2> QED
    BY <1>2, <2>3, EmptySeq
<1> HIDE DEF more, k
<1> QED
  BY <1>2, <1>3, <1>4, <1>6 DEF new, last, n, more, k

\* hw_row_field adds a key and a value to the last row.
LEMMA FieldWritten ==
  ASSUME NEW text \in Text, NEW meant \in Seq(MeantRows), meant # << >>, Shape(text, meant),
         NEW key, Word(key), NEW value \in Text, value # << >>
  PROVE  LET more == Extended(meant, key, value)
             next == (text \o (<<Tab>> \o Clean(key))) \o (<<Tab>> \o Clean(value))
         IN  Shape(next, more)
<1> DEFINE n == Len(meant)
           last == meant[n]
           new == WithField(last, key, value)
           more == Extended(meant, key, value)
           k == Len(last.fields)
           middle == text \o (<<Tab>> \o Clean(key))
           next == middle \o (<<Tab>> \o Clean(value))
<1>1. key \in Text /\ key # << >> /\ Clean(key) = key
  BY WordIsClean
<1>2. n \in Nat \ {0} /\ n \in 1..n /\ last \in MeantRows
  BY FieldMeant
<1>3. k \in Nat
  BY FieldMeant
<1>4. /\ new.kind = last.kind /\ Len(new.fields) = k + 1
      /\ \A j \in 1..k : new.fields[j] = last.fields[j]
      /\ new.fields[k + 1][1] = key /\ new.fields[k + 1][2] = value
  BY FieldMeant
<1>6. /\ more \in Seq(MeantRows) /\ Len(more) = n /\ more # << >>
      /\ \A i \in 1..n : more[i] = IF i = n THEN new ELSE meant[i]
  BY FieldMeant
<1> HIDE DEF last, new, more
<1>7. /\ Len(Table(text)) = n /\ \A i \in 1..n : IsLine(Table(text)[i], meant[i])
      /\ text # << >>
  BY DEF Shape
<1> DEFINE m == Len(Table(text)[n])
<1>8. m = 2 * k + 1 /\ m \in Nat /\ IsLine(Table(text)[n], last)
  <2>1. IsLine(Table(text)[n], last)
    BY <1>2, <1>7 DEF last
  <2>2. m = 2 * k + 1
    BY <2>1 DEF IsLine
  <2> HIDE DEF m, k
  <2> QED
    BY <1>3, <2>1, <2>2
<1>9. /\ Clean(value) \in Text /\ Clean(key) \in Text /\ Tab \in Characters
      /\ \A i \in 1..Len(Clean(value)) : Clean(value)[i] \notin {Tab, Newline}
      /\ \A i \in 1..Len(Clean(key)) : Clean(key)[i] \notin {Tab, Newline}
  BY <1>1, CleanIsText, RowsAssumption
<1>10. middle \in Text /\ next \in Text /\ next # << >>
  <2>1. middle \in Text /\ <<Tab>> \o Clean(value) \in Text
    BY <1>9, AppendOpens, TextsJoin
  <2> HIDE DEF middle
  <2> QED
    BY <1>9, <2>1, AppendOpens, TextsJoin
<1>11. /\ Len(Table(middle)) = n /\ \A i \in 1..(n - 1) : Table(middle)[i] = Table(text)[i]
       /\ Len(Table(middle)[n]) = m + 1 /\ Table(middle)[n][m + 1] = key
       /\ \A j \in 1..m : Table(middle)[n][j] = Table(text)[n][j]
  <2>1. OneMore(Table(text), Table(middle), Clean(key))
    BY <1>9, CellWritten
  <2> HIDE DEF middle, n
  <2> QED
    BY <1>1, <1>7, <2>1 DEF OneMore
<1>12. /\ Len(Table(next)) = n /\ \A i \in 1..(n - 1) : Table(next)[i] = Table(middle)[i]
       /\ Len(Table(next)[n]) = (m + 1) + 1 /\ Table(next)[n][(m + 1) + 1] = Clean(value)
       /\ \A j \in 1..(m + 1) : Table(next)[n][j] = Table(middle)[n][j]
  <2> HIDE DEF middle
  <2>1. OneMore(Table(middle), Table(next), Clean(value))
    BY <1>9, <1>10, CellWritten
  <2> HIDE DEF next, n, m
  <2> QED
    BY <1>11, <2>1 DEF OneMore
<1> HIDE DEF middle, next, m
<1>13. IsLine(Table(next)[n], new)
  <2>1. Len(Table(next)[n]) = 2 * (k + 1) + 1
    BY <1>3, <1>8, <1>12
  <2>2. Table(next)[n][1] = last.kind
    <3>1. 1 \in 1..m /\ 1 \in 1..(m + 1)
      BY <1>3, <1>8
    <3>2. Table(text)[n][1] = last.kind
      BY <1>8 DEF IsLine
    <3> QED
      BY <1>11, <1>12, <3>1, <3>2
  <2>3. ASSUME NEW j \in 1..(k + 1)
        PROVE  /\ Table(next)[n][2 * j] = new.fields[j][1]
               /\ Table(next)[n][2 * j + 1] = Clean(new.fields[j][2])
    <3>1. CASE j \in 1..k
      <4>1. 2 * j \in 1..m /\ 2 * j + 1 \in 1..m /\ 2 * j \in 1..(m + 1) /\ 2 * j + 1 \in 1..(m + 1)
        BY <1>3, <1>8, <3>1
      <4>2. /\ Table(text)[n][2 * j] = last.fields[j][1]
            /\ Table(text)[n][2 * j + 1] = Clean(last.fields[j][2])
        BY <1>8, <3>1 DEF IsLine
      <4>3. /\ Table(next)[n][2 * j] = Table(text)[n][2 * j]
            /\ Table(next)[n][2 * j + 1] = Table(text)[n][2 * j + 1]
        BY <1>11, <1>12, <4>1
      <4> QED
        BY <1>4, <3>1, <4>2, <4>3
    <3>2. CASE j = k + 1
      <4>1. 2 * j = m + 1 /\ 2 * j + 1 = (m + 1) + 1 /\ m + 1 \in 1..(m + 1)
        BY <1>3, <1>8, <3>2
      <4>2. Table(next)[n][m + 1] = key
        BY <1>11, <1>12, <4>1
      <4>3. new.fields[j][1] = key /\ new.fields[j][2] = value
        BY <1>4, <3>2
      <4> QED
        BY <1>12, <4>1, <4>2, <4>3
    <3> QED
      BY <1>3, <3>1, <3>2
  <2> QED
    BY <1>4, <2>1, <2>2, <2>3 DEF IsLine
<1>14. \A i \in 1..n : IsLine(Table(next)[i], more[i])
  <2> SUFFICES ASSUME NEW i \in 1..n
               PROVE  IsLine(Table(next)[i], more[i])
    OBVIOUS
  <2>1. CASE i = n
    BY <1>6, <1>13, <2>1
  <2>2. CASE i # n
    <3>1. i \in 1..(n - 1)
      BY <1>2, <2>2
    <3>2. more[i] = meant[i]
      BY <1>6, <2>2
    <3> QED
      BY <1>7, <1>11, <1>12, <3>1, <3>2
  <2> QED
    BY <2>1, <2>2
<1>15. Shape(next, more)
  BY <1>6, <1>10, <1>12, <1>14 DEF Shape
<1> QED
  BY <1>15 DEF next, middle, more, new, last, n

-------------------------------------------------------------------------------
\* What a row means, and that this is what its line is read as.
MeantRecord(w) ==
    [kind |-> w.kind,
     values |-> [key \in {w.fields[j][1] : j \in DOMAIN w.fields} |->
                   Clean(w.fields[Max({j \in DOMAIN w.fields : w.fields[j][1] = key})][2])]]

\* A line that is as a row was meant is read as that row means.
LEMMA LineRead ==
  ASSUME NEW w \in MeantRows, NEW cells, IsLine(cells, w)
  PROVE  Record(cells) = MeantRecord(w)
<1> DEFINE k == Len(w.fields)
           fields == w.fields
<1>1. /\ w.fields \in Seq(Text \X Text) /\ k \in Nat /\ DOMAIN fields = 1..k
      /\ \A j \in 1..k : /\ fields[j][1] # << >> /\ fields[j][2] # << >>
                        /\ fields[j][1] \in Text /\ fields[j][2] \in Text
  <2>1. w.fields \in Seq(Text \X Text) /\ k \in Nat /\ DOMAIN fields = 1..k
    BY DEF MeantRows
  <2>2. \A j \in 1..k : fields[j] \in Text \X Text
    BY <2>1
  <2> QED
    BY <2>1, <2>2 DEF MeantRows
<1>2. /\ Len(cells) = 2 * k + 1 /\ cells[1] = w.kind
      /\ \A j \in 1..k : cells[2 * j] = fields[j][1] /\ cells[2 * j + 1] = Clean(fields[j][2])
  BY DEF IsLine
<1> HIDE DEF k, fields
<1>3. \A j \in 1..k : Clean(fields[j][2]) # << >>
  <2> SUFFICES ASSUME NEW j \in 1..k
               PROVE  Clean(fields[j][2]) # << >>
    OBVIOUS
  <2>1. Len(fields[j][2]) # 0
    BY <1>1, EmptySeq DEF Text
  <2>2. Len(Clean(fields[j][2])) # 0
    BY <1>1, <2>1, CleanIsText
  <2> QED
    BY <2>2
<1>4. Pairs(cells) = 1..k
  <2>1. ASSUME NEW j \in 1..k
        PROVE  j \in Pairs(cells)
    BY <1>1, <1>2, <1>3, <2>1 DEF Pairs
  <2>2. ASSUME NEW j \in Pairs(cells)
        PROVE  j \in 1..k
    BY <1>1, <1>2, <2>2 DEF Pairs
  <2> QED
    BY <2>1, <2>2
<1> DEFINE keys == {fields[j][1] : j \in 1..k}
           LastOf(key) == Max({j \in 1..k : fields[j][1] = key})
<1>5. {cells[2 * j] : j \in Pairs(cells)} = keys
  BY <1>2, <1>4
<1>6. \A key : {j \in Pairs(cells) : cells[2 * j] = key} = {j \in 1..k : fields[j][1] = key}
  BY <1>2, <1>4
<1>7. \A key \in keys : LastOf(key) \in 1..k
  <2> SUFFICES ASSUME NEW i \in 1..k
               PROVE  LastOf(fields[i][1]) \in 1..k
    OBVIOUS
  <2> DEFINE S == {j \in 1..k : fields[j][1] = fields[i][1]}
  <2>1. S \in SUBSET Int /\ S # {} /\ IsFiniteSet(S)
    <3>1. IsFiniteSet(1..k) /\ S \subseteq 1..k /\ 1..k \subseteq Int
      BY <1>1, FS_Interval
    <3>2. i \in S
      OBVIOUS
    <3> HIDE DEF S
    <3> QED
      BY <3>1, <3>2, FS_Subset
  <2> HIDE DEF S
  <2>2. PICK m \in S : \A e \in S : e <= m
    BY <2>1, FiniteGreatest
  <2>3. \A e \in S : m >= e
    BY <2>1, <2>2
  <2>4. Max(S) \in S
    BY <2>3 DEF Max
  <2> QED
    BY <2>4 DEF S
<1>8. Record(cells) = [kind |-> cells[1], values |-> [key \in keys |-> cells[2 * LastOf(key) + 1]]]
  BY <1>5, <1>6 DEF Record
<1>9. MeantRecord(w) = [kind |-> w.kind, values |-> [key \in keys |-> Clean(fields[LastOf(key)][2])]]
  BY <1>1 DEF MeantRecord, fields
<1>10. \A key \in keys : cells[2 * LastOf(key) + 1] = Clean(fields[LastOf(key)][2])
  BY <1>2, <1>7
<1> HIDE DEF keys, LastOf
<1>11. [key \in keys |-> cells[2 * LastOf(key) + 1]] = [key \in keys |-> Clean(fields[LastOf(key)][2])]
  BY <1>10
<1> QED
  BY <1>2, <1>8, <1>9, <1>11

\* What darwinRecordsFromC has found after n lines.
NextRecords(found, line) ==
    IF Split(line, Tab)[1] = << >> THEN found ELSE Append(found, Record(Split(line, Tab)))
AfterLines(lines, n, f) ==
    f = [i \in 0..n |-> IF i = 0 THEN << >> ELSE NextRecords(f[i - 1], lines[i])]

\* The records found after each line.
LEMMA LinesExist ==
  ASSUME NEW lines, NEW n \in Nat
  PROVE  \E f : AfterLines(lines, n, f)
<1> DEFINE Bad == {m \in Nat : ~ \E f : AfterLines(lines, m, f)}
<1>1. ASSUME Bad # {}
      PROVE  FALSE
  <2>1. PICK m \in Bad : \A l \in Bad : m <= l
    <3>1. Bad \in SUBSET Nat
      OBVIOUS
    <3> HIDE DEF Bad
    <3> QED
      BY <1>1, <3>1, NaturalLeast
  <2>2. CASE m = 0
    <3>1. AfterLines(lines, 0, [i \in 0..0 |-> << >>])
      BY DEF AfterLines
    <3> QED
      BY <2>2, <3>1
  <2>3. CASE m # 0
    <3>1. m \in Nat /\ m - 1 \in Nat /\ m - 1 < m
      BY <2>3
    <3>2. PICK g : AfterLines(lines, m - 1, g)
      BY <2>1, <3>1
    <3> DEFINE h == [i \in 0..m |-> IF i = m THEN NextRecords(g[m - 1], lines[m]) ELSE g[i]]
    <3>3. \A i \in 0..m : h[i] = IF i = 0 THEN << >> ELSE NextRecords(h[i - 1], lines[i])
      <4> SUFFICES ASSUME NEW i \in 0..m
                   PROVE  h[i] = IF i = 0 THEN << >> ELSE NextRecords(h[i - 1], lines[i])
        OBVIOUS
      <4>1. i = 0 \/ (i - 1 \in 0..m /\ i - 1 # m)
        BY <3>1
      <4>2. i # m => i \in 0..(m - 1)
        BY <3>1
      <4>3. i # m => g[i] = IF i = 0 THEN << >> ELSE NextRecords(g[i - 1], lines[i])
        BY <3>2, <4>2 DEF AfterLines
      <4> QED
        BY <2>3, <4>1, <4>3
    <3>4. AfterLines(lines, m, h)
      <4>1. h = [i \in 0..m |-> h[i]]
        OBVIOUS
      <4> HIDE DEF h
      <4> QED
        BY <3>3, <4>1 DEF AfterLines
    <3> QED
      BY <3>4
  <2> QED
    BY <2>2, <2>3
<1> QED
  BY <1>1

\* Each line makes a record.
LEMMA LinesRead ==
  ASSUME NEW lines, Len(lines) \in Nat
  PROVE  \E f : /\ RecordsOf(lines) = f[Len(lines)]
                /\ f[0] = << >>
                /\ \A i \in 1..Len(lines) : f[i] = NextRecords(f[i - 1], lines[i])
<1> DEFINE k == Len(lines)
           f == CHOOSE g : AfterLines(lines, k, g)
<1>1. AfterLines(lines, k, f)
  BY LinesExist
<1>2. RecordsOf(lines) = f[k]
  BY DEF RecordsOf, AfterLines, NextRecords
<1> HIDE DEF f, k
<1>3. \A i \in 0..k : f[i] = IF i = 0 THEN << >> ELSE NextRecords(f[i - 1], lines[i])
  BY <1>1 DEF AfterLines
<1>4. k \in Nat
  BY DEF k
<1>5. f[0] = << >> /\ \A i \in 1..k : f[i] = NextRecords(f[i - 1], lines[i])
  BY <1>3, <1>4
<1> QED
  BY <1>2, <1>5 DEF k

\* A text that has the shape of the rows is read as what they mean.
LEMMA ShapeRead ==
  ASSUME NEW text \in Text, NEW meant \in Seq(MeantRows), Shape(text, meant)
  PROVE  RecordsOf(Split(text, Newline)) = [i \in DOMAIN meant |-> MeantRecord(meant[i])]
<1> DEFINE lines == Split(text, Newline)
           k == Len(lines)
           S == {MeantRecord(meant[i]) : i \in 1..Len(meant)}
<1>1. lines \in Seq(Text) /\ k \in Nat
  BY SplitParts, LenProperties
<1>2. PICK f : /\ RecordsOf(lines) = f[k] /\ f[0] = << >>
               /\ \A i \in 1..k : f[i] = NextRecords(f[i - 1], lines[i])
  BY <1>1, LinesRead
<1>3. DOMAIN meant = 1..Len(meant) /\ Len(meant) \in Nat
  BY LenProperties
<1>4. CASE meant = << >>
  <2>1. text = << >> /\ lines = << << >> >> /\ Split(<< >>, Tab) = << << >> >>
    BY <1>4, SplitEmpty DEF Shape
  <2>2. k = 1 /\ lines[1] = << >> /\ Split(<< >>, Tab)[1] = << >>
    BY <2>1
  <2> HIDE DEF lines, k
  <2>3. f[1] = NextRecords(f[1 - 1], lines[1]) /\ 1 - 1 = 0
    BY <1>2, <2>2
  <2>4. f[1] = << >>
    BY <1>2, <2>2, <2>3 DEF NextRecords
  <2>5. [i \in DOMAIN meant |-> MeantRecord(meant[i])] = << >>
    BY <1>4
  <2> QED
    BY <1>2, <2>2, <2>4, <2>5 DEF lines
<1>5. CASE meant # << >>
  <2>1. /\ Len(meant) = k
        /\ \A i \in 1..k : IsLine(Split(lines[i], Tab), meant[i])
    <3>1. Len(Table(text)) = Len(meant) /\ \A i \in 1..Len(meant) : IsLine(Table(text)[i], meant[i])
      BY <1>5 DEF Shape
    <3> QED
      BY <3>1, TableCells
  <2>2. \A i \in 1..k : meant[i] \in MeantRows /\ MeantRecord(meant[i]) \in S
    BY <2>1
  <2> HIDE DEF lines, k, S
  <2>3. ASSUME NEW i \in 1..k
        PROVE  f[i] = Append(f[i - 1], MeantRecord(meant[i]))
    <3>1. IsLine(Split(lines[i], Tab), meant[i]) /\ meant[i] \in MeantRows
      BY <2>1, <2>2
    <3>2. Split(lines[i], Tab)[1] # << >>
      BY <3>1 DEF IsLine, MeantRows
    <3>3. Record(Split(lines[i], Tab)) = MeantRecord(meant[i])
      BY <3>1, LineRead
    <3> QED
      BY <1>2, <3>2, <3>3 DEF NextRecords
  <2> DEFINE Holds(n) == /\ f[n] \in Seq(S) /\ Len(f[n]) = n
                         /\ \A i \in 1..n : f[n][i] = MeantRecord(meant[i])
             Bad == {n \in Nat : n <= k /\ ~Holds(n)}
  <2>4. ASSUME Bad # {}
        PROVE  FALSE
    <3>1. PICK n \in Bad : \A m \in Bad : n <= m
      <4>1. Bad \in SUBSET Nat
        OBVIOUS
      <4> HIDE DEF Bad
      <4> QED
        BY <2>4, <4>1, NaturalLeast
    <3>2. CASE n = 0
      <4>1. Holds(0)
        BY <1>2, EmptySeq
      <4> QED
        BY <3>2, <4>1
    <3>3. CASE n # 0
      <4>1. n \in 1..k /\ n - 1 \in Nat /\ n - 1 < n /\ n - 1 <= k /\ (n - 1) + 1 = n
        BY <1>1, <3>3 DEF k
      <4>2. Holds(n - 1)
        BY <3>1, <4>1
      <4>3. f[n] = Append(f[n - 1], MeantRecord(meant[n])) /\ MeantRecord(meant[n]) \in S
        BY <2>2, <2>3, <4>1
      <4> DEFINE before == f[n - 1]
      <4>4. before \in Seq(S) /\ Len(before) = n - 1
        BY <4>2
      <4>5. /\ f[n] \in Seq(S) /\ Len(f[n]) = n /\ f[n][n] = MeantRecord(meant[n])
            /\ \A i \in 1..(n - 1) : f[n][i] = before[i]
        <5> HIDE DEF before
        <5>1. f[n] = Append(before, MeantRecord(meant[n]))
          BY <4>3 DEF before
        <5>2. /\ f[n] \in Seq(S) /\ Len(f[n]) = (n - 1) + 1 /\ f[n][(n - 1) + 1] = MeantRecord(meant[n])
              /\ \A i \in 1..(n - 1) : f[n][i] = before[i]
          BY <4>3, <4>4, <5>1, AppendProperties
        <5> QED
          BY <4>1, <5>2
      <4>6. Holds(n)
        <5> SUFFICES ASSUME NEW i \in 1..n
                     PROVE  f[n][i] = MeantRecord(meant[i])
          BY <4>5
        <5>1. i \in 1..(n - 1) \/ i = n
          BY <4>1
        <5> QED
          BY <4>2, <4>5, <5>1
      <4> QED
        BY <4>6
    <3> QED
      BY <3>2, <3>3
  <2>5. Holds(k)
    BY <1>1, <2>4 DEF k
  <2>6. f[k] = [i \in 1..k |-> f[k][i]]
    BY <2>5
  <2>7. [i \in 1..k |-> f[k][i]] = [i \in 1..k |-> MeantRecord(meant[i])]
    BY <2>5
  <2> QED
    BY <1>2, <1>3, <2>1, <2>6, <2>7 DEF lines
<1> QED
  BY <1>4, <1>5

-------------------------------------------------------------------------------
\* The inductive invariant.
RowsInv ==
    /\ heap \in Heap
    /\ Good(Buffer)
    /\ pending \in Seq(Writes)
    /\ \A i \in 1..Len(pending) :
         IF IsRow(pending[i]) THEN Word(pending[i].kind) ELSE Word(pending[i].key)
    /\ written = << >> /\ pending # << >> => IsRow(pending[1])
    /\ written \in Seq(MeantRows)
    /\ ~lost => Shape(data, written)
    /\ records = << >> \/ pending = << >>
    /\ records # << >> /\ ~lost => records[1] = Meant

\* Nothing is written at first.
LEMMA InitRows ==
  ASSUME heap \in Heap, Script(pending), RowsInit(heap, pending)
  PROVE  RowsInv
<1>1. /\ data = << >> /\ capacity = 0 /\ lost = FALSE /\ written = << >> /\ records = << >>
  BY DEF RowsInit
<1>2. heap.sizeMax \in Nat
  BY DEF Heap
<1>3. Good(Buffer)
  <2>1. data \in Text /\ capacity \in Nat /\ lost \in BOOLEAN /\ capacity <= heap.sizeMax
    <3>1. data \in Text
      BY <1>1, TextsJoin
    <3>2. capacity \in Nat /\ lost \in BOOLEAN
      BY <1>1
    <3>3. \A n \in Nat : 0 <= n
      OBVIOUS
    <3>4. 0 <= heap.sizeMax
      BY <1>2, <3>3, Zenon
    <3>5. capacity <= heap.sizeMax
      BY <1>1, <3>4, Zenon
    <3> QED
      BY <3>1, <3>2, <3>5
  <2> QED
    BY <1>1, <2>1 DEF Good, Buffer
<1>4. pending \in Seq(Writes) /\ (pending # << >> => IsRow(pending[1]))
      /\ \A i \in 1..Len(pending) :
           IF IsRow(pending[i]) THEN Word(pending[i].kind) ELSE Word(pending[i].key)
  BY DEF Script
<1>5. written \in Seq(MeantRows) /\ Shape(data, written)
  BY <1>1, EmptySeq DEF Shape
<1> QED
  BY <1>1, <1>3, <1>4, <1>5 DEF RowsInv

\* What is left of a script after its head.
LEMMA ScriptGoesOn ==
  ASSUME RowsInv, Write
  PROVE  /\ Head(pending) \in Writes
         /\ IF IsRow(Head(pending)) THEN Word(Head(pending).kind) ELSE Word(Head(pending).key)
         /\ written = << >> => IsRow(Head(pending))
         /\ pending' \in Seq(Writes)
         /\ \A i \in 1..Len(pending') :
              IF IsRow(pending'[i]) THEN Word(pending'[i].kind) ELSE Word(pending'[i].key)
         /\ records = << >> /\ records' = records /\ heap' = heap
<1>1. /\ pending # << >> /\ pending' = Tail(pending) /\ pending \in Seq(Writes)
      /\ records' = records /\ heap' = heap /\ records = << >>
  BY DEF RowsInv, Write
<1>2. Len(pending) \in Nat \ {0} /\ Head(pending) = pending[1]
  BY <1>1, EmptySeq
<1>3. /\ Head(pending) \in Writes /\ pending' \in Seq(Writes) /\ Len(pending') = Len(pending) - 1
      /\ \A i \in 1..Len(pending') : pending'[i] = pending[i + 1] /\ i + 1 \in 1..Len(pending)
  BY <1>1, <1>2, HeadTailProperties
<1>4. /\ \A i \in 1..Len(pending) :
           IF IsRow(pending[i]) THEN Word(pending[i].kind) ELSE Word(pending[i].key)
      /\ written = << >> => IsRow(pending[1])
  BY <1>1 DEF RowsInv
<1> QED
  BY <1>1, <1>2, <1>3, <1>4

\* Writing the start of a row keeps the invariant.
LEMMA RowStep ==
  ASSUME RowsInv, Write, IsRow(Head(pending))
  PROVE  RowsInv'
<1> DEFINE kind == Head(pending).kind
           new == [kind |-> kind, fields |-> << >>]
           opening == IF data = << >> THEN << >> ELSE <<Newline>>
<1>1. RowStart(kind) /\ Word(kind) /\ kind \in Text
  BY ScriptGoesOn, WordIsClean DEF Write
<1>2. PICK b \in AppendAll(Buffer, opening, kind) : Leave(b)
  BY <1>1 DEF RowStart
<1>3. written' = Append(written, new)
  BY <1>1 DEF RowStart
<1>4. heap \in Heap /\ Good(Buffer) /\ data \in Text /\ opening \in Text /\ written \in Seq(MeantRows)
  <2>1. opening \in Text
    BY RowsAssumption DEF Text
  <2> QED
    BY <2>1 DEF RowsInv, Good, Buffer
<1>5. Longer(Buffer, b, opening \o Clean(kind))
  BY <1>1, <1>2, <1>4, AllAppended
<1>6. data' = b.data /\ capacity' = b.capacity /\ lost' = b.lost /\ heap' = heap
  BY <1>2, ScriptGoesOn DEF Leave
<1>7. Good(Buffer)'
  <2>1. b \in [data : Text, capacity : Nat, lost : BOOLEAN]
    BY <1>5 DEF Longer, Good
  <2>2. Buffer' = b
    BY <1>6, <2>1 DEF Buffer
  <2> QED
    BY <1>5, <1>6, <2>2 DEF Longer, Good
<1>8. ASSUME ~lost'
      PROVE  Shape(data', written')
  <2>1. ~lost /\ data' = data \o (opening \o Clean(kind))
    BY <1>5, <1>6, <1>8 DEF Longer, Buffer
  <2>2. Shape(data, written)
    BY <2>1 DEF RowsInv
  <2> QED
    BY <1>1, <1>3, <1>4, <2>1, <2>2, RowWritten
<1>9. written' \in Seq(MeantRows) /\ written' # << >>
  <2>1. new \in MeantRows
    <3>1. << >> \in Seq(Text \X Text) /\ Len(<< >>) = 0
      BY EmptySeq
    <3> QED
      BY <1>1, <3>1, WordIsClean DEF MeantRows
  <2> HIDE DEF new
  <2> QED
    BY <1>3, <1>4, <2>1, AppendProperties
<1> QED
  BY <1>4, <1>6, <1>7, <1>8, <1>9, ScriptGoesOn DEF RowsInv

\* Writing a field keeps the invariant.
LEMMA FieldStep ==
  ASSUME RowsInv, Write, ~IsRow(Head(pending))
  PROVE  RowsInv'
<1> DEFINE key == Head(pending).key
           value == Head(pending).value
           n == Len(written)
<1>1. RowField(key, value) /\ Word(key) /\ key \in Text /\ written # << >>
  BY ScriptGoesOn, WordIsClean DEF Write
<1>2. value \in Text
  BY ScriptGoesOn DEF Writes, IsRow
<1>3. heap \in Heap /\ Good(Buffer) /\ data \in Text /\ <<Tab>> \in Text /\ written \in Seq(MeantRows)
  <2>1. <<Tab>> \in Text
    BY RowsAssumption DEF Text
  <2> QED
    BY <2>1 DEF RowsInv, Good, Buffer
<1>4. CASE value = << >>
  <2>1. UNCHANGED <<data, capacity, lost, written>>
    BY <1>1, <1>4 DEF RowField
  <2>2. Good(Buffer)' /\ heap' = heap
    BY <1>3, <2>1, ScriptGoesOn DEF Good, Buffer
  <2> QED
    BY <1>1, <2>1, <2>2, ScriptGoesOn DEF RowsInv
<1>5. CASE value # << >>
  <2>1. PICK x \in AppendAll(Buffer, <<Tab>>, key) : \E b \in AppendAll(x, <<Tab>>, value) : Leave(b)
    BY <1>1, <1>5 DEF RowField
  <2>2. PICK b \in AppendAll(x, <<Tab>>, value) : Leave(b)
    BY <2>1
  <2>3. written' = [written EXCEPT ![n].fields = Append(written[n].fields, <<key, value>>)]
    BY <1>1, <1>5 DEF RowField
  <2>4. Longer(Buffer, x, <<Tab>> \o Clean(key))
    BY <1>1, <1>3, <2>1, AllAppended
  <2>5. Longer(x, b, <<Tab>> \o Clean(value))
    BY <1>2, <1>3, <2>2, <2>4, AllAppended DEF Longer
  <2>6. data' = b.data /\ capacity' = b.capacity /\ lost' = b.lost /\ heap' = heap
    BY <2>2, ScriptGoesOn DEF Leave
  <2>7. Good(Buffer)'
    <3>1. b \in [data : Text, capacity : Nat, lost : BOOLEAN]
      BY <2>5 DEF Longer, Good
    <3>2. Buffer' = b
      BY <2>6, <3>1 DEF Buffer
    <3> QED
      BY <2>5, <2>6, <3>2 DEF Longer, Good
  <2>8. written' = Extended(written, key, value)
    <3>1. n \in 1..n /\ DOMAIN written = 1..n /\ written[n] \in MeantRows
      BY <1>1, <1>3, EmptySeq, LenProperties
    <3>2. \A w \in MeantRows : \A f : [w EXCEPT !.fields = f] = [kind |-> w.kind, fields |-> f]
      BY DEF MeantRows
    <3> QED
      BY <2>3, <3>1, <3>2 DEF Extended, WithField
  <2>9. ASSUME Shape(data, written)
        PROVE  Shape((data \o (<<Tab>> \o Clean(key))) \o (<<Tab>> \o Clean(value)), written')
    BY <1>1, <1>2, <1>3, <1>5, <2>8, <2>9, FieldWritten
  <2>10. ASSUME ~lost'
         PROVE  Shape(data', written')
    <3>1. ~lost /\ data' = (data \o (<<Tab>> \o Clean(key))) \o (<<Tab>> \o Clean(value))
      BY <2>4, <2>5, <2>6, <2>10 DEF Longer, Buffer
    <3>2. Shape(data, written)
      BY <3>1 DEF RowsInv
    <3> QED
      BY <2>9, <3>1, <3>2
  <2>11. written' \in Seq(MeantRows) /\ written' # << >>
    BY <1>1, <1>2, <1>3, <1>5, <2>8, FieldMeant
  <2> QED
    BY <1>3, <2>6, <2>7, <2>10, <2>11, ScriptGoesOn DEF RowsInv
<1> QED
  BY <1>4, <1>5

\* Reading gives what the rows mean, if nothing was dropped.
LEMMA ReadStep ==
  ASSUME RowsInv, Read
  PROVE  RowsInv'
<1>1. /\ UNCHANGED <<heap, data, capacity, lost, pending, written>>
      /\ records' = <<RecordsOf(Split(data, Newline))>> /\ pending = << >>
  BY DEF Read
<1>2. Good(Buffer)' /\ Meant' = Meant
  BY <1>1 DEF RowsInv, Good, Buffer, Meant
<1>3. ASSUME ~lost
      PROVE  records'[1] = Meant
  <2>1. data \in Text /\ written \in Seq(MeantRows) /\ Shape(data, written)
    BY <1>3 DEF RowsInv, Good, Buffer
  <2>2. RecordsOf(Split(data, Newline)) = [i \in DOMAIN written |-> MeantRecord(written[i])]
    BY <2>1, ShapeRead
  <2>3. Meant = [i \in DOMAIN written |-> MeantRecord(written[i])]
    BY DEF Meant, MeantRecord
  <2> QED
    BY <1>1, <2>2, <2>3
<1> QED
  BY <1>1, <1>2, <1>3 DEF RowsInv

\* Other steps do not matter.
LEMMA RowsStutter ==
  ASSUME RowsInv, UNCHANGED rowVars
  PROVE  RowsInv'
<1>1. UNCHANGED <<heap, data, capacity, lost, pending, written, records>>
  BY DEF rowVars
<1>2. Good(Buffer)' /\ Meant' = Meant
  BY <1>1 DEF RowsInv, Good, Buffer, Meant
<1> QED
  BY <1>1, <1>2 DEF RowsInv

\* The buffer always holds what it allocated for, and unless an append was
\* dropped its text has the shape of the rows written, whatever a collector
\* writes and whichever allocations fail (hw_buffer_append, hw_row_field).
THEOREM RowsInvariance == RowsSpec => []RowsInv
<1>1. heap \in Heap /\ Script(pending) /\ RowsInit(heap, pending) => RowsInv
  BY InitRows
<1>2. RowsInv /\ [Write \/ Read]_rowVars => RowsInv'
  BY RowStep, FieldStep, ReadStep, RowsStutter
<1> QED
  BY <1>1, <1>2, PTL DEF RowsSpec

\* The text and its terminator are always inside the allocation, however often
\* hw_buffer_reserve doubles it or fails to (hw_buffer_reserve).
THEOREM TextFits == RowsSpec => []InsideAllocation
<1>1. RowsInv => InsideAllocation
  BY DEF RowsInv, Good, Buffer, InsideAllocation
<1> QED
  BY <1>1, RowsInvariance, PTL

\* If no append was dropped, darwinRecordsFromC reads exactly the rows that the
\* collector wrote, whatever separators their values contain.
THEOREM RowsComeBack == RowsSpec => []RoundTrip
<1>1. RowsInv => RoundTrip
  BY DEF RowsInv, RoundTrip
<1> QED
  BY <1>1, RowsInvariance, PTL

-------------------------------------------------------------------------------
\* Whatever the text is, no key or value that is read from it is empty.
LEMMA NothingEmptyRead ==
  ASSUME NEW fields \in Seq(Text), NEW key \in DOMAIN Record(fields).values
  PROVE  key # << >> /\ Record(fields).values[key] # << >>
<1> DEFINE same == {k \in Pairs(fields) : fields[2 * k] = key}
           keys == {fields[2 * k] : k \in Pairs(fields)}
<1>1. DOMAIN Record(fields).values = keys
  BY DEF Record
<1>2. Record(fields).values[key] = fields[2 * Max(same) + 1]
  BY <1>1 DEF Record
<1>3. PICK k \in Pairs(fields) : fields[2 * k] = key
  BY <1>1
<1>4. \A j \in Pairs(fields) : fields[2 * j] # << >> /\ fields[2 * j + 1] # << >>
  BY DEF Pairs
<1>5. same # {} /\ same \in SUBSET Int /\ IsFiniteSet(same)
  <2>1. Len(fields) \in Nat /\ same \subseteq 1..Len(fields)
    BY DEF Pairs
  <2>2. IsFiniteSet(1..Len(fields)) /\ 1..Len(fields) \subseteq Int
    BY <2>1, FS_Interval
  <2>3. k \in same
    BY <1>3
  <2> HIDE DEF same
  <2> QED
    BY <2>1, <2>2, <2>3, FS_Subset
<1>6. Max(same) \in same
  <2> HIDE DEF same
  <2>1. PICK m \in same : \A e \in same : e <= m
    BY <1>5, FiniteGreatest
  <2>2. \A e \in same : m >= e
    BY <1>5, <2>1
  <2> QED
    BY <2>2 DEF Max
<1> QED
  BY <1>2, <1>3, <1>4, <1>6

Readable == {Record(fields) : fields \in Seq(Text)}

\* Every record comes from the cells of a line.
LEMMA ReadableFound ==
  ASSUME NEW text \in Text
  PROVE  RecordsOf(Split(text, Newline)) \in Seq(Readable)
<1> DEFINE lines == Split(text, Newline)
           k == Len(lines)
<1>1. lines \in Seq(Text) /\ k \in Nat /\ \A i \in 1..k : lines[i] \in Text
  BY SplitParts, LenProperties
<1>2. PICK f : /\ RecordsOf(lines) = f[k] /\ f[0] = << >>
               /\ \A i \in 1..k : f[i] = NextRecords(f[i - 1], lines[i])
  BY <1>1, LinesRead
<1>3. \A i \in 1..k : Record(Split(lines[i], Tab)) \in Readable
  BY <1>1, SplitParts DEF Readable
<1> HIDE DEF lines, k
<1> DEFINE Bad == {n \in Nat : n <= k /\ f[n] \notin Seq(Readable)}
<1>4. ASSUME Bad # {}
      PROVE  FALSE
  <2>1. PICK n \in Bad : \A m \in Bad : n <= m
    <3>1. Bad \in SUBSET Nat
      OBVIOUS
    <3> HIDE DEF Bad
    <3> QED
      BY <1>4, <3>1, NaturalLeast
  <2>2. n # 0
    BY <1>2, EmptySeq
  <2>3. n \in 1..k /\ n - 1 \in Nat /\ n - 1 < n /\ n - 1 <= k
    BY <1>1, <2>2
  <2>4. f[n - 1] \in Seq(Readable)
    BY <2>1, <2>3
  <2>5. f[n] = NextRecords(f[n - 1], lines[n])
    BY <1>2, <2>3
  <2>6. f[n] \in Seq(Readable)
    BY <1>3, <2>3, <2>4, <2>5, AppendProperties DEF NextRecords
  <2> QED
    BY <2>6
<1> QED
  BY <1>1, <1>2, <1>4 DEF lines

\* A step reads nothing empty.
LEMMA TypesOfRows ==
  ASSUME RowsInv, RowsTypeOK, [Write \/ Read]_rowVars
  PROVE  RowsTypeOK'
<1>1. lost' \in BOOLEAN
  <2>1. RowsInv'
    BY RowStep, FieldStep, ReadStep, RowsStutter
  <2>2. Buffer' = [data |-> data', capacity |-> capacity', lost |-> lost']
    BY DEF Buffer
  <2> QED
    BY <2>1, <2>2 DEF RowsInv, Good
<1>2. CASE records' = records
  BY <1>1, <1>2 DEF RowsTypeOK
<1>3. CASE Read
  <2> DEFINE found == RecordsOf(Split(data, Newline))
  <2>1. records' = <<found>>
    BY <1>3 DEF Read
  <2>2. found \in Seq(Readable)
    BY ReadableFound DEF RowsInv, Good, Buffer
  <2> HIDE DEF found
  <2>3. Len(records') <= 1 /\ records'[1] = found
    BY <2>1
  <2>4. ASSUME NEW i \in DOMAIN found, NEW key \in DOMAIN found[i].values
        PROVE  key # << >> /\ found[i].values[key] # << >>
    <3>1. PICK fields \in Seq(Text) : found[i] = Record(fields)
      BY <2>2 DEF Readable
    <3> QED
      BY <3>1, NothingEmptyRead
  <2> QED
    BY <1>1, <2>3, <2>4 DEF RowsTypeOK
<1>4. CASE Write \/ UNCHANGED rowVars
  BY <1>2, <1>4 DEF Write, rowVars
<1> QED
  BY <1>3, <1>4

\* No key or value that Go reads is empty, not even from a text torn by a failed
\* allocation (darwinRecordsFromC).
THEOREM NothingEmpty == RowsSpec => []RowsTypeOK
<1>1. heap \in Heap /\ Script(pending) /\ RowsInit(heap, pending) => RowsTypeOK
  <2> SUFFICES ASSUME RowsInit(heap, pending) PROVE RowsTypeOK
    OBVIOUS
  <2>1. lost = FALSE /\ records = << >>
    BY DEF RowsInit
  <2>2. lost \in BOOLEAN
    BY <2>1
  <2>3. Len(<< >>) <= 1
    OBVIOUS
  <2>4. Len(records) <= 1
    BY <2>1, <2>3
  <2> QED
    BY <2>1, <2>2, <2>4 DEF RowsTypeOK
<1>2. RowsInv /\ RowsTypeOK /\ [Write \/ Read]_rowVars => RowsTypeOK'
  BY TypesOfRows
<1> QED
  BY <1>1, <1>2, RowsInvariance, PTL DEF RowsSpec

===============================================================================
