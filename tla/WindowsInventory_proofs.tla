------------------------ MODULE WindowsInventory_proofs ------------------------
(****************************************************************************)
(* Whatever queries fail and whatever disks come and go, what a Windows     *)
(* inventory has found of a disk remains; it says of a disk that stays all  *)
(* that the queries that succeeded tell; and it says of a disk only what is *)
(* true of the devices that had its number and the volumes that had their   *)
(* letters.                                                                 *)
(****************************************************************************)
EXTENDS WindowsInventory, OrderLemmas, SequenceTheorems

PartitionType ==
    [device : Devices, index : Numbers, id : Slots \X Numbers,
     volumes : SUBSET [id : Letters, of : Volumes \cup {0}]]

Source == [of : Devices, by : Classes]

DiskType ==
    [device : Devices, index : Slots \cup {Unset}, id : Int, serial : Devices \cup {0},
     bus : Source, media : Source, partitions : Seq(PartitionType)]

Types ==
    /\ StorageTypeOK
    /\ slot \in [Slots -> Devices \cup {0}]
    /\ \A s, t \in Slots : slot[s] = slot[t] => s = t \/ slot[s] = 0
    /\ numbered \in [Slots -> SUBSET (Devices \cup {0})]
    /\ letter \in [Letters -> Volumes \cup {0}]
    /\ disks \in Seq(DiskType)
    /\ associations \subseteq [partition : Slots \X Numbers, volume : Letters]

\* What the queries still to come have not added yet.
Control ==
    /\ phase = "Win32_DiskDrive" => disks = << >>
    /\ phase = "Win32_DiskPartition" => \A k \in DOMAIN disks : disks[k].partitions = << >>
    /\ phase \in {"Win32_DiskDrive", "Win32_DiskPartition", "Win32_LogicalDiskToPartition"} =>
         associations = {}
    /\ phase \in {"Win32_LogicalDiskToPartition", "Win32_LogicalDisk"} =>
         \A k \in DOMAIN disks : \A i \in DOMAIN disks[k].partitions :
           disks[k].partitions[i].volumes = {}

\* A volume the letter stood for lies on partition n of a device that had the
\* number of the disk.
Lies(e, n, l) == \E d \in Had(e), w \in named[l] : w \in machine.volumes[d][n]

\* A disk says what devices that had its number say.
Own(e) ==
    /\ e.device \in Had(e)
    /\ e.serial \in Had(e) \cup {0}
    /\ e.bus.of \in Had(e) /\ e.media.of \in Had(e)
    /\ \A i \in DOMAIN e.partitions :
         LET p == e.partitions[i]
         IN  /\ p.device \in Had(e) /\ p.id = <<e.index, p.index>>
             /\ \A v \in p.volumes : v.of \in named[v.id] /\ Lies(e, p.index, v.id)

\* An association is true of a device that had the number.
Associated(e) ==
    \A i \in DOMAIN e.partitions : \A a \in associations :
      a.partition = e.partitions[i].id => Lies(e, e.partitions[i].index, a.volume)

Joined == \A k \in DOMAIN disks : Own(disks[k]) /\ Associated(disks[k])

StorageInv == Types /\ Control /\ Joined

\* The order of the sections.
Place ==
    [Win32_ComputerSystem |-> 1, Win32_ComputerSystemProduct |-> 2, Win32_SystemEnclosure |-> 3,
     Win32_BaseBoard |-> 4, Win32_BIOS |-> 5, Win32_PhysicalMemory |-> 6, Win32_Processor |-> 7,
     disks |-> 8, Win32_NetworkAdapter |-> 9, Win32_VideoController |-> 10, done |-> 11]

Asked(class) == Place[class] < Place[section]

\* Only classes that were asked have not answered.
Sections ==
    /\ TypeOK
    /\ rows \in [OtherClasses -> Seq(SUBSET STRING)]
    /\ DOMAIN entities = EntityClasses
    /\ \A c \in unanswered : Asked(c)

\* What the classes asked so far tell of the system.
Keys == (UNION {UNION ToSet(rows[c]) : c \in ToSet(SystemClasses)}) \ {"total"}

Told(k) == {i \in Telling(k) : Asked(SystemClasses[i])}

SystemShown ==
    /\ DOMAIN system = {k \in Keys : Told(k) # {}}
    /\ \A k \in DOMAIN system : \E i \in Told(k) :
         system[k] = SystemClasses[i] /\ \A j \in Told(k) : i <= j
    /\ installed <=> Told("total") # {}

MemoryShown ==
    LET known   == Available("Win32_PhysicalMemory")
        modules == {i \in DOMAIN known : known[i] # {}}
        sized   == \E i \in modules : "capacity" \in known[i]
    IN  Asked("Win32_PhysicalMemory") =>
          /\ (memory = << >>) <=> (Telling("total") = {} /\ modules = {})
          /\ memory # << >> =>
               /\ memory[1].modules = modules
               /\ memory[1].total =
                    IF Telling("total") # {} THEN "stated" ELSE IF sized THEN "sum" ELSE "none"

EntitiesShown ==
    \A c \in EntityClasses : Asked(c) =>
      {e.row : e \in entities[c]} =
        {i \in DOMAIN Available(c) :
           /\ Available(c)[i] \cap ToSet(IdProperties[c]) # {}
           /\ "PhysicalAdapter" \in Available(c)[i] \/ c # "Win32_NetworkAdapter"}

Shown == Sections /\ SystemShown /\ MemoryShown /\ EntitiesShown

IInv == StorageInv /\ Shown

-------------------------------------------------------------------------------
\* A device that is plugged in has a number, and no other device has that one.
LEMMA SlotFacts ==
  ASSUME Types, NEW d \in Plugged
  PROVE  /\ d \in Devices /\ d # 0
         /\ SlotOf(d) \in Slots /\ slot[SlotOf(d)] = d
<1>1. PICK s \in Slots : slot[s] = d /\ d # 0
  BY DEF Plugged
<1>2. d \in Devices
  BY <1>1 DEF Types
<1>3. SlotOf(d) \in Slots /\ slot[SlotOf(d)] = d
  BY <1>1 DEF SlotOf
<1> QED
  BY <1>1, <1>2, <1>3

\* disksByIndex finds disks with the number asked for only.
LEMMA ByIndexFacts ==
  ASSUME NEW ds \in Seq(DiskType), NEW s, ByIndex(ds, s) # 0
  PROVE  ByIndex(ds, s) \in DOMAIN ds /\ ds[ByIndex(ds, s)].index = s
<1> DEFINE S == WithIndex(ds, s)
<1>1. S \subseteq DOMAIN ds /\ S # {} /\ ByIndex(ds, s) = Max(S)
  BY DEF ByIndex, WithIndex
<1>2. DOMAIN ds = 1..Len(ds) /\ Len(ds) \in Nat
  OBVIOUS
<1>3. IsFiniteSet(S) /\ S \in SUBSET Int
  <2>1. IsFiniteSet(1..Len(ds)) /\ 1..Len(ds) \subseteq Int
    BY <1>2, FS_Interval
  <2> QED
    BY <1>1, <1>2, <2>1, FS_Subset
<1> HIDE DEF S
<1>4. PICK m \in S : \A e \in S : e <= m
  BY <1>1, <1>3, FiniteGreatest
<1>5. Max(S) \in S
  <2>1. \A e \in S : m >= e
    BY <1>3, <1>4
  <2> QED
    BY <2>1 DEF Max
<1> QED
  BY <1>1, <1>5 DEF S, WithIndex

\* diskForPhysicalRow: a disk with the number or with the serial number.
LEMMA DiskForPhysicalRowFacts ==
  ASSUME Types, NEW d \in Plugged, NEW ds \in Seq(DiskType), DiskForPhysicalRow(ds, d) # 0
  PROVE  LET k == DiskForPhysicalRow(ds, d)
         IN  k \in DOMAIN ds /\ (ds[k].index = SlotOf(d) \/ ds[k].serial = d)
<1> DEFINE byNumber == IF Has(d, "deviceID") THEN ByIndex(ds, SlotOf(d)) ELSE 0
           S == {k \in DOMAIN ds : Has(d, "physicalSerial") /\ ds[k].serial = d}
<1>1. DiskForPhysicalRow(ds, d) = IF byNumber # 0 \/ S = {} THEN byNumber ELSE Min(S)
  BY DEF DiskForPhysicalRow
<1>2. CASE byNumber # 0
  BY <1>1, <1>2, ByIndexFacts
<1>3. CASE byNumber = 0
  <2>1. S # {} /\ DiskForPhysicalRow(ds, d) = Min(S)
    BY <1>1, <1>3
  <2>2. S \in SUBSET Nat
    OBVIOUS
  <2>3. Min(S) \in S
    <3> HIDE DEF S
    <3> QED
      BY <2>1, <2>2, NaturalLeast DEF Min
  <2> QED
    BY <2>1, <2>3
<1> QED
  BY <1>2, <1>3

-------------------------------------------------------------------------------
\* What enriching a disk may do to it.
Completes(e, f) ==
    /\ f.device = e.device /\ f.index = e.index /\ f.partitions = e.partitions
    /\ f.id = e.id \/ e.id = Unset
    /\ f.id # Unset \/ f.id = e.id
    /\ f.serial = e.serial \/ e.serial = 0
    /\ Own(e) => Own(f)

AllComplete(ds, es) ==
    /\ es \in Seq(DiskType) /\ DOMAIN es = DOMAIN ds
    /\ \A k \in DOMAIN ds : Completes(ds[k], es[k])

\* A device has had the number it has now.
LEMMA HadNow ==
  ASSUME Types, NEW d \in Plugged, NEW e, e.index = SlotOf(d)
  PROVE  d \in Had(e)
<1>1. d # 0 /\ SlotOf(d) \in Slots /\ slot[SlotOf(d)] = d
  BY SlotFacts
<1>2. d \in numbered[SlotOf(d)] /\ SlotOf(d) # Unset
  BY <1>1, WindowsAssumption DEF Types, StorageTypeOK, Unset
<1> QED
  BY <1>1, <1>2 DEF Had

\* What a device that had the number adds is as good as what is there.
LEMMA OwnCompleted ==
  ASSUME NEW e, NEW f, NEW d \in Had(e), Own(e),
         f.device = e.device, f.index = e.index, f.partitions = e.partitions,
         f.serial \in {e.serial, d}, f.bus.of \in {e.bus.of, d}, f.media.of \in {e.media.of, d}
  PROVE  Own(f)
<1>1. Had(f) = Had(e) /\ \A n, l : Lies(f, n, l) <=> Lies(e, n, l)
  BY DEF Had, Lies
<1> QED
  BY <1>1 DEF Own

\* A row about a device completes the disk that has its number.
LEMMA EnrichDiskCompletes ==
  ASSUME Types, NEW d \in Plugged, NEW ds \in Seq(DiskType)
  PROVE  AllComplete(ds, EnrichDisk(ds, d))
<1> DEFINE k == ByIndex(ds, SlotOf(d))
<1>1. CASE ~(Has(d, "number") /\ k # 0)
  BY <1>1 DEF EnrichDisk, AllComplete, Completes
<1>2. CASE Has(d, "number") /\ k # 0
  <2> DEFINE f == [ds[k] EXCEPT !.id = IF @ = Unset THEN UniqueId(d) ELSE @,
                                !.serial = IF @ = 0 /\ Has(d, "msftSerial") THEN d ELSE @,
                                !.bus = IF Has(d, "msftBus") THEN [of |-> d, by |-> "MSFT_Disk"] ELSE @]
  <2>1. k \in DOMAIN ds /\ ds[k].index = SlotOf(d)
    BY <1>2, ByIndexFacts
  <2>2. EnrichDisk(ds, d) = [ds EXCEPT ![k] = f]
    BY <1>2 DEF EnrichDisk
  <2>3. d \in Devices /\ d # 0 /\ slot[SlotOf(d)] = d /\ SlotOf(d) \in Slots
        /\ UniqueId(d) \in Int /\ UniqueId(d) # Unset
    <3>1. d \in Devices /\ d # 0 /\ slot[SlotOf(d)] = d /\ SlotOf(d) \in Slots
      BY SlotFacts
    <3>2. d \in Nat
      BY <3>1, WindowsAssumption
    <3>3. 100 + d \in Int /\ 100 + d # -1
      BY <3>2
    <3> QED
      BY <3>1, <3>3 DEF UniqueId, Unset
  <2>4. ds[k] \in DiskType
    BY <2>1
  <2>5. f \in DiskType
    <3>1. f.id \in Int /\ f.serial \in Devices \cup {0} /\ f.bus \in Source
      <4>1. f.bus \in {ds[k].bus, [of |-> d, by |-> "MSFT_Disk"]} /\ ds[k].bus \in Source
        BY <2>4 DEF DiskType
      <4>2. f.id \in {ds[k].id, UniqueId(d)} /\ f.serial \in {ds[k].serial, d}
        BY <2>4 DEF DiskType
      <4>3. ds[k].id \in Int /\ ds[k].serial \in Devices \cup {0}
        BY <2>4, SMTT(40) DEF DiskType
      <4>4. [of |-> d, by |-> "MSFT_Disk"] \in Source
        BY <2>3 DEF Source, Classes
      <4> HIDE DEF f, k
      <4> QED
        BY <2>3, <4>1, <4>2, <4>3, <4>4
    <3> QED
      BY <3>1, <2>4 DEF DiskType
  <2>6. Completes(ds[k], f)
    <3>1. /\ f.device = ds[k].device /\ f.index = ds[k].index /\ f.partitions = ds[k].partitions
          /\ f.id = ds[k].id \/ ds[k].id = Unset
          /\ f.id # Unset \/ f.id = ds[k].id
          /\ f.serial = ds[k].serial \/ (ds[k].serial = 0 /\ f.serial = d)
          /\ f.bus.of \in {ds[k].bus.of, d} /\ f.media = ds[k].media
      BY <2>3, <2>4 DEF DiskType
    <3>2. d \in Had(ds[k]) /\ Had(f) = Had(ds[k])
      BY <2>1, <2>3, <3>1, HadNow DEF Had
    <3> HIDE DEF f, k
    <3> QED
      BY <3>1, <3>2, OwnCompleted DEF Completes
  <2>7. \A j \in DOMAIN ds : Completes(ds[j], ds[j])
    BY DEF Completes
  <2> HIDE DEF f, k
  <2> QED
    BY <2>1, <2>2, <2>5, <2>6, <2>7 DEF AllComplete
<1> QED
  BY <1>1, <1>2

LEMMA EnrichPhysicalDiskCompletes ==
  ASSUME Types, NEW d \in Plugged, NEW ds \in Seq(DiskType)
  PROVE  AllComplete(ds, EnrichPhysicalDisk(ds, d))
<1> DEFINE k == DiskForPhysicalRow(ds, d)
<1>1. CASE k = 0
  BY <1>1 DEF EnrichPhysicalDisk, AllComplete, Completes
<1>2. CASE k # 0
  <2> DEFINE new == [of |-> d, by |-> "MSFT_PhysicalDisk"]
             f == [ds[k] EXCEPT !.serial = IF @ = 0 /\ Has(d, "physicalSerial") THEN d ELSE @,
                                !.bus = IF Has(d, "physicalBus") THEN new ELSE @,
                                !.media = IF Has(d, "physicalMedia") THEN new ELSE @]
  <2>1. k \in DOMAIN ds /\ (ds[k].index = SlotOf(d) \/ ds[k].serial = d)
    BY <1>2, DiskForPhysicalRowFacts
  <2>2. EnrichPhysicalDisk(ds, d) = [ds EXCEPT ![k] = f]
    BY <1>2 DEF EnrichPhysicalDisk
  <2>3. d \in Devices /\ d # 0 /\ slot[SlotOf(d)] = d /\ SlotOf(d) \in Slots
    BY SlotFacts
  <2>4. ds[k] \in DiskType
    BY <2>1
  <2>5. /\ f.device = ds[k].device /\ f.index = ds[k].index /\ f.partitions = ds[k].partitions
        /\ f.id = ds[k].id
        /\ f.serial = ds[k].serial \/ (ds[k].serial = 0 /\ f.serial = d)
        /\ f.bus \in {ds[k].bus, new} /\ f.media \in {ds[k].media, new}
    BY <2>4 DEF DiskType
  <2>6. f \in DiskType
    <3>1. new \in Source /\ ds[k].bus \in Source /\ ds[k].media \in Source
      BY <2>3, <2>4 DEF Source, Classes, DiskType
    <3> HIDE DEF new
    <3>2. f.serial \in Devices \cup {0}
      BY <2>3, <2>4, <2>5 DEF DiskType
    <3>3. f.bus \in Source /\ f.media \in Source
      BY <2>5, <3>1
    <3> QED
      BY <2>4, <3>2, <3>3 DEF DiskType
  <2>7. Completes(ds[k], f)
    <3>1. Own(ds[k]) => d \in Had(ds[k])
      <4>1. ds[k].index = SlotOf(d) => d \in Had(ds[k])
        BY HadNow
      <4> QED
        BY <2>1, <2>3, <4>1 DEF Own
    <3>2. new.of = d
      OBVIOUS
    <3> HIDE DEF f, new, k
    <3>3. Own(ds[k]) => Own(f)
      BY <2>5, <3>1, <3>2, OwnCompleted
    <3> QED
      BY <2>5, <3>3 DEF Completes
  <2>8. \A j \in DOMAIN ds : Completes(ds[j], ds[j])
    BY DEF Completes
  <2> HIDE DEF f, k
  <2> QED
    BY <2>1, <2>2, <2>6, <2>7, <2>8 DEF AllComplete
<1> QED
  BY <1>1, <1>2

\* Completing twice is completing.
LEMMA CompletesTwice ==
  ASSUME NEW ds, NEW es, NEW fs, AllComplete(ds, es), AllComplete(es, fs)
  PROVE  AllComplete(ds, fs)
<1>1. ASSUME NEW k \in DOMAIN ds
      PROVE  Completes(ds[k], fs[k])
  <2>1. Completes(ds[k], es[k]) /\ Completes(es[k], fs[k])
    BY DEF AllComplete
  <2> QED
    BY <2>1 DEF Completes
<1> QED
  BY <1>1 DEF AllComplete

\* Whatever rows the loops are given, they complete the disks.
Enrich(class, ds, d) ==
    IF class = "MSFT_Disk" THEN EnrichDisk(ds, d) ELSE EnrichPhysicalDisk(ds, d)

Run(class, rs, n, g) ==
    g = [i \in 0..n |-> IF i = 0 THEN disks ELSE Enrich(class, g[i - 1], rs[i])]

\* The loop over the rows has a run.
LEMMA RunExists ==
  ASSUME NEW class, NEW rs, NEW n \in Nat
  PROVE  \E g : Run(class, rs, n, g)
<1> DEFINE Bad == {m \in Nat : ~ \E g : Run(class, rs, m, g)}
<1>1. ASSUME Bad # {}
      PROVE  FALSE
  <2>1. PICK m \in Bad : \A l \in Bad : m <= l
    <3>1. Bad \in SUBSET Nat
      OBVIOUS
    <3> HIDE DEF Bad
    <3> QED
      BY <1>1, <3>1, NaturalLeast
  <2>2. CASE m = 0
    <3>1. Run(class, rs, 0, [i \in 0..0 |-> disks])
      BY DEF Run
    <3> QED
      BY <2>2, <3>1
  <2>3. CASE m # 0
    <3>1. m \in Nat /\ m - 1 \in Nat /\ m - 1 < m
      BY <2>3
    <3>2. PICK g : Run(class, rs, m - 1, g)
      BY <2>1, <3>1
    <3> DEFINE h == [i \in 0..m |-> IF i = m THEN Enrich(class, g[m - 1], rs[m]) ELSE g[i]]
    <3>3. \A i \in 0..m : h[i] = IF i = 0 THEN disks ELSE Enrich(class, h[i - 1], rs[i])
      <4> SUFFICES ASSUME NEW i \in 0..m
                   PROVE  h[i] = IF i = 0 THEN disks ELSE Enrich(class, h[i - 1], rs[i])
        OBVIOUS
      <4>1. i = 0 \/ (i - 1 \in 0..m /\ i - 1 # m)
        BY <3>1
      <4>2. i # m => i \in 0..(m - 1)
        BY <3>1
      <4>3. i # m => g[i] = IF i = 0 THEN disks ELSE Enrich(class, g[i - 1], rs[i])
        BY <3>2, <4>2 DEF Run
      <4> QED
        BY <2>3, <4>1, <4>3
    <3>4. Run(class, rs, m, h)
      <4>1. h = [i \in 0..m |-> h[i]]
        OBVIOUS
      <4> HIDE DEF h
      <4> QED
        BY <3>3, <4>1 DEF Run
    <3> QED
      BY <3>4
  <2> QED
    BY <2>2, <2>3
<1> QED
  BY <1>1

LEMMA EnrichedCompletes ==
  ASSUME Types, NEW class, NEW rs \in Seq(Plugged)
  PROVE  AllComplete(disks, Enriched(class, rs))
<1> DEFINE n == Len(rs)
           after == CHOOSE g : Run(class, rs, n, g)
<1>1. n \in Nat /\ \A i \in 1..n : rs[i] \in Plugged
  OBVIOUS
<1>2. Run(class, rs, n, after)
  BY <1>1, RunExists
<1>3. Enriched(class, rs) = after[n]
  BY DEF Enriched, Run, Enrich
<1>4. \A i \in 0..n : after[i] = IF i = 0 THEN disks ELSE Enrich(class, after[i - 1], rs[i])
  <2> HIDE DEF after, n
  <2> QED
    BY <1>2 DEF Run
<1> HIDE DEF after, n
<1> DEFINE Bad == {i \in Nat : i <= n /\ ~AllComplete(disks, after[i])}
<1>5. ASSUME Bad # {}
      PROVE  FALSE
  <2>1. PICK m \in Bad : \A l \in Bad : m <= l
    <3>1. Bad \in SUBSET Nat
      OBVIOUS
    <3> HIDE DEF Bad
    <3> QED
      BY <1>5, <3>1, NaturalLeast
  <2>2. m \in 0..n
    BY <1>1
  <2>3. m # 0
    <3>1. AllComplete(disks, disks)
      BY DEF AllComplete, Completes, Types
    <3> QED
      BY <1>1, <1>4, <3>1
  <2>4. m - 1 \in 0..n /\ m \in 1..n /\ ~(m <= m - 1)
    BY <1>1, <2>2, <2>3
  <2>5. AllComplete(disks, after[m - 1])
    BY <1>1, <2>1, <2>4
  <2>6. after[m] = Enrich(class, after[m - 1], rs[m])
    BY <1>4, <2>2, <2>3
  <2>7. AllComplete(after[m - 1], after[m])
    <3>1. rs[m] \in Plugged /\ after[m - 1] \in Seq(DiskType)
      BY <1>1, <2>4, <2>5 DEF AllComplete
    <3> QED
      BY <2>6, <3>1, EnrichDiskCompletes, EnrichPhysicalDiskCompletes DEF Enrich
  <2>8. AllComplete(disks, after[m])
    BY <2>5, <2>7, CompletesTwice
  <2> QED
    BY <2>8
<1> QED
  BY <1>1, <1>3, <1>5

-------------------------------------------------------------------------------
\* Sorting moves partitions and drops none.
LEMMA SortedFacts ==
  ASSUME NEW ps \in Seq(PartitionType)
  PROVE  /\ Sorted(ps) \in Seq(PartitionType)
         /\ DOMAIN Sorted(ps) = DOMAIN ps
         /\ \A i \in DOMAIN ps : \E j \in DOMAIN ps : Sorted(ps)[i] = ps[j]
         /\ \A j \in DOMAIN ps : \E i \in DOMAIN ps : Sorted(ps)[i] = ps[j]
<1> DEFINE n == Len(ps)
           key == [i \in 1..n |-> ps[i].index]
           P(p) == \A i, j \in DOMAIN ps : i < j => p[i] # p[j] /\ ps[p[i]].index <= ps[p[j]].index
           order == CHOOSE p \in [DOMAIN ps -> DOMAIN ps] : P(p)
<1>1. n \in Nat /\ DOMAIN ps = 1..n /\ \A i \in 1..n : ps[i] \in PartitionType
  OBVIOUS
<1>2. Sorted(ps) = [i \in 1..n |-> ps[order[i]]]
  BY <1>1 DEF Sorted
<1>3. key \in [1..n -> Int] /\ \A i \in 1..n : key[i] = ps[i].index
  BY <1>1 DEF PartitionType, Numbers
<1>4. PICK p : Sorting(n, key, p)
  BY <1>1, <1>3, SortingExists
<1>5. p \in [DOMAIN ps -> DOMAIN ps] /\ P(p)
  <2> HIDE DEF key, n
  <2> QED
    BY <1>1, <1>3, <1>4 DEF Sorting
<1> HIDE DEF P, n, key
<1>6. order \in [1..n -> 1..n] /\ P(order)
  BY <1>1, <1>5
<1> HIDE DEF order
<1>7. \A i, j \in 1..n : i < j => order[i] # order[j]
  BY <1>1, <1>6 DEF P
<1>8. \A k \in 1..n : \E i \in 1..n : order[i] = k
  BY <1>1, <1>6, <1>7, PlacesOnto
<1> QED
  BY <1>1, <1>2, <1>6, <1>8

Remains ==
    \A e \in ToSet(disks) : \E f \in ToSet(disks') :
      /\ f.device = e.device
      /\ f.id = e.id \/ e.id = Unset
      /\ f.serial = e.serial \/ e.serial = 0
      /\ \A p \in ToSet(e.partitions) : \E q \in ToSet(f.partitions) :
           q.id = p.id /\ q.device = p.device /\ p.volumes \subseteq q.volumes

LEMMA RemainsUnchanged ==
  disks' = disks => Remains
BY DEF Remains

LEMMA InitStorage ==
  ASSUME NEW g \in Computers, StorageInit(g.machines, g.over)
  PROVE  StorageInv
<1>1. Machine(machine) /\ events \in 0..MaxEvents
  BY ComputersAssumption DEF StorageInit
<1>2. Types
  <2>1. /\ slot \in [Slots -> Devices \cup {0}] /\ letter \in [Letters -> Volumes \cup {0}]
        /\ numbered = [s \in Slots |-> {slot[s]}] /\ named = [l \in Letters |-> {letter[l]}]
    BY <1>1 DEF StorageInit, Machine
  <2>2. StorageTypeOK
    BY <1>1, <2>1 DEF StorageInit, StorageTypeOK, Classes
  <2> QED
    BY <2>1, <2>2 DEF StorageInit, Types
<1>3. Control /\ Joined
  BY DEF StorageInit, Control, Joined, Own, Associated
<1> QED
  BY <1>2, <1>3 DEF StorageInv

\* A number or a letter that passes on was had all the same.
LEMMA JoinedWidens ==
  ASSUME StorageInv, UNCHANGED <<machine, disks, associations>>,
         \A s \in Slots : numbered[s] \subseteq numbered'[s],
         \A l \in Letters : named[l] \subseteq named'[l]
  PROVE  Joined'
<1> SUFFICES ASSUME NEW k \in DOMAIN disks
             PROVE  Own(disks[k])' /\ Associated(disks[k])'
  BY DEF Joined
<1> PICK e : e = disks[k]
  OBVIOUS
<1>1. /\ e \in DiskType /\ e.partitions \in Seq(PartitionType)
      /\ Own(e) /\ Associated(e)
      /\ associations \subseteq [partition : Slots \X Numbers, volume : Letters]
  <2>1. e \in DiskType
    BY DEF StorageInv, Types
  <2>2. Own(e) /\ Associated(e)
    BY DEF StorageInv, Joined
  <2> QED
    BY <2>1, <2>2 DEF StorageInv, Types, DiskType
<1>2. \A i \in DOMAIN e.partitions : \A v \in e.partitions[i].volumes : v.id \in Letters
  <2>1. \A i \in DOMAIN e.partitions : e.partitions[i] \in PartitionType
    BY <1>1
  <2> QED
    BY <2>1 DEF PartitionType
<1>3. \A a \in associations : a.volume \in Letters
  BY <1>1
<1>4. Had(e) \subseteq Had(e)'
  BY <1>1 DEF Had, DiskType
<1>5. \A n : \A l \in Letters : Lies(e, n, l) => Lies(e, n, l)'
  BY <1>4 DEF Lies
<1>6. Own(e)'
  BY <1>1, <1>2, <1>4, <1>5 DEF Own
<1>7. Associated(e)'
  BY <1>1, <1>3, <1>5 DEF Associated
<1> QED
  BY <1>6, <1>7

LEMMA HotPlugStep ==
  ASSUME StorageInv, HotPlug
  PROVE  StorageInv' /\ Remains
<1>1. /\ events < MaxEvents /\ events' = events + 1
      /\ UNCHANGED <<machine, letter, named, phase, failed, disks, associations>>
      /\ numbered' = [s \in Slots |-> numbered[s] \cup {slot'[s]}]
  BY DEF HotPlug, collector
<1>2. PICK s \in Slots : Unplug(s) \/ \E d \in Devices : Plug(s, d)
  BY DEF HotPlug
<1>3. slot' \in [Slots -> Devices \cup {0}]
  BY <1>2 DEF Unplug, Plug, StorageInv, Types
<1>4. (\A r, t \in Slots : slot[r] = slot[t] => r = t \/ slot[r] = 0)'
  <2>1. CASE Unplug(s)
    BY <2>1 DEF Unplug, StorageInv, Types
  <2>2. CASE \E d \in Devices : Plug(s, d)
    BY <2>2 DEF Plug, Plugged, StorageInv, Types
  <2> QED
    BY <1>2, <2>1, <2>2
<1>5. events' \in 0..MaxEvents
  BY <1>1, WindowsAssumption DEF StorageInv, Types, StorageTypeOK
<1>6. /\ numbered' \in [Slots -> SUBSET (Devices \cup {0})]
      /\ \A r \in Slots : slot'[r] \in numbered'[r] /\ numbered[r] \subseteq numbered'[r]
  BY <1>1, <1>3 DEF StorageInv, Types
<1>7. Types'
  <2>1. StorageTypeOK'
    BY <1>1, <1>5, <1>6 DEF StorageInv, Types, StorageTypeOK
  <2> QED
    BY <1>1, <1>3, <1>4, <1>6, <2>1 DEF StorageInv, Types
<1>8. Joined'
  BY <1>1, <1>6, JoinedWidens
<1>9. Control'
  BY <1>1 DEF StorageInv, Control
<1> QED
  BY <1>1, <1>7, <1>8, <1>9, RemainsUnchanged DEF StorageInv

LEMMA RelabelStep ==
  ASSUME StorageInv, Relabel
  PROVE  StorageInv' /\ Remains
<1>1. PICK l \in Letters, v \in Volumes \cup {0} : Assign(l, v)
  BY DEF Relabel
<1>2. /\ events < MaxEvents /\ events' = events + 1
      /\ UNCHANGED <<machine, slot, numbered, phase, failed, disks, associations>>
      /\ letter' = [m \in Letters |-> IF m = l THEN v ELSE IF letter[m] = v THEN 0 ELSE letter[m]]
      /\ named' = [m \in Letters |-> named[m] \cup {letter'[m]}]
  BY <1>1 DEF Assign, collector
<1>3. letter' \in [Letters -> Volumes \cup {0}]
  BY <1>2 DEF StorageInv, Types
<1>4. events' \in 0..MaxEvents
  BY <1>2, WindowsAssumption DEF StorageInv, Types, StorageTypeOK
<1>5. \A m \in Letters : letter'[m] \in named'[m] /\ named'[m] \subseteq Volumes \cup {0}
                          /\ named[m] \subseteq named'[m]
  BY <1>2, <1>3 DEF StorageInv, Types, StorageTypeOK
<1>6. Types'
  <2>1. StorageTypeOK'
    BY <1>2, <1>4, <1>5 DEF StorageInv, Types, StorageTypeOK
  <2> QED
    BY <1>2, <1>3, <2>1 DEF StorageInv, Types
<1>7. Joined'
  BY <1>2, <1>5, JoinedWidens
<1>8. Control'
  BY <1>2 DEF StorageInv, Control
<1> QED
  BY <1>2, <1>6, <1>7, <1>8, RemainsUnchanged DEF StorageInv

\* A query that fails changes nothing but the failures.
LEMMA FailStep ==
  ASSUME StorageInv, NEW next, Fail(next),
         phase \in Classes, next \in Classes \cup {"sort", "done"},
         next # "Win32_DiskDrive", next # "Win32_DiskPartition",
         next \in {"Win32_LogicalDiskToPartition", "Win32_LogicalDisk"} =>
           phase \in {"Win32_DiskPartition", "Win32_LogicalDiskToPartition"},
         next = "Win32_LogicalDiskToPartition" => phase = "Win32_DiskPartition"
  PROVE  StorageInv' /\ Remains
<1>1. /\ phase' = next /\ failed' = failed \cup {phase}
      /\ UNCHANGED <<machine, slot, numbered, letter, named, events, disks, associations>>
  BY DEF Fail, world
<1>2. Types'
  BY <1>1 DEF StorageInv, Types, StorageTypeOK, Plugged
<1>3. Joined'
  BY <1>1, JoinedWidens
<1>4. Control'
  <2>1. phase = "Win32_DiskPartition" =>
          \A k \in DOMAIN disks : \A i \in DOMAIN disks[k].partitions :
            disks[k].partitions[i].volumes = {}
    BY DEF StorageInv, Control
  <2> QED
    BY <1>1, <2>1 DEF StorageInv, Control
<1> QED
  BY <1>1, <1>2, <1>3, <1>4, RemainsUnchanged DEF StorageInv

\* What the steps that change the disks alone have to show of them.
LEMMA DisksStep ==
  ASSUME StorageInv, NEW next, Proceed(next), UNCHANGED associations,
         next \in Classes \cup {"sort", "done"}, next # "Win32_DiskDrive",
         disks' \in Seq(DiskType),
         \A k \in DOMAIN disks' : disks'[k].index # Unset \/ disks'[k].id # Unset
  PROVE  Types'
<1>1. /\ phase' = next /\ UNCHANGED <<machine, slot, numbered, letter, named, events, failed>>
  BY DEF Proceed, world
<1>2. \A k \in DOMAIN disks' : disks'[k] \in DiskType
  OBVIOUS
<1> QED
  BY <1>1, <1>2 DEF StorageInv, Types, StorageTypeOK, DiskType, Plugged

\* What is true of a disk stays true while the machine is the same.
LEMMA TrueStill ==
  ASSUME UNCHANGED <<machine, slot, numbered, named>>
  PROVE  \A e : Own(e)' <=> Own(e)
<1> TAKE e
<1>1. Had(e)' = Had(e)
  BY DEF Had
<1>2. \A n, l : Lies(e, n, l)' <=> Lies(e, n, l)
  BY <1>1 DEF Lies
<1> QED
  BY <1>1, <1>2 DEF Own

LEMMA AssociatedStill ==
  ASSUME UNCHANGED <<machine, slot, numbered, named, associations>>
  PROVE  \A e : Associated(e)' <=> Associated(e)
<1> TAKE e
<1>1. Had(e)' = Had(e)
  BY DEF Had
<1>2. \A n, l : Lies(e, n, l)' <=> Lies(e, n, l)
  BY <1>1 DEF Lies
<1> QED
  BY <1>2 DEF Associated

LEMMA QueryDiskDrivesStep ==
  ASSUME StorageInv, QueryDiskDrives
  PROVE  StorageInv' /\ Remains
<1>1. CASE Fail("done")
  <2>1. phase \in Classes
    BY DEF QueryDiskDrives, Classes
  <2> QED
    BY <1>1, <2>1, FailStep
<1>2. ASSUME Proceed("Win32_DiskPartition"), UNCHANGED associations,
             NEW rs \in SetToSeqs({d \in Plugged : Identified(d)}),
             disks' = [i \in DOMAIN rs |-> NewDisk(rs[i])]
      PROVE  StorageInv' /\ Remains
  <2>1. disks = << >> /\ associations = {}
    BY DEF QueryDiskDrives, StorageInv, Control
  <2> DEFINE n == Cardinality({d \in Plugged : Identified(d)})
  <2>2. n \in Nat
    <3>1. Plugged \subseteq Devices
      BY DEF Plugged, StorageInv, Types
    <3>2. IsFiniteSet({d \in Plugged : Identified(d)})
      BY <3>1, WindowsAssumption, FS_Subset
    <3> QED
      BY <3>2, FS_CardinalityType
  <2>3. rs \in [1..n -> Plugged] /\ \A i \in 1..n : Identified(rs[i])
    BY <1>2 DEF SetToSeqs
  <2> HIDE DEF n
  <2>4. ASSUME NEW i \in 1..n
        PROVE  LET e == NewDisk(rs[i])
               IN  /\ e \in DiskType /\ (e.index # Unset \/ e.id # Unset)
                   /\ Own(e) /\ e.partitions = << >>
    <3> DEFINE d == rs[i]
    <3>1. d \in Plugged /\ Identified(d)
      BY <2>3
    <3> HIDE DEF d
    <3>2. d \in Devices /\ d # 0 /\ SlotOf(d) \in Slots /\ slot[SlotOf(d)] = d
      BY <3>1, SlotFacts DEF StorageInv
    <3>3. \A s \in Slots : s \in Int /\ s # Unset
      BY WindowsAssumption DEF Unset
    <3>4. [of |-> d, by |-> "Win32_DiskDrive"] \in Source
      BY <3>2 DEF Source, Classes
    <3>5. << >> \in Seq(PartitionType) /\ Unset \in Int
      BY DEF Unset
    <3>6. NewDisk(d) \in DiskType
      BY <3>2, <3>3, <3>4, <3>5 DEF NewDisk, DiskType
    <3>7. NewDisk(d).index # Unset \/ NewDisk(d).id # Unset
      BY <3>1, <3>2, <3>3 DEF NewDisk, Identified
    <3>8. NewDisk(d).partitions = << >> /\ NewDisk(d).index \in {SlotOf(d), Unset}
          /\ NewDisk(d).device = d /\ NewDisk(d).serial \in {0, d}
          /\ NewDisk(d).bus.of = d /\ NewDisk(d).media.of = d
      BY DEF NewDisk
    <3>9. Own(NewDisk(d))
      <4> PICK e : e = NewDisk(d)
        OBVIOUS
      <4>1. e.index = SlotOf(d) => d \in Had(e)
        BY <3>1, HadNow DEF StorageInv
      <4>2. d \in Had(e)
        BY <3>8, <4>1 DEF Had
      <4> QED
        BY <3>8, <4>2 DEF Own
    <3> QED
      BY <3>6, <3>7, <3>8, <3>9 DEF d
  <2>5. disks' = [i \in 1..n |-> NewDisk(rs[i])]
    BY <1>2, <2>3
  <2>6. disks' \in Seq(DiskType) /\ DOMAIN disks' = 1..n
    BY <2>2, <2>4, <2>5
  <2>7. Types'
    BY <1>2, <2>4, <2>5, <2>6, DisksStep DEF Classes
  <2>8. Joined'
    <3>1. UNCHANGED <<machine, slot, numbered, named>>
      BY <1>2 DEF Proceed, world
    <3>2. ASSUME NEW k \in DOMAIN disks'
          PROVE  Own(disks'[k]) /\ disks'[k].partitions = << >>
      BY <2>4, <2>5, <2>6
    <3>3. ASSUME NEW k \in DOMAIN disks'
          PROVE  (Own(disks[k]) /\ Associated(disks[k]))'
      <4> DEFINE e == disks'[k]
      <4>1. Own(e) /\ e.partitions = << >>
        BY <3>2
      <4> QED
        BY <3>1, <4>1 DEF Own, Had, Associated
    <3> QED
      BY <3>3 DEF Joined
  <2>9. Control'
    BY <1>2, <2>1, <2>4, <2>5, <2>6 DEF Control, Proceed, world
  <2>10. Remains
    BY <2>1 DEF Remains, ToSet
  <2> QED
    BY <2>7, <2>8, <2>9, <2>10 DEF StorageInv
<1> QED
  BY <1>1, <1>2 DEF QueryDiskDrives

LEMMA QueryPartitionsStep ==
  ASSUME StorageInv, QueryPartitions
  PROVE  StorageInv' /\ Remains
<1>0. phase = "Win32_DiskPartition"
  BY DEF QueryPartitions
<1>1. CASE Fail("Win32_LogicalDiskToPartition")
  BY <1>0, <1>1, FailStep DEF Classes
<1>2. CASE ~Fail("Win32_LogicalDiskToPartition")
  <2> DEFINE With(e) == [e EXCEPT !.partitions = PartitionRows(e.index)]
  <2>1. /\ Proceed("Win32_LogicalDiskToPartition") /\ UNCHANGED associations
        /\ disks' = [k \in DOMAIN disks |-> IF k = ByIndex(disks, disks[k].index)
                                            THEN With(disks[k]) ELSE disks[k]]
    BY <1>2 DEF QueryPartitions
  <2>2. associations = {} /\ \A k \in DOMAIN disks : disks[k].partitions = << >>
    BY <1>0 DEF StorageInv, Control
  <2>3. /\ disks \in Seq(DiskType) /\ Machine(machine) /\ slot \in [Slots -> Devices \cup {0}]
        /\ \A k \in DOMAIN disks : disks[k] \in DiskType
                                   /\ (disks[k].index # Unset \/ disks[k].id # Unset)
    BY DEF StorageInv, Types, StorageTypeOK
  <2>4. ASSUME NEW s \in Slots \cup {Unset}, s \in Slots, slot[s] # 0
        PROVE  LET ps == PartitionRows(s)
               IN  /\ ps \in Seq(PartitionType)
                   /\ \A i \in DOMAIN ps :
                        ps[i].device = slot[s] /\ ps[i].id = <<s, ps[i].index>> /\ ps[i].volumes = {}
    <3> DEFINE numbers == machine.partitions[slot[s]]
    <3>1. numbers \in Seq(Numbers) /\ slot[s] \in Devices
      BY <2>3, <2>4 DEF Machine
    <3>2. PartitionRows(s) = << >> \/
          PartitionRows(s) = [i \in DOMAIN numbers |->
            [device |-> slot[s], index |-> numbers[i], id |-> <<s, numbers[i]>>, volumes |-> {}]]
      BY DEF PartitionRows
    <3> HIDE DEF numbers
    <3>3. \A i \in DOMAIN numbers : numbers[i] \in Numbers
      BY <3>1
    <3>4. CASE PartitionRows(s) = << >>
      BY <3>4
    <3>5. CASE PartitionRows(s) = [i \in DOMAIN numbers |->
            [device |-> slot[s], index |-> numbers[i], id |-> <<s, numbers[i]>>, volumes |-> {}]]
      <4>1. DOMAIN numbers = 1..Len(numbers) /\ Len(numbers) \in Nat
        BY <3>1
      <4>2. \A i \in 1..Len(numbers) : PartitionRows(s)[i] \in PartitionType
        BY <2>4, <3>1, <3>3, <3>5, <4>1 DEF PartitionType
      <4> QED
        BY <3>5, <4>1, <4>2
    <3> QED
      BY <3>2, <3>4, <3>5
  <2>5. \A s : ~(s \in Slots /\ slot[s] # 0) => PartitionRows(s) = << >>
    BY DEF PartitionRows
  <2>6. ASSUME NEW e \in DiskType
        PROVE  /\ With(e) \in DiskType
               /\ With(e).index = e.index /\ With(e).device = e.device
               /\ With(e).id = e.id /\ With(e).serial = e.serial
               /\ With(e).bus = e.bus /\ With(e).media = e.media
               /\ With(e).partitions = PartitionRows(e.index)
    <3>1. PartitionRows(e.index) \in Seq(PartitionType)
      <4>1. CASE e.index \in Slots /\ slot[e.index] # 0
        BY <2>4, <4>1
      <4>2. CASE ~(e.index \in Slots /\ slot[e.index] # 0)
        <5>1. PartitionRows(e.index) = << >>
          BY <2>5, <4>2
        <5> QED
          BY <5>1
      <4> QED
        BY <4>1, <4>2
    <3> QED
      BY <3>1 DEF DiskType
  <2>7. ASSUME NEW e \in DiskType, Own(e)
        PROVE  Own(With(e))
    <3>0. e.index \in Slots \cup {Unset}
      BY DEF DiskType
    <3>1. Had(With(e)) = Had(e)
      BY <2>6 DEF Had
    <3>2. ASSUME NEW i \in DOMAIN With(e).partitions
          PROVE  LET p == With(e).partitions[i]
                 IN  p.device \in Had(e) /\ p.id = <<e.index, p.index>> /\ p.volumes = {}
      <4>1. With(e).partitions = PartitionRows(e.index)
        BY <2>6
      <4> HIDE DEF With
      <4>2. e.index \in Slots /\ slot[e.index] # 0
        BY <2>5, <3>2, <4>1
      <4>3. slot[e.index] \in Had(e)
        <5>1. slot[e.index] \in numbered[e.index] /\ e.index # Unset
          BY <4>2, WindowsAssumption DEF StorageInv, Types, StorageTypeOK, Unset
        <5> QED
          BY <4>2, <5>1 DEF Had
      <4> QED
        BY <2>4, <3>0, <3>2, <4>1, <4>2, <4>3
    <3> HIDE DEF With
    <3> QED
      BY <2>6, <2>7, <3>1, <3>2 DEF Own
  <2>8. ASSUME NEW e \in DiskType
        PROVE  \A i \in DOMAIN With(e).partitions : With(e).partitions[i].volumes = {}
    <3>1. With(e).partitions = PartitionRows(e.index)
      BY <2>6
    <3> HIDE DEF With
    <3> QED
      BY <2>4, <2>5, <3>1 DEF DiskType
  <2> HIDE DEF With
  <2>9. DOMAIN disks' = DOMAIN disks /\ disks' \in Seq(DiskType)
        /\ \A k \in DOMAIN disks : disks'[k] \in {disks[k], With(disks[k])}
    BY <2>1, <2>3, <2>6
  <2>10. Types'
    <3>1. \A k \in DOMAIN disks' : disks'[k].index # Unset \/ disks'[k].id # Unset
      BY <2>3, <2>6, <2>9
    <3> QED
      BY <2>1, <2>9, <3>1, DisksStep DEF Classes
  <2>11. UNCHANGED <<machine, slot, numbered, named>> /\ phase' = "Win32_LogicalDiskToPartition"
    BY <2>1 DEF Proceed, world
  <2>12. Joined'
    <3>1. \A e : Own(e)' <=> Own(e)
      BY <2>11, TrueStill
    <3>2. \A e : Associated(e)'
      BY <2>1, <2>2 DEF Associated
    <3>3. \A k \in DOMAIN disks : Own(disks'[k])
      BY <2>3, <2>7, <2>9 DEF StorageInv, Joined
    <3> QED
      BY <2>9, <3>1, <3>2, <3>3 DEF Joined
  <2>13. Control'
    <3>1. \A k \in DOMAIN disks' : \A i \in DOMAIN disks'[k].partitions :
            disks'[k].partitions[i].volumes = {}
      BY <2>2, <2>3, <2>8, <2>9
    <3> QED
      BY <2>1, <2>2, <2>11, <3>1 DEF Control
  <2>14. Remains
    BY <2>2, <2>3, <2>6, <2>9 DEF Remains, ToSet
  <2> QED
    BY <2>10, <2>12, <2>13, <2>14 DEF StorageInv
<1> QED
  BY <1>1, <1>2

LEMMA QueryAssociationsStep ==
  ASSUME StorageInv, QueryAssociations
  PROVE  StorageInv' /\ Remains
<1>0. phase = "Win32_LogicalDiskToPartition"
  BY DEF QueryAssociations
<1>1. CASE Fail("Win32_LogicalDisk")
  BY <1>0, <1>1, FailStep DEF Classes
<1>2. CASE ~Fail("Win32_LogicalDisk")
  <2>1. /\ phase' = "Win32_LogicalDisk" /\ UNCHANGED <<machine, slot, numbered, letter, named, events, failed, disks>>
        /\ associations' = {a \in [partition : Slots \X Numbers, volume : Letters] :
                              LET d == slot[a.partition[1]]
                              IN  d # 0 /\ letter[a.volume] \in machine.volumes[d][a.partition[2]]}
    BY <1>2 DEF QueryAssociations, Proceed, world
  <2>2. Types'
    BY <2>1 DEF StorageInv, Types, StorageTypeOK, Plugged, Classes
  <2>3. ASSUME NEW k \in DOMAIN disks
        PROVE  Own(disks[k])' /\ Associated(disks[k])'
    <3> PICK e : e = disks[k]
      OBVIOUS
    <3>1. Own(e) /\ e \in DiskType
      BY DEF StorageInv, Joined, Types
    <3>2. ASSUME NEW i \in DOMAIN e.partitions, NEW a \in associations',
                 a.partition = e.partitions[i].id
          PROVE  Lies(e, e.partitions[i].index, a.volume)
      <4>1. e.partitions[i].id = <<e.index, e.partitions[i].index>>
        BY <3>1 DEF Own
      <4>2. /\ a.partition[1] = e.index /\ a.partition[2] = e.partitions[i].index
            /\ a.partition[1] \in Slots /\ a.volume \in Letters
        BY <2>1, <3>2, <4>1
      <4>3. slot[e.index] # 0
            /\ letter[a.volume] \in machine.volumes[slot[e.index]][e.partitions[i].index]
        BY <2>1, <4>2
      <4>4. slot[e.index] \in numbered[e.index] /\ letter[a.volume] \in named[a.volume]
        BY <4>2 DEF StorageInv, Types, StorageTypeOK
      <4>5. e.index # Unset
        BY <4>2, WindowsAssumption DEF Unset
      <4> QED
        BY <4>3, <4>4, <4>5 DEF Lies, Had
    <3>3. \A n, l : Lies(e, n, l)' <=> Lies(e, n, l)
      BY <2>1 DEF Lies, Had
    <3>4. Associated(e)'
      BY <3>2, <3>3 DEF Associated
    <3> QED
      BY <2>1, <3>1, <3>4, TrueStill
  <2>4. Joined'
    BY <2>1, <2>3 DEF Joined
  <2>5. Control'
    BY <1>0, <2>1 DEF StorageInv, Control
  <2> QED
    BY <2>1, <2>2, <2>4, <2>5, RemainsUnchanged DEF StorageInv
<1> QED
  BY <1>1, <1>2

\* The disks remain when each one does in its place.
LEMMA RemainsPlacewise ==
  ASSUME DOMAIN disks' = DOMAIN disks,
         \A k \in DOMAIN disks :
           /\ disks'[k].device = disks[k].device
           /\ disks'[k].id = disks[k].id \/ disks[k].id = Unset
           /\ disks'[k].serial = disks[k].serial \/ disks[k].serial = 0
           /\ \A p \in ToSet(disks[k].partitions) : \E q \in ToSet(disks'[k].partitions) :
                q.id = p.id /\ q.device = p.device /\ p.volumes \subseteq q.volumes
  PROVE  Remains
<1> SUFFICES ASSUME NEW e \in ToSet(disks)
             PROVE  \E f \in ToSet(disks') :
                      /\ f.device = e.device
                      /\ f.id = e.id \/ e.id = Unset
                      /\ f.serial = e.serial \/ e.serial = 0
                      /\ \A p \in ToSet(e.partitions) : \E q \in ToSet(f.partitions) :
                           q.id = p.id /\ q.device = p.device /\ p.volumes \subseteq q.volumes
  BY DEF Remains
<1>1. PICK k \in DOMAIN disks : e = disks[k]
  BY DEF ToSet
<1>2. disks'[k] \in ToSet(disks')
  BY DEF ToSet
<1> QED
  BY <1>1, <1>2

\* A partition is given volumes its associations tell, by their letters.
LEMMA WithVolumesFacts ==
  ASSUME Types, NEW p \in PartitionType
  PROVE  /\ WithVolumes(p) \in PartitionType
         /\ WithVolumes(p).device = p.device /\ WithVolumes(p).id = p.id /\ WithVolumes(p).index = p.index
         /\ \A v \in WithVolumes(p).volumes :
              [partition |-> p.id, volume |-> v.id] \in associations /\ v.of \in named[v.id]
         /\ \A l, w : (\E v \in WithVolumes(p).volumes : v.id = l /\ v.of = w) <=>
              /\ l \in Mounted /\ [partition |-> p.id, volume |-> l] \in associations
              /\ w = letter[l]
<1> DEFINE known == {l \in Mounted : [partition |-> p.id, volume |-> l] \in associations}
           volumes == {[id |-> l, of |-> letter[l]] : l \in known}
<1>1. WithVolumes(p) = [p EXCEPT !.volumes = volumes]
  BY DEF WithVolumes
<1>2. \A l \in known : l \in Letters /\ l \in Mounted /\ [partition |-> p.id, volume |-> l] \in associations
                       /\ letter[l] \in named[l] /\ letter[l] \in Volumes \cup {0}
  BY DEF Mounted, Types, StorageTypeOK
<1>3. \A l : l \in Mounted /\ [partition |-> p.id, volume |-> l] \in associations => l \in known
  OBVIOUS
<1> HIDE DEF known
<1>4. ASSUME NEW v \in volumes
      PROVE  v \in [id : Letters, of : Volumes \cup {0}] /\ v.id \in known /\ v.of = letter[v.id]
  <2>1. PICK l \in known : v = [id |-> l, of |-> letter[l]]
    OBVIOUS
  <2>2. v.id = l /\ v.of = letter[l]
    BY <2>1
  <2> QED
    BY <1>2, <2>1, <2>2
<1>5. ASSUME NEW l \in known
      PROVE  \E v \in volumes : v.id = l /\ v.of = letter[l]
  <2>1. [id |-> l, of |-> letter[l]] \in volumes
    OBVIOUS
  <2> QED
    BY <2>1
<1> HIDE DEF volumes
<1>6. /\ WithVolumes(p) \in PartitionType /\ WithVolumes(p).volumes = volumes
      /\ WithVolumes(p).device = p.device /\ WithVolumes(p).id = p.id /\ WithVolumes(p).index = p.index
  BY <1>1, <1>4 DEF PartitionType
<1> QED
  BY <1>2, <1>3, <1>4, <1>5, <1>6

LEMMA QueryLogicalDisksStep ==
  ASSUME StorageInv, QueryLogicalDisks
  PROVE  StorageInv' /\ Remains
<1>0. phase = "Win32_LogicalDisk"
  BY DEF QueryLogicalDisks
<1>1. CASE Fail("MSFT_Disk")
  BY <1>0, <1>1, FailStep DEF Classes
<1>2. CASE ~Fail("MSFT_Disk")
  <2> DEFINE With(e) == [e EXCEPT !.partitions = [i \in DOMAIN @ |-> WithVolumes(@[i])]]
  <2>1. /\ Proceed("MSFT_Disk") /\ UNCHANGED associations
        /\ disks' = disks \/ disks' = [k \in DOMAIN disks |-> With(disks[k])]
    BY <1>2 DEF QueryLogicalDisks
  <2>2. phase' = "MSFT_Disk" /\ UNCHANGED <<machine, slot, numbered, letter, named, events, failed>>
    BY <2>1 DEF Proceed, world
  <2>3. /\ disks \in Seq(DiskType)
        /\ associations \subseteq [partition : Slots \X Numbers, volume : Letters]
        /\ \A k \in DOMAIN disks : disks[k] \in DiskType
                                   /\ (disks[k].index # Unset \/ disks[k].id # Unset)
    BY DEF StorageInv, Types, StorageTypeOK
  <2>4. ASSUME NEW p \in PartitionType
        PROVE  /\ WithVolumes(p) \in PartitionType
               /\ WithVolumes(p).device = p.device /\ WithVolumes(p).id = p.id /\ WithVolumes(p).index = p.index
               /\ \A v \in WithVolumes(p).volumes :
                    [partition |-> p.id, volume |-> v.id] \in associations /\ v.of \in named[v.id]
    BY WithVolumesFacts DEF StorageInv
  <2>5. ASSUME NEW e \in DiskType
        PROVE  /\ With(e) \in DiskType
               /\ With(e).index = e.index /\ With(e).device = e.device
               /\ With(e).id = e.id /\ With(e).serial = e.serial
               /\ With(e).bus = e.bus /\ With(e).media = e.media
               /\ With(e).partitions = [i \in DOMAIN e.partitions |-> WithVolumes(e.partitions[i])]
    <3> DEFINE ps == [i \in DOMAIN e.partitions |-> WithVolumes(e.partitions[i])]
    <3>1. e.partitions \in Seq(PartitionType)
      BY DEF DiskType
    <3>2. \A i \in 1..Len(e.partitions) : e.partitions[i] \in PartitionType
      BY <3>1
    <3>3. ps \in Seq(PartitionType)
      BY <2>4, <3>1, <3>2
    <3>4. With(e) = [e EXCEPT !.partitions = ps]
      BY DEF DiskType
    <3> HIDE DEF ps, With
    <3>5. With(e).partitions = ps
      BY <3>4 DEF DiskType
    <3> QED
      BY <3>3, <3>4, <3>5 DEF DiskType, ps
  <2>6. ASSUME NEW e \in DiskType, Own(e), Associated(e)
        PROVE  Own(With(e)) /\ Associated(With(e))
    <3>1. /\ DOMAIN With(e).partitions = DOMAIN e.partitions
          /\ With(e).partitions = [i \in DOMAIN e.partitions |-> WithVolumes(e.partitions[i])]
          /\ e.partitions \in Seq(PartitionType)
      BY <2>5 DEF DiskType
    <3>2. With(e).device = e.device /\ With(e).index = e.index /\ With(e).serial = e.serial
          /\ With(e).bus = e.bus /\ With(e).media = e.media
      BY <2>5
    <3> HIDE DEF With
    <3>3. Had(With(e)) = Had(e) /\ \A n, l : Lies(With(e), n, l) <=> Lies(e, n, l)
      BY <3>2 DEF Had, Lies
    <3>4. ASSUME NEW i \in DOMAIN e.partitions
          PROVE  LET p == e.partitions[i]
                     q == With(e).partitions[i]
                 IN  /\ q.device = p.device /\ q.id = p.id /\ q.index = p.index
                     /\ \A v \in q.volumes : v.of \in named[v.id] /\ Lies(e, p.index, v.id)
      <4>1. e.partitions[i] \in PartitionType /\ With(e).partitions[i] = WithVolumes(e.partitions[i])
        BY <3>1
      <4>2. \A a \in associations : a.partition = e.partitions[i].id =>
              Lies(e, e.partitions[i].index, a.volume)
        BY <2>6 DEF Associated
      <4>3. ASSUME NEW v \in WithVolumes(e.partitions[i]).volumes
            PROVE  v.of \in named[v.id] /\ Lies(e, e.partitions[i].index, v.id)
        <5>1. [partition |-> e.partitions[i].id, volume |-> v.id] \in associations /\ v.of \in named[v.id]
          BY <2>4, <4>1
        <5> QED
          BY <4>2, <5>1
      <4> QED
        BY <2>4, <4>1, <4>3
    <3>5. Own(With(e))
      BY <2>6, <3>1, <3>2, <3>3, <3>4 DEF Own
    <3>6. Associated(With(e))
      BY <2>6, <3>1, <3>3, <3>4 DEF Associated
    <3> QED
      BY <3>5, <3>6
  <2> HIDE DEF With
  <2>7. DOMAIN disks' = DOMAIN disks /\ disks' \in Seq(DiskType)
        /\ \A k \in DOMAIN disks : disks'[k] \in {disks[k], With(disks[k])}
    <3>1. CASE disks' = disks
      BY <2>3, <3>1
    <3>2. CASE disks' = [k \in DOMAIN disks |-> With(disks[k])]
      <4>1. \A k \in DOMAIN disks : With(disks[k]) \in DiskType
        BY <2>3, <2>5
      <4>2. DOMAIN disks = 1..Len(disks) /\ Len(disks) \in Nat
        BY <2>3
      <4> QED
        BY <3>2, <4>1, <4>2
    <3> QED
      BY <2>1, <3>1, <3>2
  <2>8. Types'
    <3>1. \A k \in DOMAIN disks' : disks'[k].index # Unset \/ disks'[k].id # Unset
      <4> SUFFICES ASSUME NEW k \in DOMAIN disks
                   PROVE  disks'[k].index # Unset \/ disks'[k].id # Unset
        BY <2>7
      <4>1. disks[k] \in DiskType /\ (disks[k].index # Unset \/ disks[k].id # Unset)
        BY <2>3
      <4>2. With(disks[k]).index = disks[k].index /\ With(disks[k]).id = disks[k].id
        BY <2>5, <4>1
      <4> QED
        BY <2>7, <4>1, <4>2
    <3> QED
      BY <2>1, <2>7, <3>1, DisksStep DEF Classes
  <2>9. Joined'
    <3>1. \A e : (Own(e)' <=> Own(e)) /\ (Associated(e)' <=> Associated(e))
      BY <2>1, <2>2, TrueStill, AssociatedStill
    <3>2. \A k \in DOMAIN disks : Own(disks'[k]) /\ Associated(disks'[k])
      BY <2>3, <2>6, <2>7 DEF StorageInv, Joined
    <3> QED
      BY <2>7, <3>1, <3>2 DEF Joined
  <2>10. Control'
    BY <2>2 DEF Control
  <2>11. Remains
    <3>1. \A k \in DOMAIN disks : \A i \in DOMAIN disks[k].partitions :
            /\ disks[k].partitions[i].volumes = {} /\ disks[k].partitions[i] \in PartitionType
      BY <1>0, <2>3 DEF StorageInv, Control, DiskType
    <3>2. ASSUME NEW k \in DOMAIN disks
          PROVE  /\ disks'[k].device = disks[k].device /\ disks'[k].id = disks[k].id
                 /\ disks'[k].serial = disks[k].serial
                 /\ \A p \in ToSet(disks[k].partitions) : \E q \in ToSet(disks'[k].partitions) :
                      q.id = p.id /\ q.device = p.device /\ p.volumes \subseteq q.volumes
      <4>1. CASE disks'[k] = disks[k]
        BY <4>1
      <4>2. CASE disks'[k] = With(disks[k])
        <5> DEFINE e == disks[k]
        <5>1. e \in DiskType /\ e.partitions \in Seq(PartitionType)
          BY <2>3 DEF DiskType
        <5>2. With(e).device = e.device /\ With(e).id = e.id /\ With(e).serial = e.serial
              /\ With(e).partitions = [i \in DOMAIN e.partitions |-> WithVolumes(e.partitions[i])]
          BY <2>5, <5>1
        <5>3. ASSUME NEW i \in DOMAIN e.partitions
              PROVE  LET p == e.partitions[i]
                         q == With(e).partitions[i]
                     IN  q.id = p.id /\ q.device = p.device /\ p.volumes \subseteq q.volumes
          <6>1. e.partitions[i] \in PartitionType /\ e.partitions[i].volumes = {}
            BY <3>1
          <6>2. With(e).partitions[i] = WithVolumes(e.partitions[i])
            BY <5>2
          <6> QED
            BY <2>4, <6>1, <6>2
        <5>4. DOMAIN With(e).partitions = DOMAIN e.partitions
          BY <5>2
        <5> HIDE DEF e
        <5>5. \A p \in ToSet(e.partitions) : \E q \in ToSet(With(e).partitions) :
                 q.id = p.id /\ q.device = p.device /\ p.volumes \subseteq q.volumes
          BY <5>3, <5>4 DEF ToSet
        <5> QED
          BY <4>2, <5>2, <5>5 DEF e
      <4> QED
        BY <2>7, <4>1, <4>2
    <3> QED
      BY <2>7, <3>2, RemainsPlacewise
  <2> QED
    BY <2>8, <2>9, <2>10, <2>11 DEF StorageInv
<1> QED
  BY <1>1, <1>2

LEMMA RowsFacts ==
  ASSUME Types, NEW rs \in Rows
  PROVE  rs \in Seq(Plugged)
<1> DEFINE n == Cardinality(Plugged)
<1>1. Plugged \subseteq Devices
  BY DEF Plugged, Types
<1>2. n \in Nat
  BY <1>1, WindowsAssumption, FS_Subset, FS_CardinalityType
<1>3. rs \in [1..n -> Plugged]
  BY DEF Rows, SetToSeqs
<1> HIDE DEF n
<1> QED
  BY <1>2, <1>3

\* Both loops over the rows of the MSFT classes.
LEMMA EnrichStep ==
  ASSUME StorageInv, NEW class, NEW next, NEW rs \in Rows,
         Proceed(next), UNCHANGED associations, disks' = Enriched(class, rs),
         next \in {"MSFT_PhysicalDisk", "sort"}
  PROVE  StorageInv' /\ Remains
<1>1. AllComplete(disks, disks')
  BY RowsFacts, EnrichedCompletes DEF StorageInv
<1>2. /\ disks' \in Seq(DiskType) /\ DOMAIN disks' = DOMAIN disks
      /\ \A k \in DOMAIN disks : Completes(disks[k], disks'[k])
  BY <1>1 DEF AllComplete
<1>3. /\ phase' = next /\ UNCHANGED <<machine, slot, numbered, letter, named, events, failed, associations>>
  BY DEF Proceed, world
<1>4. Types'
  <2>1. \A k \in DOMAIN disks' : disks'[k].index # Unset \/ disks'[k].id # Unset
    BY <1>2 DEF Completes, StorageInv, Types, StorageTypeOK
  <2> QED
    BY <1>2, <2>1, DisksStep DEF Classes
<1>5. Joined'
  <2>1. \A e : (Own(e)' <=> Own(e)) /\ (Associated(e)' <=> Associated(e))
    BY <1>3, TrueStill, AssociatedStill
  <2>2. ASSUME NEW k \in DOMAIN disks
        PROVE  Own(disks'[k]) /\ Associated(disks'[k])
    <3>1. Own(disks[k]) /\ Associated(disks[k])
      BY DEF StorageInv, Joined
    <3>2. Completes(disks[k], disks'[k])
      BY <1>2
    <3>3. \A n, l : Lies(disks'[k], n, l) <=> Lies(disks[k], n, l)
      BY <3>2 DEF Completes, Lies, Had
    <3> QED
      BY <3>1, <3>2, <3>3 DEF Completes, Associated
  <2> QED
    BY <1>2, <2>1, <2>2 DEF Joined
<1>6. Control'
  BY <1>3 DEF Control
<1>7. Remains
  <2>1. ASSUME NEW k \in DOMAIN disks
        PROVE  /\ disks'[k].device = disks[k].device
               /\ disks'[k].id = disks[k].id \/ disks[k].id = Unset
               /\ disks'[k].serial = disks[k].serial \/ disks[k].serial = 0
               /\ disks'[k].partitions = disks[k].partitions
    BY <1>2 DEF Completes
  <2> QED
    BY <1>2, <2>1, RemainsPlacewise
<1> QED
  BY <1>4, <1>5, <1>6, <1>7 DEF StorageInv

LEMMA QueryMSFTDisksStep ==
  ASSUME StorageInv, QueryMSFTDisks
  PROVE  StorageInv' /\ Remains
<1>0. phase = "MSFT_Disk"
  BY DEF QueryMSFTDisks
<1>1. CASE Fail("MSFT_PhysicalDisk")
  BY <1>0, <1>1, FailStep DEF Classes
<1>2. CASE ~Fail("MSFT_PhysicalDisk")
  BY <1>2, EnrichStep DEF QueryMSFTDisks
<1> QED
  BY <1>1, <1>2

LEMMA QueryPhysicalDisksStep ==
  ASSUME StorageInv, QueryPhysicalDisks
  PROVE  StorageInv' /\ Remains
<1>0. phase = "MSFT_PhysicalDisk"
  BY DEF QueryPhysicalDisks
<1>1. CASE Fail("sort")
  BY <1>0, <1>1, FailStep DEF Classes
<1>2. CASE ~Fail("sort")
  BY <1>2, EnrichStep DEF QueryPhysicalDisks
<1> QED
  BY <1>1, <1>2

\* In the end disks and partitions only change places.
LEMMA SortStep ==
  ASSUME StorageInv, Sort
  PROVE  StorageInv' /\ Remains
<1> DEFINE With(e) == [e EXCEPT !.partitions = Sorted(@)]
           n == Len(disks)
<1>1. PICK order \in SetToSeqs(DOMAIN disks) :
        disks' = [k \in DOMAIN order |-> With(disks[order[k]])]
  BY DEF Sort
<1>2. /\ phase' = "done" /\ Proceed("done") /\ UNCHANGED associations
      /\ UNCHANGED <<machine, slot, numbered, letter, named, events, failed, associations>>
  BY DEF Sort, Proceed, world
<1>3. /\ disks \in Seq(DiskType) /\ n \in Nat /\ DOMAIN disks = 1..n
      /\ \A k \in DOMAIN disks : disks[k] \in DiskType
                                 /\ (disks[k].index # Unset \/ disks[k].id # Unset)
  BY DEF StorageInv, Types, StorageTypeOK
<1>4. /\ order \in [1..n -> 1..n]
      /\ \A k \in 1..n : \E i \in 1..n : order[i] = k
  <2>1. Cardinality(1..n) = n
    BY <1>3, FS_Interval, SMTT(40)
  <2>2. order \in [1..n -> 1..n] /\ \A i, j \in 1..n : i # j => order[i] # order[j]
    BY <1>3, <2>1 DEF SetToSeqs
  <2>3. \A i, j \in 1..n : i < j => order[i] # order[j]
    BY <1>3, <2>2
  <2> QED
    BY <1>3, <2>2, <2>3, PlacesOnto
<1>5. ASSUME NEW e \in DiskType
      PROVE  /\ With(e) \in DiskType
             /\ With(e).device = e.device /\ With(e).index = e.index /\ With(e).id = e.id
             /\ With(e).serial = e.serial /\ With(e).bus = e.bus /\ With(e).media = e.media
             /\ With(e).partitions = Sorted(e.partitions)
             /\ DOMAIN With(e).partitions = DOMAIN e.partitions
             /\ \A i \in DOMAIN e.partitions : \E j \in DOMAIN e.partitions :
                  With(e).partitions[i] = e.partitions[j]
             /\ \A j \in DOMAIN e.partitions : \E i \in DOMAIN e.partitions :
                  With(e).partitions[i] = e.partitions[j]
  <2>1. e.partitions \in Seq(PartitionType)
    BY DEF DiskType
  <2>2. With(e).partitions = Sorted(e.partitions)
    BY DEF DiskType
  <2>3. /\ With(e) \in DiskType
        /\ With(e).device = e.device /\ With(e).index = e.index /\ With(e).id = e.id
        /\ With(e).serial = e.serial /\ With(e).bus = e.bus /\ With(e).media = e.media
    BY <2>1, SortedFacts DEF DiskType
  <2> HIDE DEF With
  <2> QED
    BY <2>1, <2>2, <2>3, SortedFacts
<1>6. ASSUME NEW e \in DiskType, Own(e), Associated(e)
      PROVE  Own(With(e)) /\ Associated(With(e))
  <2> DEFINE f == With(e)
  <2>1. /\ f.device = e.device /\ f.index = e.index /\ f.id = e.id
        /\ f.serial = e.serial /\ f.bus = e.bus /\ f.media = e.media
        /\ DOMAIN f.partitions = DOMAIN e.partitions
        /\ \A i \in DOMAIN e.partitions : \E j \in DOMAIN e.partitions :
             f.partitions[i] = e.partitions[j]
    BY <1>5
  <2> HIDE DEF f
  <2>2. Had(f) = Had(e) /\ \A m, l : Lies(f, m, l) <=> Lies(e, m, l)
    BY <2>1 DEF Had, Lies
  <2>3. Own(f)
    BY <1>6, <2>1, <2>2 DEF Own
  <2>4. Associated(f)
    BY <1>6, <2>1, <2>2 DEF Associated
  <2> QED
    BY <2>3, <2>4 DEF f
<1> HIDE DEF With, n
<1>7. DOMAIN order = 1..n /\ disks' = [k \in 1..n |-> With(disks[order[k]])]
      /\ \A k \in 1..n : order[k] \in DOMAIN disks /\ disks[order[k]] \in DiskType
  BY <1>1, <1>3, <1>4
<1>8. disks' \in Seq(DiskType) /\ DOMAIN disks' = 1..n
  <2>1. \A k \in 1..n : With(disks[order[k]]) \in DiskType
    BY <1>5, <1>7
  <2> QED
    BY <1>3, <1>7, <2>1
<1>9. Types'
  <2>1. \A k \in DOMAIN disks' : disks'[k].index # Unset \/ disks'[k].id # Unset
    BY <1>3, <1>5, <1>7, <1>8
  <2> QED
    BY <1>2, <1>8, <2>1, DisksStep
<1>10. Joined'
  <2>1. \A e : (Own(e)' <=> Own(e)) /\ (Associated(e)' <=> Associated(e))
    BY <1>2, TrueStill, AssociatedStill
  <2>2. ASSUME NEW k \in 1..n
        PROVE  Own(disks'[k]) /\ Associated(disks'[k])
    <3>1. LET e == disks[order[k]] IN Own(e) /\ Associated(e)
      BY <1>7 DEF StorageInv, Joined
    <3> QED
      BY <1>6, <1>7, <3>1
  <2> QED
    BY <1>8, <2>1, <2>2 DEF Joined
<1>11. Control'
  BY <1>2 DEF Control
<1>12. Remains
  <2> SUFFICES ASSUME NEW e \in ToSet(disks)
               PROVE  \E f \in ToSet(disks') :
                        /\ f.device = e.device
                        /\ f.id = e.id \/ e.id = Unset
                        /\ f.serial = e.serial \/ e.serial = 0
                        /\ \A p \in ToSet(e.partitions) : \E q \in ToSet(f.partitions) :
                             q.id = p.id /\ q.device = p.device /\ p.volumes \subseteq q.volumes
    BY DEF Remains
  <2>1. PICK i \in 1..n : e = disks[order[i]] /\ e \in DiskType
    BY <1>3, <1>4, <1>7 DEF ToSet
  <2>2. disks'[i] \in ToSet(disks') /\ disks'[i] = With(e)
    BY <1>7, <1>8, <2>1 DEF ToSet
  <2>3. \A p \in ToSet(e.partitions) : \E q \in ToSet(With(e).partitions) : q = p
    <3> DEFINE f == With(e)
    <3>1. /\ DOMAIN f.partitions = DOMAIN e.partitions
          /\ \A j \in DOMAIN e.partitions : \E l \in DOMAIN e.partitions :
               f.partitions[l] = e.partitions[j]
      BY <1>5, <2>1
    <3> HIDE DEF f
    <3>2. \A p \in ToSet(e.partitions) : \E q \in ToSet(f.partitions) : q = p
      BY <3>1 DEF ToSet
    <3> QED
      BY <3>2 DEF f
  <2>4. With(e).device = e.device /\ With(e).id = e.id /\ With(e).serial = e.serial
    BY <1>5, <2>1
  <2> QED
    BY <2>2, <2>3, <2>4
<1> QED
  BY <1>9, <1>10, <1>11, <1>12 DEF StorageInv

LEMMA StorageStep ==
  ASSUME StorageInv, HotPlug \/ Relabel \/ Collect
  PROVE  StorageInv' /\ Remains
BY HotPlugStep, RelabelStep, QueryDiskDrivesStep, QueryPartitionsStep, QueryAssociationsStep,
   QueryLogicalDisksStep, QueryMSFTDisksStep, QueryPhysicalDisksStep, SortStep DEF Collect

LEMMA StorageStutters ==
  ASSUME StorageInv, UNCHANGED storageVars
  PROVE  StorageInv' /\ Remains
<1>1. /\ UNCHANGED <<machine, slot, numbered, letter, named, events, phase, failed, disks, associations>>
  BY DEF storageVars, world, collector
<1>2. Types' /\ Control'
  BY <1>1 DEF StorageInv, Types, StorageTypeOK, Plugged, Control
<1>3. Joined'
  BY <1>1, JoinedWidens
<1> QED
  BY <1>1, <1>2, <1>3, RemainsUnchanged DEF StorageInv

-------------------------------------------------------------------------------
LEMMA SystemClassesFacts ==
  /\ DOMAIN SystemClasses = 1..5 /\ Len(SystemClasses) = 5
  /\ \A i \in 1..5 : SystemClasses[i] \in ToSet(SystemClasses) /\ SystemClasses[i] \in OtherClasses
  /\ \A i \in 1..5 : Place[SystemClasses[i]] = i
  /\ \A i, j \in 1..5 : SystemClasses[i] = SystemClasses[j] => i = j
<1>1. DOMAIN SystemClasses = 1..5 /\ Len(SystemClasses) = 5
  BY DEF SystemClasses
<1>2. \A i \in 1..5 : SystemClasses[i] \in ToSet(SystemClasses)
  BY <1>1 DEF ToSet
<1>3. \A i \in 1..5 : Place[SystemClasses[i]] = i
  <2>1. \A i \in 1..5 : i = 1 \/ i = 2 \/ i = 3 \/ i = 4 \/ i = 5
    OBVIOUS
  <2> QED
    BY <2>1 DEF SystemClasses, Place
<1> QED
  BY <1>1, <1>2, <1>3 DEF OtherClasses

LEMMA Places ==
  /\ \A c \in OtherClasses \cup {"disks", "done"} : Place[c] \in 1..11
  /\ \A c, d \in OtherClasses \cup {"disks", "done"} : Place[c] = Place[d] => c = d
  /\ \A c \in OtherClasses : Place[c] < 11 /\ Place[c] # 8
  /\ \A c \in ToSet(SystemClasses) : Place[c] < 6
  /\ Place["Win32_PhysicalMemory"] = 6 /\ Place["Win32_Processor"] = 7 /\ Place["disks"] = 8
  /\ Place["Win32_NetworkAdapter"] = 9 /\ Place["Win32_VideoController"] = 10
  /\ Place["done"] = 11
<1>1. \A c : c \in ToSet(SystemClasses) <=>
         c \in {"Win32_ComputerSystem", "Win32_ComputerSystemProduct", "Win32_SystemEnclosure",
                "Win32_BaseBoard", "Win32_BIOS"}
  <2>1. \A i : i \in 1..5 <=> i = 1 \/ i = 2 \/ i = 3 \/ i = 4 \/ i = 5
    OBVIOUS
  <2>2. DOMAIN SystemClasses = 1..5
    BY SystemClassesFacts
  <2> QED
    BY <2>1, <2>2 DEF ToSet, SystemClasses
<1> QED
  BY <1>1 DEF OtherClasses, EntityClasses, Place

\* An answer is what will be known of the class.
LEMMA AnsweredFacts ==
  ASSUME Sections, NEW class \in OtherClasses, NEW next, NEW a \in Answer(class),
         Answered(class, a[1], next),
         next \in OtherClasses \cup {"disks", "done"}, Place[next] = Place[class] + 1
  PROVE  /\ ~Asked(class)
         /\ \A c \in OtherClasses : Asked(c)' <=> Asked(c) \/ c = class
         /\ a[2] = Available(class)'
         /\ \A c \in OtherClasses : c # class => Available(c)' = Available(c)
         /\ unanswered' \subseteq OtherClasses \ machine.reliable
         /\ \A c \in unanswered' : Asked(c)'
         /\ UNCHANGED <<machine, rows>> /\ UNCHANGED storageVars
         /\ section' = next
<1>1. /\ section' = next /\ (section = class \/ (section = "disks" /\ class = "Win32_NetworkAdapter"))
      /\ unanswered' = IF a[1] THEN unanswered \cup {class} ELSE unanswered
      /\ UNCHANGED <<machine, rows>> /\ UNCHANGED storageVars
  BY DEF Answered, Turn, storageVars, world
<1>2. section \in OtherClasses \cup {"disks", "done"}
      /\ unanswered \subseteq OtherClasses \ machine.reliable
  BY DEF Sections, TypeOK
<1>3. /\ ~Asked(class)
      /\ \A c \in OtherClasses : Asked(c)' <=> Asked(c) \/ c = class
  <2>1. \A c \in OtherClasses : Place[c] \in Int /\ Place[c] # 8 /\ (Place[c] = Place[class] => c = class)
    BY Places
  <2>2. Place[section] = Place[class] \/ (Place[section] = 8 /\ Place[class] = 9)
    BY <1>1, Places
  <2>3. Place[section'] = Place[class] + 1
    BY <1>1
  <2>4. Place[class] \in Int
    BY <2>1
  <2> QED
    BY <2>1, <2>2, <2>3, <2>4 DEF Asked
<1>4. class \notin unanswered
  BY <1>3 DEF Sections
<1>5. /\ a[1] \in BOOLEAN
      /\ a[1] => a[2] = << >> /\ class \notin machine.reliable
      /\ ~a[1] => a[2] = rows[class]
  <2>1. a = <<FALSE, rows[class]>> \/ (a = <<TRUE, << >> >> /\ class \notin machine.reliable)
    BY DEF Answer
  <2>2. CASE a = <<FALSE, rows[class]>>
    BY <2>2
  <2>3. CASE a = <<TRUE, << >> >> /\ class \notin machine.reliable
    BY <2>3
  <2> QED
    BY <2>1, <2>2, <2>3
<1>6. a[2] = Available(class)'
  BY <1>1, <1>4, <1>5 DEF Available
<1>7. \A c \in OtherClasses : c # class => Available(c)' = Available(c)
  BY <1>1 DEF Available
<1>8. unanswered' \subseteq OtherClasses \ machine.reliable
  BY <1>1, <1>2, <1>5
<1>9. \A c \in unanswered' : Asked(c)'
  BY <1>1, <1>2, <1>3 DEF Sections
<1> QED
  BY <1>1, <1>3, <1>6, <1>7, <1>8, <1>9

\* A later answer does not change what the system's classes told.
LEMMA ToldStays ==
  ASSUME \A c \in ToSet(SystemClasses) :
           Available(c)' = Available(c) /\ (Asked(c)' <=> Asked(c)),
         UNCHANGED <<rows, system, installed>>, SystemShown
  PROVE  SystemShown' /\ \A k : Telling(k)' = Telling(k)
<1>1. \A i \in DOMAIN SystemClasses : SystemClasses[i] \in ToSet(SystemClasses)
  BY DEF ToSet
<1>2. \A k : Telling(k)' = Telling(k)
  BY <1>1 DEF Telling
<1>3. \A k : Told(k)' = Told(k)
  BY <1>1, <1>2 DEF Told, Telling
<1>4. Keys' = Keys
  BY DEF Keys
<1> QED
  BY <1>2, <1>3, <1>4 DEF SystemShown

\* What is shown of a section stays true when other classes answer.
LEMMA MemoryStays ==
  ASSUME MemoryShown, UNCHANGED memory, \A k : Telling(k)' = Telling(k),
         Available("Win32_PhysicalMemory")' = Available("Win32_PhysicalMemory"),
         Asked("Win32_PhysicalMemory")' <=> Asked("Win32_PhysicalMemory")
  PROVE  MemoryShown'
BY DEF MemoryShown

LEMMA KeysFacts ==
  \A k : k \in Keys <=>
           k # "total" /\ k \in UNION {UNION ToSet(rows[c]) : c \in ToSet(SystemClasses)}
<1> DEFINE all == UNION {UNION ToSet(rows[c]) : c \in ToSet(SystemClasses)}
<1>1. Keys = all \ {"total"}
  BY DEF Keys
<1> HIDE DEF all
<1>2. \A k : k \in Keys <=> k # "total" /\ k \in all
  BY <1>1
<1> QED
  BY <1>2 DEF all

LEMMA QuerySystemStep ==
  ASSUME Shown, QuerySystem
  PROVE  Shown' /\ UNCHANGED storageVars
<1>0. PICK i \in DOMAIN SystemClasses : \E a \in Answer(SystemClasses[i]) :
        /\ Answered(SystemClasses[i], a[1],
                    IF i = Len(SystemClasses) THEN "Win32_PhysicalMemory" ELSE SystemClasses[i + 1])
        /\ LET row == IF a[2] = << >> THEN {} ELSE a[2][1]
           IN  /\ system' = [k \in DOMAIN system \cup (row \ {"total"}) |->
                               IF k \in DOMAIN system THEN system[k] ELSE SystemClasses[i]]
               /\ installed' = (installed \/ "total" \in row)
        /\ UNCHANGED <<memory, entities>>
  BY DEF QuerySystem
<1>1. PICK a \in Answer(SystemClasses[i]) :
        /\ Answered(SystemClasses[i], a[1],
                    IF i = Len(SystemClasses) THEN "Win32_PhysicalMemory" ELSE SystemClasses[i + 1])
        /\ LET row == IF a[2] = << >> THEN {} ELSE a[2][1]
           IN  /\ system' = [k \in DOMAIN system \cup (row \ {"total"}) |->
                               IF k \in DOMAIN system THEN system[k] ELSE SystemClasses[i]]
               /\ installed' = (installed \/ "total" \in row)
        /\ UNCHANGED <<memory, entities>>
  BY <1>0
<1> DEFINE class == SystemClasses[i]
           next == IF i = Len(SystemClasses) THEN "Win32_PhysicalMemory" ELSE SystemClasses[i + 1]
           row == IF a[2] = << >> THEN {} ELSE a[2][1]
<1>2. i \in 1..5 /\ class \in OtherClasses /\ class \in ToSet(SystemClasses) /\ Place[class] = i
  BY SystemClassesFacts
<1>3. next \in OtherClasses \cup {"disks", "done"} /\ Place[next] = Place[class] + 1
  <2>1. CASE i = 5
    BY <1>2, <2>1, SystemClassesFacts, Places DEF OtherClasses
  <2>2. CASE i # 5
    <3>1. i + 1 \in 1..5
      BY <1>2, <2>2
    <3> QED
      BY <1>2, <2>2, <3>1, SystemClassesFacts
  <2> QED
    BY <2>1, <2>2
<1>4. Answered(class, a[1], next)
  BY <1>1
<1> HIDE DEF next
<1>5. /\ ~Asked(class)
      /\ \A c \in OtherClasses : Asked(c)' <=> Asked(c) \/ c = class
      /\ a[2] = Available(class)'
      /\ \A c \in OtherClasses : c # class => Available(c)' = Available(c)
      /\ unanswered' \subseteq OtherClasses \ machine.reliable
      /\ \A c \in unanswered' : Asked(c)'
      /\ UNCHANGED <<machine, rows>> /\ UNCHANGED storageVars
      /\ section' = next
  BY <1>2, <1>3, <1>4, AnsweredFacts DEF Shown
<1>6. /\ system' = [k \in DOMAIN system \cup (row \ {"total"}) |->
                      IF k \in DOMAIN system THEN system[k] ELSE class]
      /\ installed' = (installed \/ "total" \in row)
      /\ UNCHANGED <<memory, entities>>
  BY <1>1
<1>7. \A k : i \in Telling(k)' <=> k \in row
  BY <1>2, <1>5, SystemClassesFacts DEF Telling
<1> HIDE DEF row, class
<1>8. \A k : \A j \in 1..5 : j # i => (j \in Telling(k)' <=> j \in Telling(k))
  <2>1. \A j \in 1..5 : j # i => Available(SystemClasses[j])' = Available(SystemClasses[j])
    BY <1>2, <1>5, SystemClassesFacts DEF class
  <2> QED
    BY <2>1, SystemClassesFacts DEF Telling
<1>9. \A k : Told(k)' = Told(k) \cup (IF k \in row THEN {i} ELSE {})
  <2> SUFFICES ASSUME NEW k
               PROVE  Told(k)' = Told(k) \cup (IF k \in row THEN {i} ELSE {})
    OBVIOUS
  <2>1. /\ Told(k) \subseteq 1..5 /\ Told(k)' \subseteq 1..5 /\ i \notin Told(k)
    BY <1>2, <1>5, SystemClassesFacts DEF Told, Telling, class
  <2>2. i \in Told(k)' <=> k \in row
    BY <1>2, <1>5, <1>7 DEF Told, class
  <2>3. \A j \in 1..5 : j # i => (j \in Told(k)' <=> j \in Told(k))
    <3> SUFFICES ASSUME NEW j \in 1..5, j # i
                 PROVE  j \in Told(k)' <=> j \in Told(k)
      OBVIOUS
    <3>1. SystemClasses[j] \in OtherClasses /\ SystemClasses[j] # class
      BY <1>2, SystemClassesFacts DEF class
    <3>2. Asked(SystemClasses[j])' <=> Asked(SystemClasses[j])
      BY <1>5, <3>1
    <3> QED
      BY <1>8, <3>2 DEF Told
  <2> QED
    BY <1>2, <2>1, <2>2, <2>3
<1>10. \A k : \A j \in Told(k) : j \in 1..5 /\ j < i
  <2> SUFFICES ASSUME NEW k, NEW j \in Told(k)
               PROVE  j \in 1..5 /\ j < i
    OBVIOUS
  <2>1. j \in 1..5 /\ Asked(SystemClasses[j])
    BY SystemClassesFacts DEF Told, Telling
  <2>2. Place[section] = i
    <3>1. section = class \/ (section = "disks" /\ class = "Win32_NetworkAdapter")
      BY <1>4 DEF Answered, Turn
    <3>2. class # "Win32_NetworkAdapter"
      BY <1>2, Places
    <3> QED
      BY <1>2, <3>1, <3>2
  <2> QED
    BY <2>1, <2>2, SystemClassesFacts DEF Asked
<1>11. SystemShown'
  <2>0. /\ DOMAIN system = {k \in Keys : Told(k) # {}} /\ Keys' = Keys
        /\ \A k \in DOMAIN system : \E j \in Told(k) :
             system[k] = SystemClasses[j] /\ \A l \in Told(k) : j <= l
        /\ installed <=> Told("total") # {}
    <3>1. Keys' = Keys
      BY <1>5 DEF Keys
    <3> QED
      BY <3>1 DEF Shown, SystemShown
  <2>1. row \ {"total"} \subseteq Keys
    <3>1. CASE a[2] = << >>
      BY <3>1 DEF row
    <3>2. CASE a[2] # << >>
      <4>1. a[2] = rows[class] /\ rows[class] \in Seq(SUBSET STRING)
        BY <1>2, <1>5, <3>2 DEF Available, Shown, Sections
      <4>2. rows[class][1] \in ToSet(rows[class])
        <5>1. Len(rows[class]) \in Nat /\ Len(rows[class]) # 0 /\ DOMAIN rows[class] = 1..Len(rows[class])
          BY <3>2, <4>1
        <5> QED
          BY <5>1 DEF ToSet
      <4>3. row \in ToSet(rows[class])
        BY <3>2, <4>1, <4>2 DEF row
      <4>4. \A k : k \in row => k \in UNION ToSet(rows[class])
        BY <4>3
      <4>5. UNION ToSet(rows[class]) \in {UNION ToSet(rows[c]) : c \in ToSet(SystemClasses)}
        BY <1>2
      <4>6. \A k : k \in row => k \in UNION {UNION ToSet(rows[c]) : c \in ToSet(SystemClasses)}
        BY <4>4, <4>5
      <4> QED
        BY <4>6, KeysFacts
    <3> QED
      BY <3>1, <3>2
  <2>2. DOMAIN system' = {k \in Keys' : Told(k)' # {}}
    <3>1. DOMAIN system' = DOMAIN system \cup (row \ {"total"})
      BY <1>6
    <3>2. \A k : Told(k)' # {} <=> Told(k) # {} \/ k \in row
      BY <1>9
    <3>3. "total" \notin Keys
      BY KeysFacts
    <3>4. \A k : k \in DOMAIN system' <=> k \in Keys' /\ Told(k)' # {}
      BY <2>0, <2>1, <3>1, <3>2, <3>3
    <3> QED
      BY <3>4
  <2>3. ASSUME NEW k \in DOMAIN system'
        PROVE  \E j \in Told(k)' : system'[k] = SystemClasses[j] /\ \A l \in Told(k)' : j <= l
    <3>1. CASE k \in DOMAIN system
      <4>1. PICK j \in Told(k) : system[k] = SystemClasses[j] /\ \A l \in Told(k) : j <= l
        BY <2>0, <3>1
      <4>2. j < i /\ i \in Int /\ j \in Int /\ j <= i
        BY <1>2, <1>10, <4>1
      <4>3. system'[k] = system[k]
        BY <1>6, <3>1
      <4> QED
        BY <1>9, <4>1, <4>2, <4>3
    <3>2. CASE k \notin DOMAIN system
      <4>1. k \in row /\ k \in Keys /\ system'[k] = class
        BY <1>6, <2>1, <3>2
      <4>2. Told(k) = {} /\ Told(k)' = {i}
        BY <1>9, <2>0, <3>2, <4>1
      <4>3. system'[k] = SystemClasses[i]
        BY <4>1 DEF class
      <4>4. i <= i
        BY <1>2
      <4> QED
        BY <4>2, <4>3, <4>4
    <3> QED
      BY <3>1, <3>2
  <2>4. installed' <=> Told("total")' # {}
    BY <1>6, <1>9, <2>0
  <2> QED
    BY <2>2, <2>3, <2>4 DEF SystemShown
<1>12. /\ "Win32_PhysicalMemory" \in OtherClasses /\ "Win32_PhysicalMemory" # class
       /\ EntityClasses \subseteq OtherClasses /\ \A c \in EntityClasses : c # class
  <2>1. Place[class] < 6
    BY <1>2, Places
  <2> QED
    BY <1>2, <2>1, Places DEF OtherClasses, EntityClasses
<1>13. MemoryShown'
  \* The memory has not been asked for yet.
  <2>1. ~Asked("Win32_PhysicalMemory")
    <3>1. section = class \/ (section = "disks" /\ class = "Win32_NetworkAdapter")
      BY <1>4 DEF Answered, Turn
    <3>2. class # "Win32_NetworkAdapter"
      BY <1>2, Places
    <3> QED
      BY <1>2, <3>1, <3>2, Places DEF Asked
  <2>2. ~Asked("Win32_PhysicalMemory")'
    BY <1>5, <1>12, <2>1
  <2> QED
    BY <2>2 DEF MemoryShown
<1>14. EntitiesShown'
  <2>1. \A c \in EntityClasses : (Asked(c)' <=> Asked(c)) /\ Available(c)' = Available(c)
    BY <1>5, <1>12
  <2> QED
    BY <1>6, <2>1 DEF Shown, EntitiesShown
<1>15. Sections'
  <2>1. StorageTypeOK'
    <3>1. UNCHANGED <<machine, slot, numbered, letter, named, events, phase, failed, disks>>
      BY <1>5 DEF storageVars, world, collector
    <3> QED
      BY <3>1 DEF Shown, Sections, TypeOK, StorageTypeOK, Plugged
  <2>2. \A k \in DOMAIN system' : system'[k] \in ToSet(SystemClasses)
    BY <1>2, <1>6 DEF Shown, Sections, TypeOK
  <2>3. installed' \in BOOLEAN
    BY <1>6
  <2>4. section' \in OtherClasses \cup {"disks", "done"}
    BY <1>3, <1>5
  <2> QED
    BY <1>5, <1>6, <2>1, <2>2, <2>3, <2>4 DEF Shown, Sections, TypeOK
<1> QED
  BY <1>5, <1>11, <1>13, <1>14, <1>15 DEF Shown

\* The types of what an answer leaves alone.
LEMMA SectionsStep ==
  ASSUME Sections, UNCHANGED storageVars, UNCHANGED <<rows, system, installed>>,
         section' \in OtherClasses \cup {"disks", "done"},
         unanswered' \subseteq OtherClasses \ machine.reliable,
         \A c \in unanswered' : Asked(c)',
         Len(memory') <= 1, DOMAIN entities' = EntityClasses,
         \A c \in EntityClasses : \A e \in entities'[c] : e.row \in DOMAIN rows[c]
  PROVE  Sections'
<1>1. UNCHANGED <<machine, slot, numbered, letter, named, events, phase, failed, disks>>
  BY DEF storageVars, world, collector
<1>2. StorageTypeOK'
  BY <1>1 DEF Sections, TypeOK, StorageTypeOK, Plugged
<1> QED
  BY <1>1, <1>2 DEF Sections, TypeOK

LEMMA QueryMemoryStep ==
  ASSUME Shown, QueryMemory
  PROVE  Shown' /\ UNCHANGED storageVars
<1> DEFINE class == "Win32_PhysicalMemory"
<1>1. PICK a \in Answer(class) :
        /\ Answered(class, a[1], "Win32_Processor")
        /\ memory' = Memory(a[1], a[2])
        /\ UNCHANGED <<system, installed, entities>>
  BY DEF QueryMemory
<1>2. class \in OtherClasses /\ Place[class] = 6 /\ Place["Win32_Processor"] = 6 + 1
      /\ "Win32_Processor" \in OtherClasses
  BY Places DEF OtherClasses, EntityClasses
<1>3. /\ ~Asked(class)
      /\ \A c \in OtherClasses : Asked(c)' <=> Asked(c) \/ c = class
      /\ a[2] = Available(class)'
      /\ \A c \in OtherClasses : c # class => Available(c)' = Available(c)
      /\ unanswered' \subseteq OtherClasses \ machine.reliable
      /\ \A c \in unanswered' : Asked(c)'
      /\ UNCHANGED <<machine, rows>> /\ UNCHANGED storageVars
      /\ section' = "Win32_Processor"
  BY <1>1, <1>2, AnsweredFacts DEF Shown
<1>4. /\ \A c \in ToSet(SystemClasses) : c \in OtherClasses /\ c # class
      /\ EntityClasses \subseteq OtherClasses /\ \A c \in EntityClasses : c # class
  BY Places DEF OtherClasses, EntityClasses
<1>5. SystemShown' /\ \A k : Telling(k)' = Telling(k)
  BY <1>1, <1>3, <1>4, ToldStays DEF Shown
<1>6. Told("total")' = Telling("total")'
  \* The system's classes have all been asked.
  <2>1. \A i \in 1..5 : Asked(SystemClasses[i])'
    <3>1. Place[section'] = 7
      BY <1>3, Places
    <3> QED
      BY <3>1, SystemClassesFacts DEF Asked
  <2>2. Telling("total")' \subseteq 1..5
    BY SystemClassesFacts DEF Telling
  <2> QED
    BY <2>1, <2>2 DEF Told
<1>7. MemoryShown' /\ Len(memory') <= 1
  <2> DEFINE modules == {i \in DOMAIN a[2] : a[2][i] # {}}
             total == IF installed THEN "stated"
                      ELSE IF \E i \in DOMAIN a[2] : "capacity" \in a[2][i] THEN "sum" ELSE "none"
  <2>1. memory' = IF total = "none" /\ modules = {} THEN << >>
                  ELSE <<[total |-> total, modules |-> modules]>>
    BY <1>1 DEF Memory
  <2>2. installed <=> Telling("total")' # {}
    BY <1>1, <1>5, <1>6 DEF SystemShown
  <2>3. (\E i \in DOMAIN a[2] : "capacity" \in a[2][i])
          <=> \E i \in modules : "capacity" \in a[2][i]
    OBVIOUS
  <2>4. (\E i \in modules : "capacity" \in a[2][i]) => modules # {}
    OBVIOUS
  <2>5. total = IF Telling("total")' # {} THEN "stated"
                ELSE IF \E i \in modules : "capacity" \in a[2][i] THEN "sum" ELSE "none"
    BY <2>2, <2>3
  <2>6. modules = {i \in DOMAIN Available(class)' : Available(class)'[i] # {}}
    BY <1>3
  <2>7. total = "none" => ~(Telling("total")' # {})
    BY <2>2
  <2>8. total # "none" /\ modules = {} => Telling("total")' # {}
    BY <2>2, <2>3, <2>4
  <2> HIDE DEF total, modules
  <2>9. CASE total = "none" /\ modules = {}
    <3>1. memory' = << >> /\ Telling("total")' = {}
      BY <2>1, <2>7, <2>9
    <3> QED
      BY <2>6, <2>9, <3>1 DEF MemoryShown
  <2>10. CASE ~(total = "none" /\ modules = {})
    <3>1. /\ memory' = <<[total |-> total, modules |-> modules]>> /\ memory' # << >>
          /\ memory'[1].total = total /\ memory'[1].modules = modules /\ Len(memory') = 1
      BY <2>1, <2>10
    <3>2. ~(Telling("total")' = {} /\ modules = {})
      BY <2>8, <2>10
    <3>3. a[2] = Available(class)'
      BY <1>3
    <3> QED
      BY <2>5, <2>6, <3>1, <3>2, <3>3 DEF MemoryShown
  <2> QED
    BY <2>9, <2>10
<1>8. EntitiesShown'
  <2>1. \A c \in EntityClasses : (Asked(c)' <=> Asked(c)) /\ Available(c)' = Available(c)
    BY <1>3, <1>4
  <2> QED
    BY <1>1, <2>1 DEF Shown, EntitiesShown
<1>9. Sections'
  <2>1. UNCHANGED <<rows, system, installed>> /\ DOMAIN entities' = EntityClasses
        /\ \A c \in EntityClasses : \A e \in entities'[c] : e.row \in DOMAIN rows[c]
    BY <1>1, <1>3 DEF Shown, Sections, TypeOK
  <2>2. section' \in OtherClasses \cup {"disks", "done"}
    BY <1>2, <1>3
  <2> QED
    BY <1>3, <1>7, <2>1, <2>2, SectionsStep DEF Shown
<1> QED
  BY <1>3, <1>5, <1>7, <1>8, <1>9 DEF Shown

LEMMA QueryEntitiesStep ==
  ASSUME Shown, QueryEntities
  PROVE  Shown' /\ UNCHANGED storageVars
<1>1. PICK class \in EntityClasses : \E a \in Answer(class) :
        /\ Answered(class, a[1], After[class])
        /\ entities' = [entities EXCEPT ![class] = Entities(class, a[2])]
        /\ UNCHANGED <<system, installed, memory>>
  BY DEF QueryEntities
<1>2. PICK a \in Answer(class) :
        /\ Answered(class, a[1], After[class])
        /\ entities' = [entities EXCEPT ![class] = Entities(class, a[2])]
        /\ UNCHANGED <<system, installed, memory>>
  BY <1>1
<1>3. /\ class \in OtherClasses /\ After[class] \in OtherClasses \cup {"disks", "done"}
      /\ Place[After[class]] = Place[class] + 1
  BY Places DEF OtherClasses, EntityClasses, After
<1>4. /\ ~Asked(class)
      /\ \A c \in OtherClasses : Asked(c)' <=> Asked(c) \/ c = class
      /\ a[2] = Available(class)'
      /\ \A c \in OtherClasses : c # class => Available(c)' = Available(c)
      /\ unanswered' \subseteq OtherClasses \ machine.reliable
      /\ \A c \in unanswered' : Asked(c)'
      /\ UNCHANGED <<machine, rows>> /\ UNCHANGED storageVars
      /\ section' = After[class]
  BY <1>2, <1>3, AnsweredFacts DEF Shown
<1>5. /\ \A c \in ToSet(SystemClasses) \cup {"Win32_PhysicalMemory"} : c \in OtherClasses /\ c # class
      /\ EntityClasses \subseteq OtherClasses
  BY Places DEF OtherClasses, EntityClasses
<1>6. SystemShown' /\ \A k : Telling(k)' = Telling(k)
  BY <1>2, <1>4, <1>5, ToldStays DEF Shown
<1>7. MemoryShown'
  BY <1>2, <1>4, <1>5, <1>6, MemoryStays DEF Shown
<1>8. {e.row : e \in Entities(class, a[2])} =
        {i \in DOMAIN a[2] :
           /\ a[2][i] \cap ToSet(IdProperties[class]) # {}
           /\ "PhysicalAdapter" \in a[2][i] \/ class # "Win32_NetworkAdapter"}
  <2> DEFINE names == IdProperties[class]
             Known(row) == {n \in DOMAIN names : names[n] \in row}
             S == {i \in DOMAIN a[2] : /\ Known(a[2][i]) # {}
                                       /\ class = "Win32_NetworkAdapter" => "PhysicalAdapter" \in a[2][i]}
  <2>1. Entities(class, a[2]) = {[row |-> i, id |-> names[Min(Known(a[2][i]))]] : i \in S}
    BY DEF Entities
  <2>2. \A row : Known(row) # {} <=> row \cap ToSet(names) # {}
    BY DEF ToSet
  <2> HIDE DEF names, Known
  <2>3. {e.row : e \in Entities(class, a[2])} = S
    <3> HIDE DEF S
    <3>1. ASSUME NEW i \in S
          PROVE  \E e \in Entities(class, a[2]) : e.row = i
      <4>1. [row |-> i, id |-> names[Min(Known(a[2][i]))]] \in Entities(class, a[2])
        BY <2>1
      <4> QED
        BY <4>1
    <3>2. ASSUME NEW e \in Entities(class, a[2])
          PROVE  e.row \in S
      <4>1. PICK i \in S : e = [row |-> i, id |-> names[Min(Known(a[2][i]))]]
        BY <2>1
      <4> QED
        BY <4>1
    <3> QED
      BY <3>1, <3>2
  <2>4. \A i : i \in S <=>
          i \in DOMAIN a[2] /\ a[2][i] \cap ToSet(names) # {}
          /\ ("PhysicalAdapter" \in a[2][i] \/ class # "Win32_NetworkAdapter")
    BY <2>2
  <2> HIDE DEF S
  <2> QED
    BY <2>3, <2>4 DEF names
<1>9. EntitiesShown'
  <2> SUFFICES ASSUME NEW c \in EntityClasses, Asked(c)'
               PROVE  {e.row : e \in entities'[c]} =
                        {i \in DOMAIN Available(c)' :
                           /\ Available(c)'[i] \cap ToSet(IdProperties[c]) # {}
                           /\ "PhysicalAdapter" \in Available(c)'[i] \/ c # "Win32_NetworkAdapter"}
    BY DEF EntitiesShown
  <2>1. DOMAIN entities = EntityClasses
    BY DEF Shown, Sections
  <2>2. CASE c = class
    <3>1. entities'[c] = Entities(class, a[2])
      BY <1>2, <2>1, <2>2
    <3> QED
      BY <1>4, <1>8, <2>2, <3>1
  <2>3. CASE c # class
    <3>1. entities'[c] = entities[c] /\ Asked(c) /\ Available(c)' = Available(c)
      BY <1>2, <1>4, <1>5, <2>1, <2>3
    <3> QED
      BY <3>1 DEF Shown, EntitiesShown
  <2> QED
    BY <2>2, <2>3
<1>10. Sections'
  <2>1. a[2] = << >> \/ a[2] = rows[class]
    BY <1>4 DEF Available
  <2>2. ASSUME NEW e \in Entities(class, a[2])
        PROVE  e.row \in DOMAIN rows[class]
    <3>1. e.row \in DOMAIN a[2]
      BY <1>8
    <3> QED
      BY <2>1, <3>1
  <2>3. DOMAIN entities' = EntityClasses
        /\ \A c \in EntityClasses : \A e \in entities'[c] : e.row \in DOMAIN rows[c]
    BY <1>2, <2>2 DEF Shown, Sections, TypeOK
  <2>4. Len(memory') <= 1 /\ UNCHANGED <<rows, system, installed>>
    BY <1>2, <1>4 DEF Shown, Sections, TypeOK
  <2>5. section' \in OtherClasses \cup {"disks", "done"}
    BY <1>3, <1>4
  <2> QED
    BY <1>4, <2>3, <2>4, <2>5, SectionsStep DEF Shown
<1> QED
  BY <1>4, <1>6, <1>7, <1>9, <1>10 DEF Shown

\* The disks do not touch what is shown of the others.
LEMMA DisksKeepShown ==
  ASSUME Shown, UNCHANGED inventoryVars, StorageTypeOK', UNCHANGED machine
  PROVE  Shown'
<1>1. UNCHANGED <<rows, unanswered, section, system, installed, memory, entities>>
  BY DEF inventoryVars
<1>2. \A c : (Asked(c)' <=> Asked(c)) /\ Available(c)' = Available(c)
  BY <1>1 DEF Asked, Available
<1>3. SystemShown' /\ \A k : Telling(k)' = Telling(k)
  BY <1>1, <1>2, ToldStays DEF Shown
<1>4. MemoryShown'
  BY <1>1, <1>2, <1>3, MemoryStays DEF Shown
<1>5. EntitiesShown'
  BY <1>1, <1>2 DEF Shown, EntitiesShown
<1>6. Sections'
  BY <1>1, <1>2 DEF Shown, Sections, TypeOK
<1> QED
  BY <1>3, <1>4, <1>5, <1>6 DEF Shown

-------------------------------------------------------------------------------
LEMMA InitInv ==
  Init => IInv
<1> SUFFICES ASSUME Init
             PROVE  IInv
  OBVIOUS
<1>1. PICK g \in Computers : StorageInit(g.machines, g.over) /\ rows \in g.rows
  BY DEF Init
<1>2. StorageInv
  BY <1>1, InitStorage
<1>3. rows \in [OtherClasses -> Seq(SUBSET STRING)]
  BY <1>1, ComputersAssumption
<1>4. /\ unanswered = {} /\ section = SystemClasses[1] /\ section \in OtherClasses
      /\ system = << >> /\ installed = FALSE /\ memory = << >>
      /\ entities = [c \in EntityClasses |-> {}]
  BY SystemClassesFacts DEF Init
\* No class comes before the first one.
<1>5. \A c \in OtherClasses : ~Asked(c)
  BY <1>4, Places, SystemClassesFacts DEF Asked
<1>6. \A k : Told(k) = {}
  BY <1>5, SystemClassesFacts DEF Told, Telling
<1>7. DOMAIN system = {} /\ Len(memory) <= 1
  BY <1>4
<1>8. SystemShown
  BY <1>4, <1>6, <1>7 DEF SystemShown
<1>9. MemoryShown /\ EntitiesShown
  BY <1>5 DEF MemoryShown, EntitiesShown, OtherClasses
<1>10. Sections
  BY <1>2, <1>3, <1>4, <1>7 DEF Sections, TypeOK, StorageInv, Types
<1> QED
  BY <1>2, <1>8, <1>9, <1>10 DEF IInv, Shown

LEMMA NextInv ==
  ASSUME IInv, [Next]_vars
  PROVE  IInv' /\ [Remains]_storageVars
<1>1. CASE QuerySystem
  BY <1>1, QuerySystemStep, StorageStutters DEF IInv
<1>2. CASE QueryMemory
  BY <1>2, QueryMemoryStep, StorageStutters DEF IInv
<1>3. CASE QueryEntities
  BY <1>3, QueryEntitiesStep, StorageStutters DEF IInv
<1>4. CASE Disks
  <2>1. (HotPlug \/ Relabel \/ Collect) /\ UNCHANGED inventoryVars
    BY <1>4 DEF Disks
  <2>2. StorageInv' /\ Remains
    BY <2>1, StorageStep DEF IInv
  <2>3. UNCHANGED machine
    BY <2>1 DEF HotPlug, Relabel, Assign, Collect, QueryDiskDrives, QueryPartitions, QueryAssociations,
                QueryLogicalDisks, QueryMSFTDisks, QueryPhysicalDisks, Sort, Fail, Proceed, world
  <2>4. StorageTypeOK'
    BY <2>2 DEF StorageInv, Types
  <2> QED
    BY <2>1, <2>2, <2>3, <2>4, DisksKeepShown DEF IInv
<1>5. CASE UNCHANGED vars
  <2>1. UNCHANGED storageVars /\ UNCHANGED inventoryVars /\ UNCHANGED machine
    BY <1>5 DEF vars, inventoryVars, storageVars, world
  <2>2. StorageInv' /\ Remains
    BY <2>1, StorageStutters DEF IInv
  <2>3. StorageTypeOK'
    BY <2>2 DEF StorageInv, Types
  <2> QED
    BY <2>1, <2>2, <2>3, DisksKeepShown DEF IInv
<1> QED
  BY <1>1, <1>2, <1>3, <1>4, <1>5 DEF Next

THEOREM Invariance == Spec => []IInv
<1>1. Init => IInv
  BY InitInv
<1>2. IInv /\ [Next]_vars => IInv'
  BY NextInv
<1> QED
  BY <1>1, <1>2, PTL DEF Spec

\* TypeOK holds of every inventory: rows, sections and disks are what
\* discover_windows.go and its collectors can hold, and a reported disk has an
\* ID or a number.
THEOREM TypeCorrect == Spec => []TypeOK
<1>1. IInv => TypeOK
  BY DEF IInv, Shown, Sections
<1> QED
  BY <1>1, Invariance, PTL

\* Whatever comes, goes, passes on and fails, collectDisks joins no row to a disk
\* but those about a device that had its number, and no volume but those whose
\* letter stood for one on it.
THEOREM JoinsAreRight == Spec => []OneDevice
<1>1. IInv => OneDevice
  BY DEF IInv, StorageInv, Joined, Own, Lies, OneDevice
<1> QED
  BY <1>1, Invariance, PTL

\* No later query takes from a disk what an earlier one found, even when numbers
\* and letters pass on.
THEOREM FoundStays == Spec => BaseRemains
<1>1. IInv /\ [Next]_vars => [Remains]_storageVars
  BY NextInv
<1>2. BaseRemains <=> [][Remains]_storageVars
  BY DEF BaseRemains, Remains
<1> QED
  BY <1>1, <1>2, Invariance, PTL DEF Spec

\* The finished inventory shows what the queries that succeeded tell, of the
\* system, the memory, the processors, the adapters and the GPUs.
THEOREM AvailableShown == Spec => []InventoryShowsTheAvailable
<1>1. ASSUME IInv, section = "done"
      PROVE  InventoryShowsTheAvailable
  <2>1. \A c \in OtherClasses : Asked(c)
    BY <1>1, Places DEF Asked
  <2>2. \A k : Told(k) = Telling(k)
    BY <2>1, SystemClassesFacts DEF Told, Telling
  <2>3. DOMAIN system = {k \in Keys : Telling(k) # {}}
    BY <1>1, <2>2 DEF IInv, Shown, SystemShown
  <2>4. ASSUME NEW k \in DOMAIN system
        PROVE  system[k] = SystemClasses[Min(Telling(k))]
    <3>1. PICK i \in Telling(k) : system[k] = SystemClasses[i] /\ \A j \in Telling(k) : i <= j
      BY <1>1, <2>2 DEF IInv, Shown, SystemShown
    <3>2. Telling(k) \subseteq Int
      BY SystemClassesFacts DEF Telling
    <3>3. \A j \in Telling(k) : (\A l \in Telling(k) : j <= l) => j = i
      BY <3>1, <3>2
    <3>4. Min(Telling(k)) = i
      BY <3>1, <3>3 DEF Min
    <3> QED
      BY <3>1, <3>4
  <2>5. MemoryShown /\ EntitiesShown /\ Asked("Win32_PhysicalMemory")
        /\ \A c \in EntityClasses : Asked(c)
    BY <1>1, <2>1 DEF IInv, Shown, OtherClasses
  <2> QED
    BY <2>3, <2>4, <2>5 DEF InventoryShowsTheAvailable, MemoryShown, EntitiesShown, Keys
<1>2. IInv => InventoryShowsTheAvailable
  BY <1>1 DEF InventoryShowsTheAvailable
<1> QED
  BY <1>2, Invariance, PTL

-------------------------------------------------------------------------------
\* The order of the queries, and the classes that have been asked and have answered.
Rank ==
    [Win32_DiskDrive |-> 1, Win32_DiskPartition |-> 2, Win32_LogicalDiskToPartition |-> 3,
     Win32_LogicalDisk |-> 4, MSFT_Disk |-> 5, MSFT_PhysicalDisk |-> 6, sort |-> 7, done |-> 8]

Past(class) == Rank[class] < Rank[phase]
Given(class) == Past(class) /\ class \notin failed

Properties(d) == machine.has[d]

\* A row of the class is recognised as being about d.
NumberedRow(d) == {"index", "number"} \subseteq Properties(d)
SerialFound(d) ==
    \/ "serial" \in Properties(d)
    \/ NumberedRow(d) /\ "msftSerial" \in Properties(d) /\ Given("MSFT_Disk")
PhysicalRow(d) ==
    \/ {"index", "deviceID"} \subseteq Properties(d)
    \/ "physicalSerial" \in Properties(d) /\ SerialFound(d)

LastBus(d) ==
    IF PhysicalRow(d) /\ Has(d, "physicalBus") /\ Given("MSFT_PhysicalDisk") THEN "MSFT_PhysicalDisk"
    ELSE IF NumberedRow(d) /\ Has(d, "msftBus") /\ Given("MSFT_Disk") THEN "MSFT_Disk" ELSE "Win32_DiskDrive"
LastMedia(d) ==
    IF PhysicalRow(d) /\ Has(d, "physicalMedia") /\ Given("MSFT_PhysicalDisk") THEN "MSFT_PhysicalDisk"
    ELSE "Win32_DiskDrive"

Indices(e) == {e.partitions[i].index : i \in DOMAIN e.partitions}

\* What the disk of a device shows of it so far: everything the classes that
\* answered have told.
Numbering(d, e) == e.index = IF Has(d, "index") THEN SlotOf(d) ELSE Unset
Serials(d, e) ==
    /\ e.serial \in {0, d}
    /\ ~Past("MSFT_PhysicalDisk") => (e.serial = d <=> SerialFound(d))
\* Of the volumes whose letters stay, a partition has those that lie on it.
Holds(d, n, volumes) ==
    \A l \in Settled :
      {v.of : v \in {v \in volumes : v.id = l}} = {letter[l]} \cap machine.volumes[d][n]
Contents(d, e) ==
    /\ Indices(e) = IF {"index", "diskIndex"} \subseteq Properties(d) /\ Given("Win32_DiskPartition")
                    THEN ToSet(machine.partitions[d]) ELSE {}
    /\ \A i \in DOMAIN e.partitions :
         /\ e.partitions[i].id = <<SlotOf(d), e.partitions[i].index>>
         /\ IF Given("Win32_LogicalDiskToPartition") /\ Given("Win32_LogicalDisk")
            THEN Holds(d, e.partitions[i].index, e.partitions[i].volumes)
            ELSE e.partitions[i].volumes = {}
Latest(d, e) == e.bus.by = LastBus(d) /\ e.media.by = LastMedia(d)

Whole(d, e) == Numbering(d, e) /\ Serials(d, e) /\ Contents(d, e) /\ Latest(d, e)

\* The number and the serial number of a device that stays are no other disk's.
Alone(d, ds) ==
    \A k \in DOMAIN ds : ds[k].index = SlotOf(d) \/ ds[k].serial = d => ds[k].device = d

\* The identified devices that stay, and what is reported of each.
Staying == {d \in Stable : Identified(d)}

Reported(d) ==
    /\ Alone(d, disks)
    /\ \E k \in DOMAIN disks : Entries(d) = {k} /\ Whole(d, disks[k])

\* The associations of a device that stays are complete.
Related(d) ==
    phase = "Win32_LogicalDisk" /\ Given("Win32_LogicalDiskToPartition") =>
      \A n \in Numbers : \A l \in Settled :
        [partition |-> <<SlotOf(d), n>>, volume |-> l] \in associations
          <=> letter[l] \in machine.volumes[d][n]

Staged ==
    /\ failed \subseteq Classes /\ \A c \in failed : Past(c)
    /\ Given("Win32_DiskDrive") => \A d \in Staying : Reported(d) /\ Related(d)

\* A device that stays keeps its number.
LEMMA StayingFacts ==
  ASSUME Types, NEW d \in Staying
  PROVE  /\ d \in Plugged /\ d \in Devices /\ d \in Nat /\ d # 0 /\ Identified(d)
         /\ SlotOf(d) \in Slots /\ slot[SlotOf(d)] = d /\ SlotOf(d) # Unset
         /\ \A f \in Plugged : f # d => SlotOf(f) # SlotOf(d)
<1>1. d \in Plugged /\ Identified(d)
  <2>1. PICK s \in Slots : numbered[s] = {d}
    BY DEF Staying, Stable
  <2>2. d \in Devices /\ d # 0
    BY WindowsAssumption DEF Staying, Stable
  <2>3. slot[s] = d
    BY <2>1 DEF Types, StorageTypeOK
  <2> QED
    BY <2>2, <2>3 DEF Plugged, Staying
<1>2. d \in Devices /\ d # 0 /\ SlotOf(d) \in Slots /\ slot[SlotOf(d)] = d
  BY <1>1, SlotFacts
<1>3. d \in Nat /\ SlotOf(d) # Unset
  BY <1>2, WindowsAssumption DEF Unset
<1>4. \A f \in Plugged : slot[SlotOf(f)] = f
  BY SlotFacts
<1> QED
  BY <1>1, <1>2, <1>3, <1>4

\* The disk of a device is the one that has its number.
LEMMA ByIndexOfOwn ==
  ASSUME NEW ds \in Seq(DiskType), NEW d, NEW k \in DOMAIN ds, Alone(d, ds),
         \A j \in DOMAIN ds : ds[j].device = d => j = k
  PROVE  ByIndex(ds, SlotOf(d)) = IF ds[k].index = SlotOf(d) THEN k ELSE 0
<1> DEFINE S == WithIndex(ds, SlotOf(d))
<1>1. S = IF ds[k].index = SlotOf(d) THEN {k} ELSE {}
  BY DEF WithIndex, Alone
<1>2. CASE ds[k].index = SlotOf(d)
  <2>1. k \in Int /\ S = {k} /\ S # {}
    BY <1>1, <1>2
  <2>2. Max(S) = k
    <3> HIDE DEF S
    <3> QED
      BY <2>1 DEF Max
  <2> QED
    BY <1>2, <2>1, <2>2 DEF ByIndex
<1>3. CASE ds[k].index # SlotOf(d)
  BY <1>1, <1>3 DEF ByIndex
<1> QED
  BY <1>2, <1>3

\* The classes that have answered, when the next one is asked.
LEMMA Advancing ==
  ASSUME Staged, NEW q \in Classes \cup {"sort"}, NEW next \in Classes \cup {"sort", "done"},
         phase = q, phase' = next, Rank[next] = Rank[q] + 1,
         failed' = failed \/ failed' = failed \cup {q}, q = "sort" => failed' = failed
  PROVE  /\ ~Past(q) /\ q \notin failed
         /\ failed' \subseteq Classes /\ \A c \in failed' : Past(c)'
         /\ \A c \in Classes : c # q => (Past(c)' <=> Past(c)) /\ (Given(c)' <=> Given(c))
         /\ \A c : c = q => Past(c)' /\ (Given(c)' <=> failed' = failed)
<1>1. \A c \in Classes \cup {"sort", "done"} : Rank[c] \in 1..8
  BY DEF Classes, Rank
<1>2. \A c, b \in Classes \cup {"sort", "done"} : Rank[c] = Rank[b] => c = b
  BY SMTT(40) DEF Classes, Rank
<1>3. ~Past(q) /\ q \notin failed
  BY <1>1 DEF Past, Staged
<1>4. \A c : c = q => Past(c)'
  BY <1>1 DEF Past
<1>5. ASSUME NEW c \in Classes, c # q
      PROVE  Past(c)' <=> Past(c)
  <2>1. Rank[c] # Rank[q] /\ Rank[c] \in Int /\ Rank[q] \in Int
    BY <1>1, <1>2, <1>5
  <2> QED
    BY <2>1 DEF Past
<1>6. failed' \subseteq Classes /\ \A c \in failed' : Past(c)'
  <2>1. \A c \in failed : c \in Classes /\ c # q /\ Past(c)
    BY <1>3 DEF Staged
  <2>2. \A c \in failed : Past(c)'
    BY <1>5, <2>1
  <2> QED
    BY <1>4, <2>1, <2>2
<1> QED
  BY <1>3, <1>4, <1>5, <1>6 DEF Given

\* What the machine does not change is read the same.
LEMMA ReadTheSame ==
  ASSUME UNCHANGED <<machine, slot>>, NEW d
  PROVE  /\ SlotOf(d)' = SlotOf(d) /\ Properties(d)' = Properties(d)
         /\ (Identified(d)' <=> Identified(d))
         /\ \A p : Has(d, p)' <=> Has(d, p)
         /\ (NumberedRow(d)' <=> NumberedRow(d))
BY DEF SlotOf, Properties, Identified, Has, NumberedRow

\* No letter settles that has passed on before.
Settling == Settled' \subseteq Settled /\ \A l \in Settled' : letter'[l] = letter[l]

LEMMA SettlingFacts ==
  ASSUME Settling, UNCHANGED machine
  PROVE  \A d, n, volumes : Holds(d, n, volumes) => Holds(d, n, volumes)'
BY DEF Settling, Holds

LEMMA LettersUnchanged ==
  ASSUME UNCHANGED <<letter, named>>
  PROVE  Settled' = Settled /\ Settling
BY DEF Settled, Settling

\* What is shown of a device stays true while the classes that tell of it do not
\* answer.
LEMMA WholeKept ==
  ASSUME UNCHANGED <<machine, slot>>, Settling,
         \A c \in {"Win32_DiskPartition", "MSFT_Disk", "MSFT_PhysicalDisk"} : Given(c)' <=> Given(c),
         (Given("Win32_LogicalDiskToPartition") /\ Given("Win32_LogicalDisk"))'
           <=> Given("Win32_LogicalDiskToPartition") /\ Given("Win32_LogicalDisk"),
         Past("MSFT_PhysicalDisk") => Past("MSFT_PhysicalDisk")',
         NEW d, NEW e, Whole(d, e)
  PROVE  Whole(d, e)'
<1>1. /\ SlotOf(d)' = SlotOf(d) /\ Properties(d)' = Properties(d)
      /\ \A p : Has(d, p)' <=> Has(d, p)
      /\ (NumberedRow(d)' <=> NumberedRow(d))
  BY ReadTheSame
<1>2. (SerialFound(d)' <=> SerialFound(d)) /\ (PhysicalRow(d)' <=> PhysicalRow(d))
  BY <1>1 DEF SerialFound, PhysicalRow
<1>3. Numbering(d, e)' /\ Serials(d, e)'
  BY <1>1, <1>2 DEF Whole, Numbering, Serials
<1>4. Contents(d, e)'
  BY <1>1, SettlingFacts DEF Whole, Contents, Indices
<1>5. Latest(d, e)'
  BY <1>1, <1>2 DEF Whole, Latest, LastBus, LastMedia
<1> QED
  BY <1>3, <1>4, <1>5 DEF Whole

LEMMA ReportedKept ==
  ASSUME UNCHANGED <<machine, slot, disks>>, Settling,
         \A c \in {"Win32_DiskPartition", "MSFT_Disk", "MSFT_PhysicalDisk"} : Given(c)' <=> Given(c),
         (Given("Win32_LogicalDiskToPartition") /\ Given("Win32_LogicalDisk"))'
           <=> Given("Win32_LogicalDiskToPartition") /\ Given("Win32_LogicalDisk"),
         Past("MSFT_PhysicalDisk") => Past("MSFT_PhysicalDisk")',
         NEW d, Reported(d)
  PROVE  Reported(d)'
<1>1. SlotOf(d)' = SlotOf(d)
  BY ReadTheSame
<1>2. Alone(d, disks)'
  BY <1>1 DEF Reported, Alone
<1>3. PICK k \in DOMAIN disks : Entries(d) = {k} /\ Whole(d, disks[k])
  BY DEF Reported
<1>4. \A e : Whole(d, e) => Whole(d, e)'
  BY WholeKept
<1>5. Entries(d)' = {k} /\ Whole(d, disks[k])'
  BY <1>3, <1>4 DEF Entries
<1> QED
  BY <1>2, <1>5 DEF Reported

\* A query that fails takes nothing from what is shown.
LEMMA FailStaged ==
  ASSUME StorageInv, Staged, NEW next \in Classes \cup {"sort"}, Fail(next), phase \in Classes,
         Rank[next] = Rank[phase] + 1
  PROVE  Staged'
<1>1. /\ phase' = next /\ failed' = failed \cup {phase}
      /\ UNCHANGED <<machine, slot, numbered, letter, named, events, disks, associations>>
  BY DEF Fail, world
<1>2. PICK q \in Classes : q = phase
  OBVIOUS
<1>3. /\ q \notin failed
      /\ failed' \subseteq Classes /\ \A c \in failed' : Past(c)'
      /\ \A c \in Classes : c # q => (Past(c)' <=> Past(c)) /\ (Given(c)' <=> Given(c))
      /\ \A c : c = q => Past(c)' /\ (Given(c)' <=> failed' = failed)
      /\ ~Past(q)
  <2>1. q # "sort" /\ Rank[next] = Rank[q] + 1
    BY <1>2 DEF Classes
  <2> QED
    BY <1>1, <1>2, <2>1, Advancing
<1>4. \A c \in Classes : (Given(c)' <=> Given(c)) /\ (Past(c) => Past(c)')
  BY <1>1, <1>2, <1>3 DEF Given
<1>5. Staying' = Staying
  BY <1>1, ReadTheSame DEF Staying, Stable
<1>6. ASSUME NEW d \in Staying, Reported(d), Related(d)
      PROVE  Reported(d)' /\ Related(d)'
  <2>7. Reported(d)'
    BY <1>1, <1>4, <1>6, LettersUnchanged, ReportedKept DEF Classes
  <2>8. Related(d)'
    <3>1. next = "Win32_LogicalDisk" => q = "Win32_LogicalDiskToPartition"
      BY <1>1, <1>2 DEF Rank, Classes
    <3> QED
      BY <1>1, <1>2, <3>1, LettersUnchanged, ReadTheSame DEF Related, Given
  <2> QED
    BY <2>7, <2>8
<1> QED
  BY <1>1, <1>3, <1>4, <1>5, <1>6 DEF Staged, Classes

\* The rows of a query are about each device once.
LEMMA RowsOnce ==
  ASSUME NEW S, IsFiniteSet(S), NEW rs \in SetToSeqs(S)
  PROVE  \E n \in Nat :
           /\ rs \in [1..n -> S] /\ Len(rs) = n
           /\ \A i, j \in 1..n : rs[i] = rs[j] => i = j
           /\ \A d \in S : \E i \in 1..n : rs[i] = d
<1> DEFINE n == Cardinality(S)
<1>1. n \in Nat
  BY FS_CardinalityType
<1>2. rs \in [1..n -> S] /\ \A i, j \in 1..n : i # j => rs[i] # rs[j]
  BY DEF SetToSeqs
<1>3. rs \in Injection(1..n, S)
  BY <1>2 DEF Injection, IsInjective
<1>4. Cardinality(1..n) = n
  BY <1>1, FS_Interval, SMTT(40)
<1>5. rs \in Surjection(1..n, S)
  BY <1>3, <1>4, FS_Injection
<1>6. \A d \in S : \E i \in 1..n : rs[i] = d
  BY <1>5 DEF Surjection
<1> HIDE DEF n
<1>7. Len(rs) = n
  BY <1>1, <1>2
<1> QED
  BY <1>1, <1>2, <1>6, <1>7

LEMMA QueryDiskDrivesStaged ==
  ASSUME StorageInv, Staged, QueryDiskDrives
  PROVE  Staged'
<1>0. phase = "Win32_DiskDrive"
  BY DEF QueryDiskDrives
<1>1. CASE Fail("done")
  <2>1. failed' = failed \cup {"Win32_DiskDrive"} /\ phase' = "done"
    BY <1>0, <1>1 DEF Fail
  <2>2. failed = {}
    <3>1. \A c \in Classes : ~Past(c)
      BY <1>0 DEF Past, Rank, Classes
    <3> QED
      BY <3>1 DEF Staged
  <2> QED
    BY <2>1, <2>2 DEF Staged, Given, Past, Rank, Classes
<1>2. ASSUME Proceed("Win32_DiskPartition"), UNCHANGED associations,
             NEW rs \in SetToSeqs({d \in Plugged : Identified(d)}),
             disks' = [i \in DOMAIN rs |-> NewDisk(rs[i])]
      PROVE  Staged'
  <2> DEFINE S == {d \in Plugged : Identified(d)}
  <2>1. phase' = "Win32_DiskPartition" /\ UNCHANGED <<machine, slot, numbered, letter, named, events, failed>>
    BY <1>2 DEF Proceed, world
  <2>2. IsFiniteSet(S)
    <3>1. Plugged \subseteq Devices
      BY DEF Plugged, StorageInv, Types
    <3> QED
      BY <3>1, WindowsAssumption, FS_Subset
  <2> HIDE DEF S
  <2>3. PICK n \in Nat :
           /\ rs \in [1..n -> S] /\ Len(rs) = n
           /\ \A i, j \in 1..n : rs[i] = rs[j] => i = j
           /\ \A d \in S : \E i \in 1..n : rs[i] = d
    <3>1. rs \in SetToSeqs(S)
      BY <1>2 DEF S
    <3> QED
      BY <2>2, <3>1, RowsOnce
  <2>4. DOMAIN disks' = 1..n /\ \A i \in 1..n : disks'[i] = NewDisk(rs[i]) /\ rs[i] \in Plugged
    BY <1>2, <2>3 DEF S
  <2>5. failed = {}
    <3>1. \A c \in Classes : ~Past(c)
      BY <1>0 DEF Past, Rank, Classes
    <3> QED
      BY <3>1 DEF Staged
  <2>6. \A c \in Classes \ {"Win32_DiskDrive"} : ~Given(c)' /\ ~Past(c)'
    BY <2>1 DEF Given, Past, Rank, Classes
  <2>7. Staying' = Staying
    BY <2>1, ReadTheSame DEF Staying, Stable
  <2>8. ASSUME NEW d \in Staying
        PROVE  Reported(d)' /\ Related(d)'
    <3>1. /\ d \in Plugged /\ d \in Devices /\ d \in Nat /\ d # 0 /\ Identified(d)
          /\ SlotOf(d) \in Slots /\ SlotOf(d) # Unset
          /\ \A f \in Plugged : f # d => SlotOf(f) # SlotOf(d)
      BY StayingFacts DEF StorageInv
    <3>2. PICK k \in 1..n : rs[k] = d
      BY <2>3, <3>1 DEF S
    <3>3. /\ SlotOf(d)' = SlotOf(d) /\ Properties(d)' = Properties(d)
          /\ \A p : Has(d, p)' <=> Has(d, p)
          /\ (NumberedRow(d)' <=> NumberedRow(d))
      BY <2>1, ReadTheSame
    <3>4. Alone(d, disks)'
      <4>1. ASSUME NEW j \in 1..n, disks'[j].index = SlotOf(d) \/ disks'[j].serial = d
            PROVE  disks'[j].device = d
        <5>1. disks'[j] = NewDisk(rs[j]) /\ rs[j] \in Plugged
          BY <2>4
        <5>2. NewDisk(rs[j]).device = rs[j] /\ NewDisk(rs[j]).serial \in {0, rs[j]}
              /\ NewDisk(rs[j]).index \in {SlotOf(rs[j]), Unset}
          BY DEF NewDisk
        <5> QED
          BY <3>1, <4>1, <5>1, <5>2
      <4> QED
        BY <2>4, <3>3, <4>1 DEF Alone
    <3>5. Entries(d)' = {k}
      <4>1. \A j \in 1..n : disks'[j].device = rs[j]
        BY <2>4 DEF NewDisk
      <4> QED
        BY <2>3, <2>4, <3>2, <4>1 DEF Entries
    <3> PICK e : e = NewDisk(d)
      OBVIOUS
    <3>6. disks'[k] = e
      BY <2>4, <3>2
    <3>7. /\ e.index = IF Has(d, "index") THEN SlotOf(d) ELSE Unset
          /\ e.serial = IF Has(d, "serial") THEN d ELSE 0
          /\ e.bus.by = "Win32_DiskDrive" /\ e.media.by = "Win32_DiskDrive" /\ e.partitions = << >>
      BY DEF NewDisk
    <3>8. Numbering(d, e)' /\ Latest(d, e)'
      BY <2>6, <3>3, <3>7 DEF Numbering, Latest, LastBus, LastMedia, Classes
    <3>9. Serials(d, e)'
      <4>1. SerialFound(d)' <=> Has(d, "serial")
        BY <2>6, <3>3 DEF SerialFound, Properties, Has, Classes
      <4> QED
        BY <3>1, <3>7, <4>1 DEF Serials
    <3>10. Contents(d, e)'
      <4>1. Indices(e) = {} /\ DOMAIN e.partitions = {}
        BY <3>7 DEF Indices
      <4> QED
        BY <2>6, <4>1 DEF Contents, Classes, Indices
    <3>11. Whole(d, e)'
      BY <3>8, <3>9, <3>10 DEF Whole
    <3>12. Whole(d, disks[k])'
      BY <3>6, <3>11 
    <3>13. Related(d)'
      BY <2>1 DEF Related
    <3> QED
      BY <2>4, <3>4, <3>5, <3>12, <3>13 DEF Reported
  <2>9. failed' = {}
    BY <2>1, <2>5
  <2> QED
    BY <2>7, <2>8, <2>9 DEF Staged
<1> QED
  BY <1>1, <1>2 DEF QueryDiskDrives

\* The partitions in the rows are those of the device that has the number.
LEMMA QueryPartitionsStaged ==
  ASSUME StorageInv, Staged, QueryPartitions
  PROVE  Staged'
<1>0. phase = "Win32_DiskPartition"
  BY DEF QueryPartitions
<1>1. CASE Fail("Win32_LogicalDiskToPartition")
  BY <1>0, <1>1, FailStaged DEF Classes, Rank
<1>2. CASE ~Fail("Win32_LogicalDiskToPartition")
  <2> DEFINE With(e) == [e EXCEPT !.partitions = PartitionRows(e.index)]
             next == "Win32_LogicalDiskToPartition"
  <2>1. /\ phase' = next /\ UNCHANGED <<machine, slot, numbered, letter, named, events, failed, associations>>
        /\ disks' = [k \in DOMAIN disks |-> IF k = ByIndex(disks, disks[k].index)
                                            THEN With(disks[k]) ELSE disks[k]]
    BY <1>2 DEF QueryPartitions, Proceed, world
  <2>2. /\ disks \in Seq(DiskType) /\ \A k \in DOMAIN disks : disks[k] \in DiskType
        /\ \A k \in DOMAIN disks : disks[k].partitions = << >>
        /\ Machine(machine)
    BY <1>0 DEF StorageInv, Types, StorageTypeOK, Control
  <2>3. /\ failed' \subseteq Classes /\ \A c \in failed' : Past(c)'
        /\ \A c \in Classes : c # "Win32_DiskPartition" => (Past(c)' <=> Past(c)) /\ (Given(c)' <=> Given(c))
        /\ Given("Win32_DiskPartition")'
    BY <1>0, <2>1, Advancing DEF Classes, Rank
  <2>4. ~Given("Win32_LogicalDisk") /\ ~Past("MSFT_PhysicalDisk")
    BY <1>0 DEF Given, Past, Rank
  <2>5. Staying' = Staying
    BY <2>1, ReadTheSame DEF Staying, Stable
  <2>6. ASSUME NEW e \in DiskType
        PROVE  /\ With(e).index = e.index /\ With(e).device = e.device /\ With(e).serial = e.serial
               /\ With(e).bus = e.bus /\ With(e).media = e.media
               /\ With(e).partitions = PartitionRows(e.index)
    BY DEF DiskType
  <2> HIDE DEF With
  <2>7. DOMAIN disks' = DOMAIN disks
        /\ \A k \in DOMAIN disks : disks'[k].index = disks[k].index /\ disks'[k].device = disks[k].device
                                   /\ disks'[k].serial = disks[k].serial
                                   /\ disks'[k].bus = disks[k].bus /\ disks'[k].media = disks[k].media
    BY <2>1, <2>2, <2>6
  <2>8. ASSUME NEW d \in Staying, Reported(d)
        PROVE  Reported(d)' /\ Related(d)'
    <3>1. /\ d \in Plugged /\ d \in Devices /\ d # 0
          /\ SlotOf(d) \in Slots /\ SlotOf(d) # Unset /\ slot[SlotOf(d)] = d
      BY StayingFacts DEF StorageInv
    <3>2. /\ SlotOf(d)' = SlotOf(d) /\ Properties(d)' = Properties(d)
          /\ \A p : Has(d, p)' <=> Has(d, p)
          /\ (NumberedRow(d)' <=> NumberedRow(d))
      BY <2>1, ReadTheSame
    <3>3. PICK k \in DOMAIN disks : Entries(d) = {k} /\ Whole(d, disks[k])
      BY <2>8 DEF Reported
    <3>4. Alone(d, disks)' /\ Entries(d)' = {k}
      BY <2>7, <2>8, <3>2, <3>3 DEF Alone, Entries, Reported
    <3> PICK e : e = disks[k]
      OBVIOUS
    <3> PICK f : f = disks'[k]
      OBVIOUS
    <3>5. /\ f.index = e.index /\ f.serial = e.serial /\ f.bus = e.bus /\ f.media = e.media
      BY <2>7
    <3>6. e.index = IF Has(d, "index") THEN SlotOf(d) ELSE Unset
      BY <3>3 DEF Whole, Numbering
    <3>7. f.partitions = IF Has(d, "index") THEN PartitionRows(SlotOf(d)) ELSE << >>
      <4>1. CASE Has(d, "index")
        <5>1. ByIndex(disks, SlotOf(d)) = k
          <6>1. \A j \in DOMAIN disks : disks[j].device = d => j = k
            BY <3>3 DEF Entries
          <6> QED
            BY <2>2, <2>8, <3>6, <4>1, <6>1, ByIndexOfOwn DEF Reported
        <5> QED
          BY <2>1, <2>2, <2>6, <3>6, <4>1, <5>1
      <4>2. CASE ~Has(d, "index")
        <5>1. e.index = Unset /\ Unset \notin Slots
          BY <3>6, <4>2, WindowsAssumption DEF Unset
        <5>2. PartitionRows(Unset) = << >>
          BY <5>1 DEF PartitionRows
        <5>3. f = With(e) \/ f = e
          BY <2>1
        <5>4. e.partitions = << >> /\ e \in DiskType
          BY <2>2
        <5>5. With(e).partitions = << >>
          BY <2>6, <5>1, <5>2, <5>4
        <5> QED
          BY <4>2, <5>3, <5>4, <5>5
      <4> QED
        BY <4>1, <4>2
    <3> DEFINE ps == machine.partitions[d]
    <3>8. ASSUME Has(d, "index") /\ Has(d, "diskIndex")
          PROVE  Contents(d, f)'
      <4>1. f.partitions = [i \in DOMAIN ps |->
              [device |-> d, index |-> ps[i], id |-> <<SlotOf(d), ps[i]>>, volumes |-> {}]]
        BY <3>1, <3>7, <3>8 DEF PartitionRows
      <4>2. Indices(f) = ToSet(ps)
        <5> HIDE DEF ps
        <5> QED
          BY <4>1 DEF Indices, ToSet
      <4>3. \A i \in DOMAIN f.partitions :
              f.partitions[i].id = <<SlotOf(d), f.partitions[i].index>> /\ f.partitions[i].volumes = {}
        <5> HIDE DEF ps
        <5> QED
          BY <4>1
      <4>4. {"index", "diskIndex"} \subseteq Properties(d)'
        BY <3>2, <3>8 DEF Has, Properties
      <4>5. Contents(d, f)'
        <5>1. Given("Win32_DiskPartition")' /\ ~Given("Win32_LogicalDisk")'
          BY <2>3, <2>4 DEF Classes
        <5>2. Indices(f)' = ToSet(machine'.partitions[d])
          BY <2>1, <4>2 DEF Indices
        <5>3. \A i \in DOMAIN f.partitions :
                f.partitions[i].id = <<SlotOf(d)', f.partitions[i].index>> /\ f.partitions[i].volumes = {}
          BY <3>2, <4>3
        <5> QED
          BY <4>4, <5>1, <5>2, <5>3 DEF Contents
      <4> QED
        BY <4>5
    <3>9. ASSUME ~(Has(d, "index") /\ Has(d, "diskIndex"))
          PROVE  Contents(d, f)'
      <4>1. f.partitions = << >>
        BY <3>1, <3>7, <3>9 DEF PartitionRows
      <4>2. ~({"index", "diskIndex"} \subseteq Properties(d)')
        BY <3>2, <3>9 DEF Has, Properties
      <4>3. Contents(d, f)'
        BY <4>1, <4>2 DEF Contents, Indices
      <4> QED
        BY <4>3
    <3>10. Contents(d, f)'
      BY <3>8, <3>9
    <3>11. Serials(d, e) /\ Latest(d, e)
      BY <3>3 DEF Whole
    <3>12. Numbering(d, f)'
      BY <3>2, <3>5, <3>6 DEF Numbering
    <3>13. (SerialFound(d)' <=> SerialFound(d)) /\ (PhysicalRow(d)' <=> PhysicalRow(d))
      BY <2>3, <3>2 DEF SerialFound, PhysicalRow, Classes
    <3>14. Serials(d, f)' /\ Latest(d, f)'
      BY <2>3, <3>2, <3>5, <3>11, <3>13 DEF Serials, Latest, LastBus, LastMedia, Classes
    <3>15. Whole(d, f)'
      BY <3>10, <3>12, <3>14 DEF Whole
    <3>16. Reported(d)'
      BY <2>7, <3>4, <3>15 DEF Reported
    <3> QED
      BY <2>1, <3>16 DEF Related
  <2>9. Given("Win32_DiskDrive")' <=> Given("Win32_DiskDrive")
    BY <2>3 DEF Classes
  <2> QED
    BY <2>3, <2>5, <2>8, <2>9 DEF Staged
<1> QED
  BY <1>1, <1>2

\* The associations tell all volumes of the devices that stay.
LEMMA QueryAssociationsStaged ==
  ASSUME StorageInv, Staged, QueryAssociations
  PROVE  Staged'
<1>0. phase = "Win32_LogicalDiskToPartition"
  BY DEF QueryAssociations
<1>1. CASE Fail("Win32_LogicalDisk")
  BY <1>0, <1>1, FailStaged DEF Classes, Rank
<1>2. CASE ~Fail("Win32_LogicalDisk")
  <2>1. /\ phase' = "Win32_LogicalDisk"
        /\ UNCHANGED <<machine, slot, numbered, letter, named, events, failed, disks>>
        /\ associations' = {a \in [partition : Slots \X Numbers, volume : Letters] :
                              LET d == slot[a.partition[1]]
                              IN  d # 0 /\ letter[a.volume] \in machine.volumes[d][a.partition[2]]}
    BY <1>2 DEF QueryAssociations, Proceed, world
  <2>2. /\ failed' \subseteq Classes /\ \A c \in failed' : Past(c)'
        /\ \A c \in Classes : c # "Win32_LogicalDiskToPartition" =>
             (Past(c)' <=> Past(c)) /\ (Given(c)' <=> Given(c))
    BY <1>0, <2>1, Advancing DEF Classes, Rank
  <2>3. ~Given("Win32_LogicalDisk") /\ ~Given("Win32_LogicalDisk")'
    BY <1>0, <2>2 DEF Given, Past, Rank, Classes
  <2>4. Staying' = Staying
    BY <2>1, ReadTheSame DEF Staying, Stable
  <2>5. ASSUME NEW d \in Staying, Reported(d)
        PROVE  Reported(d)' /\ Related(d)'
    <3>1. Reported(d)' /\ Settled' = Settled
      BY <2>1, <2>2, <2>3, <2>5, LettersUnchanged, ReportedKept DEF Classes
    <3>2. SlotOf(d) \in Slots /\ slot[SlotOf(d)] = d /\ d # 0 /\ SlotOf(d)' = SlotOf(d)
      BY <2>1, StayingFacts, ReadTheSame DEF StorageInv
    <3>3. ASSUME NEW n \in Numbers, NEW l \in Settled
          PROVE  [partition |-> <<SlotOf(d), n>>, volume |-> l] \in associations'
                   <=> letter[l] \in machine.volumes[d][n]
      <4>1. [partition |-> <<SlotOf(d), n>>, volume |-> l] \in [partition : Slots \X Numbers, volume : Letters]
        BY <3>2 DEF Settled
      <4> QED
        BY <2>1, <3>2, <4>1
    <3> QED
      BY <2>1, <3>1, <3>2, <3>3 DEF Related
  <2>6. Given("Win32_DiskDrive")' <=> Given("Win32_DiskDrive")
    BY <2>2 DEF Classes
  <2> QED
    BY <2>2, <2>4, <2>5, <2>6 DEF Staged
<1> QED
  BY <1>1, <1>2

\* Partitions are given all their volumes, when all three queries answered.
LEMMA QueryLogicalDisksStaged ==
  ASSUME StorageInv, Staged, QueryLogicalDisks
  PROVE  Staged'
<1>0. phase = "Win32_LogicalDisk"
  BY DEF QueryLogicalDisks
<1>1. CASE Fail("MSFT_Disk")
  BY <1>0, <1>1, FailStaged DEF Classes, Rank
<1>2. CASE ~Fail("MSFT_Disk")
  <2> DEFINE With(e) == [e EXCEPT !.partitions = [i \in DOMAIN @ |-> WithVolumes(@[i])]]
             skip == failed \cap {"Win32_DiskPartition", "Win32_LogicalDiskToPartition"} # {}
  <2>1. /\ phase' = "MSFT_Disk"
        /\ UNCHANGED <<machine, slot, numbered, letter, named, events, failed, associations>>
        /\ disks' = IF skip THEN disks ELSE [k \in DOMAIN disks |-> With(disks[k])]
    BY <1>2 DEF QueryLogicalDisks, Proceed, world
  <2>2. /\ failed' \subseteq Classes /\ \A c \in failed' : Past(c)'
        /\ \A c \in Classes : c # "Win32_LogicalDisk" => (Past(c)' <=> Past(c)) /\ (Given(c)' <=> Given(c))
        /\ Given("Win32_LogicalDisk")'
    BY <1>0, <2>1, Advancing DEF Classes, Rank
  <2>3. /\ ~Given("Win32_LogicalDisk")
        /\ Given("Win32_LogicalDiskToPartition") <=> "Win32_LogicalDiskToPartition" \notin failed
        /\ Given("Win32_DiskPartition") <=> "Win32_DiskPartition" \notin failed
    BY <1>0 DEF Given, Past, Rank
  <2>4. Staying' = Staying
    BY <2>1, ReadTheSame DEF Staying, Stable
  <2>5. \A k \in DOMAIN disks : disks[k] \in DiskType
    BY DEF StorageInv, Types
  <2>6. ASSUME NEW e \in DiskType
        PROVE  /\ With(e).index = e.index /\ With(e).device = e.device /\ With(e).serial = e.serial
               /\ With(e).bus = e.bus /\ With(e).media = e.media
               /\ DOMAIN With(e).partitions = DOMAIN e.partitions
               /\ \A i \in DOMAIN e.partitions :
                    /\ e.partitions[i] \in PartitionType
                    /\ With(e).partitions[i] = WithVolumes(e.partitions[i])
    <3>1. With(e).partitions = [i \in DOMAIN e.partitions |-> WithVolumes(e.partitions[i])]
      BY DEF DiskType
    <3>2. e.partitions \in Seq(PartitionType)
      BY DEF DiskType
    <3>3. \A i \in DOMAIN e.partitions : e.partitions[i] \in PartitionType
      BY <3>2
    <3> QED
      BY <3>1, <3>3 DEF DiskType
  <2> HIDE DEF With
  <2>7. DOMAIN disks' = DOMAIN disks
        /\ \A k \in DOMAIN disks : disks'[k].index = disks[k].index /\ disks'[k].device = disks[k].device
                                   /\ disks'[k].serial = disks[k].serial
                                   /\ disks'[k].bus = disks[k].bus /\ disks'[k].media = disks[k].media
    BY <2>1, <2>5, <2>6
  <2>8. ASSUME NEW d \in Staying, Reported(d), Related(d)
        PROVE  Reported(d)' /\ Related(d)'
    <3>1. SlotOf(d) \in Slots /\ slot[SlotOf(d)] = d /\ d # 0
      BY StayingFacts DEF StorageInv
    <3>2. /\ SlotOf(d)' = SlotOf(d) /\ Properties(d)' = Properties(d)
          /\ \A p : Has(d, p)' <=> Has(d, p)
          /\ (NumberedRow(d)' <=> NumberedRow(d))
      BY <2>1, ReadTheSame
    <3>3. PICK k \in DOMAIN disks : Entries(d) = {k} /\ Whole(d, disks[k])
      BY <2>8 DEF Reported
    <3>4. Alone(d, disks)' /\ Entries(d)' = {k}
      BY <2>7, <2>8, <3>2, <3>3 DEF Alone, Entries, Reported
    <3> PICK e : e = disks[k]
      OBVIOUS
    <3> PICK f : f = disks'[k]
      OBVIOUS
    <3>5. f.index = e.index /\ f.serial = e.serial /\ f.bus = e.bus /\ f.media = e.media
      BY <2>7
    <3>6. e \in DiskType /\ Numbering(d, e) /\ Serials(d, e) /\ Latest(d, e) /\ Contents(d, e)
      BY <2>5, <3>3 DEF Whole
    <3>7. ASSUME skip
          PROVE  Contents(d, f)'
      <4>1. f = e
        BY <2>1, <3>7
      <4>2. CASE "Win32_DiskPartition" \in failed
        <5>1. ~Given("Win32_DiskPartition") /\ ~Given("Win32_DiskPartition")'
          BY <2>2, <2>3, <4>2 DEF Classes
        <5>2. Indices(e) = {}
          BY <3>6, <5>1 DEF Contents
        <5>3. Indices(f)' = {} /\ \A i \in DOMAIN f.partitions : FALSE
          BY <4>1, <5>2 DEF Indices
        <5> QED
          BY <5>1, <5>3 DEF Contents
      <4>3. CASE "Win32_LogicalDiskToPartition" \in failed
        <5>1. ~Given("Win32_LogicalDiskToPartition") /\ ~Given("Win32_LogicalDiskToPartition")'
          BY <2>2, <2>3, <4>3 DEF Classes
        <5>2. Given("Win32_DiskPartition")' <=> Given("Win32_DiskPartition")
          BY <2>2 DEF Classes
        <5> QED
          BY <2>1, <3>2, <3>6, <4>1, <5>1, <5>2 DEF Contents, Indices
      <4> QED
        BY <3>7, <4>2, <4>3
    <3>8. ASSUME ~skip
          PROVE  Contents(d, f)'
      <4>1. Given("Win32_LogicalDiskToPartition") /\ Given("Win32_DiskPartition")
        BY <2>3, <3>8
      <4>2. /\ DOMAIN f.partitions = DOMAIN e.partitions
            /\ \A i \in DOMAIN e.partitions :
                 /\ e.partitions[i] \in PartitionType
                 /\ f.partitions[i] = WithVolumes(e.partitions[i])
                 /\ f.partitions[i].id = e.partitions[i].id
                 /\ f.partitions[i].index = e.partitions[i].index
        <5>1. f = With(e)
          BY <2>1, <3>8
        <5>2. \A p \in PartitionType : WithVolumes(p).id = p.id /\ WithVolumes(p).index = p.index
          BY WithVolumesFacts DEF StorageInv
        <5> QED
          BY <2>6, <3>6, <5>1, <5>2
      <4>3. \A i \in DOMAIN e.partitions : e.partitions[i].id = <<SlotOf(d), e.partitions[i].index>>
        BY <3>6 DEF Contents
      <4>4. ASSUME NEW i \in DOMAIN e.partitions
            PROVE  Holds(d, f.partitions[i].index, f.partitions[i].volumes)
        <5> PICK p : p = e.partitions[i]
          OBVIOUS
        <5> PICK q : q = f.partitions[i]
          OBVIOUS
        <5>1. p \in PartitionType /\ q = WithVolumes(p) /\ q.index = p.index
              /\ p.id = <<SlotOf(d), p.index>> /\ p.index \in Numbers
          BY <4>2, <4>3 DEF PartitionType
        <5>2. \A l, w : (\E v \in q.volumes : v.id = l /\ v.of = w) <=>
                 /\ l \in Mounted /\ [partition |-> p.id, volume |-> l] \in associations
                 /\ w = letter[l]
          BY <5>1, WithVolumesFacts DEF StorageInv
        <5>3. \A l \in Settled :
                [partition |-> p.id, volume |-> l] \in associations
                  <=> letter[l] \in machine.volumes[d][p.index]
          BY <1>0, <2>8, <4>1, <5>1 DEF Related
        <5>4. \A l \in Settled : letter[l] \in machine.volumes[d][p.index] => l \in Mounted
          BY <3>1, <5>1 DEF Mounted, Plugged, On, Settled
        <5>5. ASSUME NEW l \in Settled
              PROVE  {v.of : v \in {v \in q.volumes : v.id = l}} = {letter[l]} \cap machine.volumes[d][q.index]
          <6>1. \A w : w \in {v.of : v \in {v \in q.volumes : v.id = l}}
                         <=> \E v \in q.volumes : v.id = l /\ v.of = w
            OBVIOUS
          <6>2. \A w : (\E v \in q.volumes : v.id = l /\ v.of = w)
                         <=> w = letter[l] /\ letter[l] \in machine.volumes[d][p.index]
            BY <5>2, <5>3, <5>4
          <6> QED
            BY <5>1, <6>1, <6>2
        <5> QED
          BY <5>5 DEF Holds
      <4>5. Settling
        BY <2>1, LettersUnchanged
      <4>6. \A i \in DOMAIN f.partitions :
              /\ f.partitions[i].id = <<SlotOf(d)', f.partitions[i].index>>
              /\ Holds(d, f.partitions[i].index, f.partitions[i].volumes)'
        <5>1. \A i \in DOMAIN f.partitions : f.partitions[i].id = <<SlotOf(d)', f.partitions[i].index>>
          BY <3>2, <4>2, <4>3
        <5>2. \A i \in DOMAIN f.partitions :
                Holds(d, f.partitions[i].index, f.partitions[i].volumes)'
          BY <2>1, <4>2, <4>4, <4>5 DEF Holds, Settling
        <5> QED
          BY <5>1, <5>2
      <4>7. Indices(f) = Indices(e)
        BY <4>2 DEF Indices
      <4>8. /\ (Given("Win32_LogicalDiskToPartition") /\ Given("Win32_LogicalDisk"))'
            /\ (Given("Win32_DiskPartition")' <=> Given("Win32_DiskPartition"))
        BY <2>2, <4>1 DEF Classes
      <4>9. Indices(f)' = IF {"index", "diskIndex"} \subseteq Properties(d)' /\ Given("Win32_DiskPartition")'
                          THEN ToSet(machine'.partitions[d]) ELSE {}
        <5>1. Indices(f)' = Indices(f)
          BY DEF Indices
        <5> QED
          BY <2>1, <3>2, <3>6, <4>7, <4>8, <5>1 DEF Contents
      <4> QED
        BY <4>6, <4>8, <4>9 DEF Contents
    <3>9. (SerialFound(d)' <=> SerialFound(d)) /\ (PhysicalRow(d)' <=> PhysicalRow(d))
      BY <2>2, <3>2 DEF SerialFound, PhysicalRow, Classes
    <3>10. Numbering(d, f)' /\ Serials(d, f)' /\ Latest(d, f)'
      BY <2>2, <3>2, <3>5, <3>6, <3>9 DEF Numbering, Serials, Latest, LastBus, LastMedia, Classes
    <3>11. Whole(d, f)'
      BY <3>7, <3>8, <3>10 DEF Whole
    <3>12. Reported(d)'
      BY <2>7, <3>4, <3>11 DEF Reported
    <3> QED
      BY <2>1, <3>12 DEF Related
  <2>9. Given("Win32_DiskDrive")' <=> Given("Win32_DiskDrive")
    BY <2>2 DEF Classes
  <2> QED
    BY <2>2, <2>4, <2>8, <2>9 DEF Staged
<1> QED
  BY <1>1, <1>2

\* The disk of a device is told apart from the others by what it shows.
Tracked(d, k, ds) ==
    /\ ds \in Seq(DiskType) /\ k \in DOMAIN ds /\ Alone(d, ds)
    /\ \A j \in DOMAIN ds : ds[j].device = d <=> j = k
    /\ ds[k].serial \in {0, d} /\ ds[k].index \in {SlotOf(d), Unset}

\* A row is recognised as being about the device.
Hit(class, d, e) ==
    IF class = "MSFT_Disk" THEN Has(d, "number") /\ e.index = SlotOf(d)
    ELSE \/ Has(d, "deviceID") /\ e.index = SlotOf(d)
         \/ Has(d, "physicalSerial") /\ e.serial = d

\* What its row tells.
TellsBus(class, d) == IF class = "MSFT_Disk" THEN Has(d, "msftBus") ELSE Has(d, "physicalBus")
TellsMedia(class, d) == class = "MSFT_PhysicalDisk" /\ Has(d, "physicalMedia")

\* What the row about the device makes of its disk.
Applied(class, d, e, f) ==
    /\ f.device = e.device /\ f.index = e.index /\ f.partitions = e.partitions
    /\ class = "MSFT_Disk" =>
         (f.serial = d <=> e.serial = d \/ (Hit(class, d, e) /\ Has(d, "msftSerial")))
    /\ f.bus.by = IF Hit(class, d, e) /\ TellsBus(class, d) THEN class ELSE e.bus.by
    /\ f.media.by = IF Hit(class, d, e) /\ TellsMedia(class, d) THEN class ELSE e.media.by

\* A row about another device does not change the disk.
LEMMA RowTracked ==
  ASSUME Types, NEW d \in Staying, NEW x \in Plugged, NEW ds, NEW k, Tracked(d, k, ds),
         NEW m \in DOMAIN ds, ds[m].index = SlotOf(x) \/ ds[m].serial = x,
         NEW g \in DiskType, g.device = ds[m].device, g.index = ds[m].index,
         g.serial \in {ds[m].serial, x}
  PROVE  Tracked(d, k, [ds EXCEPT ![m] = g]) /\ (m = k => x = d)
<1> DEFINE es == [ds EXCEPT ![m] = g]
<1>1. /\ d # 0 /\ SlotOf(d) # Unset /\ x # 0 /\ SlotOf(x) # Unset
      /\ (x # d => SlotOf(x) # SlotOf(d))
  <2>1. SlotOf(x) \in Slots /\ x # 0
    BY SlotFacts
  <2> QED
    BY <2>1, StayingFacts, WindowsAssumption DEF Unset
<1>2. m = k => x = d
  BY <1>1 DEF Tracked
<1>3. es \in Seq(DiskType) /\ DOMAIN es = DOMAIN ds /\ es[m] = g
      /\ \A j \in DOMAIN ds : j # m => es[j] = ds[j]
  BY DEF Tracked
<1> HIDE DEF es
<1>4. Alone(d, es)
  <2>1. g.index = SlotOf(d) \/ g.serial = d => g.device = d
    BY <1>1 DEF Tracked, Alone
  <2> QED
    BY <1>3, <2>1 DEF Tracked, Alone
<1>5. \A j \in DOMAIN es : es[j].device = d <=> j = k
  BY <1>3 DEF Tracked
<1>6. k \in DOMAIN es /\ es[k].serial \in {0, d} /\ es[k].index \in {SlotOf(d), Unset}
  BY <1>2, <1>3 DEF Tracked
<1> QED
  BY <1>2, <1>3, <1>4, <1>5, <1>6 DEF Tracked, es

LEMMA RowEffect ==
  ASSUME Types, NEW class \in {"MSFT_Disk", "MSFT_PhysicalDisk"},
         NEW d \in Staying, NEW x \in Plugged, NEW ds, NEW k, Tracked(d, k, ds)
  PROVE  LET es == Enrich(class, ds, x)
         IN  /\ Tracked(d, k, es)
             /\ x # d => es[k] = ds[k]
             /\ x = d => Applied(class, d, ds[k], es[k])
<1>0. ds \in Seq(DiskType) /\ k \in DOMAIN ds /\ ds[k] \in DiskType
  BY DEF Tracked
<1>1. \A s : s = ByIndex(ds, SlotOf(d)) => s = IF ds[k].index = SlotOf(d) THEN k ELSE 0
  BY ByIndexOfOwn DEF Tracked
<1>2. d # 0 /\ k # 0
  BY <1>0, StayingFacts
<1>3. ASSUME class = "MSFT_Disk"
      PROVE  LET es == EnrichDisk(ds, x)
             IN  /\ Tracked(d, k, es)
                 /\ x # d => es[k] = ds[k]
                 /\ x = d => Applied(class, d, ds[k], es[k])
  <2> DEFINE m == ByIndex(ds, SlotOf(x))
  <2>1. CASE ~(Has(x, "number") /\ m # 0)
    <3>1. EnrichDisk(ds, x) = ds
      BY <2>1 DEF EnrichDisk
    <3>2. x = d => ~Hit(class, d, ds[k])
      BY <1>1, <1>2, <1>3, <2>1 DEF Hit
    <3>3. x = d => Applied(class, d, ds[k], ds[k])
      BY <3>2 DEF Applied
    <3> QED
      BY <3>1, <3>3
  <2>2. CASE Has(x, "number") /\ m # 0
    <3> DEFINE g == [ds[m] EXCEPT !.id = IF @ = Unset THEN UniqueId(x) ELSE @,
                                  !.serial = IF @ = 0 /\ Has(x, "msftSerial") THEN x ELSE @,
                                  !.bus = IF Has(x, "msftBus") THEN [of |-> x, by |-> "MSFT_Disk"] ELSE @]
               es == EnrichDisk(ds, x)
    <3>1. m \in DOMAIN ds /\ ds[m].index = SlotOf(x) /\ ds[m] \in DiskType
      BY <1>0, <2>2, ByIndexFacts
    <3>2. es = [ds EXCEPT ![m] = g]
      BY <2>2 DEF EnrichDisk
    <3>3. /\ g.device = ds[m].device /\ g.index = ds[m].index /\ g.partitions = ds[m].partitions
          /\ g.serial = IF ds[m].serial = 0 /\ Has(x, "msftSerial") THEN x ELSE ds[m].serial
          /\ g.bus.by = IF Has(x, "msftBus") THEN "MSFT_Disk" ELSE ds[m].bus.by
          /\ g.media = ds[m].media
      BY <3>1 DEF DiskType
    <3>4. g \in DiskType
      <4>1. es \in Seq(DiskType) /\ DOMAIN es = DOMAIN ds
        BY <1>0, EnrichDiskCompletes DEF AllComplete
      <4>2. es[m] = g
        BY <3>1, <3>2
      <4> HIDE DEF es, g, m
      <4> QED
        BY <3>1, <4>1, <4>2
    <3> HIDE DEF g
    <3>5. Tracked(d, k, [ds EXCEPT ![m] = g]) /\ (m = k => x = d)
      <4>1. g.serial \in {ds[m].serial, x}
        BY <3>3
      <4> HIDE DEF m
      <4> QED
        BY <3>1, <3>3, <3>4, <4>1, RowTracked
    <3>6. ASSUME x = d
          PROVE  m = k /\ Hit(class, d, ds[k])
      BY <1>1, <1>3, <2>2, <3>1, <3>6 DEF Hit
    <3>7. x # d => es[k] = ds[k]
      BY <1>0, <3>1, <3>2, <3>5
    <3>8. ASSUME x = d
          PROVE  Applied(class, d, ds[k], es[k])
      <4>1. es[k] = g /\ m = k /\ Hit(class, d, ds[k])
        BY <1>0, <3>2, <3>6, <3>8
      <4>2. ds[k].serial \in {0, d}
        BY DEF Tracked
      <4> HIDE DEF es, m
      <4>3. Applied(class, d, ds[k], g)
        BY <1>2, <1>3, <3>3, <3>8, <4>1, <4>2 DEF Applied, TellsBus, TellsMedia
      <4> QED
        BY <4>1, <4>3
    <3> QED
      BY <3>2, <3>5, <3>7, <3>8
  <2> QED
    BY <2>1, <2>2
<1>4. ASSUME class = "MSFT_PhysicalDisk"
      PROVE  LET es == EnrichPhysicalDisk(ds, x)
             IN  /\ Tracked(d, k, es)
                 /\ x # d => es[k] = ds[k]
                 /\ x = d => Applied(class, d, ds[k], es[k])
  <2> DEFINE m == DiskForPhysicalRow(ds, x)
  <2>0. x = d => m = IF Hit(class, d, ds[k]) THEN k ELSE 0
    <3> SUFFICES ASSUME x = d
                 PROVE  m = IF Hit(class, d, ds[k]) THEN k ELSE 0
      OBVIOUS
    <3> DEFINE byNumber == IF Has(d, "deviceID") THEN ByIndex(ds, SlotOf(d)) ELSE 0
               S == {j \in DOMAIN ds : Has(d, "physicalSerial") /\ ds[j].serial = d}
    <3>1. m = IF byNumber # 0 \/ S = {} THEN byNumber ELSE Min(S)
      BY DEF DiskForPhysicalRow
    <3>2. byNumber = IF Has(d, "deviceID") /\ ds[k].index = SlotOf(d) THEN k ELSE 0
      BY <1>1
    <3>3. S = IF Has(d, "physicalSerial") /\ ds[k].serial = d THEN {k} ELSE {}
      BY <1>0 DEF Tracked, Alone
    <3>4. Min({k}) = k
      <4>1. k \in Int
        BY <1>0
      <4> QED
        BY <4>1 DEF Min
    <3>5. Hit(class, d, ds[k]) <=> (Has(d, "deviceID") /\ ds[k].index = SlotOf(d))
                                   \/ (Has(d, "physicalSerial") /\ ds[k].serial = d)
      BY <1>4 DEF Hit
    <3> HIDE DEF byNumber, S, m
    <3> QED
      BY <1>2, <3>1, <3>2, <3>3, <3>4, <3>5
  <2>1. CASE m = 0
    <3>1. EnrichPhysicalDisk(ds, x) = ds
      BY <2>1 DEF EnrichPhysicalDisk
    <3>2. x = d => Applied(class, d, ds[k], ds[k])
      BY <1>2, <1>4, <2>0, <2>1 DEF Applied
    <3> QED
      BY <3>1, <3>2
  <2>2. CASE m # 0
    <3> DEFINE new == [of |-> x, by |-> "MSFT_PhysicalDisk"]
               g == [ds[m] EXCEPT !.serial = IF @ = 0 /\ Has(x, "physicalSerial") THEN x ELSE @,
                                  !.bus = IF Has(x, "physicalBus") THEN new ELSE @,
                                  !.media = IF Has(x, "physicalMedia") THEN new ELSE @]
               es == EnrichPhysicalDisk(ds, x)
    <3>1. m \in DOMAIN ds /\ (ds[m].index = SlotOf(x) \/ ds[m].serial = x) /\ ds[m] \in DiskType
      BY <1>0, <2>2, DiskForPhysicalRowFacts
    <3>2. es = [ds EXCEPT ![m] = g]
      BY <2>2 DEF EnrichPhysicalDisk
    <3>3. /\ g.device = ds[m].device /\ g.index = ds[m].index /\ g.partitions = ds[m].partitions
          /\ g.serial \in {ds[m].serial, x}
          /\ g.bus.by = IF Has(x, "physicalBus") THEN "MSFT_PhysicalDisk" ELSE ds[m].bus.by
          /\ g.media.by = IF Has(x, "physicalMedia") THEN "MSFT_PhysicalDisk" ELSE ds[m].media.by
      BY <3>1 DEF DiskType
    <3>4. g \in DiskType
      <4>1. es \in Seq(DiskType) /\ DOMAIN es = DOMAIN ds
        BY <1>0, EnrichPhysicalDiskCompletes DEF AllComplete
      <4>2. es[m] = g
        BY <3>1, <3>2
      <4> HIDE DEF es, g, m
      <4> QED
        BY <3>1, <4>1, <4>2
    <3> HIDE DEF g, m
    <3>5. Tracked(d, k, [ds EXCEPT ![m] = g]) /\ (m = k => x = d)
      BY <3>1, <3>3, <3>4, RowTracked
    <3>7. x # d => es[k] = ds[k]
      BY <1>0, <3>1, <3>2, <3>5
    <3>8. ASSUME x = d
          PROVE  Applied(class, d, ds[k], es[k])
      <4>1. es[k] = g /\ m = k /\ Hit(class, d, ds[k])
        BY <1>0, <2>0, <2>2, <3>2, <3>8
      <4> HIDE DEF es
      <4>2. Applied(class, d, ds[k], g)
        BY <1>4, <3>3, <3>8, <4>1 DEF Applied, TellsBus, TellsMedia
      <4> QED
        BY <4>1, <4>2
    <3> QED
      BY <3>2, <3>5, <3>7, <3>8
  <2> QED
    BY <2>1, <2>2
<1> QED
  BY <1>3, <1>4 DEF Enrich

\* So does the loop over all the rows.
LEMMA LoopEffect ==
  ASSUME Types, NEW class \in {"MSFT_Disk", "MSFT_PhysicalDisk"},
         NEW d \in Staying, NEW rs \in Rows, NEW k, Tracked(d, k, disks)
  PROVE  /\ Tracked(d, k, Enriched(class, rs))
         /\ Applied(class, d, disks[k], Enriched(class, rs)[k])
<1> DEFINE n == Len(rs)
           after == CHOOSE g : Run(class, rs, n, g)
<1>1. n \in Nat /\ (\A i \in 1..n : rs[i] \in Plugged) /\ rs \in Seq(Plugged)
  BY RowsFacts
<1>2. \A i, j \in 1..n : rs[i] = rs[j] => i = j
  <2>1. IsFiniteSet(Plugged)
    <3>1. Plugged \subseteq Devices
      BY DEF Plugged, Types
    <3> QED
      BY <3>1, WindowsAssumption, FS_Subset
  <2>2. PICK m \in Nat : Len(rs) = m /\ \A i, j \in 1..m : rs[i] = rs[j] => i = j
    BY <2>1, RowsOnce DEF Rows
  <2> QED
    BY <2>2
<1>3. PICK p \in 1..n : rs[p] = d
  <2>1. IsFiniteSet(Plugged)
    <3>1. Plugged \subseteq Devices
      BY DEF Plugged, Types
    <3> QED
      BY <3>1, WindowsAssumption, FS_Subset
  <2>2. PICK m \in Nat : Len(rs) = m /\ \A f \in Plugged : \E i \in 1..m : rs[i] = f
    BY <2>1, RowsOnce DEF Rows
  <2>3. d \in Plugged
    BY StayingFacts
  <2> QED
    BY <2>2, <2>3
<1>4. Run(class, rs, n, after)
  BY <1>1, RunExists
<1>5. Enriched(class, rs) = after[n]
  BY DEF Enriched, Run, Enrich
<1>6. \A i \in 0..n : after[i] = IF i = 0 THEN disks ELSE Enrich(class, after[i - 1], rs[i])
  <2> HIDE DEF after, n
  <2> QED
    BY <1>4 DEF Run
<1> HIDE DEF after, n
<1> DEFINE Good(i) == /\ Tracked(d, k, after[i])
                      /\ i < p => after[i][k] = disks[k]
                      /\ i >= p => Applied(class, d, disks[k], after[i][k])
           Bad == {i \in Nat : i <= n /\ ~Good(i)}
<1>7. ASSUME Bad # {}
      PROVE  FALSE
  <2>1. PICK m \in Bad : \A l \in Bad : m <= l
    <3>1. Bad \in SUBSET Nat
      OBVIOUS
    <3> HIDE DEF Bad
    <3> QED
      BY <1>7, <3>1, NaturalLeast
  <2>2. m \in 0..n
    BY <1>1
  <2>3. m # 0
    BY <1>1, <1>3, <1>6
  <2>4. m - 1 \in 0..n /\ m \in 1..n /\ ~(m <= m - 1)
    BY <1>1, <2>2, <2>3
  <2>5. Good(m - 1)
    BY <1>1, <2>1, <2>4
  <2>6. after[m] = Enrich(class, after[m - 1], rs[m])
    BY <1>6, <2>2, <2>3
  <2>7. /\ Tracked(d, k, after[m])
        /\ rs[m] # d => after[m][k] = after[m - 1][k]
        /\ rs[m] = d => Applied(class, d, after[m - 1][k], after[m][k])
    BY <1>1, <2>4, <2>5, <2>6, RowEffect
  <2>8. rs[m] = d <=> m = p
    BY <1>2, <1>3, <2>4
  <2>9. Good(m)
    <3>1. CASE m = p
      <4>1. m - 1 < p /\ ~(m < p)
        BY <2>4, <3>1
      <4> QED
        BY <2>5, <2>7, <2>8, <3>1, <4>1
    <3>2. CASE m # p
      <4>1. (m < p <=> m - 1 < p) /\ (m >= p <=> m - 1 >= p)
        BY <1>3, <2>4, <3>2
      <4>2. after[m][k] = after[m - 1][k]
        BY <2>7, <2>8, <3>2
      <4> QED
        BY <2>5, <2>7, <4>1, <4>2
    <3> QED
      BY <3>1, <3>2
  <2> QED
    BY <2>9
<1>8. Good(n)
  BY <1>1, <1>7
<1> QED
  BY <1>1, <1>3, <1>5, <1>8

\* The disk of a device that stays is tracked through the loops.
LEMMA ReportedTracked ==
  ASSUME StorageInv, NEW d \in Staying, NEW k \in DOMAIN disks, Alone(d, disks),
         Entries(d) = {k}, Whole(d, disks[k])
  PROVE  Tracked(d, k, disks)
<1>1. disks \in Seq(DiskType)
  BY DEF StorageInv, Types
<1>2. \A j \in DOMAIN disks : disks[j].device = d <=> j = k
  BY DEF Entries
<1>3. disks[k].serial \in {0, d} /\ disks[k].index \in {SlotOf(d), Unset}
  BY DEF Whole, Serials, Numbering
<1> QED
  BY <1>1, <1>2, <1>3 DEF Tracked

\* After both loops each disk has the attributes of the last class that answered.
LEMMA EnrichStaged ==
  ASSUME StorageInv, Staged, NEW class \in {"MSFT_Disk", "MSFT_PhysicalDisk"}, phase = class,
         NEW next, next = (IF class = "MSFT_Disk" THEN "MSFT_PhysicalDisk" ELSE "sort"),
         NEW rs \in Rows, Proceed(next), disks' = Enriched(class, rs)
  PROVE  Staged'
<1>1. phase' = next /\ UNCHANGED <<machine, slot, numbered, letter, named, events, failed>>
  BY DEF Proceed, world
<1>2. /\ failed' \subseteq Classes /\ \A c \in failed' : Past(c)'
      /\ \A c \in Classes : c # class => (Past(c)' <=> Past(c)) /\ (Given(c)' <=> Given(c))
      /\ \A c : c = class => Given(c)' /\ Past(c)'
  <2>1. class \in Classes /\ class # "sort" /\ next \in Classes \cup {"sort"} /\ Rank[next] = Rank[class] + 1
    BY DEF Classes, Rank
  <2>2. failed' = failed
    BY <1>1
  <2> QED
    BY <1>1, <2>1, <2>2, Advancing
<1>3. ~Past("MSFT_PhysicalDisk") /\ ~Given("MSFT_PhysicalDisk")
      /\ (class = "MSFT_Disk" => ~Given("MSFT_Disk"))
  BY DEF Given, Past, Rank
<1>4. Staying' = Staying
  BY <1>1, ReadTheSame DEF Staying, Stable
<1>5. ASSUME NEW d \in Staying, Reported(d)
      PROVE  Reported(d)' /\ Related(d)'
  <2>1. PICK k \in DOMAIN disks : Entries(d) = {k} /\ Whole(d, disks[k])
    BY <1>5 DEF Reported
  <2>2. Tracked(d, k, disks)
    BY <1>5, <2>1, ReportedTracked DEF Reported
  <2>3. Tracked(d, k, disks') /\ Applied(class, d, disks[k], disks'[k])
    BY <2>2, LoopEffect DEF StorageInv
  <2> PICK e : e = disks[k]
    OBVIOUS
  <2> PICK f : f = disks'[k]
    OBVIOUS
  <2>4. /\ SlotOf(d)' = SlotOf(d) /\ Properties(d)' = Properties(d)
        /\ \A p : Has(d, p)' <=> Has(d, p)
        /\ (NumberedRow(d)' <=> NumberedRow(d))
    BY <1>1, ReadTheSame
  <2>5. k \in DOMAIN disks' /\ Entries(d)' = {k} /\ Alone(d, disks)' /\ f.serial \in {0, d}
    BY <2>3, <2>4 DEF Tracked, Entries, Alone
  <2>6. Numbering(d, e) /\ Serials(d, e) /\ Contents(d, e) /\ Latest(d, e)
    BY <2>1 DEF Whole
  <2>7. Applied(class, d, e, f)
    BY <2>3
  <2>8. e.index = SlotOf(d) <=> Has(d, "index")
    BY <2>6, StayingFacts DEF Numbering, StorageInv
  <2>9. e.serial = d <=> SerialFound(d)
    BY <1>3, <2>6 DEF Serials
  <2>10. Numbering(d, f)'
    BY <2>4, <2>6, <2>7 DEF Numbering, Applied
  <2>11. Contents(d, f)'
    <3>1. f.partitions = e.partitions
      BY <2>7 DEF Applied
    <3>2. \A c \in {"Win32_DiskPartition", "Win32_LogicalDiskToPartition", "Win32_LogicalDisk"} :
            Given(c)' <=> Given(c)
      BY <1>2 DEF Classes
    <3>3. \A n, volumes : Holds(d, n, volumes) => Holds(d, n, volumes)'
      BY <1>1, LettersUnchanged, SettlingFacts
    <3> QED
      BY <1>1, <2>4, <2>6, <3>1, <3>2, <3>3 DEF Contents, Indices
  <2>12. Serials(d, f)' /\ Latest(d, f)'
    <3>1. CASE class = "MSFT_Disk"
      <4>1. Given("MSFT_Disk")' /\ ~Given("MSFT_PhysicalDisk")' /\ ~Past("MSFT_PhysicalDisk")'
        BY <1>2, <1>3, <3>1 DEF Classes
      <4>2. Hit(class, d, e) <=> NumberedRow(d)
        BY <2>8, <3>1 DEF Hit, NumberedRow, Has, Properties
      <4>3. e.serial = d <=> "serial" \in Properties(d)
        BY <1>3, <2>9, <3>1 DEF SerialFound
      <4>4. SerialFound(d)' <=> "serial" \in Properties(d) \/ (NumberedRow(d) /\ "msftSerial" \in Properties(d))
        BY <2>4, <4>1 DEF SerialFound
      <4>5. f.serial = d <=> SerialFound(d)'
        BY <2>7, <3>1, <4>2, <4>3, <4>4 DEF Applied, Has, Properties
      <4>6. Serials(d, f)'
        BY <2>5, <4>5 DEF Serials
      <4>7. e.bus.by = "Win32_DiskDrive" /\ e.media.by = "Win32_DiskDrive"
        BY <1>3, <2>6, <3>1 DEF Latest, LastBus, LastMedia
      <4>8. f.bus.by = (IF NumberedRow(d) /\ Has(d, "msftBus") THEN "MSFT_Disk" ELSE "Win32_DiskDrive")
            /\ f.media.by = "Win32_DiskDrive"
        BY <2>7, <3>1, <4>2, <4>7 DEF Applied, TellsBus, TellsMedia
      <4> QED
        BY <2>4, <4>1, <4>6, <4>8 DEF Latest, LastBus, LastMedia
    <3>2. CASE class = "MSFT_PhysicalDisk"
      <4>1. Given("MSFT_PhysicalDisk")' /\ Past("MSFT_PhysicalDisk")' /\ (Given("MSFT_Disk")' <=> Given("MSFT_Disk"))
        BY <1>2, <3>2 DEF Classes
      <4>2. (SerialFound(d)' <=> SerialFound(d)) /\ (PhysicalRow(d)' <=> PhysicalRow(d))
        BY <2>4, <4>1 DEF SerialFound, PhysicalRow
      <4>3. Hit(class, d, e) <=> PhysicalRow(d)
        BY <2>8, <2>9, <3>2 DEF Hit, PhysicalRow, Has, Properties
      <4>4. Serials(d, f)'
        BY <2>5, <4>1 DEF Serials
      <4>5. /\ e.bus.by = IF NumberedRow(d) /\ Has(d, "msftBus") /\ Given("MSFT_Disk")
                         THEN "MSFT_Disk" ELSE "Win32_DiskDrive"
            /\ e.media.by = "Win32_DiskDrive"
        BY <1>3, <2>6 DEF Latest, LastBus, LastMedia
      <4>6. /\ f.bus.by = IF PhysicalRow(d) /\ Has(d, "physicalBus") THEN "MSFT_PhysicalDisk" ELSE e.bus.by
            /\ f.media.by = IF PhysicalRow(d) /\ Has(d, "physicalMedia") THEN "MSFT_PhysicalDisk" ELSE e.media.by
        BY <2>7, <3>2, <4>3 DEF Applied, TellsBus, TellsMedia
      <4> QED
        BY <2>4, <4>1, <4>2, <4>4, <4>5, <4>6 DEF Latest, LastBus, LastMedia
    <3> QED
      BY <3>1, <3>2
  <2>13. Whole(d, f)'
    BY <2>10, <2>11, <2>12 DEF Whole
  <2>14. Reported(d)'
    BY <2>5, <2>13 DEF Reported
  <2> QED
    BY <1>1, <2>14 DEF Related
<1>6. Given("Win32_DiskDrive")' <=> Given("Win32_DiskDrive")
  BY <1>2 DEF Classes
<1> QED
  BY <1>2, <1>4, <1>5, <1>6 DEF Staged

LEMMA QueryMSFTDisksStaged ==
  ASSUME StorageInv, Staged, QueryMSFTDisks
  PROVE  Staged'
<1>0. phase = "MSFT_Disk"
  BY DEF QueryMSFTDisks
<1>1. CASE Fail("MSFT_PhysicalDisk")
  BY <1>0, <1>1, FailStaged DEF Classes, Rank
<1>2. CASE ~Fail("MSFT_PhysicalDisk")
  BY <1>0, <1>2, EnrichStaged DEF QueryMSFTDisks
<1> QED
  BY <1>1, <1>2

LEMMA QueryPhysicalDisksStaged ==
  ASSUME StorageInv, Staged, QueryPhysicalDisks
  PROVE  Staged'
<1>0. phase = "MSFT_PhysicalDisk"
  BY DEF QueryPhysicalDisks
<1>1. CASE Fail("sort")
  BY <1>0, <1>1, FailStaged DEF Classes, Rank
<1>2. CASE ~Fail("sort")
  BY <1>0, <1>2, EnrichStaged DEF QueryPhysicalDisks
<1> QED
  BY <1>1, <1>2

\* Sorting moves the disk of a device and its partitions.
LEMMA SortStaged ==
  ASSUME StorageInv, Staged, Sort
  PROVE  Staged'
<1> DEFINE With(e) == [e EXCEPT !.partitions = Sorted(@)]
           n == Len(disks)
<1>1. PICK order \in SetToSeqs(DOMAIN disks) :
        disks' = [k \in DOMAIN order |-> With(disks[order[k]])]
  BY DEF Sort
<1>2. /\ phase = "sort" /\ phase' = "done"
      /\ UNCHANGED <<machine, slot, numbered, letter, named, events, failed>>
  BY DEF Sort, Proceed, world
<1>3. /\ n \in Nat /\ DOMAIN disks = 1..n /\ \A k \in 1..n : disks[k] \in DiskType
  BY DEF StorageInv, Types
<1> HIDE DEF n
<1>4. /\ order \in [1..n -> 1..n]
      /\ \A i, j \in 1..n : order[i] = order[j] => i = j
      /\ \A k \in 1..n : \E i \in 1..n : order[i] = k
  <2>1. Cardinality(1..n) = n
    BY <1>3, FS_Interval, SMTT(40)
  <2>2. order \in [1..n -> 1..n] /\ \A i, j \in 1..n : i # j => order[i] # order[j]
    BY <1>1, <1>3, <2>1 DEF SetToSeqs
  <2>3. \A i, j \in 1..n : i < j => order[i] # order[j]
    BY <1>3, <2>2
  <2> QED
    BY <1>3, <2>2, <2>3, PlacesOnto
<1>5. ASSUME NEW e \in DiskType
      PROVE  /\ With(e).device = e.device /\ With(e).index = e.index
             /\ With(e).serial = e.serial /\ With(e).bus = e.bus /\ With(e).media = e.media
             /\ DOMAIN With(e).partitions = DOMAIN e.partitions
             /\ \A i \in DOMAIN e.partitions : \E j \in DOMAIN e.partitions :
                  With(e).partitions[i] = e.partitions[j]
             /\ \A j \in DOMAIN e.partitions : \E i \in DOMAIN e.partitions :
                  With(e).partitions[i] = e.partitions[j]
  <2>1. e.partitions \in Seq(PartitionType)
    BY DEF DiskType
  <2>2. With(e).partitions = Sorted(e.partitions)
    BY DEF DiskType
  <2>3. /\ With(e).device = e.device /\ With(e).index = e.index
        /\ With(e).serial = e.serial /\ With(e).bus = e.bus /\ With(e).media = e.media
    BY DEF DiskType
  <2> HIDE DEF With
  <2> QED
    BY <2>1, <2>2, <2>3, SortedFacts
<1> HIDE DEF With
<1>6. DOMAIN disks' = 1..n /\ \A k \in 1..n : order[k] \in 1..n /\ disks'[k] = With(disks[order[k]])
  BY <1>1, <1>4
<1>7. /\ failed' \subseteq Classes /\ \A c \in failed' : Past(c)'
      /\ \A c \in Classes : (Past(c)' <=> Past(c)) /\ (Given(c)' <=> Given(c))
  <2>1. "sort" \notin Classes /\ Rank["done"] = Rank["sort"] + 1 /\ failed' = failed
    BY <1>2 DEF Classes, Rank
  <2> QED
    BY <1>2, <2>1, Advancing
<1>8. Staying' = Staying
  BY <1>2, ReadTheSame DEF Staying, Stable
<1>9. ASSUME NEW d \in Staying, Reported(d)
      PROVE  Reported(d)' /\ Related(d)'
  <2>1. PICK l \in 1..n : Entries(d) = {l} /\ Whole(d, disks[l])
    BY <1>3, <1>9 DEF Reported
  <2>2. PICK k \in 1..n : order[k] = l
    BY <1>4
  <2>3. SlotOf(d)' = SlotOf(d)
    BY <1>2, ReadTheSame
  <2>4. \A j \in 1..n : /\ disks'[j].device = disks[order[j]].device
                        /\ disks'[j].index = disks[order[j]].index
                        /\ disks'[j].serial = disks[order[j]].serial
    BY <1>3, <1>5, <1>6
  <2>5. Entries(d)' = {k}
    <3>1. \A j \in 1..n : disks[j].device = d <=> j = l
      BY <1>3, <2>1 DEF Entries
    <3>2. ASSUME NEW j \in 1..n
          PROVE  disks'[j].device = d <=> j = k
      <4>1. disks'[j].device = disks[order[j]].device /\ order[j] \in 1..n
        BY <1>6, <2>4
      <4>2. order[j] = l <=> j = k
        BY <1>4, <2>2
      <4> QED
        BY <3>1, <4>1, <4>2
    <3> QED
      BY <1>6, <3>2 DEF Entries
  <2>6. Alone(d, disks)'
    <3>1. Alone(d, disks)
      BY <1>9 DEF Reported
    <3> QED
      BY <1>3, <1>6, <2>3, <2>4, <3>1 DEF Alone
  <2> PICK e : e = disks[l]
    OBVIOUS
  <2> PICK f : f = disks'[k]
    OBVIOUS
  <2>7. f = With(e) /\ e \in DiskType /\ Whole(d, e)
    BY <1>3, <1>6, <2>1, <2>2
  <2>8. /\ f.index = e.index /\ f.serial = e.serial /\ f.bus = e.bus /\ f.media = e.media
        /\ DOMAIN f.partitions = DOMAIN e.partitions
        /\ \A i \in DOMAIN e.partitions : \E j \in DOMAIN e.partitions : f.partitions[i] = e.partitions[j]
        /\ \A j \in DOMAIN e.partitions : \E i \in DOMAIN e.partitions : f.partitions[i] = e.partitions[j]
    BY <1>5, <2>7
  <2>9. Whole(d, f)
    <3>1. Indices(f) = Indices(e)
      <4>1. ASSUME NEW i \in DOMAIN f.partitions
            PROVE  f.partitions[i].index \in Indices(e)
        <5>1. PICK j \in DOMAIN e.partitions : f.partitions[i] = e.partitions[j]
          BY <2>8
        <5> QED
          BY <5>1 DEF Indices
      <4>2. ASSUME NEW j \in DOMAIN e.partitions
            PROVE  e.partitions[j].index \in Indices(f)
        <5>1. PICK i \in DOMAIN f.partitions : f.partitions[i] = e.partitions[j]
          BY <2>8
        <5> QED
          BY <5>1 DEF Indices
      <4>3. Indices(f) \subseteq Indices(e)
        BY <4>1 DEF Indices
      <4>4. Indices(e) \subseteq Indices(f)
        BY <4>2 DEF Indices
      <4> QED
        BY <4>3, <4>4
    <3>2. Contents(d, f)
      <4>1. ASSUME NEW i \in DOMAIN f.partitions
            PROVE  /\ f.partitions[i].id = <<SlotOf(d), f.partitions[i].index>>
                   /\ IF Given("Win32_LogicalDiskToPartition") /\ Given("Win32_LogicalDisk")
                      THEN Holds(d, f.partitions[i].index, f.partitions[i].volumes)
                      ELSE f.partitions[i].volumes = {}
        <5>1. PICK j \in DOMAIN e.partitions : f.partitions[i] = e.partitions[j]
          BY <2>8
        <5> QED
          BY <2>7, <5>1 DEF Whole, Contents
      <4> QED
        BY <2>7, <3>1, <4>1 DEF Whole, Contents
    <3> QED
      BY <2>7, <2>8, <3>2 DEF Whole, Numbering, Serials, Latest
  <2>10. Whole(d, f)'
    BY <1>2, <1>7, <2>9, LettersUnchanged, WholeKept DEF Classes
  <2>11. Reported(d)'
    BY <1>6, <2>5, <2>6, <2>10 DEF Reported
  <2> QED
    BY <1>2, <2>11 DEF Related
<1>10. Given("Win32_DiskDrive")' <=> Given("Win32_DiskDrive")
  BY <1>7 DEF Classes
<1> QED
  BY <1>7, <1>8, <1>9, <1>10 DEF Staged

\* A device that still stays has the number it had.
LEMMA HotPlugStaged ==
  ASSUME StorageInv, Staged, HotPlug, Types'
  PROVE  Staged'
<1>1. /\ UNCHANGED <<machine, letter, named, phase, failed, disks, associations>>
      /\ numbered' = [s \in Slots |-> numbered[s] \cup {slot'[s]}]
  BY DEF HotPlug, collector
<1>2. ASSUME NEW d \in Staying'
      PROVE  d \in Staying /\ SlotOf(d)' = SlotOf(d)
  <2>1. PICK s \in Slots : numbered'[s] = {d}
    BY <1>2 DEF Staying, Stable
  <2>2. d \in Devices /\ d # 0 /\ (Identified(d)' <=> Identified(d)) /\ Identified(d)'
    BY <1>1, <1>2, WindowsAssumption DEF Staying, Stable, Identified, Has
  <2>3. slot[s] = d /\ slot'[s] = d /\ numbered[s] = {d}
    <3>1. numbered'[s] = numbered[s] \cup {slot'[s]}
      BY <1>1
    <3>2. slot[s] \in numbered[s]
      BY DEF StorageInv, Types, StorageTypeOK
    <3> QED
      BY <2>1, <3>1, <3>2
  <2>4. \A r \in Slots : (slot[r] = d <=> r = s) /\ (slot'[r] = d <=> r = s)
    BY <2>2, <2>3 DEF StorageInv, Types
  <2>5. SlotOf(d) = s /\ SlotOf(d)' = s
    BY <2>4 DEF SlotOf
  <2> QED
    BY <2>2, <2>3, <2>5 DEF Staying, Stable
<1>3. \A c : (Past(c)' <=> Past(c)) /\ (Given(c)' <=> Given(c))
  BY <1>1 DEF Past, Given
<1>4. Settled' = Settled /\ Settling
  BY <1>1, LettersUnchanged
<1>5. ASSUME NEW d \in Staying', Reported(d), Related(d)
      PROVE  Reported(d)' /\ Related(d)'
  <2>1. SlotOf(d)' = SlotOf(d) /\ Properties(d)' = Properties(d)
        /\ (\A p : Has(d, p)' <=> Has(d, p)) /\ (NumberedRow(d)' <=> NumberedRow(d))
    BY <1>1, <1>2 DEF Properties, Has, NumberedRow
  <2>2. \A e : Whole(d, e) => Whole(d, e)'
    <3> TAKE e
    <3>1. (SerialFound(d)' <=> SerialFound(d)) /\ (PhysicalRow(d)' <=> PhysicalRow(d))
      BY <1>3, <2>1 DEF SerialFound, PhysicalRow
    <3> HAVE Whole(d, e)
    <3>2. Numbering(d, e)' /\ Serials(d, e)'
      BY <1>3, <2>1, <3>1 DEF Whole, Numbering, Serials
    <3>3. Contents(d, e)'
      BY <1>1, <1>3, <1>4, <2>1, SettlingFacts DEF Whole, Contents, Indices
    <3>4. Latest(d, e)'
      BY <1>3, <2>1, <3>1 DEF Whole, Latest, LastBus, LastMedia
    <3> QED
      BY <3>2, <3>3, <3>4 DEF Whole
  <2>3. PICK k \in DOMAIN disks : Entries(d) = {k} /\ Whole(d, disks[k])
    BY <1>5 DEF Reported
  <2>4. Entries(d)' = {k} /\ Whole(d, disks[k])' /\ Alone(d, disks)'
    BY <1>1, <1>5, <2>1, <2>2, <2>3 DEF Entries, Alone, Reported
  <2>5. Reported(d)'
    BY <1>1, <2>4 DEF Reported
  <2>6. Related(d)'
    BY <1>1, <1>3, <1>4, <1>5, <2>1 DEF Related
  <2> QED
    BY <2>5, <2>6
<1> QED
  BY <1>1, <1>2, <1>3, <1>5 DEF Staged

\* A letter that still stays is that of the volume it was.
LEMMA RelabelStaged ==
  ASSUME StorageInv, Staged, Relabel
  PROVE  Staged'
<1>1. /\ UNCHANGED <<machine, slot, numbered, phase, failed, disks, associations>>
      /\ named' = [l \in Letters |-> named[l] \cup {letter'[l]}]
  BY DEF Relabel, Assign, collector
<1>2. Settling
  BY <1>1 DEF Settling, Settled, StorageInv, Types, StorageTypeOK
<1>3. \A c : (Past(c)' <=> Past(c)) /\ (Given(c)' <=> Given(c))
  BY <1>1 DEF Past, Given
<1>4. Staying' = Staying
  BY <1>1, ReadTheSame DEF Staying, Stable
<1>5. ASSUME NEW d \in Staying, Reported(d), Related(d)
      PROVE  Reported(d)' /\ Related(d)'
  <2>1. Reported(d)'
    BY <1>1, <1>2, <1>3, <1>5, ReportedKept
  <2>2. Related(d)'
    BY <1>1, <1>2, <1>3, <1>5, ReadTheSame DEF Related, Settling
  <2> QED
    BY <2>1, <2>2
<1> QED
  BY <1>1, <1>3, <1>4, <1>5 DEF Staged

LEMMA StagedStutters ==
  ASSUME Staged, UNCHANGED storageVars
  PROVE  Staged'
<1>1. UNCHANGED <<machine, slot, numbered, letter, named, phase, failed, disks, associations>>
  BY DEF storageVars, world, collector
<1>2. \A c : (Past(c)' <=> Past(c)) /\ (Given(c)' <=> Given(c))
  BY <1>1 DEF Past, Given
<1>3. Staying' = Staying
  BY <1>1, ReadTheSame DEF Staying, Stable
<1>4. ASSUME NEW d \in Staying, Reported(d), Related(d)
      PROVE  Reported(d)' /\ Related(d)'
  <2>1. Reported(d)'
    BY <1>1, <1>2, <1>4, LettersUnchanged, ReportedKept
  <2>2. Related(d)'
    BY <1>1, <1>2, <1>4, LettersUnchanged, ReadTheSame DEF Related
  <2> QED
    BY <2>1, <2>2
<1> QED
  BY <1>1, <1>2, <1>3, <1>4 DEF Staged

THEOREM StagedInvariance == Spec => []Staged
<1>1. Init => Staged
  BY DEF Init, StorageInit, Staged, Given, Past, Rank
<1>2. IInv /\ IInv' /\ Staged /\ [Next]_vars => Staged'
  <2> SUFFICES ASSUME IInv, IInv', Staged, [Next]_vars
               PROVE  Staged'
    OBVIOUS
  <2>1. StorageInv /\ Types'
    BY DEF IInv, StorageInv
  <2>2. CASE HotPlug
    BY <2>1, <2>2, HotPlugStaged
  <2>3. CASE Collect
    BY <2>1, <2>3, QueryDiskDrivesStaged, QueryPartitionsStaged, QueryAssociationsStaged,
       QueryLogicalDisksStaged, QueryMSFTDisksStaged, QueryPhysicalDisksStaged, SortStaged DEF Collect
  <2>4. CASE UNCHANGED storageVars
    BY <2>4, StagedStutters
  <2>5. CASE Relabel
    BY <2>1, <2>5, RelabelStaged
  <2>6. HotPlug \/ Relabel \/ Collect \/ UNCHANGED storageVars
    BY DEF Next, QuerySystem, QueryMemory, QueryEntities, Answered, Disks, vars
  <2> QED
    BY <2>2, <2>3, <2>4, <2>5, <2>6
<1> QED
  BY <1>1, <1>2, Invariance, PTL DEF Spec

\* A query that fails takes nothing with it but its own data, even when numbers
\* and letters pass on: each identified device that stays is reported once by
\* collectDisks, with all that the queries that succeeded tell of it.
THEOREM FailuresAreContained == Spec => []FailureOmitsOnlyItsData
<1>1. ASSUME Staged, IInv, phase = "done", Succeeded({"Win32_DiskDrive"}),
             NEW d \in Stable, {"index", "id"} \cap machine.has[d] # {}
      PROVE  \E k \in DOMAIN disks :
               LET e == disks[k]
                   partitions == {e.partitions[i].index : i \in DOMAIN e.partitions}
               IN  /\ Entries(d) = {k}
                   /\ partitions = IF {"index", "diskIndex"} \subseteq machine.has[d]
                                      /\ Succeeded({"Win32_DiskPartition"})
                                   THEN ToSet(machine.partitions[d]) ELSE {}
                   /\ \A i \in DOMAIN e.partitions :
                        LET volumes == e.partitions[i].volumes
                        IN  IF Succeeded({"Win32_LogicalDiskToPartition", "Win32_LogicalDisk"})
                            THEN \A l \in Settled :
                                   {v.of : v \in {v \in volumes : v.id = l}}
                                     = {letter[l]} \cap machine.volumes[d][e.partitions[i].index]
                            ELSE volumes = {}
                   /\ e.bus.by = LastOf(BusFrom(d), d)
                   /\ e.media.by = LastOf(MediaFrom(d), d)
  <2>1. \A c \in Classes : Given(c) <=> c \notin failed
    BY <1>1 DEF Given, Past, Rank, Classes
  <2>2. d \in Staying
    BY <1>1 DEF Staying, Identified, Has
  <2>3. PICK k \in DOMAIN disks : Entries(d) = {k} /\ Whole(d, disks[k])
    BY <1>1, <2>1, <2>2 DEF Staged, Succeeded, Classes, Reported
  <2> PICK e : e = disks[k]
    OBVIOUS
  <2>4. Contents(d, e) /\ Latest(d, e)
    BY <2>3 DEF Whole
  <2>5. /\ Given("Win32_DiskPartition") <=> Succeeded({"Win32_DiskPartition"})
        /\ Given("Win32_LogicalDiskToPartition") /\ Given("Win32_LogicalDisk")
             <=> Succeeded({"Win32_LogicalDiskToPartition", "Win32_LogicalDisk"})
        /\ Given("MSFT_Disk") <=> Succeeded({"MSFT_Disk"})
    BY <2>1 DEF Succeeded, Classes
  <2>6. \A c : c \in Recognised(d) \ failed <=>
               \/ c = "Win32_DiskDrive"
               \/ c = "MSFT_Disk" /\ NumberedRow(d) /\ Given("MSFT_Disk")
               \/ c = "MSFT_PhysicalDisk" /\ PhysicalRow(d) /\ Given("MSFT_PhysicalDisk")
    <3>1. "Win32_DiskDrive" \notin failed
      BY <1>1 DEF Succeeded
    <3>2. \A c : c \in Recognised(d) <=>
               \/ c = "Win32_DiskDrive"
               \/ c = "MSFT_Disk" /\ NumberedRow(d)
               \/ c = "MSFT_PhysicalDisk" /\ PhysicalRow(d)
      BY <2>5 DEF Recognised, NumberedRow, PhysicalRow, SerialFound, Properties
    <3> QED
      BY <2>1, <3>1, <3>2 DEF Classes
  <2>7. LastOf(BusFrom(d), d) = LastBus(d)
    BY <2>6 DEF LastOf, LastBus, BusFrom
  <2>8. LastOf(MediaFrom(d), d) = LastMedia(d)
    BY <2>6 DEF LastOf, LastMedia, MediaFrom
  <2>9. {e.partitions[i].index : i \in DOMAIN e.partitions}
          = IF {"index", "diskIndex"} \subseteq machine.has[d] /\ Succeeded({"Win32_DiskPartition"})
            THEN ToSet(machine.partitions[d]) ELSE {}
    BY <2>4, <2>5 DEF Contents, Indices, Properties
  <2>10. \A i \in DOMAIN e.partitions :
           LET volumes == e.partitions[i].volumes
           IN  IF Succeeded({"Win32_LogicalDiskToPartition", "Win32_LogicalDisk"})
               THEN \A l \in Settled :
                      {v.of : v \in {v \in volumes : v.id = l}}
                        = {letter[l]} \cap machine.volumes[d][e.partitions[i].index]
               ELSE volumes = {}
    BY <2>4, <2>5 DEF Contents, Holds
  <2>11. e.bus.by = LastBus(d) /\ e.media.by = LastMedia(d)
    BY <2>4 DEF Latest
  <2> QED
    BY <2>3, <2>7, <2>8, <2>9, <2>10, <2>11
<1>2. Staged /\ IInv => FailureOmitsOnlyItsData
  BY <1>1 DEF FailureOmitsOnlyItsData
<1> QED
  BY <1>2, StagedInvariance, Invariance, PTL
===============================================================================
