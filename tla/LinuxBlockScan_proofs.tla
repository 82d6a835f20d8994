------------------------- MODULE LinuxBlockScan_proofs -------------------------
(****************************************************************************)
(* While devices come and go, the disks collectLinuxDisks reports are       *)
(* nested as the devices are, a location leads where it should, and what    *)
(* stays plugged in is reported: for every set of devices and every number  *)
(* of hot-plug events.                                                      *)
(****************************************************************************)
EXTENDS LinuxBlockScan, OrderLemmas, SequenceTheorems

Entry == [disk : Devices, partitions : Seq(Devices)]
Steps == {"idle", "uevent", "dev", "children", "partitions"}

Types ==
    /\ TypeOK
    /\ reading \in [step : Steps, name : Devices \cup {0}]
    /\ blocks \in [DOMAIN blocks -> [typed : BOOLEAN, dev : BOOLEAN]]
    /\ reported \in Seq(Entry)
    /\ locations \in [DOMAIN locations -> [disk : Nat, partition : Nat]]

InScan == reading.step \in {"uevent", "dev"}
OnDisk == reading.step \in {"children", "partitions"}
Last == reported[Len(reported)]

\* Which loop runs, and what it leaves for the next.
Control ==
    /\ reading.step = "idle" => reading = Idle
    /\ InScan => phase = "scan" /\ Current \in todo
    /\ reading.step = "uevent" => Current \notin DOMAIN blocks
    /\ reading.step = "dev" => Current \in DOMAIN blocks
    /\ OnDisk => phase = "build" /\ reported # << >> /\ Last.disk = Current
    /\ phase \in {"list", "scan", "classify"} => reported = << >> /\ DOMAIN locations = {}
    /\ phase \in {"list", "scan"} => disks = {}
    /\ phase = "list" => DOMAIN blocks = {}
    /\ phase = "scan" => \A d \in todo \cap DOMAIN blocks : reading.step = "dev" /\ d = Current
    /\ phase = "classify" => todo \subseteq DOMAIN blocks
    /\ reading.step = "children" => todo \subseteq DOMAIN blocks

\* The disks still to be built are not reported yet; the partitions of one are
\* placed in ascending order.
Nested ==
    /\ NestedOnce
    /\ \A i \in DOMAIN reported : reported[i].disk \notin disks
    /\ \A i \in DOMAIN reported :
         \A k, m \in DOMAIN reported[i].partitions :
           k < m => reported[i].partitions[k] < reported[i].partitions[m]
    /\ OnDisk => \A c \in children : Parent[c] = Current
    /\ reading.step = "children" => Last.partitions = << >>
    /\ reading.step = "partitions" =>
         \A c \in children : \A k \in DOMAIN Last.partitions : Last.partitions[k] < c

\* Partitions are placed, and locations recorded, together; sorting moves none.
Located ==
    /\ \A d \in DOMAIN locations :
         /\ locations[d].disk \in DOMAIN reported
         /\ locations[d].partition \in DOMAIN reported[locations[d].disk].partitions
         /\ reported[locations[d].disk].partitions[locations[d].partition] = d
    /\ \A i \in DOMAIN reported : \A k \in DOMAIN reported[i].partitions :
         reported[i].partitions[k] \in DOMAIN locations

Built(i) == i < Len(reported) \/ ~OnDisk

\* What becomes of a device that stays, loop by loop.
Kept ==
    /\ phase = "scan" => stable \subseteq todo \cup DOMAIN blocks
    /\ phase \notin {"list", "scan"} => stable \subseteq DOMAIN blocks
    /\ \A d \in stable \cap DOMAIN blocks : blocks[d].typed
    /\ phase = "classify" =>
         /\ (stable \cap PhysicalDisks) \ todo \subseteq disks
         /\ stable \cap disks \subseteq PhysicalDisks
    /\ phase \in {"build", "done"} =>
         /\ stable \cap PhysicalDisks \subseteq disks \cup Reported
         /\ stable \cap (disks \cup Reported) \subseteq PhysicalDisks
         /\ \A i \in DOMAIN reported : Built(i) =>
              \A p \in stable : Parent[p] = reported[i].disk => p \in Range(reported[i].partitions)
    /\ phase = "done" => disks = {} /\ reading = Idle
    /\ reading.step = "children" =>
         \A p \in stable : Parent[p] = Current => p \in todo \cup children
    /\ reading.step = "partitions" =>
         \A p \in stable : Parent[p] = Current => p \in children \cup Range(Last.partitions)

IInv == Types /\ Control /\ Nested /\ Located /\ Kept

-------------------------------------------------------------------------------
\* A loop that still has names takes the least of them.
LEMMA LeastOfDevices ==
  ASSUME NEW S \in SUBSET Devices, S # {}
  PROVE  Least(S) \in S /\ \A e \in S : Least(S) <= e
<1>1. S \in SUBSET Nat
  BY DevicesAssumption
<1> QED
  BY <1>1, NaturalLeast DEF Least

LEMMA InitIInv == Init => IInv
<1> SUFFICES ASSUME Init PROVE IInv
  OBVIOUS
<1>1. present \subseteq Devices
  BY DEF Init
<1>2. Types
  BY <1>1, DevicesAssumption DEF Init, Types, TypeOK, Steps, Entry, Idle
<1>3. Control /\ Kept
  BY DEF Init, Control, Kept, InScan, OnDisk, Idle
<1>4. Nested /\ Located
  BY DEF Init, Nested, NestedOnce, Located, OnDisk, Idle
<1> QED
  BY <1>2, <1>3, <1>4 DEF IInv

\* What the machine does disturbs no variable of the collector, and nothing
\* becomes stable again.
LEMMA HotPlugStep == IInv /\ HotPlug => IInv'
<1> SUFFICES ASSUME IInv, HotPlug PROVE IInv'
  OBVIOUS
<1>1. stable' \subseteq stable /\ UNCHANGED scanVars
  BY DEF HotPlug, Plug, Unplug
<1>2. Types'
  <2>1. present' \subseteq Devices /\ stable' \subseteq present'
    BY DEF IInv, HotPlug, Plug, Unplug, Types, TypeOK
  <2>2. events' \in 0..MaxEvents
    BY DevicesAssumption DEF IInv, HotPlug, Types, TypeOK
  <2> QED
    BY <1>1, <2>1, <2>2 DEF IInv, scanVars, Types, TypeOK
<1>3. Control' /\ Nested' /\ Located'
  BY <1>1 DEF IInv, scanVars, Control, Nested, NestedOnce, Located, InScan, OnDisk, Last, Current, Idle
<1>4. Kept'
  <2>1. /\ phase' = phase /\ todo' = todo /\ reading' = reading /\ blocks' = blocks
        /\ disks' = disks /\ children' = children /\ reported' = reported
    BY <1>1 DEF scanVars
  <2>2. /\ Reported' = Reported /\ Last' = Last /\ Current' = Current
        /\ \A i : Built(i)' <=> Built(i)
    BY <2>1 DEF Reported, Last, Current, Built, OnDisk
  <2> QED
    BY <1>1, <2>1, <2>2 DEF IInv, Kept
<1> QED
  BY <1>2, <1>3, <1>4 DEF IInv

-------------------------------------------------------------------------------
\* scanLinuxBlocks and the choice of the disks: nothing is reported yet.

LEMMA ReadDirStep == IInv /\ ReadDir => IInv'
<1> SUFFICES ASSUME IInv, ReadDir PROVE IInv'
  OBVIOUS
<1> USE DEF IInv, ReadDir
<1>1. Types'
  BY DEF Types, TypeOK, Steps
<1>2. Control'
  BY DEF Control, InScan, OnDisk, Last, Current, Idle
<1>3. Nested' /\ Located'
  BY DEF Nested, NestedOnce, Located, OnDisk, Last, Current
<1>4. Kept'
  BY DEF Kept, Control, InScan, OnDisk
<1> QED
  BY <1>1, <1>2, <1>3, <1>4

LEMMA ResolveStep == IInv /\ Resolve => IInv'
<1> SUFFICES ASSUME IInv, Resolve PROVE IInv'
  OBVIOUS
<1> USE DEF IInv
<1> DEFINE n == Least(todo)
<1>1. n \in todo /\ n \in Devices /\ todo \subseteq Devices
  BY LeastOfDevices DEF Resolve, Types, TypeOK
<1>2. /\ phase = "scan" /\ reading = Idle
      /\ \/ reading' = [step |-> "uevent", name |-> n] /\ todo' = todo
         \/ n \notin present /\ reading' = Idle /\ todo' = todo \ {n}
      /\ UNCHANGED <<present, stable, events, phase, blocks, disks, children, reported, locations>>
  BY DEF Resolve
<1> HIDE DEF n
<1>3. Types'
  BY <1>1, <1>2 DEF Types, TypeOK, Steps, Idle
<1>4. Control'
  BY <1>1, <1>2 DEF Control, InScan, OnDisk, Last, Current, Idle
<1>5. Nested' /\ Located'
  BY <1>2 DEF Nested, NestedOnce, Located, OnDisk, Idle
<1>6. Kept'
  BY <1>1, <1>2 DEF Kept, OnDisk, Types, TypeOK, Idle
<1> QED
  BY <1>3, <1>4, <1>5, <1>6

LEMMA ReadUeventStep == IInv /\ ReadUevent => IInv'
<1> SUFFICES ASSUME IInv, ReadUevent PROVE IInv'
  OBVIOUS
<1> USE DEF IInv, ReadUevent
<1>1. Types'
  BY DEF Types, TypeOK, Steps, Control, InScan, Current, Put
<1>2. Control'
  BY DEF Control, InScan, OnDisk, Last, Current, Types, Put
<1>3. Nested' /\ Located'
  BY DEF Nested, NestedOnce, Located, OnDisk, Types
<1>4. Kept'
  BY DEF Kept, Control, InScan, OnDisk, Types, TypeOK, Current, Put
<1> QED
  BY <1>1, <1>2, <1>3, <1>4

LEMMA ReadDevStep == IInv /\ ReadDev => IInv'
<1> SUFFICES ASSUME IInv, ReadDev PROVE IInv'
  OBVIOUS
<1> USE DEF IInv
<1>1. /\ Current \in DOMAIN blocks /\ phase = "scan"
      /\ DOMAIN blocks' = DOMAIN blocks
      /\ \A d \in DOMAIN blocks : blocks'[d].typed = blocks[d].typed
      /\ reading' = Idle /\ todo' = todo \ {Current} /\ reading.step = "dev"
      /\ UNCHANGED <<present, stable, events, phase, disks, children, reported, locations>>
  BY DEF ReadDev, Control, InScan, Types
<1>2. blocks' \in [DOMAIN blocks' -> [typed : BOOLEAN, dev : BOOLEAN]]
  <2> DEFINE b == Current \in present \/ blocks[Current].typed
  <2>1. b \in BOOLEAN /\ blocks' = [blocks EXCEPT ![Current].dev = b]
    BY DEF ReadDev
  <2>2. blocks \in [DOMAIN blocks -> [typed : BOOLEAN, dev : BOOLEAN]]
    BY DEF Types
  <2> HIDE DEF b, IInv
  <2> QED
    BY <1>1, <2>1, <2>2
<1>3. Types'
  BY <1>1, <1>2 DEF Types, TypeOK, Steps, Idle
<1>4. Control'
  BY <1>1 DEF Control, InScan, OnDisk, Last, Current, Idle
<1>5. Nested' /\ Located'
  BY <1>1 DEF Nested, NestedOnce, Located, OnDisk, Idle
<1>6. Kept'
  BY <1>1 DEF Kept, OnDisk, Idle
<1> QED
  BY <1>3, <1>4, <1>5, <1>6

LEMMA ScanDoneStep == IInv /\ ScanDone => IInv'
<1> SUFFICES ASSUME IInv, ScanDone PROVE IInv'
  OBVIOUS
<1> USE DEF IInv, ScanDone
<1>1. Types'
  BY DEF Types, TypeOK
<1>2. Control'
  BY DEF Control, InScan, OnDisk, Last, Current, Idle
<1>3. Nested' /\ Located'
  BY DEF Nested, NestedOnce, Located, OnDisk, Last, Current
<1>4. Kept'
  BY DEF Kept, Control, OnDisk, Last, Current, Idle
<1> QED
  BY <1>1, <1>2, <1>3, <1>4

\* A device that is still there is told by its attribute, its type and its
\* name for what it is.
LEMMA ClassifyStep == IInv /\ Classify => IInv'
<1> SUFFICES ASSUME IInv, Classify PROVE IInv'
  OBVIOUS
<1> USE DEF IInv, Classify
<1>1. Types'
  BY DEF Types, TypeOK, Control
<1>2. Control'
  BY DEF Control, InScan, OnDisk, Last, Current, Idle
<1>3. Nested' /\ Located'
  BY DEF Nested, NestedOnce, Located, Control, InScan, OnDisk, Types, Steps
<1>4. ASSUME NEW d \in todo
      PROVE  d \in stable => (IsPhysicalDisk(d) <=> d \in PhysicalDisks)
  BY <1>4 DEF Types, TypeOK, Kept, Control, IsPhysicalDisk, PartitionAttribute, PhysicalDisks
<1>5. Kept'
  BY <1>4 DEF Kept, Control, InScan, OnDisk
<1> QED
  BY <1>1, <1>2, <1>3, <1>5

LEMMA ClassifyDoneStep == IInv /\ ClassifyDone => IInv'
<1> SUFFICES ASSUME IInv, ClassifyDone PROVE IInv'
  OBVIOUS
<1> USE DEF IInv, ClassifyDone
<1>1. Types'
  BY DEF Types, TypeOK
<1>2. Control'
  BY DEF Control, InScan, OnDisk, Last, Current
<1>3. Nested' /\ Located'
  BY DEF Nested, NestedOnce, Located, OnDisk, Last, Current
<1>4. Kept'
  BY DEF Kept, Control, InScan, OnDisk, Last, Current, Reported, Built
<1> QED
  BY <1>1, <1>2, <1>3, <1>4
-------------------------------------------------------------------------------
\* The loop over the disks.

\* A new disk goes behind those there are.
LEMMA BeginDiskReported ==
  ASSUME IInv, BeginDisk
  PROVE  /\ Current' \in disks /\ reading'.step = "children"
         /\ reported' \in Seq(Entry) /\ Len(reported') = Len(reported) + 1
         /\ \A i \in DOMAIN reported : i \in DOMAIN reported' /\ reported'[i] = reported[i]
         /\ Last' = [disk |-> Current', partitions |-> << >>]
         /\ \A i \in DOMAIN reported' : i \in DOMAIN reported \/ i = Len(reported')
         /\ Reported' = Reported \cup {Current'}
<1>1. disks # {} /\ disks \subseteq Devices
  BY DEF BeginDisk, IInv, Types, TypeOK
<1>2. Current' \in disks /\ Current' \in Devices /\ reading'.step = "children"
  BY <1>1, LeastOfDevices DEF BeginDisk, Current
<1> DEFINE e == [disk |-> Current', partitions |-> << >>]
<1>3. e \in Entry
  BY <1>2 DEF Entry
<1>4. reported \in Seq(Entry) /\ reported' = Append(reported, e)
  BY DEF BeginDisk, IInv, Types, Current
<1>5. /\ reported' \in Seq(Entry) /\ Len(reported') = Len(reported) + 1
      /\ \A i \in DOMAIN reported : i \in DOMAIN reported' /\ reported'[i] = reported[i]
      /\ reported'[Len(reported')] = e /\ Len(reported') \in DOMAIN reported'
      /\ \A i \in DOMAIN reported' : i \in DOMAIN reported \/ i = Len(reported')
  <2> HIDE DEF e
  <2> QED
    BY <1>3, <1>4
<1>6. Reported' = Reported \cup {Current'}
  <2>1. e.disk = Current'
    OBVIOUS
  <2> HIDE DEF e
  <2>2. \A x : x \in Reported' <=> x \in Reported \cup {Current'}
    BY <1>5, <2>1 DEF Reported
  <2> QED
    BY <2>2
<1> QED
  BY <1>2, <1>5, <1>6 DEF Last

LEMMA BeginDiskStep == IInv /\ BeginDisk => IInv'
<1> SUFFICES ASSUME IInv, BeginDisk PROVE IInv'
  OBVIOUS
<1> USE DEF IInv
<1> DEFINE d == Current'
<1>1. /\ d \in disks /\ reading' = [step |-> "children", name |-> d]
      /\ disks' = disks \ {d} /\ todo' = DOMAIN blocks /\ children' = {}
      /\ phase = "build" /\ reading = Idle
      /\ UNCHANGED <<present, stable, events, phase, blocks, locations>>
  BY BeginDiskReported DEF BeginDisk, Current
<1>2. /\ reported' \in Seq(Entry) /\ Len(reported') = Len(reported) + 1
      /\ \A i \in DOMAIN reported : i \in DOMAIN reported' /\ reported'[i] = reported[i]
      /\ Last' = [disk |-> d, partitions |-> << >>]
      /\ \A i \in DOMAIN reported' : i \in DOMAIN reported \/ i = Len(reported')
      /\ Reported' = Reported \cup {d}
  BY BeginDiskReported
<1>3. reported \in Seq(Entry) /\ reported' # << >> /\ Last' = reported'[Len(reported')]
  BY <1>2 DEF Types, Last
<1>4. \A i \in DOMAIN reported : i < Len(reported') /\ reported'[i].disk # d
  BY <1>1, <1>2, <1>3 DEF Nested
<1> HIDE DEF d
<1>5. Types'
  BY <1>1, <1>2 DEF Types, TypeOK, Steps, Idle
<1>6. Control'
  BY <1>1, <1>2, <1>3 DEF Control, InScan, OnDisk, Current, Idle
<1>7. Nested'
  <2>1. NestedOnce'
    BY <1>1, <1>2, <1>3, <1>4 DEF Nested, NestedOnce
  <2> QED
    BY <1>1, <1>2, <1>3, <1>4, <2>1, SMTT(40) DEF Nested, OnDisk
<1>8. Located'
  <2>1. Last'.partitions = << >>
    BY <1>2
  <2> QED
    BY <1>1, <1>2, <1>3, <2>1 DEF Located
<1>9. Kept'
  <2>1. stable \cap PhysicalDisks \subseteq disks' \cup Reported'
        /\ stable \cap (disks' \cup Reported') \subseteq PhysicalDisks
    BY <1>1, <1>2 DEF Kept
  <2>2. \A i \in DOMAIN reported' : Built(i)' =>
          \A p \in stable : Parent[p] = reported'[i].disk => p \in Range(reported'[i].partitions)
    <3>1. \A i \in DOMAIN reported' : Built(i)' => i \in DOMAIN reported
      BY <1>1, <1>2, <1>3 DEF Built, OnDisk
    <3>2. ~OnDisk
      BY <1>1 DEF OnDisk, Idle
    <3> QED
      BY <1>1, <1>2, <3>1, <3>2 DEF Kept, Built
  <2> QED
    BY <1>1, <2>1, <2>2 DEF Kept
<1> QED
  BY <1>5, <1>6, <1>7, <1>8, <1>9

LEMMA DiskBeingBuilt ==
  ASSUME IInv, OnDisk
  PROVE  /\ Len(reported) \in DOMAIN reported /\ Len(reported) \in Nat
         /\ Last \in Entry /\ Last.disk = Current /\ Current \in Devices /\ Current # 0
<1>1. reported \in Seq(Entry) /\ reported # << >> /\ Last.disk = Current
  BY DEF IInv, Types, Control
<1>2. Len(reported) \in DOMAIN reported /\ Len(reported) \in Nat
  BY <1>1
<1>3. Last \in Entry
  BY <1>1, <1>2 DEF Last
<1> QED
  BY <1>1, <1>2, <1>3, DevicesAssumption DEF Entry

\* A partition that stays has its attribute when it is asked for.
LEMMA ReadChildStep == IInv /\ ReadChild => IInv'
<1> SUFFICES ASSUME IInv, ReadChild PROVE IInv'
  OBVIOUS
<1> USE DEF IInv, ReadChild
<1>1. Types'
  BY DEF Types, TypeOK, Control, PartitionAttribute
<1>2. Control'
  BY DEF Control, InScan, OnDisk, Last, Current, Idle
<1>3. Nested'
  BY DEF Nested, NestedOnce, OnDisk, Last, Current, PartitionAttribute
<1>4. Located'
  BY DEF Located
<1>5. Kept'
  <2>1. /\ reading.step = "children" /\ phase = "build"
        /\ UNCHANGED <<present, stable, phase, reading, blocks, disks, reported>>
    BY DEF Control, OnDisk
  <2>2. \A i : (Built(i)' <=> Built(i)) /\ Reported' = Reported /\ Current' = Current
    BY <2>1 DEF Built, OnDisk, Reported, Current
  <2>3. \A p \in stable : Parent[p] = Current => p \in todo' \cup children'
    <3>1. stable \subseteq Devices /\ stable \subseteq present /\ Current # 0
      BY <2>1, DiskBeingBuilt DEF Types, TypeOK, OnDisk
    <3> QED
      BY <2>1, <3>1 DEF Kept, PartitionAttribute, Partitions
  <2> QED
    BY <2>1, <2>2, <2>3 DEF Kept
<1> QED
  BY <1>1, <1>2, <1>3, <1>4, <1>5

LEMMA ChildrenReadStep == IInv /\ ChildrenRead => IInv'
<1> SUFFICES ASSUME IInv, ChildrenRead PROVE IInv'
  OBVIOUS
<1> USE DEF IInv, ChildrenRead
<1>1. Types'
  BY DEF Types, TypeOK, Steps
<1>2. Control'
  BY DEF Control, InScan, OnDisk, Last, Current, Types
<1>3. Nested' /\ Located'
  BY DEF Nested, NestedOnce, Located, OnDisk, Last, Current, Types
<1>4. Kept'
  BY DEF Kept, Control, OnDisk, Last, Current, Reported, Built, Types, Idle
<1> QED
  BY <1>1, <1>2, <1>3, <1>4
LEMMA PlacedReported ==
  ASSUME IInv, PlacePartition, PartitionAttribute(Least(children))
  PROVE  LET d == Least(children) IN
         /\ reported' \in Seq(Entry) /\ Len(reported') = Len(reported)
         /\ \A i \in DOMAIN reported : reported'[i].disk = reported[i].disk
         /\ \A i \in DOMAIN reported : i # Len(reported) => reported'[i] = reported[i]
         /\ Last'.partitions = Append(Last.partitions, d)
<1>1. /\ reported \in Seq(Entry) /\ Len(reported) \in DOMAIN reported
      /\ Last \in Entry /\ reported[Len(reported)] = Last
  BY DiskBeingBuilt DEF PlacePartition, OnDisk, IInv, Types, Last
<1>2. PICK d \in Devices : d = Least(children)
  BY LeastOfDevices DEF PlacePartition, IInv, Types, TypeOK, Partitions
<1>3. reported' = [reported EXCEPT ![Len(reported)].partitions = Append(@, d)]
  BY <1>2 DEF PlacePartition
<1>4. Append(Last.partitions, d) \in Seq(Devices)
  BY <1>1, <1>2 DEF Entry
<1>5. /\ Len(reported') = Len(reported)
      /\ \A i \in DOMAIN reported : i # Len(reported) => reported'[i] = reported[i]
      /\ reported'[Len(reported)] = [Last EXCEPT !.partitions = Append(@, d)]
  BY <1>1, <1>3
<1>6. reported' \in Seq(Entry)
  <2>1. [Last EXCEPT !.partitions = Append(@, d)] \in Entry
    BY <1>1, <1>4 DEF Entry
  <2>2. DOMAIN reported' = DOMAIN reported
    BY <1>1, <1>3
  <2> QED
    BY <1>1, <1>3, <1>5, <2>1, <2>2
<1>7. reported'[Len(reported)].disk = Last.disk
  BY <1>1, <1>5 DEF Entry
<1>8. Last'.partitions = Append(Last.partitions, d)
  BY <1>1, <1>5 DEF Last, Entry
<1> QED
  BY <1>1, <1>2, <1>5, <1>6, <1>7, <1>8

\* What a step that places d, or leaves it out, makes of the disk being built.
LEMMA PlacePartitionStep == IInv /\ PlacePartition => IInv'
<1> SUFFICES ASSUME IInv, PlacePartition PROVE IInv'
  OBVIOUS
<1> DEFINE d == Least(children)
           at == Len(reported)
           s  == Last.partitions
<1>1. d \in children /\ d \in Devices /\ d \in Partitions /\ d \in DOMAIN blocks
  BY LeastOfDevices DEF PlacePartition, IInv, Types, TypeOK, Partitions
<1>2. \A c \in children' : c \in children /\ d < c
  <2>1. children \subseteq Devices /\ \A c \in children : c \in Nat /\ d <= c
    BY LeastOfDevices, DevicesAssumption DEF PlacePartition, IInv, Types, TypeOK, Partitions
  <2> QED
    BY <1>1, <2>1 DEF PlacePartition
<1>3. /\ reading.step = "partitions" /\ OnDisk /\ phase = "build"
      /\ children' = children \ {d}
      /\ UNCHANGED <<present, stable, events, phase, todo, reading, blocks, disks>>
  BY DEF PlacePartition, OnDisk, IInv, Control
<1>4. /\ at \in DOMAIN reported /\ at \in Nat /\ reported[at] = Last
      /\ Last \in Entry /\ Last.disk = Current /\ reported \in Seq(Entry)
      /\ s \in Seq(Devices)
  BY <1>3, DiskBeingBuilt DEF Last, Entry, IInv, Types
<1>5. CASE ~PartitionAttribute(d)
  <2>1. UNCHANGED <<locations, reported>>
    BY <1>5 DEF PlacePartition
  <2>2. d \notin stable
    BY <1>1, <1>5 DEF PartitionAttribute, IInv, Types, TypeOK
  <2>3. Types' /\ Control' /\ Located'
    BY <1>3, <2>1 DEF IInv, Types, TypeOK, Control, InScan, OnDisk, Last, Current, Located
  <2>4. Nested'
    BY <1>3, <2>1 DEF IInv, Nested, NestedOnce, OnDisk, Last, Current
  <2>5. Kept'
    <3>1. \A i : (Built(i)' <=> Built(i)) /\ Reported' = Reported /\ Current' = Current /\ Last' = Last
      BY <1>3, <2>1 DEF Built, OnDisk, Reported, Current, Last
    <3> QED
      BY <1>3, <2>1, <2>2, <3>1 DEF IInv, Kept
  <2> QED
    BY <2>3, <2>4, <2>5 DEF IInv
<1>6. CASE PartitionAttribute(d)
  <2>1. /\ reported' \in Seq(Entry) /\ Len(reported') = at
        /\ \A i \in DOMAIN reported : reported'[i].disk = reported[i].disk
        /\ \A i \in DOMAIN reported : i # at => reported'[i] = reported[i]
        /\ Last'.partitions = Append(s, d)
    BY <1>6, PlacedReported
  <2>2. /\ DOMAIN reported' = DOMAIN reported /\ Last' = reported'[at] /\ Current' = Current
        /\ Len(Append(s, d)) = Len(s) + 1 /\ Append(s, d)[Len(s) + 1] = d
        /\ \A k \in DOMAIN s : k \in DOMAIN Append(s, d) /\ Append(s, d)[k] = s[k]
        /\ \A k \in DOMAIN Append(s, d) : k \in DOMAIN s \/ k = Len(s) + 1
        /\ Len(s) + 1 \in DOMAIN Append(s, d) /\ Len(s) + 1 \in Nat
    BY <1>1, <1>3, <1>4, <2>1 DEF Last, Current
  <2>3. locations' = Put(locations, d, [disk |-> at, partition |-> Len(s) + 1])
    BY <1>4, <1>6 DEF PlacePartition
  <2> HIDE DEF d, at, s
  <2>4. Types'
    <3>1. locations' \in [DOMAIN locations' -> [disk : Nat, partition : Nat]]
      BY <1>4, <2>2, <2>3 DEF IInv, Types, Put
    <3> QED
      BY <1>3, <2>1, <3>1 DEF IInv, Types, TypeOK
  <2>5. Control'
    BY <1>3, <1>4, <2>1, <2>2 DEF IInv, Control, InScan, OnDisk, Types
  <2>6. Nested'
    <3>1. \A k \in DOMAIN s : s[k] < d /\ s[k] # d
      BY <1>1, <1>3, <1>4, DevicesAssumption DEF IInv, Nested, s
    <3>2. Parent[d] = Current /\ \A k \in DOMAIN s : Parent[s[k]] = Current
      BY <1>1, <1>3, <1>4 DEF IInv, Nested, NestedOnce, s
    <3>3. \A k, m \in DOMAIN s : k < m => s[k] < s[m]
      BY <1>4 DEF IInv, Nested, s
    <3>4. \A k, m \in DOMAIN s : s[k] = s[m] => k = m
      BY <1>4 DEF IInv, Nested, NestedOnce, s
    <3>5. NestedOnce'
      <4>1. \A i, j \in DOMAIN reported' : reported'[i].disk = reported'[j].disk => i = j
        BY <2>1, <2>2 DEF IInv, Nested, NestedOnce
      <4>2. ASSUME NEW i \in DOMAIN reported', i # at
            PROVE  LET t == reported'[i].partitions
                   IN  /\ \A k, m \in DOMAIN t : t[k] = t[m] => k = m
                       /\ \A k \in DOMAIN t : Parent[t[k]] = reported'[i].disk
        BY <2>1, <2>2, <4>2 DEF IInv, Nested, NestedOnce
      <4>3. \A k, m \in DOMAIN Append(s, d) : Append(s, d)[k] = Append(s, d)[m] => k = m
        BY <1>4, <2>2, <3>1, <3>4
      <4>4. \A k \in DOMAIN Append(s, d) : Parent[Append(s, d)[k]] = reported'[at].disk
        BY <1>4, <2>1, <2>2, <3>2
      <4>5. reported'[at].partitions = Append(s, d)
        BY <2>1, <2>2
      <4>6. \A i \in DOMAIN reported' :
              LET t == reported'[i].partitions
              IN  /\ \A k, m \in DOMAIN t : t[k] = t[m] => k = m
                  /\ \A k \in DOMAIN t : Parent[t[k]] = reported'[i].disk
        BY <4>2, <4>3, <4>4, <4>5
      <4> QED
        BY <4>1, <4>6 DEF NestedOnce
    <3>6. \A k, m \in DOMAIN Append(s, d) : k < m => Append(s, d)[k] < Append(s, d)[m]
      BY <1>4, <2>2, <3>1, <3>3
    <3>7. \A c \in children' : \A k \in DOMAIN Append(s, d) : Append(s, d)[k] < c
      BY <1>1, <1>2, <1>3, <1>4, <2>2, <3>1, DevicesAssumption DEF IInv, Nested, s
    <3> QED
      BY <1>2, <1>3, <2>1, <2>2, <3>5, <3>6, <3>7 DEF IInv, Nested, OnDisk
  <2>7. Located'
    <3>1. /\ DOMAIN locations' = DOMAIN locations \cup {d}
          /\ locations'[d] = [disk |-> at, partition |-> Len(s) + 1]
          /\ \A e \in DOMAIN locations : e # d => locations'[e] = locations[e]
      BY <2>3 DEF Put
    <3>2. \A i \in DOMAIN reported : \A k \in DOMAIN reported[i].partitions :
            /\ k \in DOMAIN reported'[i].partitions
            /\ reported'[i].partitions[k] = reported[i].partitions[k]
      <4> SUFFICES ASSUME NEW i \in DOMAIN reported, NEW k \in DOMAIN reported[i].partitions
                   PROVE  /\ k \in DOMAIN reported'[i].partitions
                          /\ reported'[i].partitions[k] = reported[i].partitions[k]
        OBVIOUS
      <4>1. CASE i # at
        BY <2>1, <4>1
      <4>2. CASE i = at
        <5>1. reported[i].partitions = s /\ reported'[i].partitions = Append(s, d)
          BY <1>4, <2>1, <2>2, <4>2 DEF s
        <5> QED
          BY <2>2, <5>1
      <4> QED
        BY <4>1, <4>2
    <3>3. \A e \in DOMAIN locations' :
            /\ locations'[e].disk \in DOMAIN reported'
            /\ locations'[e].partition \in DOMAIN reported'[locations'[e].disk].partitions
            /\ reported'[locations'[e].disk].partitions[locations'[e].partition] = e
      BY <1>4, <2>1, <2>2, <3>1, <3>2 DEF IInv, Located
    <3>4. ASSUME NEW i \in DOMAIN reported', NEW k \in DOMAIN reported'[i].partitions
          PROVE  reported'[i].partitions[k] \in DOMAIN locations'
      <4>1. CASE i = at
        <5>1. reported'[at].partitions = Append(s, d)
          BY <2>1, <2>2
        <5>2. k \in DOMAIN Append(s, d)
          BY <4>1, <5>1
        <5>3. k \in DOMAIN s \/ k = Len(s) + 1
          BY <2>2, <5>2
        <5>4. \A m \in DOMAIN s : s[m] \in DOMAIN locations
          BY <1>4 DEF IInv, Located, s
        <5>5. Append(s, d)[k] \in DOMAIN locations \cup {d}
          BY <2>2, <5>3, <5>4
        <5> QED
          BY <3>1, <4>1, <5>1, <5>5
      <4>2. CASE i # at
        <5>1. i \in DOMAIN reported /\ reported'[i].partitions = reported[i].partitions
          BY <2>1, <2>2, <4>2
        <5>2. reported[i].partitions[k] \in DOMAIN locations
          BY <5>1 DEF IInv, Located
        <5>3. DOMAIN locations \subseteq DOMAIN locations'
          BY <3>1
        <5> QED
          BY <5>1, <5>2, <5>3
      <4> QED
        BY <4>1, <4>2
    <3> QED
      BY <3>3, <3>4 DEF Located
  <2>8. Kept'
    <3>1. Reported' = Reported
      BY <2>1, <2>2, SMTT(40) DEF Reported
    <3>2. \A i \in DOMAIN reported' : Built(i)' => Built(i) /\ i # at
      BY <1>3, <1>4, <2>1, <2>2 DEF Built, OnDisk
    <3>3. \A i \in DOMAIN reported' : Built(i)' =>
            \A p \in stable : Parent[p] = reported'[i].disk => p \in Range(reported'[i].partitions)
      BY <1>3, <2>1, <2>2, <3>2 DEF IInv, Kept
    <3>4. \A p \in stable : Parent[p] = Current => p \in children' \cup Range(Append(s, d))
      BY <1>3, <1>4, <2>2 DEF IInv, Kept, Range, s
    <3> QED
      BY <1>3, <2>1, <2>2, <3>1, <3>3, <3>4 DEF IInv, Kept
  <2> QED
    BY <2>4, <2>5, <2>6, <2>7, <2>8 DEF IInv
<1> QED
  BY <1>5, <1>6
LEMMA EndDiskStep == IInv /\ EndDisk => IInv'
<1> SUFFICES ASSUME IInv, EndDisk PROVE IInv'
  OBVIOUS
<1> USE DEF IInv
<1>1. /\ reading.step = "partitions" /\ OnDisk /\ children = {} /\ phase = "build"
      /\ reading' = Idle /\ ~OnDisk'
      /\ UNCHANGED <<present, stable, events, phase, todo, blocks, disks, children, reported, locations>>
  BY DEF EndDisk, OnDisk, Control, Idle
<1>2. Types' /\ Control'
  BY <1>1 DEF Types, TypeOK, Steps, Control, InScan, Idle
<1>3. Nested' /\ Located'
  BY <1>1 DEF Nested, NestedOnce, Located, Idle
<1>4. Kept'
  <2>1. \A p \in stable : Parent[p] = Last.disk => p \in Range(Last.partitions)
    BY <1>1 DEF Kept, Control
  <2>2. \A i \in DOMAIN reported : Built(i) \/ reported[i] = Last
    BY <1>1, DiskBeingBuilt DEF Built, Last, Types
  <2>3. \A i \in DOMAIN reported : \A p \in stable :
          Parent[p] = reported[i].disk => p \in Range(reported[i].partitions)
    BY <1>1, <2>1, <2>2 DEF Kept
  <2>4. Reported' = Reported
    BY <1>1 DEF Reported
  <2> QED
    BY <1>1, <2>3, <2>4 DEF Kept, Idle
<1> QED
  BY <1>2, <1>3, <1>4

\* A sequence in ascending order is not changed by sorting it.
LEMMA SortedAlready ==
  ASSUME NEW s \in Seq(Nat), \A i, j \in DOMAIN s : i < j => s[i] < s[j]
  PROVE  Sorted(s) = s
<1> DEFINE Orders == {p \in [DOMAIN s -> DOMAIN s] :
                        \A i, j \in DOMAIN s : i < j => p[i] # p[j] /\ s[p[i]] <= s[p[j]]}
           order  == CHOOSE p \in Orders : TRUE
           same   == [i \in DOMAIN s |-> i]
<1>1. DOMAIN s \subseteq Nat /\ \A i \in DOMAIN s : s[i] \in Nat
  OBVIOUS
<1>2. same \in Orders
  <2>1. same \in [DOMAIN s -> DOMAIN s]
    OBVIOUS
  <2>2. \A i, j \in DOMAIN s : i < j => same[i] # same[j] /\ s[same[i]] <= s[same[j]]
    BY <1>1
  <2> QED
    BY <2>1, <2>2
<1>3. order \in Orders
  BY <1>2
<1>4. \A i, j \in DOMAIN s : i < j => order[i] < order[j]
  <2> SUFFICES ASSUME NEW i \in DOMAIN s, NEW j \in DOMAIN s, i < j
               PROVE  order[i] < order[j]
    OBVIOUS
  <2>1. /\ order[i] \in DOMAIN s /\ order[j] \in DOMAIN s
        /\ order[i] # order[j] /\ s[order[i]] <= s[order[j]]
    BY <1>3
  <2> HIDE DEF order
  <2>2. order[i] \in Nat /\ order[j] \in Nat /\ s[order[i]] \in Nat /\ s[order[j]] \in Nat
    BY <1>1, <2>1
  <2>3. ASSUME order[j] < order[i]
        PROVE  FALSE
    <3>1. s[order[j]] < s[order[i]]
      BY <2>1, <2>3
    <3> QED
      BY <2>1, <2>2, <3>1
  <2> QED
    BY <2>1, <2>2, <2>3
<1>5. order = same
  <2> DEFINE Moved == {i \in DOMAIN s : order[i] # i}
  <2> SUFFICES ASSUME Moved # {} PROVE FALSE
    BY <1>3
  <2>1. PICK n \in Nat : DOMAIN s = 1..n
    OBVIOUS
  <2>2. \A i \in 1..n : order[i] \in 1..n
    BY <1>3, <2>1
  <2>3. Moved \in SUBSET Nat
    BY <1>1
  <2> HIDE DEF order, Moved
  <2>4. PICK m \in Moved : \A e \in Moved : m <= e
    BY <2>3, NaturalLeast
  <2>5. m \in 1..n /\ order[m] # m /\ order[m] \in 1..n /\ \A i \in 1..n : i < m => order[i] = i
    BY <2>1, <2>2, <2>4, SMTT(40) DEF Moved
  <2>6. order[m] > m
    BY <1>4, <2>1, <2>5
  <2> DEFINE Beyond == {i \in 1..n : order[i] > i}
             Far == {n - i : i \in Beyond}
  <2>7. Far \in SUBSET Nat /\ Far # {}
    BY <2>5, <2>6
  <2>8. PICK k \in 1..n : order[k] > k /\ \A i \in 1..n : order[i] > i => i <= k
    <3>1. PICK f \in Far : \A e \in Far : f <= e
      <4> HIDE DEF Far
      <4> QED
        BY <2>7, NaturalLeast
    <3>2. PICK k \in Beyond : f = n - k
      OBVIOUS
    <3>3. \A i \in Beyond : f <= n - i
      BY <3>1
    <3> QED
      BY <3>2, <3>3
  <2>9. k \in Nat /\ n \in Nat /\ order[k] \in Nat /\ k + 1 \in 1..n
    BY <2>2, <2>8
  <2>10. order[k + 1] \in Nat /\ order[k + 1] > order[k]
    <3>1. k \in DOMAIN s /\ k + 1 \in DOMAIN s /\ k < k + 1
      BY <2>1, <2>9
    <3>2. order[k] < order[k + 1]
      BY <1>4, <3>1
    <3>3. order[k + 1] \in 1..n
      BY <2>2, <2>9
    <3> QED
      BY <3>2, <3>3, <2>9
  <2> QED
    BY <2>8, <2>9, <2>10
<1>6. Sorted(s) = [i \in DOMAIN s |-> s[order[i]]]
  BY DEF Sorted
<1>7. s = [i \in DOMAIN s |-> s[i]]
  OBVIOUS
<1> HIDE DEF order
<1> QED
  BY <1>5, <1>6, <1>7

LEMMA FinishStep == IInv /\ Finish => IInv'
<1> SUFFICES ASSUME IInv, Finish PROVE IInv'
  OBVIOUS
<1> USE DEF IInv
<1>1. /\ phase = "build" /\ reading = Idle /\ disks = {} /\ phase' = "done"
      /\ reported' = [i \in DOMAIN reported |->
                        [reported[i] EXCEPT !.partitions = Sorted(@)]]
      /\ UNCHANGED <<present, stable, events, todo, reading, blocks, disks, children, locations>>
  BY DEF Finish
<1>2. reported' = reported
  <2>1. reported \in Seq(Entry)
    BY DEF Types
  <2>2. ASSUME NEW i \in DOMAIN reported
        PROVE  [reported[i] EXCEPT !.partitions = Sorted(@)] = reported[i]
    <3>1. reported[i] \in Entry
      BY <2>1
    <3>2. reported[i].partitions \in Seq(Nat)
      <4> DEFINE s == reported[i].partitions
      <4>1. s \in Seq(Devices)
        BY <3>1 DEF Entry
      <4>2. PICK n \in Nat : DOMAIN s = 1..n
        BY <4>1
      <4>3. \A k \in 1..n : s[k] \in Nat
        <5>1. Devices \subseteq Nat /\ \A k \in 1..n : s[k] \in Devices
          BY <4>1, <4>2, DevicesAssumption
        <5> QED
          BY <5>1
      <4> HIDE DEF s
      <4>4. s = [k \in 1..n |-> s[k]]
        BY <4>1, <4>2
      <4>5. s \in Seq(Nat)
        BY <4>2, <4>3, <4>4
      <4> QED
        BY <4>5 DEF s
    <3>3. Sorted(reported[i].partitions) = reported[i].partitions
      BY <3>2, SortedAlready DEF Nested
    <3> QED
      BY <3>1, <3>3 DEF Entry
  <2>3. reported = [i \in DOMAIN reported |-> reported[i]]
    BY <2>1
  <2> QED
    BY <1>1, <2>2, <2>3
<1>3. Types' /\ Control'
  BY <1>1, <1>2 DEF Types, TypeOK, Control, InScan, OnDisk, Current, Idle
<1>4. NestedOnce' /\ Nested' /\ Located'
  <2>1. NestedOnce'
    BY <1>2 DEF Nested, NestedOnce
  <2>2. ~OnDisk' /\ reading'.step # "children" /\ reading'.step # "partitions"
    BY <1>1 DEF OnDisk, Idle
  <2>3. Nested'
    BY <1>1, <1>2, <2>1, <2>2 DEF Nested
  <2> QED
    BY <1>1, <1>2, <2>1, <2>3 DEF Located
<1>5. Kept'
  BY <1>1, <1>2 DEF Kept, Reported, Built, OnDisk, Idle
<1> QED
  BY <1>3, <1>4, <1>5
LEMMA NextIInv == IInv /\ [Next]_vars => IInv'
<1> SUFFICES ASSUME IInv, [Next]_vars PROVE IInv'
  OBVIOUS
<1>1. CASE HotPlug
  BY <1>1, HotPlugStep
<1>2. CASE Collect
  BY <1>2, ReadDirStep, ResolveStep, ReadUeventStep, ReadDevStep, ScanDoneStep,
     ClassifyStep, ClassifyDoneStep, BeginDiskStep, ReadChildStep, ChildrenReadStep,
     PlacePartitionStep, EndDiskStep, FinishStep DEF Collect
<1>3. CASE UNCHANGED vars
  <2>1. /\ Types' /\ Control' /\ Located'
        /\ UNCHANGED <<reading, phase, reported, disks, children, todo, stable, blocks>>
    BY <1>3 DEF IInv, vars, scanVars, Types, TypeOK, Control, InScan, OnDisk, Last, Current, Located
  <2>2. Nested'
    BY <2>1 DEF IInv, Nested, NestedOnce, OnDisk, Last, Current
  <2>3. Kept'
    BY <2>1 DEF IInv, Kept, Reported, Built, OnDisk, Last, Current
  <2> QED
    BY <2>1, <2>2, <2>3 DEF IInv
<1> QED
  BY <1>1, <1>2, <1>3 DEF Next

-------------------------------------------------------------------------------
\* The inductive invariant holds whatever the machine does meanwhile.
THEOREM Invariance == Spec => []IInv
<1> QED
  BY InitIInv, NextIInv, PTL DEF Spec

\* Type correctness: the loops visit devices, disks come from the scan, and
\* children are partitions the scan found.
THEOREM TypeCorrect == Spec => []TypeOK
<1>1. IInv => TypeOK
  BY DEF IInv, Types
<1> QED
  BY <1>1, Invariance, PTL

\* Partitions are nested under their own disk, once, and until the volumes are
\* attached each location leads to the partition it was recorded for, however
\* often devices go and come back between the reads.
THEOREM LocationsLead == Spec => []LocationsMatch
<1>1. IInv => LocationsMatch
  <2> SUFFICES ASSUME IInv PROVE LocationsMatch
    OBVIOUS
  <2>1. \A d \in DOMAIN locations :
          \E i \in DOMAIN reported : d \in Range(reported[i].partitions)
    BY DEF IInv, Located, Range
  <2>2. \A i \in DOMAIN reported : Range(reported[i].partitions) \subseteq DOMAIN locations
    BY DEF IInv, Located, Range
  <2>3. DOMAIN locations = UNION {Range(reported[i].partitions) : i \in DOMAIN reported}
    BY <2>1, <2>2
  <2> QED
    BY <2>3 DEF IInv, Nested, Located, LocationsMatch
<1> QED
  BY <1>1, Invariance, PTL

\* A physical disk that is there from the listing to the end is reported, with
\* each of its partitions that is, and no partition or virtual device that
\* stays is taken for a disk.
THEOREM StableReported == Spec => []StableDevicesReported
<1>1. IInv => StableDevicesReported
  <2> SUFFICES ASSUME IInv, phase = "done" PROVE StableDevicesReported
    BY DEF StableDevicesReported
  <2>1. /\ disks = {} /\ stable \cap PhysicalDisks \subseteq Reported
        /\ stable \cap Reported \subseteq PhysicalDisks
    BY DEF IInv, Kept
  <2>2. \A i \in DOMAIN reported : Built(i)
    BY DEF IInv, Kept, Built, OnDisk, Idle
  <2>3. ASSUME NEW d \in stable \cap PhysicalDisks
        PROVE  /\ PartitionsOf(d) \subseteq {p \in Partitions : Parent[p] = d}
               /\ {p \in stable : Parent[p] = d} \subseteq PartitionsOf(d)
    <3>1. d # 0 /\ d \in Reported
      BY <2>1, DevicesAssumption DEF PhysicalDisks
    <3>2. \A i \in DOMAIN reported : \A p \in Range(reported[i].partitions) :
            p \in Devices /\ Parent[p] = reported[i].disk
      <4>1. \A i \in DOMAIN reported : reported[i].partitions \in Seq(Devices)
        <5>1. \A i \in DOMAIN reported : reported[i] \in Entry
          BY DEF IInv, Types
        <5> QED
          BY <5>1 DEF Entry
      <4> QED
        BY <4>1 DEF IInv, Nested, NestedOnce, Range
    <3>3. PICK i \in DOMAIN reported : reported[i].disk = d
      BY <3>1 DEF Reported
    <3>4. {p \in stable : Parent[p] = d} \subseteq Range(reported[i].partitions)
      BY <2>2, <3>3 DEF IInv, Kept
    <3> QED
      BY <3>1, <3>2, <3>3, <3>4 DEF PartitionsOf, Partitions
  <2> QED
    BY <2>1, <2>3 DEF StableDevicesReported
<1> QED
  BY <1>1, Invariance, PTL

===============================================================================
