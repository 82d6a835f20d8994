---------------------------- MODULE LinuxBlockScan ----------------------------
(****************************************************************************)
(* scanLinuxBlocks, isLinuxPhysicalDisk, childPartitionNames and the disk   *)
(* loop of collectLinuxDisks (src/collect_storage_linux.go), while devices  *)
(* come and go.                                                             *)
(*                                                                          *)
(* The collector takes no snapshot: it lists /sys/class/block once and then *)
(* opens one attribute after another, some of them (`partition`) three      *)
(* times.  An attribute of a device that is gone reads as "".  Every read   *)
(* that depends on the presence of a device is a step of its own, and the   *)
(* kernel may remove or add a device between any two.                       *)
(*                                                                          *)
(* Devices are numbers in the natural order of their names; the number of a *)
(* partition has the same order.                                            *)
(****************************************************************************)
EXTENDS Naturals, FiniteSets, Sequences, Functions

CONSTANTS
    Devices,    \* block devices the machine may have
    Parent,     \* the whole device a partition is on; 0 for a whole device
    Virtual,    \* devices excluded by their sysfs path or their name
    MaxEvents   \* bound on the hot-plug events during one collection

ASSUME DevicesAssumption ==
    /\ Devices \subseteq Nat \ {0} /\ IsFiniteSet(Devices)
    /\ Parent \in [Devices -> Devices \cup {0}]
    /\ \A d \in Devices : Parent[d] # 0 => Parent[Parent[d]] = 0
    /\ Virtual \subseteq Devices
    /\ \A d \in Devices : Parent[d] # 0 => (d \in Virtual <=> Parent[d] \in Virtual)
    /\ MaxEvents \in Nat

VARIABLES
    present,    \* the devices sysfs shows now
    stable,     \* those that were there all the time since the listing
    events,     \* number of hot-plug events so far
    phase,      \* the loop collectLinuxDisks is in
    todo,       \* what that loop has still to visit
    reading,    \* the step within one iteration, with the device it is about
    blocks,     \* `blocks`: what the scan recorded of each device
    disks,      \* `diskNames`
    children,   \* childPartitionNames of the disk being built
    reported,   \* `disks`: the disks built so far, each with its partitions
    locations   \* `locations`

scanVars == <<phase, todo, reading, blocks, disks, children, reported, locations>>
vars == <<present, stable, events, scanVars>>

Partitions == {d \in Devices : Parent[d] # 0}
PhysicalDisks == Devices \ (Partitions \cup Virtual)

Least(S) == CHOOSE d \in S : \A e \in S : d <= e
Idle == [step |-> "idle", name |-> 0]

\* A map with one entry set.
Put(map, key, value) ==
    [k \in DOMAIN map \cup {key} |-> IF k = key THEN value ELSE map[k]]

\* The kernel adds a disk before its partitions and removes it after them.
Coherent(S) == \A d \in S \cap Partitions : Parent[d] \in S

Init ==
    /\ present \in {S \in SUBSET Devices : Coherent(S)}
    /\ stable = present
    /\ events = 0
    /\ phase = "list"
    /\ todo = {}
    /\ reading = Idle
    /\ blocks = << >>
    /\ disks = {}
    /\ children = {}
    /\ reported = << >>
    /\ locations = << >>

-------------------------------------------------------------------------------
\* The machine.

Unplug(d) ==
    /\ d \in present
    /\ present' = present \ {d}
    /\ stable' = stable \ {d}

Plug(d) ==
    /\ d \notin present
    /\ present' = present \cup {d}
    /\ UNCHANGED stable

HotPlug ==
    /\ events < MaxEvents
    /\ events' = events + 1
    /\ \E d \in Devices : Unplug(d) \/ Plug(d)
    /\ Coherent(present')
    /\ UNCHANGED scanVars

-------------------------------------------------------------------------------
\* scanLinuxBlocks.

ReadDir ==
    /\ phase = "list"
    /\ phase' = "scan"
    /\ todo' = present
    /\ stable' = present
    /\ UNCHANGED <<present, events, reading, blocks, disks, children, reported, locations>>

Current == reading.name

\* EvalSymlinks fails on a device that is gone, and the scan skips it.
Resolve ==
    /\ phase = "scan" /\ reading = Idle /\ todo # {}
    /\ LET n == Least(todo)
       IN  IF n \in present
             THEN reading' = [step |-> "uevent", name |-> n] /\ todo' = todo
             ELSE reading' = Idle /\ todo' = todo \ {n}
    /\ UNCHANGED <<present, stable, events, phase, blocks, disks, children, reported, locations>>

\* The DEVTYPE of a device whose uevent could not be read stays unknown.
ReadUevent ==
    /\ reading.step = "uevent"
    /\ blocks' = Put(blocks, Current, [typed |-> Current \in present, dev |-> FALSE])
    /\ reading' = [reading EXCEPT !.step = "dev"]
    /\ UNCHANGED <<present, stable, events, phase, todo, disks, children, reported, locations>>

\* The device number comes from `dev` or else from the uevent.
ReadDev ==
    /\ reading.step = "dev"
    /\ blocks' = [blocks EXCEPT ![Current].dev = Current \in present \/ blocks[Current].typed]
    /\ reading' = Idle
    /\ todo' = todo \ {Current}
    /\ UNCHANGED <<present, stable, events, phase, disks, children, reported, locations>>

ScanDone ==
    /\ phase = "scan" /\ reading = Idle /\ todo = {}
    /\ phase' = "classify"
    /\ todo' = DOMAIN blocks
    /\ UNCHANGED <<present, stable, events, reading, blocks, disks, children, reported, locations>>

-------------------------------------------------------------------------------
\* The loop over the map of blocks that picks the disks, in any order.

PartitionAttribute(d) == d \in Partitions \cap present    \* reads as non-empty

\* Slip: partitions are told by DEVTYPE alone and virtual devices let in.
IsDiskByDevtype(d) == blocks[d].typed => d \notin Partitions

IsPhysicalDisk(d) ==
    /\ ~PartitionAttribute(d)
    /\ blocks[d].typed => d \notin Partitions
    /\ d \notin Virtual

Classify ==
    /\ phase = "classify"
    /\ \E d \in todo :
         /\ todo' = todo \ {d}
         /\ disks' = IF IsPhysicalDisk(d) THEN disks \cup {d} ELSE disks
    /\ UNCHANGED <<present, stable, events, phase, reading, blocks, children, reported, locations>>

ClassifyDone ==
    /\ phase = "classify" /\ todo = {}
    /\ phase' = "build"
    /\ UNCHANGED <<present, stable, events, todo, reading, blocks, disks, children, reported, locations>>

-------------------------------------------------------------------------------
\* The loop over the disks, in natural order.

BeginDisk ==
    /\ phase = "build" /\ reading = Idle /\ disks # {}
    /\ reading' = [step |-> "children", name |-> Least(disks)]
    /\ disks' = disks \ {Least(disks)}
    /\ todo' = DOMAIN blocks
    /\ children' = {}
    /\ reported' = Append(reported, [disk |-> Least(disks), partitions |-> << >>])
    /\ UNCHANGED <<present, stable, events, phase, blocks, locations>>

\* Slip: every device on the disk is a child, whatever its attribute says.
ReadChildByPath ==
    /\ reading.step = "children"
    /\ \E d \in todo :
         /\ todo' = todo \ {d}
         /\ children' = IF Parent[d] = Current \/ d = Current
                        THEN children \cup {d} ELSE children
    /\ UNCHANGED <<present, stable, events, phase, reading, blocks, disks, reported, locations>>

\* childPartitionNames reads the attribute of every block once more.
ReadChild ==
    /\ reading.step = "children"
    /\ \E d \in todo :
         /\ todo' = todo \ {d}
         /\ children' = IF PartitionAttribute(d) /\ Parent[d] = Current
                        THEN children \cup {d} ELSE children
    /\ UNCHANGED <<present, stable, events, phase, reading, blocks, disks, reported, locations>>

ChildrenRead ==
    /\ reading.step = "children" /\ todo = {}
    /\ reading' = [reading EXCEPT !.step = "partitions"]
    /\ UNCHANGED <<present, stable, events, phase, todo, blocks, disks, children, reported, locations>>

\* Slip: the location is recorded before the number is read.
PlacePartitionFirst ==
    /\ reading.step = "partitions" /\ children # {}
    /\ LET d == Least(children)
           at == Len(reported)
       IN  /\ children' = children \ {d}
           /\ locations' = Put(locations, d,
                               [disk |-> at, partition |-> Len(reported[at].partitions) + 1])
           /\ reported' = IF PartitionAttribute(d)
                          THEN [reported EXCEPT ![at].partitions = Append(@, d)] ELSE reported
    /\ UNCHANGED <<present, stable, events, phase, todo, reading, blocks, disks>>

\* The partition number is read a third time; without it the partition is left
\* out.  The location is the place the partition is about to be appended to.
PlacePartition ==
    /\ reading.step = "partitions" /\ children # {}
    /\ LET d == Least(children)
           at == Len(reported)
       IN  /\ children' = children \ {d}
           /\ IF PartitionAttribute(d)
                THEN /\ locations' = Put(locations, d,
                                         [disk |-> at, partition |-> Len(reported[at].partitions) + 1])
                     /\ reported' = [reported EXCEPT ![at].partitions = Append(@, d)]
                ELSE UNCHANGED <<locations, reported>>
    /\ UNCHANGED <<present, stable, events, phase, todo, reading, blocks, disks>>

EndDisk ==
    /\ reading.step = "partitions" /\ children = {}
    /\ reading' = Idle
    /\ UNCHANGED <<present, stable, events, phase, todo, blocks, disks, children, reported, locations>>

\* s with its elements in ascending order.
Sorted(s) ==
    LET Orders == {p \in [DOMAIN s -> DOMAIN s] :
                     \A i, j \in DOMAIN s : i < j => p[i] # p[j] /\ s[p[i]] <= s[p[j]]}
        order  == CHOOSE p \in Orders : TRUE
    IN  [i \in DOMAIN s |-> s[order[i]]]

\* The volumes are attached through locations, and only then are the partitions
\* of each disk sorted by number.
Finish ==
    /\ phase = "build" /\ reading = Idle /\ disks = {}
    /\ phase' = "done"
    /\ reported' = [i \in DOMAIN reported |->
                      [reported[i] EXCEPT !.partitions = Sorted(@)]]
    /\ UNCHANGED <<present, stable, events, todo, reading, blocks, disks, children, locations>>

Collect ==
    \/ ReadDir \/ Resolve \/ ReadUevent \/ ReadDev \/ ScanDone
    \/ Classify \/ ClassifyDone
    \/ BeginDisk \/ ReadChild \/ ChildrenRead \/ PlacePartition \/ EndDisk \/ Finish

Next == HotPlug \/ Collect

Spec == Init /\ [][Next]_vars

-------------------------------------------------------------------------------
TypeOK ==
    /\ present \subseteq Devices /\ stable \subseteq present
    /\ events \in 0..MaxEvents
    /\ phase \in {"list", "scan", "classify", "build", "done"}
    /\ todo \subseteq Devices
    /\ reading.step \in {"idle", "uevent", "dev", "children", "partitions"}
    /\ reading.name \in Devices \cup {0}
    /\ DOMAIN blocks \subseteq Devices
    /\ disks \subseteq DOMAIN blocks
    /\ children \subseteq Partitions \cap DOMAIN blocks

Reported == {reported[i].disk : i \in DOMAIN reported}
PartitionsOf(d) ==
    UNION {Range(reported[i].partitions) : i \in {j \in DOMAIN reported : reported[j].disk = d}}

\* Partitions are nested under their own disk, once, and no device is two disks.
NestedOnce ==
    /\ \A i, j \in DOMAIN reported : reported[i].disk = reported[j].disk => i = j
    /\ \A i \in DOMAIN reported :
         LET s == reported[i].partitions
         IN  /\ \A k, m \in DOMAIN s : s[k] = s[m] => k = m
             /\ \A k \in DOMAIN s : Parent[s[k]] = reported[i].disk

\* A location leads to the partition it was recorded for, and every partition
\* has one: the volumes attached through it land where they belong.  Partitions
\* are under their own disk, once.
LocationsMatch ==
    NestedOnce /\
    (phase # "done" =>
      /\ \A d \in DOMAIN locations :
           LET s == reported[locations[d].disk].partitions
               k == locations[d].partition
           IN  k \in DOMAIN s /\ s[k] = d
      /\ DOMAIN locations = UNION {Range(reported[i].partitions) : i \in DOMAIN reported})

\* A device that stays is reported as what it is, whatever happens to the
\* others: every physical disk, with each of its partitions, and no partition
\* or virtual device among the disks.
StableDevicesReported ==
    phase = "done" =>
      /\ stable \cap PhysicalDisks \subseteq Reported
      /\ \A d \in stable \cap PhysicalDisks :
           /\ PartitionsOf(d) \subseteq {p \in Partitions : Parent[p] = d}
           /\ {p \in stable : Parent[p] = d} \subseteq PartitionsOf(d)
      /\ Reported \cap stable \subseteq PhysicalDisks

\* Every reported disk is a physical storage device.
DisksArePhysical == Reported \subseteq PhysicalDisks
===============================================================================
