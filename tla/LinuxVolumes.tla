----------------------------- MODULE LinuxVolumes -----------------------------
(****************************************************************************)
(* attachLinuxVolumes, mergeLinuxVolume, linuxVolumeFromBlock and           *)
(* readLinuxMounts (src/collect_storage_linux.go): from the mount table and *)
(* the udev properties of every block device to the volumes reported under  *)
(* the physical partitions.                                                 *)
(*                                                                          *)
(* Volume.MountPoints is a Go slice.  The volume made for one block is      *)
(* appended to every partition underneath it, and the copies share the      *)
(* backing array of that slice; a later block with the same volume ID is    *)
(* merged into the copies one by one.  The model therefore keeps an array   *)
(* heap: a slice is an array and a length, its capacity is the length of    *)
(* the array, and append writes into the array when it has room.            *)
(*                                                                          *)
(* Strings are numbers, in the order of their bytes: 0 is "", the others    *)
(* are volume IDs or mount paths.  Blocks are numbers in natural order.     *)
(* Label and capacity, which are merged first come first served and take no *)
(* part in any decision, are left out.                                      *)
(****************************************************************************)
EXTENDS BlockGraph, Sequences

CONSTANTS
    NBlocks,    \* blocks are numbered 1..NBlocks
    Inputs,     \* the machines the collector may be run on
    Exact,      \* arrays of up to so many strings are allocated without room to spare
    Rooms       \* what append may leave free in an array it allocates

Blocks == 1..NBlocks

\* A machine: its block graph; per block the udev properties ID_FS_UUID,
\* ID_FS_USAGE and ID_FS_TYPE ("typed") and the ID /dev/<name>; and the lines of
\* mountinfo, each with the block that has its device number and the block its
\* source path leads to (0 when there is none), the source and the mount path.
Line == [device : Blocks \cup {0}, leads : Blocks \cup {0}, source : Nat, path : Nat \ {0}]

Machine(in) ==
    /\ WellFormed(in.graph, Blocks)
    /\ in.uuid \in [Blocks -> Nat]
    /\ in.usage \in [Blocks -> {"", "filesystem", "other"}]
    /\ in.typed \in [Blocks -> BOOLEAN]
    /\ in.devID \in [Blocks -> Nat \ {0}]
    /\ in.mountinfo \in Seq(Line)

ASSUME InputsAssumption ==
    /\ \A in \in Inputs : Machine(in)
    /\ NBlocks \in Nat /\ Exact \in Nat /\ Rooms \subseteq Nat

VARIABLES
    input,      \* the machine, fixed during a collection
    line,       \* the next line of mountinfo to read
    mounts,     \* `mounts`: per block its source and its mount points
    block,      \* the block attachLinuxVolumes is at
    volume,     \* the volume of that block, once made
    todo,       \* the backing locations the volume is not attached to yet
    volumes,    \* the volumes of each partition, in order
    heap,       \* the arrays behind the slices
    done        \* the volumes have been sorted

vars == <<input, line, mounts, block, volume, todo, volumes, heap, done>>

Partitions == input.graph.located
NoVolume == [id |-> 0, array |-> 0, len |-> 0]

First(a, b) == IF a # 0 THEN a ELSE b       \* firstString

Init ==
    /\ input \in Inputs
    /\ line = 1
    /\ mounts = [b \in Blocks |-> [source |-> 0, points |-> << >>]]
    /\ block = 1
    /\ volume = NoVolume
    /\ todo = {}
    /\ volumes = [p \in Partitions |-> << >>]
    /\ heap = << >>
    /\ done = FALSE

-------------------------------------------------------------------------------
\* Slices of strings.

Elements(h, s) == [k \in 1..s.len |-> h[s.array][k]]

\* s in ascending order of its elements' keys.
SortedBy(s, key) ==
    LET order == CHOOSE p \in [DOMAIN s -> DOMAIN s] :
                   \A i, j \in DOMAIN s : i < j => p[i] # p[j] /\ key[p[i]] <= key[p[j]]
    IN  [i \in DOMAIN s |-> s[order[i]]]

\* Slip: the repetitions stay.
KeepRepeats(s) == s

\* uniqueStrings compacts in place: the array keeps its old tail.
DropRepeats(s) ==
    LET keep == {i \in DOMAIN s : s[i] # 0 /\ (i = 1 \/ s[i] # s[i - 1])}
        nth  == CHOOSE f \in [1..Cardinality(keep) -> keep] :
                  \A i, j \in DOMAIN f : i < j => f[i] < f[j]
    IN  [k \in DOMAIN nth |-> s[nth[k]]]

\* sort.Strings, then uniqueStrings, on the first n elements of array a.
Compacted(a, n) ==
    LET first  == [i \in 1..n |-> a[i]]
        sorted == SortedBy(first, first)
        unique == DropRepeats(sorted)
    IN  [array |-> [i \in DOMAIN a |-> IF i <= Len(unique) THEN unique[i]
                                       ELSE IF i <= n THEN sorted[i] ELSE a[i]],
         len   |-> Len(unique)]

\* An array with what is in a, and room.
Grown(a, room) == [i \in 1..(Len(a) + room) |-> IF i <= Len(a) THEN a[i] ELSE 0]

\* What the allocator leaves free in an array for a copy of n strings.
Spare(n) == IF n <= Exact THEN {0} ELSE Rooms

-------------------------------------------------------------------------------
\* The block a line of mountinfo is about.
Target(l) == First(l.device, l.leads)

\* readLinuxMounts: one line.  A line that leads to no block is skipped.
ReadLine ==
    /\ line <= Len(input.mountinfo)
    /\ LET l == input.mountinfo[line]
           b == Target(l)
       IN  mounts' = IF b = 0 THEN mounts
                     ELSE [mounts EXCEPT ![b] = [source |-> First(@.source, l.source),
                                                 points |-> Append(@.points, l.path)]]
    /\ line' = line + 1
    /\ UNCHANGED <<input, block, volume, todo, volumes, heap, done>>

\* attachLinuxVolumes: a block that carries no filesystem, or that no reported
\* partition carries.
HasFilesystem(b) ==
    /\ input.usage[b] \in {"", "filesystem"}
    /\ input.typed[b] \/ mounts[b].points # << >>

BackingOf(b) == Backing(input.graph, b, Blocks)

AtBlock ==
    /\ line > Len(input.mountinfo)
    /\ block \in input.graph.blocks
    /\ volume = NoVolume

SkipBlock ==
    /\ line > Len(input.mountinfo)
    /\ volume = NoVolume
    /\ block \in Blocks
    /\ block \in input.graph.blocks => ~HasFilesystem(block) \/ BackingOf(block) = {}
    /\ block' = block + 1
    /\ UNCHANGED <<input, line, mounts, volume, todo, volumes, heap, done>>

\* Slip: there is no fallback to the device itself.
VolumeIDFromMount(b) == First(input.uuid[b], mounts[b].source)

\* linuxVolumeFromBlock: the mount points are copied, sorted and compacted.
VolumeID(b) == First(input.uuid[b], First(mounts[b].source, input.devID[b]))

\* Slip: the mount points are copied one by one and leave room for another.
MakeVolumeWithRoom ==
    /\ AtBlock
    /\ HasFilesystem(block)
    /\ BackingOf(block) # {}
    /\ LET points == mounts[block].points
           c == Compacted(points, Len(points))
       IN  /\ heap' = Append(heap, Grown(c.array, 1))
           /\ volume' = [id |-> VolumeID(block), array |-> Len(heap) + 1, len |-> c.len]
    /\ todo' = BackingOf(block)
    /\ UNCHANGED <<input, line, mounts, block, volumes, done>>

MakeVolume ==
    /\ AtBlock
    /\ HasFilesystem(block)
    /\ BackingOf(block) # {}
    /\ LET points == mounts[block].points
           c == Compacted(points, Len(points))
       IN  /\ \E room \in Spare(Len(points)) : heap' = Append(heap, Grown(c.array, room))
           /\ volume' = [id |-> VolumeID(block), array |-> Len(heap) + 1, len |-> c.len]
    /\ todo' = BackingOf(block)
    /\ UNCHANGED <<input, line, mounts, block, volumes, done>>

\* The volume is attached to its backing partitions one after the other.
AttachTo(p) ==
    /\ p \in todo
    /\ todo' = todo \ {p}
    /\ IF todo = {p} THEN volume' = NoVolume /\ block' = block + 1
                     ELSE UNCHANGED <<volume, block>>
    /\ UNCHANGED <<input, line, mounts, done>>

\* Slip: the volume is appended without looking for one with its ID.
AppendAlways(p) ==
    /\ AttachTo(p)
    /\ volumes' = [volumes EXCEPT ![p] = Append(@, volume)]
    /\ UNCHANGED heap

AppendVolume(p) ==
    /\ AttachTo(p)
    /\ \A i \in DOMAIN volumes[p] : volumes[p][i].id # volume.id
    /\ volumes' = [volumes EXCEPT ![p] = Append(@, volume)]
    /\ UNCHANGED heap

\* mergeLinuxVolume: append the mount points of the new volume, in the array of
\* the target when it has room, then sort and compact them.
MergeVolume(p) ==
    /\ AttachTo(p)
    /\ \E i \in DOMAIN volumes[p] :
         /\ volumes[p][i].id = volume.id
         /\ \A j \in 1..(i - 1) : volumes[p][j].id # volume.id
         /\ \E room \in Rooms :
              LET target == volumes[p][i]
                  need   == target.len + volume.len
                  old    == heap[target.array]
                  inside == need <= Len(old)
                  space  == IF inside THEN old ELSE Grown(old, need - Len(old) + room)
                  filled == [k \in DOMAIN space |->
                               IF k \in (target.len + 1)..need
                               THEN heap[volume.array][k - target.len] ELSE space[k]]
                  c == Compacted(filled, need)
              IN  /\ heap' = IF inside THEN [heap EXCEPT ![target.array] = c.array]
                                       ELSE Append(heap, c.array)
                  /\ volumes' = [volumes EXCEPT ![p][i] =
                       [id |-> target.id, len |-> c.len,
                        array |-> IF inside THEN target.array ELSE Len(heap) + 1]]

\* The last loop of attachLinuxVolumes.
SortVolumes ==
    /\ line > Len(input.mountinfo)
    /\ block > NBlocks
    /\ ~done
    /\ volumes' = [p \in Partitions |->
                     SortedBy(volumes[p], [i \in DOMAIN volumes[p] |-> volumes[p][i].id])]
    /\ done' = TRUE
    /\ UNCHANGED <<input, line, mounts, block, volume, todo, heap>>

Next ==
    \/ ReadLine \/ SkipBlock \/ MakeVolume \/ SortVolumes
    \/ \E p \in Partitions : AppendVolume(p) \/ MergeVolume(p)

Spec == Init /\ [][Next]_vars

-------------------------------------------------------------------------------
\* Every slice is a prefix of an array of the heap.
TypeOK ==
    /\ Machine(input)
    /\ line \in 1..(Len(input.mountinfo) + 1)
    /\ block \in 1..(NBlocks + 1)
    /\ todo \subseteq Partitions
    /\ \A i \in DOMAIN heap : heap[i] \in Seq(Nat)
    /\ \A p \in Partitions : \A i \in DOMAIN volumes[p] :
         LET v == volumes[p][i]
         IN  v.id # 0 /\ v.array \in DOMAIN heap /\ v.len \in 0..Len(heap[v.array])
    /\ done \in BOOLEAN

\* The mount points a partition reports for its i-th volume.
Points(p, i) == Elements(heap, volumes[p][i])

PathsOf(b) == {mounts[b].points[k] : k \in DOMAIN mounts[b].points}

\* What the blocks say: the volumes p carries, and where each is mounted.
CarriedBy(p, id) ==
    {b \in input.graph.blocks : HasFilesystem(b) /\ p \in BackingOf(b) /\ VolumeID(b) = id}

\* A filesystem is reported under every partition underneath its device and
\* under no other, once; wrappers such as RAID members and LVM physical volumes,
\* and filesystems on whole disks, are under none.
VolumesExact ==
    done => \A p \in Partitions :
      /\ \A i, j \in DOMAIN volumes[p] : i < j => volumes[p][i].id < volumes[p][j].id
      /\ {volumes[p][i].id : i \in DOMAIN volumes[p]}
           = {VolumeID(b) : b \in {c \in input.graph.blocks :
                                     HasFilesystem(c) /\ p \in BackingOf(c)}}

\* MountPoints of a reported volume are all the mount paths of the blocks that
\* carry it on this partition, in order and without repetition.
MountPointsExact ==
    done => \A p \in Partitions : \A i \in DOMAIN volumes[p] :
      LET s == Points(p, i)
      IN  /\ \A k \in 1..(Len(s) - 1) : s[k] < s[k + 1]
          /\ {s[k] : k \in DOMAIN s} = UNION {PathsOf(b) : b \in CarriedBy(p, volumes[p][i].id)}

\* Attaching a volume to one partition changes nothing another one reports.
OtherPartitionsUntouched ==
    [][\A p \in Partitions : ~done' /\ p \notin todo \ todo' =>
         /\ volumes'[p] = volumes[p]
         /\ \A i \in DOMAIN volumes[p] : Points(p, i)' = Points(p, i)]_vars
===============================================================================
