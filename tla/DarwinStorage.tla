----------------------------- MODULE DarwinStorage -----------------------------
(****************************************************************************)
(* Disks of macOS: hw_storage (src/darwin_native_cgo.go) walks the I/O       *)
(* registry and writes a row per disk, partition and volume;                 *)
(* collectDarwinDisks (src/discover_darwin.go) puts the rows together again. *)
(*                                                                          *)
(* The registry is reduced to its media, each below the nearest medium above *)
(* it.  A BSD name is a sequence: disk3 is <<3>>, disk3s1 is <<3, 1>>, its    *)
(* snapshot disk3s1s1 is <<3, 1, 1>>.  A device ID is a name.  Label stands   *)
(* for label, filesystem and capacity, which are completed alike; 0 is an    *)
(* empty value.                                                             *)
(****************************************************************************)
EXTENDS Naturals, FiniteSets, Sequences, SequencesExt

CONSTANTS
    Media,          \* the media of the registry, positive numbers
    Registries,     \* the registries looked at
    Interrupted     \* may the registry change during a walk

\* The path of a medium holds the media above it.  A whole medium is named by a
\* number alone; a name of two parts is that of a partition right below its disk.
Registry(r) ==
    /\ r.parent \in [Media -> Media \cup {0}]
    /\ \A x \in Media : r.parent[x] < x
    /\ r.path \in [Media -> SUBSET Media]
    /\ \A x \in Media : r.path[x] = {x} \cup UNION {r.path[y] : y \in {r.parent[x]} \ {0}}
    /\ r.whole \in SUBSET Media /\ r.virtual \in SUBSET r.whole
    /\ r.name \in [Media -> Seq(Nat)]
    /\ \A x, y \in Media : r.name[x] = r.name[y] => x = y \/ r.name[x] = << >>
    /\ \A x \in r.whole : Len(r.name[x]) < 2
    /\ \A x \in Media : Len(r.name[x]) = 2 <=>
         x \notin r.whole /\ r.name[x] # << >> /\ r.parent[x] \in r.whole
    /\ \A x \in Media : Len(r.name[x]) = 2 => <<r.name[x][1]>> = r.name[r.parent[x]]
    /\ r.base \in [Media -> Nat]
    /\ r.volume \in [Media -> [described : BOOLEAN, uuid : Nat, label : Nat, mount : Nat]]

ASSUME DarwinAssumption ==
    /\ Media \subseteq Nat \ {0} /\ IsFiniteSet(Media)
    /\ Interrupted \in BOOLEAN
    /\ \A r \in Registries : Registry(r)

VARIABLES
    registry,
    phase,          \* where the collection is
    disk,           \* the disk whose media are walked, or 0
    seen,           \* the whole media looked at
    walked,         \* the media of the disk looked at
    rows,           \* the rows not yet read back; each loop reads those of one kind
    disks,          \* `disks`
    diskByID,       \* `diskByID`: the position of a disk by its ID
    partitionByID,  \* `partitionByID`: the position of a partition by its ID
    cut             \* was a walk cut short

walk == <<disk, seen, walked, cut>>
maps == <<diskByID, partitionByID>>
vars == <<registry, phase, walk, rows, disks, maps>>

Init ==
    /\ registry \in Registries
    /\ phase = "walk"
    /\ disk = 0 /\ seen = {} /\ walked = {} /\ cut = FALSE
    /\ rows = [disk |-> << >>, partition |-> << >>, volume |-> << >>]
    /\ disks = << >>
    /\ diskByID = << >> /\ partitionByID = << >>

-------------------------------------------------------------------------------
\* hw_storage

Name(x) == registry.name[x]
Above(x) == registry.path[x]    \* x and the media above it

\* hw_media_is_physical: the path of a medium contains the paths above it.
IsPhysical(x) == Above(x) \cap registry.virtual = {}

\* hw_partition_belongs_to_disk: the name of the disk, "s" and digits.
BelongsTo(x, d) == Len(Name(x)) = 2 /\ Name(x)[1] = Name(d)[1]

\* The media found below a disk.
Children(d) == {x \in Media \ (registry.whole \cup {d}) : d \in Above(x)}

\* Slip: the medium right above only.
AncestorSlipParent(x, d) ==
    LET p == registry.parent[x]
    IN  IF p # 0 /\ p \notin registry.whole /\ BelongsTo(p, d) THEN p ELSE 0

\* hw_physical_partition_ancestor: the nearest partition of the disk; 0 for none.
\* The registry is not as deep as the 64 entries after which the code gives up.
Ancestor(x, d) ==
    LET found == {y \in Above(x) \ registry.whole : BelongsTo(y, d)}
    IN  IF found = {} THEN 0 ELSE CHOOSE y \in found : \A z \in found : z <= y

\* hw_append_volume, for the medium x on the partition p.
AppendVolume(x, p) ==
    IF registry.volume[x].described
    THEN [rows EXCEPT !.volume = Append(@, [of |-> x, parent |-> Name(p)])]
    ELSE rows

NextWhole ==
    /\ phase = "walk" /\ disk = 0
    /\ \E x \in registry.whole \ seen :
         /\ seen' = seen \cup {x}
         /\ IF Name(x) = << >> \/ ~IsPhysical(x)
            THEN UNCHANGED <<disk, rows>>
            ELSE /\ disk' = x
                 /\ rows' = [rows EXCEPT !.disk = Append(@, x)]
    /\ walked' = {}
    /\ UNCHANGED <<registry, phase, disks, maps, cut>>

\* The iterator returns a medium after the one above it.
NextChild ==
    /\ phase = "walk" /\ disk # 0
    /\ \E x \in Children(disk) \ walked :
         /\ Above(x) \cap Children(disk) \subseteq walked \cup {x}
         /\ walked' = walked \cup {x}
         /\ \/ /\ BelongsTo(x, disk)
               /\ registry.base[x] # 0 \/ Name(x)[2] # 0
               /\ rows' = [AppendVolume(x, x) EXCEPT
                              !.partition = Append(@, [of |-> x, parent |-> Name(disk)])]
            \/ /\ ~BelongsTo(x, disk) /\ Ancestor(x, disk) # 0
               /\ rows' = AppendVolume(x, Ancestor(x, disk))
            \/ /\ IF BelongsTo(x, disk) THEN registry.base[x] = 0 /\ Name(x)[2] = 0
                                        ELSE Ancestor(x, disk) = 0
               /\ UNCHANGED rows
    /\ UNCHANGED <<registry, phase, disk, seen, cut, disks, maps>>

\* The iterator has no more to return, or it became invalid: IOIteratorNext
\* does not tell one from the other.
DiskDone ==
    /\ phase = "walk" /\ disk # 0
    /\ \/ walked = Children(disk) /\ UNCHANGED cut
       \/ walked # Children(disk) /\ Interrupted /\ cut' = TRUE
    /\ disk' = 0
    /\ UNCHANGED <<registry, phase, seen, walked, rows, disks, maps>>

WalkDone ==
    /\ phase = "walk" /\ disk = 0 /\ registry.whole \subseteq seen
    /\ phase' = "disks"
    /\ UNCHANGED <<registry, walk, rows, disks, maps>>

-------------------------------------------------------------------------------
\* collectDarwinDisks

Index(x) == IF Len(Name(x)) = 0 THEN 0 ELSE Last(Name(x))

ReadDisks ==
    /\ phase = "disks" /\ phase' = "partitions"
    /\ disks' = [k \in DOMAIN rows.disk |->
                    [of |-> rows.disk[k], id |-> Name(rows.disk[k]), partitions |-> << >>]]
    /\ diskByID' = [n \in {Name(x) : x \in ToSet(rows.disk)} |->
                       CHOOSE k \in DOMAIN rows.disk : Name(rows.disk[k]) = n]
    /\ rows' = [rows EXCEPT !.disk = << >>]
    /\ UNCHANGED <<registry, walk, partitionByID>>

\* Disks or partitions by number.
Sorted(s) ==
    LET order == CHOOSE p \in [DOMAIN s -> DOMAIN s] :
                   \A i, j \in DOMAIN s :
                     i < j => p[i] # p[j] /\ Index(s[p[i]].of) <= Index(s[p[j]].of)
    IN  [i \in DOMAIN s |-> s[order[i]]]

\* Slip: partitions put in their place at once, the remembered positions stay.
ReadPartitionSlipSorted ==
    /\ phase = "partitions" /\ rows.partition # << >>
    /\ LET r == Head(rows.partition)
           k == diskByID[r.parent]
           n == Len(disks[k].partitions) + 1
       IN  /\ disks' = [disks EXCEPT ![k].partitions =
                           Sorted(Append(@, [of |-> r.of, id |-> Name(r.of), volumes |-> << >>]))]
           /\ partitionByID' = [m \in DOMAIN partitionByID \cup {Name(r.of)} |->
                                  IF m = Name(r.of) THEN [disk |-> k, partition |-> n]
                                  ELSE partitionByID[m]]
    /\ rows' = [rows EXCEPT !.partition = Tail(@)]
    /\ UNCHANGED <<registry, phase, walk, diskByID>>

\* Its disk has a row, which was read.
ReadPartition ==
    /\ phase = "partitions" /\ rows.partition # << >>
    /\ LET r == Head(rows.partition)
           k == diskByID[r.parent]
           n == Len(disks[k].partitions) + 1
       IN  /\ disks' = [disks EXCEPT ![k].partitions =
                           Append(@, [of |-> r.of, id |-> Name(r.of), volumes |-> << >>])]
           /\ partitionByID' = [m \in DOMAIN partitionByID \cup {Name(r.of)} |->
                                  IF m = Name(r.of) THEN [disk |-> k, partition |-> n]
                                  ELSE partitionByID[m]]
    /\ rows' = [rows EXCEPT !.partition = Tail(@)]
    /\ UNCHANGED <<registry, phase, walk, diskByID>>

PartitionsRead ==
    /\ phase = "partitions" /\ rows.partition = << >>
    /\ phase' = "volumes"
    /\ UNCHANGED <<registry, walk, rows, disks, maps>>

\* A volume without UUID takes the ID of the partition.
NewVolume(r) ==
    LET v == registry.volume[r.of]
    IN  [of |-> {r.of},
         id |-> IF v.uuid # 0 THEN <<"uuid", v.uuid>> ELSE <<"dev", r.parent>>,
         label |-> v.label,
         mounts |-> {v.mount} \ {0}]

ReadVolume ==
    /\ phase = "volumes" /\ rows.volume # << >>
    /\ LET r == Head(rows.volume)
       IN  IF r.parent \in DOMAIN partitionByID
           THEN LET at == partitionByID[r.parent]
                IN  disks' = [disks EXCEPT ![at.disk].partitions[at.partition].volumes =
                                 Append(@, NewVolume(r))]
           ELSE UNCHANGED disks
    /\ rows' = [rows EXCEPT !.volume = Tail(@)]
    /\ UNCHANGED <<registry, phase, walk, maps>>

\* Slip: volumes without UUID are merged whatever they are.
KeySlipAlike(v) == <<v.id>>

\* The key volumes are merged by.
Key(v) == IF v.id[1] = "uuid" THEN <<v.id>> ELSE <<v.id, v.label>>

\* mergeAndSortDarwinVolumes: a volume joins the one with its key.
Joint(w, v) == [w EXCEPT !.of = @ \cup v.of,
                         !.label = IF @ # 0 THEN @ ELSE v.label,
                         !.mounts = @ \cup v.mounts]

MergeVolume(merged, v) ==
    LET same == {k \in DOMAIN merged : Key(merged[k]) = Key(v)}
        k == CHOOSE n \in same : TRUE
    IN  IF same = {} THEN Append(merged, v) ELSE [merged EXCEPT ![k] = Joint(merged[k], v)]

MergeVolumes(volumes) ==
    LET merged[n \in 0..Len(volumes)] ==
          IF n = 0 THEN << >> ELSE MergeVolume(merged[n - 1], volumes[n])
    IN  merged[Len(volumes)]

\* The order of merged volumes is left open: it is one of their attributes.
Sort ==
    /\ phase = "volumes" /\ rows.volume = << >>
    /\ phase' = "done"
    /\ LET Merged(p) == [p EXCEPT !.volumes = MergeVolumes(@)]
           InOrder(d) == LET ps == Sorted(d.partitions)
                         IN  [d EXCEPT !.partitions = [i \in DOMAIN ps |-> Merged(ps[i])]]
       IN  disks' = Sorted([k \in DOMAIN disks |-> InOrder(disks[k])])
    /\ UNCHANGED <<registry, walk, rows, maps>>

Next ==
    \/ NextWhole \/ NextChild \/ DiskDone \/ WalkDone
    \/ ReadDisks \/ ReadPartition \/ PartitionsRead \/ ReadVolume \/ Sort

Spec == Init /\ [][Next]_vars

-------------------------------------------------------------------------------
\* Until the final sort a remembered position is that of the disk or partition
\* it is remembered for.
TypeOK ==
    /\ Registry(registry)
    /\ phase \in {"walk", "disks", "partitions", "volumes", "done"}
    /\ disk \in Media \cup {0}
    /\ seen \subseteq registry.whole
    /\ disk # 0 => walked \subseteq Children(disk)
    /\ cut \in BOOLEAN /\ (cut => Interrupted)
    /\ \A k \in DOMAIN disks : disks[k].of \in seen
    /\ \A n \in DOMAIN diskByID : diskByID[n] \in DOMAIN disks
    /\ phase # "done" =>
         /\ \A n \in DOMAIN diskByID : disks[diskByID[n]].id = n
         /\ \A n \in DOMAIN partitionByID :
              LET at == partitionByID[n]
              IN  /\ at.disk \in DOMAIN disks
                  /\ at.partition \in DOMAIN disks[at.disk].partitions
                  /\ disks[at.disk].partitions[at.partition].id = n

\* Each volume entry is under the partition its media are on, stands for media
\* with one UUID, or with none, and has all their mount points.  Two entries of one
\* partition have different UUIDs, and volumes without one are merged only if they
\* are alike.
VolumesOnTheirPartition ==
    phase = "done" =>
      \A k \in DOMAIN disks : \A i \in DOMAIN disks[k].partitions :
        LET p == disks[k].partitions[i]
        IN  /\ registry.parent[p.of] = disks[k].of
            /\ \A j \in DOMAIN p.volumes :
                 LET v == p.volumes[j]
                     uuids == {registry.volume[x].uuid : x \in v.of}
                 IN  /\ \A x \in v.of : p.of \in Above(x)
                     /\ Cardinality(uuids) = 1
                     /\ v.mounts = {registry.volume[x].mount : x \in v.of} \ {0}
            /\ \A j, m \in DOMAIN p.volumes :
                 \A x \in p.volumes[j].of, y \in p.volumes[m].of :
                   LET v == registry.volume[x]  w == registry.volume[y]
                   IN  j = m <=> v.uuid = w.uuid /\ (v.uuid = 0 => v.label = w.label)

\* The media of the registry that make up a disk, a partition or a volume.
PhysicalDisks == {x \in registry.whole : IsPhysical(x) /\ Name(x) # << >>}
Partitions(d) ==
    {p \in Media \ registry.whole : /\ registry.parent[p] = d /\ Name(p) # << >>
                                    /\ registry.base[p] # 0 \/ Name(p)[2] # 0}
Filesystems(p) ==
    {x \in Media \ registry.whole : registry.volume[x].described /\ p \in Above(x)}

\* Disks and partitions are in the order of their numbers, in whatever order
\* the registry returned them.
Ordered ==
    phase = "done" =>
      /\ \A k, m \in DOMAIN disks : k < m => Index(disks[k].of) < Index(disks[m].of)
      /\ \A k \in DOMAIN disks :
           \A i, j \in DOMAIN disks[k].partitions : i < j =>
             Index(disks[k].partitions[i].of) < Index(disks[k].partitions[j].of)

\* Unless a walk was cut short everything is there: each physical disk once,
\* with each partition once, with every filesystem on it, whatever containers that
\* are not reported lie between.  Whatever there is, is in order.
NothingMissing ==
    Ordered /\
    (phase = "done" /\ ~cut =>
      /\ Len(disks) = Cardinality(PhysicalDisks)
      /\ {disks[k].of : k \in DOMAIN disks} = PhysicalDisks
      /\ \A k \in DOMAIN disks :
           LET ps == disks[k].partitions
           IN  /\ Len(ps) = Cardinality(Partitions(disks[k].of))
               /\ {ps[i].of : i \in DOMAIN ps} = Partitions(disks[k].of)
               /\ \A i \in DOMAIN ps :
                    UNION {v.of : v \in ToSet(ps[i].volumes)} = Filesystems(ps[i].of))

===============================================================================
