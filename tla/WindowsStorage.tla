---------------------------- MODULE WindowsStorage ----------------------------
(****************************************************************************)
(* collectDisks (src/collect_storage_windows.go): disks, partitions and     *)
(* volumes put together from six WMI queries, one after the other.          *)
(*                                                                          *)
(* Any query may fail or panic (queryClass makes one of the other), a row   *)
(* may lack any property, and between the queries disks are plugged in and  *)
(* out, so that a disk number can pass to another device, and drive letters *)
(* pass from one volume to another.  The rows of different queries are      *)
(* joined by disk number, by serial number, by partition ID and by letter.  *)
(*                                                                          *)
(* Each attribute is modelled by where it comes from: the device and the    *)
(* class of the row; a volume by its letter and the volume that had it when *)
(* its row was read.  A serial number is the number of its device, 0 if     *)
(* unknown.  Bus stands for every property that a later query replaces if   *)
(* it knows it, serial for every property that it only completes.           *)
(****************************************************************************)
EXTENDS Integers, FiniteSets, Sequences, SequencesExt

CONSTANTS
    Devices,    \* storage devices, numbered from 1
    Slots,      \* disk numbers Windows gives them
    Volumes,    \* volumes on their partitions, numbered from 1
    Letters,    \* drive letters
    MaxEvents   \* bound on the events during one collection

Numbers == 1..2     \* partitions of a device
Unset == -1         \* a nil pointer or an empty string
UniqueId(d) == 100 + d      \* an MSFT_Disk row always has one

\* For each device: the properties its rows have, its partitions in the order
\* of the rows, and the volumes that lie on each partition; the volume each
\* letter is first given to; and the classes whose queries are bound to succeed.
Machine(m) ==
    /\ DOMAIN m = {"has", "partitions", "volumes", "letter", "reliable"}
    /\ m.has \in [Devices -> SUBSET {"index", "id", "serial", "diskIndex", "number",
                                     "msftSerial", "msftBus", "deviceID", "physicalSerial",
                                     "physicalBus", "physicalMedia"}]
    /\ m.partitions \in [Devices -> Seq(Numbers)]
    /\ m.volumes \in [Devices -> [Numbers -> SUBSET Volumes]]
    /\ m.letter \in [Letters -> Volumes \cup {0}]

ASSUME WindowsAssumption ==
    /\ Devices \subseteq Nat \ {0} /\ IsFiniteSet(Devices)
    /\ Slots \subseteq Nat /\ IsFiniteSet(Slots)
    /\ Volumes \subseteq Nat \ {0}
    /\ MaxEvents \in Nat

VARIABLES
    machine,
    slot,           \* the device that has each disk number now; 0 for none
    numbered,       \* all that had each disk number since the collection began
    letter,         \* the volume that has each letter now; 0 for none
    named,          \* all that had each letter since the collection began
    events,         \* events so far, and those that cannot happen
    phase,          \* the class to be queried next
    failed,         \* the classes whose query failed
    disks,          \* `disks`
    associations    \* `associationRows`

collector == <<phase, failed, disks, associations>>
world == <<machine, slot, numbered, letter, named, events>>
storageVars == <<world, collector>>

Plugged == {slot[s] : s \in Slots} \ {0}
SlotOf(d) == CHOOSE s \in Slots : slot[s] = d
On(d, v) == \E n \in Numbers : v \in machine.volumes[d][n]
Has(d, property) == property \in machine.has[d]

StorageInit(machines, over) ==
    /\ machine \in machines
    /\ slot \in [Slots -> Devices \cup {0}]
    /\ \A s, t \in Slots : slot[s] = slot[t] => s = t \/ slot[s] = 0
    /\ numbered = [s \in Slots |-> {slot[s]}]
    /\ letter = machine.letter
    /\ named = [l \in Letters |-> {letter[l]}]
    /\ events = over
    /\ phase = "Win32_DiskDrive"
    /\ failed = {}
    /\ disks = << >>
    /\ associations = {}

-------------------------------------------------------------------------------
\* The machine.

Unplug(s) ==
    /\ slot[s] # 0
    /\ slot' = [slot EXCEPT ![s] = 0]

\* Any number that is free may be given, the one of a device just gone as well.
Plug(s, d) ==
    /\ slot[s] = 0 /\ d \notin Plugged
    /\ slot' = [slot EXCEPT ![s] = d]

HotPlug ==
    /\ events < MaxEvents /\ phase # "done"
    /\ events' = events + 1
    /\ \E s \in Slots : Unplug(s) \/ \E d \in Devices : Plug(s, d)
    /\ numbered' = [s \in Slots |-> numbered[s] \cup {slot'[s]}]
    /\ UNCHANGED <<machine, letter, named, collector>>

\* Letter l is given to volume v, which loses the one it had, or is withdrawn.
Assign(l, v) ==
    /\ events < MaxEvents /\ phase # "done"
    /\ events' = events + 1
    /\ letter[l] # v
    /\ letter' = [m \in Letters |-> IF m = l THEN v ELSE IF letter[m] = v THEN 0 ELSE letter[m]]
    /\ named' = [m \in Letters |-> named[m] \cup {letter'[m]}]
    /\ UNCHANGED <<machine, slot, numbered, collector>>

Relabel == \E l \in Letters : \E v \in Volumes \cup {0} : Assign(l, v)

-------------------------------------------------------------------------------
\* A query that fails is skipped; the next one is made.
Fail(next) ==
    /\ phase \notin machine.reliable
    /\ failed' = failed \cup {phase}
    /\ phase' = next
    /\ UNCHANGED <<world, disks, associations>>

Proceed(next) ==
    /\ phase' = next
    /\ UNCHANGED <<world, failed>>

\* The rows of a query come in any order.
Rows == SetToSeqs(Plugged)

\* A row gives an ID or a number.
Identified(d) == Has(d, "index") \/ Has(d, "id")

\* The loop over the Win32_DiskDrive rows.
NewDisk(d) ==
    [device |-> d,
     index  |-> IF Has(d, "index") THEN SlotOf(d) ELSE Unset,
     id     |-> IF Has(d, "id") THEN SlotOf(d) ELSE Unset,
     serial |-> IF Has(d, "serial") THEN d ELSE 0,
     bus    |-> [of |-> d, by |-> "Win32_DiskDrive"],
     media  |-> [of |-> d, by |-> "Win32_DiskDrive"],
     partitions |-> << >>]

\* Slip: rows without ID and number are reported as well.
QueryDiskDrivesSlipFilter ==
    /\ phase = "Win32_DiskDrive"
    /\ \/ Fail("done")
       \/ /\ Proceed("Win32_DiskPartition")
          /\ \E rows \in Rows : disks' = [i \in DOMAIN rows |-> NewDisk(rows[i])]
          /\ UNCHANGED associations

QueryDiskDrives ==
    /\ phase = "Win32_DiskDrive"
    /\ \/ Fail("done")
       \/ /\ Proceed("Win32_DiskPartition")
          /\ \E rows \in SetToSeqs({d \in Plugged : Identified(d)}) :
               disks' = [i \in DOMAIN rows |-> NewDisk(rows[i])]
          /\ UNCHANGED associations

\* disksByIndex: of two disks with one number the later one; 0 for none.
WithIndex(ds, s) == {k \in DOMAIN ds : ds[k].index = s}
\* Slip: the disk number taken for the position in the list.
ByIndexSlipPosition(ds, s) == IF s + 1 \in DOMAIN ds THEN s + 1 ELSE 0
ByIndex(ds, s) == IF WithIndex(ds, s) = {} THEN 0 ELSE Max(WithIndex(ds, s))

\* attachPartitions: the partitions of the device that has the number s now.
PartitionRows(s) ==
    IF s \in Slots /\ slot[s] # 0 /\ Has(slot[s], "diskIndex")
    THEN [i \in DOMAIN machine.partitions[slot[s]] |->
            [device |-> slot[s], index |-> machine.partitions[slot[s]][i],
             id |-> <<s, machine.partitions[slot[s]][i]>>, volumes |-> {}]]
    ELSE << >>

QueryPartitions ==
    /\ phase = "Win32_DiskPartition"
    /\ \/ Fail("Win32_LogicalDiskToPartition")
       \/ /\ Proceed("Win32_LogicalDiskToPartition")
          /\ disks' = [k \in DOMAIN disks |->
                         IF k = ByIndex(disks, disks[k].index)
                         THEN [disks[k] EXCEPT !.partitions = PartitionRows(disks[k].index)]
                         ELSE disks[k]]
          /\ UNCHANGED associations

QueryAssociations ==
    /\ phase = "Win32_LogicalDiskToPartition"
    /\ \/ Fail("Win32_LogicalDisk")
       \/ /\ Proceed("Win32_LogicalDisk")
          /\ associations' = {a \in [partition : Slots \X Numbers, volume : Letters] :
                                LET d == slot[a.partition[1]]
                                IN  d # 0 /\ letter[a.volume] \in machine.volumes[d][a.partition[2]]}
          /\ UNCHANGED disks

\* The letters a Win32_LogicalDisk row is for.
Mounted == {l \in Letters : \E d \in Plugged : On(d, letter[l])}

\* A partition with the volumes whose letters its associations tell.
WithVolumes(p) ==
    [p EXCEPT !.volumes =
       {[id |-> l, of |-> letter[l]] :
          l \in {l \in Mounted : [partition |-> p.id, volume |-> l] \in associations}}]

\* Volumes are joined only when all three queries succeeded.
QueryLogicalDisks ==
    /\ phase = "Win32_LogicalDisk"
    /\ \/ Fail("MSFT_Disk")
       \/ /\ Proceed("MSFT_Disk")
          /\ disks' = IF failed \cap {"Win32_DiskPartition", "Win32_LogicalDiskToPartition"} # {}
                      THEN disks
                      ELSE [k \in DOMAIN disks |-> [disks[k] EXCEPT !.partitions =
                              [i \in DOMAIN @ |-> WithVolumes(@[i])]]]
          /\ UNCHANGED associations

-------------------------------------------------------------------------------
\* Slip: the arguments of firstString swapped, MSFT_Disk's ID wins.
EnrichDiskSlipID(ds, d) ==
    LET k == ByIndex(ds, SlotOf(d))
    IN  IF Has(d, "number") /\ k # 0
        THEN [ds EXCEPT ![k].id  = UniqueId(d),
                        ![k].serial = IF @ = 0 /\ Has(d, "msftSerial") THEN d ELSE @,
                        ![k].bus = IF Has(d, "msftBus") THEN [of |-> d, by |-> "MSFT_Disk"] ELSE @]
        ELSE ds

\* The loop of enrichMSFTDisks, for the row of device d.
EnrichDisk(ds, d) ==
    LET k == ByIndex(ds, SlotOf(d))
    IN  IF Has(d, "number") /\ k # 0
        THEN [ds EXCEPT ![k].id  = IF @ = Unset THEN UniqueId(d) ELSE @,
                        ![k].serial = IF @ = 0 /\ Has(d, "msftSerial") THEN d ELSE @,
                        ![k].bus = IF Has(d, "msftBus") THEN [of |-> d, by |-> "MSFT_Disk"] ELSE @]
        ELSE ds

\* diskForPhysicalRow: by number, or else the first disk with the serial number.
DiskForPhysicalRow(ds, d) ==
    LET byNumber == IF Has(d, "deviceID") THEN ByIndex(ds, SlotOf(d)) ELSE 0
        bySerial == {k \in DOMAIN ds : Has(d, "physicalSerial") /\ ds[k].serial = d}
    IN  IF byNumber # 0 \/ bySerial = {} THEN byNumber ELSE Min(bySerial)

\* The loop of enrichMSFTPhysicalDisks.
EnrichPhysicalDisk(ds, d) ==
    LET k == DiskForPhysicalRow(ds, d)
    IN  IF k = 0 THEN ds
        ELSE [ds EXCEPT ![k].serial = IF @ = 0 /\ Has(d, "physicalSerial") THEN d ELSE @,
                        ![k].bus   = IF Has(d, "physicalBus") THEN [of |-> d, by |-> "MSFT_PhysicalDisk"] ELSE @,
                        ![k].media = IF Has(d, "physicalMedia") THEN [of |-> d, by |-> "MSFT_PhysicalDisk"] ELSE @]

\* The disks after one of the two loops over the rows of its class.
Enriched(class, rows) ==
    LET after[i \in 0..Len(rows)] ==
          IF i = 0 THEN disks
          ELSE IF class = "MSFT_Disk" THEN EnrichDisk(after[i - 1], rows[i])
          ELSE EnrichPhysicalDisk(after[i - 1], rows[i])
    IN  after[Len(rows)]

\* Slip: without MSFT_Disk the other class of the namespace is not asked.
QueryMSFTDisksSlipStop ==
    /\ phase = "MSFT_Disk"
    /\ \/ Fail("sort")
       \/ /\ Proceed("MSFT_PhysicalDisk")
          /\ \E rows \in Rows : disks' = Enriched("MSFT_Disk", rows)
          /\ UNCHANGED associations

QueryMSFTDisks ==
    /\ phase = "MSFT_Disk"
    /\ \/ Fail("MSFT_PhysicalDisk")
       \/ /\ Proceed("MSFT_PhysicalDisk")
          /\ \E rows \in Rows : disks' = Enriched("MSFT_Disk", rows)
          /\ UNCHANGED associations

QueryPhysicalDisks ==
    /\ phase = "MSFT_PhysicalDisk"
    /\ \/ Fail("sort")
       \/ /\ Proceed("sort")
          /\ \E rows \in Rows : disks' = Enriched("MSFT_PhysicalDisk", rows)
          /\ UNCHANGED associations

\* Disks with a number come first.
Before(e, f) ==
    IF e.index # f.index /\ e.index # Unset /\ f.index # Unset THEN e.index < f.index
    ELSE IF e.index = f.index THEN e.id < f.id
    ELSE e.index # Unset

\* Partitions in the order of their index.
Sorted(s) ==
    LET order == CHOOSE p \in [DOMAIN s -> DOMAIN s] :
                   \A i, j \in DOMAIN s : i < j => p[i] # p[j] /\ s[p[i]].index <= s[p[j]].index
    IN  [i \in DOMAIN s |-> s[order[i]]]

\* Disks or partitions that are equal in the order are left in any.
Sort ==
    /\ phase = "sort"
    /\ Proceed("done")
    /\ \E order \in SetToSeqs(DOMAIN disks) :
         /\ \A j, k \in DOMAIN order : j < k => ~Before(disks[order[k]], disks[order[j]])
         /\ disks' = [k \in DOMAIN order |-> [disks[order[k]] EXCEPT !.partitions = Sorted(@)]]
    /\ UNCHANGED associations

Collect ==
    \/ QueryDiskDrives \/ QueryPartitions \/ QueryAssociations \/ QueryLogicalDisks
    \/ QueryMSFTDisks \/ QueryPhysicalDisks \/ Sort

-------------------------------------------------------------------------------
Classes == {"Win32_DiskDrive", "Win32_DiskPartition", "Win32_LogicalDiskToPartition",
            "Win32_LogicalDisk", "MSFT_Disk", "MSFT_PhysicalDisk"}

\* A disk is identified, and numbered only by numbers that exist.
StorageTypeOK ==
    /\ Machine(machine)
    /\ \A s \in Slots : slot[s] \in numbered[s] /\ numbered[s] \subseteq Devices \cup {0}
    /\ \A l \in Letters : letter[l] \in named[l] /\ named[l] \subseteq Volumes \cup {0}
    /\ events \in 0..MaxEvents
    /\ phase \in Classes \cup {"sort", "done"}
    /\ failed \subseteq Classes
    /\ \A k \in DOMAIN disks :
         /\ disks[k].device \in Devices
         /\ disks[k].index \in Slots \cup {Unset}
         /\ disks[k].index # Unset \/ disks[k].id # Unset
         /\ disks[k].serial \in Devices \cup {0}

\* The devices that had the number of a disk, or only the one its row was about.
Had(e) == IF e.index = Unset THEN {e.device} ELSE numbered[e.index] \ {0}

\* A reported disk has nothing of a device that never had its number: its
\* attributes and partitions come from rows about devices that had it, and its
\* volumes are what their letters stood for, on a partition with that index of
\* such a device.  Unless its number or a letter passes on during the collection,
\* all that is reported of a disk is its own.
OneDevice ==
    \A k \in DOMAIN disks :
      LET e == disks[k]
      IN  /\ e.device \in Had(e)
          /\ e.serial \in Had(e) \cup {0}
          /\ e.bus.of \in Had(e) /\ e.media.of \in Had(e)
          /\ \A i \in DOMAIN e.partitions :
               /\ e.partitions[i].device \in Had(e)
               /\ \A v \in e.partitions[i].volumes :
                    /\ v.of \in named[v.id]
                    /\ \E d \in Had(e), w \in named[v.id] :
                         w \in machine.volumes[d][e.partitions[i].index]

Succeeded(S) == failed \cap S = {}
Entries(d) == {k \in DOMAIN disks : disks[k].device = d}

\* The classes whose rows can be recognised as being about d.
Recognised(d) ==
    {"Win32_DiskDrive"}
      \cup {c \in {"MSFT_Disk"} : {"index", "number"} \subseteq machine.has[d]}
      \cup {c \in {"MSFT_PhysicalDisk"} :
              \/ {"index", "deviceID"} \subseteq machine.has[d]
              \/ {"serial", "physicalSerial"} \subseteq machine.has[d]
              \/ /\ {"index", "number", "msftSerial", "physicalSerial"} \subseteq machine.has[d]
                 /\ Succeeded({"MSFT_Disk"})}

\* The last of these classes that succeeded and whose rows can be recognised.
LastOf(classes, d) ==
    CHOOSE c \in classes \cap (Recognised(d) \ failed) :
      \A b \in classes \cap (Recognised(d) \ failed) :
        b = c \/ b = "Win32_DiskDrive" \/ c = "MSFT_PhysicalDisk"

BusFrom(d) ==
    {"Win32_DiskDrive"} \cup {c \in {"MSFT_Disk"} : Has(d, "msftBus")}
                        \cup {c \in {"MSFT_PhysicalDisk"} : Has(d, "physicalBus")}
MediaFrom(d) ==
    {"Win32_DiskDrive"} \cup {c \in {"MSFT_PhysicalDisk"} : Has(d, "physicalMedia")}

\* The devices that are plugged in all the time, with one number, and the
\* letters that stay with one volume.
Stable == {d \in Devices : \E s \in Slots : numbered[s] = {d}}
Settled == {l \in Letters : named[l] = {letter[l]}}

\* A query that fails takes nothing with it but its own data: each identified
\* device that stays is reported once, with its partitions if their query
\* succeeded, with the volumes of their letters if all three queries about them
\* did, and with the attributes of the last class that succeeded, can be
\* recognised and knows them.
FailureOmitsOnlyItsData ==
    phase = "done" /\ Succeeded({"Win32_DiskDrive"}) =>
      \A d \in {d \in Stable : {"index", "id"} \cap machine.has[d] # {}} :
        \E k \in DOMAIN disks :
          LET e == disks[k]
              partitions == {e.partitions[i].index : i \in DOMAIN e.partitions}
          IN  /\ Entries(d) = {k}
              /\ partitions = IF {"index", "diskIndex"} \subseteq machine.has[d] /\ Succeeded({"Win32_DiskPartition"})
                              THEN ToSet(machine.partitions[d]) ELSE {}
              /\ \A i \in DOMAIN e.partitions :
                   LET volumes == e.partitions[i].volumes
                   IN  IF Succeeded({"Win32_LogicalDiskToPartition", "Win32_LogicalDisk"})
                       THEN \A l \in Settled :
                              {v.of : v \in {v \in volumes : v.id = l}}
                                = {letter[l]} \cap machine.volumes[d][e.partitions[i].index]
                       ELSE volumes = {}
              /\ e.bus.by = LastOf(BusFrom(d), d)
              /\ e.media.by = LastOf(MediaFrom(d), d)

\* What was once found remains, whatever the later queries do: the disks, their
\* IDs and serial numbers, their partitions and the volumes on them.
BaseRemains ==
    [][\A e \in ToSet(disks) : \E f \in ToSet(disks') :
         /\ f.device = e.device
         /\ f.id = e.id \/ e.id = Unset
         /\ f.serial = e.serial \/ e.serial = 0
         /\ \A p \in ToSet(e.partitions) : \E q \in ToSet(f.partitions) :
              q.id = p.id /\ q.device = p.device /\ p.volumes \subseteq q.volumes]_storageVars
===============================================================================
