# A TLA+ model of rmm-hwdiscovery

`rmm-hwdiscovery` is a Go library with one operation, `Discover()`, which returns
an inventory of a machine: system, memory, processors, disks with partitions and
volumes, network adapters and GPUs. It has three implementations, chosen at build
time: Linux reads `/sys`, `/proc`, the udev database and `pci.ids`; Windows queries
WMI classes; macOS calls native frameworks through cgo and reads sysctls.

The library starts no goroutine and keeps no state between calls. What makes it
hard is its surroundings and its data:

- it takes no snapshot: Linux collectors open one file after another while devices
  and CPUs come and go, and some attributes are read several times;
- every source may be missing, fail, panic or be incomplete on its own, and the
  library promises to omit "only the unavailable data";
- the objects of different sources are joined through names, indexes, serial
  numbers and positions in lists, some of them ambiguous;
- the storage graph of Linux is walked recursively over links the library does not
  control;
- Go slices and pointers into slices are shared while they are still being changed;
- results are sorted, partly with comparators that do not order all the elements.

## 1. Inventory

| Part | Source | State while it runs | Operations | What makes it correct |
| --- | --- | --- | --- | --- |
| Public API | `doc.go`, `inventory.go`, `discover_*.go` | none | `Discover`, one collector per section | a section that fails leaves the others complete |
| Linux backing walk | `collect_storage_linux.go:379-424` | `visited`, the call stack | `linuxBackingPartitions`, `uniqueLocations` | terminates on every graph, answers exactly the reported partitions underneath the start |
| Linux volumes | `collect_storage_linux.go:229-377` | `mounts`, the `Volumes` of each partition, shared `MountPoints` arrays | `readLinuxMounts`, `attachLinuxVolumes`, `mergeLinuxVolume`, `linuxVolumeFromBlock` | each filesystem once under exactly its partitions, with all its mount paths |
| Linux disks | `collect_storage_linux.go:34-227` | `blocks`, `diskNames`, `locations` | `scanLinuxBlocks`, `isLinuxPhysicalDisk`, `childPartitionNames`, `collectLinuxDisks` | what stays plugged in is reported as what it is; `locations` point at the partition they were made for |
| Linux processors | `collect_processor_memory_linux.go:15-204` | `packages` | `linuxCPUTopology`, `applyCPUInfo`, `parseDMIProcessors`, `collectLinuxProcessors` | every CPU counted once; packages are the machine's; DMI records neither lost nor doubled |
| Memory | `collect_processor_memory_linux.go:206-314`, `collect_processor_memory_windows.go:68-128`, `discover_darwin.go:255-271` | running sum | `collectLinuxMemory`, `collectMemory`, `collectDarwinMemory` | a total that overflows is omitted, not wrapped; deterministic order |
| DMI / SMBIOS records | `dmi_linux.go`, `smbios_darwin.go` | cursor into the bytes | `parseDMIRecord`, `parseDarwinSMBIOS`, `stringAt`, `uint16At`, `uint32At` | never reads outside the record; a malformed record costs only itself |
| Linux network, GPUs, `pci.ids` | `collect_network_gpu_linux.go`, `linux_source.go` | maps from resolved path to device; the current vendor of the parser; the directory a search has reached | `collectLinuxNetworkAdapters`, `collectLinuxGPUs`, `loadPCIDatabase`, `deviceProperties`, `ancestorAttribute`, `linuxPermanentMAC`, `naturalLess` | one entry per device; no name, ID or address of another device |
| Linux system | `collect_system_linux.go` | none | `collectLinuxSystem` | each attribute from its file or its fallback |
| Windows queries | `discover_windows.go` | results of the queries made so far | `queryClass`, `discover` | an error or a panic of a query is confined to it |
| Windows storage | `collect_storage_windows.go` | `disks`, pointers into it (`byDiskIndex`, `partitionByID`) | `collectDisks`, `attachPartitions`, `enrichMSFTDisks`, `enrichMSFTPhysicalDisks` | no attribute of one disk on another; base disks survive the loss of the Storage namespace |
| Windows system, processors, network, GPUs | `collect_*_windows.go`, `normalize*_windows.go` | the system so far, and the total it hands on | `collectSystem`, `collectMemory`, `collectProcessors`, `collectNetworkAdapters`, `collectGPUs` | what the queries that succeeded tell is in the report; unidentified rows skipped |
| macOS native framing | `darwin_native_cgo.go` | a growing C buffer | `hw_row_*`, `darwinRecordsFromC` | a record read back is the record written |
| macOS storage | `discover_darwin.go:273-435`, `darwin_native_cgo.go:356-645` | `diskByID`, `partitionByID` | `collectDarwinDisks`, `mergeAndSortDarwinVolumes`, `hw_storage` | partitions and volumes under their own disk, deterministic order |
| macOS network, GPUs | `discover_darwin.go:553-664`, `darwin_native_cgo.go:647-845` | `byID` maps | `hw_network`, `hw_gpus`, `collectDarwinNetworkAdapters`, `collectDarwinGPUs`, `merge*` | one entry per interface or controller, joined from all rows about it |
| macOS system, processors | `discover_darwin.go:89-253` | none | `collectDarwinSystem`, `collectDarwinProcessors` | counts divided over the packages without remainder |

Behaviours that are hard here, and where they are taken up:

| Behaviour | Modelled in |
| --- | --- |
| devices and CPUs come and go between two reads; a name, a disk number or a drive letter passes to another device | LinuxBlockScan, LinuxAdapters, LinuxProcessors, WindowsStorage |
| a source fails, is cut short or panics | WindowsInventory, WindowsStorage, DarwinStorage, DarwinRows, SystemMemory, Smbios |
| recursion over links that may form cycles and diamonds | LinuxBacking |
| slices that share an array, positions remembered in slices | LinuxVolumes, LinuxBlockScan, DarwinStorage |
| joins by ambiguous keys, several records of one thing | WindowsStorage, DarwinStorage, DarwinAdapters, LinuxAdapters, LinuxVolumes, LinuxProcessors |
| arithmetic at the limit of its width, lengths from firmware | SystemMemory, Smbios, DarwinRows |

The hazards behind this table are listed one by one, with the source line where each
bites and the properties aimed at it, in `PROJECT.json`.

## 2. Modules

Constants carry their assumptions in a named `ASSUME`; inputs that a collector only
reads (the graph, the machine, the registry) are variables that `Init` picks from a
set and no action changes. An operator called `...Slip...`, or one whose comment
begins with "Slip:", is no part of a specification: it is the definition below it
with one plausible bug, kept to show that the property it is paired with in
`PROJECT.json` would notice that bug.

```
BlockGraph  <- BackingSpec  <-(refinement)-  LinuxBacking  <- LinuxBacking_proofs
     ^-------- LinuxVolumes     <- LinuxVolumes_proofs
               LinuxBlockScan   <- LinuxBlockScan_proofs
               LinuxProcessors  <- LinuxProcessors_proofs
               LinuxAdapters    <- LinuxAdapters_proofs
WindowsStorage <- WindowsInventory <- WindowsInventory_proofs
Smbios         <- SystemMemory
DarwinStorage  <- Darwin_proofs
     ^-------- DarwinInventory
DarwinRows     <- Darwin_proofs
     ^-------- DarwinAdapters   <- DarwinInventory
OrderLemmas    (used by all *_proofs but the first)
```

**BlockGraph** holds what is known of the block devices of a Linux machine (blocks,
partitions, reported partitions, parents, slaves) and the definition of the partitions
underneath a device, as the least set closed under "directly underneath".

**BackingSpec** is the abstract specification of a call of `linuxBackingPartitions`:
it answers once, with exactly those partitions.

**LinuxBacking** is the recursive function itself. The Go call stack is the variable
`stack`; a frame has the device, the loop it is in, the names that loop has still to
call, and the results collected. The five `Enter*` actions are the early returns and
the two kinds of frames (lines 380-398), `CallNext` and the two `Take*Result` actions
the bodies of the loops (398-408), `ParentsExhausted`, `Return` and `Finish` their
ends. The order of names is left open: nothing holds only for one order.

**LinuxVolumes** is the rest of the volume code: the lines of mountinfo, then block
after block the volume that is made of it and attached to its backing partitions. It
takes the answer of the walk from BlockGraph, which LinuxBacking implements. Go slices
are (array, length) pairs over a heap of arrays, because `uniqueStrings` compacts in
place and the copies of a volume under several partitions share an array. `append`
writes in place when there is room and otherwise into a new array that has some room of
`Rooms` left; the copy a new volume starts from has no room as long as it holds at most
`Exact` strings, and beyond that again some of `Rooms`.

**LinuxBlockScan** is the scan of `/sys/class/block` and the loop that builds the
disks. Each read whose result depends on the presence of a device is a step, and
`HotPlug` may take place before every one of them: the partition attribute of a block
is read three times, and the three can disagree.

**LinuxProcessors** reads the package, core and die of each CPU in separate steps with
offline and online events in between, then cpuinfo at once, then pairs the packages
with the DMI records by position.

**LinuxAdapters** is the network and GPU collectors with what they use of
`linux_source.go`: the parser of `pci.ids`, line by line with its current vendor, and
the searches that go up the directories of sysfs, one directory per step (`Search`).
The name of an interface or a card is a link (`link`), which is resolved again for every
search and every number. In between a device goes or comes (`Plug`), a name passes to
another device or to none (`Pass`), an address is assigned (`Assign`); `led` remembers
where each name has led since the collection began. The steps of
one iteration are named after what is looked for next (`reading.step`); reads of one
directory are joined when a later one that fails has the effect of the first one
failing.

**Smbios** takes raw bytes apart, as the entries of Linux (`ReadEntry`: one file each)
or as the blob of macOS (`TryCandidate`: every zero byte may be the start of the table,
the longest parse wins), and makes memory modules of the records (`MakeModules`,
`ReadModules`). The reference the records are compared with is written the other way
round: what a record, written out again, must look like in the bytes.

**SystemMemory** extends it with the rows of Windows and the totals of all three
systems, with the widths of integers as parameters.

**WindowsStorage** has one action for each of the six queries of the disks and one for
the final sort. A query yields the rows of the devices present at that moment, in any
order, or it fails (an error or a recovered panic, action `Fail`). An attribute is
represented by the device and class of the row it was taken from, a volume by its letter
and the volume that had the letter when it was described. Between two queries a device
comes or goes (`HotPlug`) and a number that has become free is given to the next one; a
letter is assigned to another volume or to none (`Assign`, `Relabel`). `numbered` and
`named` remember all that had each number and each letter since the collection began.

**WindowsInventory** extends it to the whole of `discover`: the section of the disks
has its turn between those of the processors and of the network adapters, a query of
another class is answered or fails (`Answer`), and the only thing one section hands to
another is the total of the memory.

**DarwinStorage** has the walk of `hw_storage` over the registry (disks in any order,
media below a disk in any order that has parents first, and an iterator that may
become invalid at any point) and the three loops of `collectDarwinDisks` with the
positions they remember. A loop looks at rows of its own kind only, so the rows are three
queues; `Sorted` is `sort.Slice` by number, `Joint` what two volumes with one key become.
`Registry` says what the code relies on and macOS provides: a name belongs to one medium,
and a name of two numbers (`disk3s1`) to a partition right below the disk with the first
of them.

**DarwinRows** is the text between C and Go: a buffer that grows by doubling up to
`SIZE_MAX`, may fail to grow, and is split again on the Go side. What a text is made of is
a parameter. `RowsSpec` is the buffer in the hands of any collector: any script of rows
and fields, in any heap.

**DarwinAdapters** extends it at both ends: what `hw_network` and `hw_gpus` write for
the services of the registry, in every order, goes through the buffer, and the records
that are read are merged by ID. Its steps are `Write`, `Read` or leave the buffer alone,
so that every behaviour of it is one of `RowsSpec`. A key that the code writes twice in one
row is written twice in the model.

**DarwinInventory** is `Discover` on macOS: the native collectors one after the other, then
the entries made of their records.

| Module | Source |
| --- | --- |
| BlockGraph, LinuxBacking | `collect_storage_linux.go:14-26, 379-424` |
| LinuxVolumes | `collect_storage_linux.go:229-377` |
| LinuxBlockScan | `collect_storage_linux.go:34-227` |
| LinuxProcessors | `collect_processor_memory_linux.go:15-204` |
| LinuxAdapters | `collect_network_gpu_linux.go`, `linux_source.go:93-110, 171-218` |
| Smbios | `dmi_linux.go`, `smbios_darwin.go`, `collect_processor_memory_linux.go:243-282` |
| SystemMemory | `collect_processor_memory_linux.go:206-241`, `collect_processor_memory_windows.go:68-128`, `discover_darwin.go:255-271` |
| WindowsStorage | `collect_storage_windows.go`, `discover_windows.go:51-58` |
| WindowsInventory | `discover_windows.go:39-58`, `collect_system_windows.go`, `collect_processor_memory_windows.go`, `collect_network_gpu_windows.go` |
| DarwinStorage | `discover_darwin.go:273-421`, `darwin_native_cgo.go:356-645` |
| DarwinRows | `darwin_native_cgo.go:20-115, 901-925` |
| DarwinAdapters | `discover_darwin.go:553-664`, `darwin_native_cgo.go:647-845` |
| DarwinInventory | `discover_darwin.go:34-48`, `darwin_native_cgo.go:884-925` |

The exact lines of each definition are in `PROJECT.json` under `map`. The kernel, WMI,
the I/O registry and the Go library are modelled from how the code uses them and are
marked external there.

## 3. Runs

| Run | Properties | What it shows |
| --- | --- | --- |
| backing | TypeOK, NoReentry, NothingLost, NothingSkipped, ImplementsBacking, Terminates | on every graph over three names the walk ends and answers what lies underneath |
| volumes | TypeOK, VolumesExact, MountPointsExact, OtherPartitionsUntouched | each filesystem once under exactly its partitions, with all its paths, as long as no device is mounted twice on one path |
| volumes_repeated | MountPointsExact (violated) | with a device mounted twice on one path, a merge under one partition overwrites the paths of another |
| blockscan | TypeOK, LocationsMatch, StableDevicesReported | hot-plug of other devices does not disturb those that stay; partitions are under their own disk once, and volumes are attached to the right ones |
| blockscan_phantom | DisksArePhysical (violated) | a partition removed at the wrong moment is reported as a disk |
| processors | TypeOK, CountedOnce, TopologyExact, NothingDropped | CPUs counted once and no more cores than logical processors, packages exact when nothing moves, no record dropped or doubled |
| memory | TypeOK, RecordsAreTheStructures, OnlyMalformedLost, ModulesAreSockets, TotalWholeOrOmitted, NothingKnownOmitted | on every short sequence of bytes, accepted records are the structures, and on Linux a malformed or unreadable entry costs only itself, while on macOS no longer table was passed over; modules are structures with a size; no total wraps, and it is exact or missing unless Windows has to add up more than fits; nothing known is lost |
| memory_exact | TotalExact (violated) | on Windows a sum of the modules that does not fit is reported without the ones that made it too large |
| adapters | TypeOK, NamesFromOwnSection, SteadyDevicesListedOnce, AttributesOfOneDevice | a device is named by its own vendor's section; devices that stay are listed once, with an ID and attributes of their own; whatever passes on, an entry has attributes only of devices its name has led to |
| windows_inventory | TypeOK, OneDevice, FailureOmitsOnlyItsData, InventoryShowsTheAvailable, BaseRemains | a disk has nothing of a device that never had its number, and no volume whose letter never stood for one on it; a failing query costs only its data, in every section |
| darwin | TypeOK, VolumesOnTheirPartition, NothingMissing, AdaptersTypeOK, InsideAllocation, RoundTrip, AdaptersAreInterfaces, GpusAreControllers | everything in its place and in order whatever order the iterators have, also after a walk cut short; the text fits the allocation, also when one fails; if nothing was dropped Go reads what C wrote; the rows about one interface or GPU become one entry with what any of them tells, except what a placeholder was written over |
| darwin_hidden | KnownIsReported (violated) | a placeholder written last to a key hides the value before it |

Most runs say `CHECK_DEADLOCK FALSE` because a collector ends; that the walk ends
only with an answer is the property `Terminates`.

### Bounds

- *backing*: three names give all 2-cycles, self-loops, cycles entered from outside,
  two paths to one partition and partitions of devices that are no disks. The theorems
  of section 5 have no bound.
- *volumes*: two partitions and two devices on top of them suffice for every pair of
  slices to share an array or not; three lines of mountinfo for a slice with a
  repetition and a merge on top of it. `Exact = 16` is the number of strings up to
  which the size classes of the Go allocator fit (17 strings of 16 bytes are 272 bytes
  in a class of 288, so one is left free), `Rooms` is any of 0, 1 and 2: with three
  lines no longer merge exists.
- *blockscan*: two disks with two and one partition and a virtual device, three
  events: enough for a device to go, come back and go between the three reads.
- *processors*: three CPUs on two packages, two dies, two cores, up to three DMI
  records, one event; package IDs 0 and 3 leave the gap in which positions and IDs
  differ.
- *memory*: every sequence of up to five or six bytes over a few values, and pieces
  (whole, cut, malformed, unreadable structures, text that looks like the start of a
  table) put together; words of four bits, `Kilo` = 2, totals in nine bits. The sizes
  lie on either side of each comparison of the code, whose constants matter only by
  their order.
- *adapters*: every `pci.ids` of up to four lines of all depths, including lines that
  open no vendor; three interfaces and three cards on a tree three levels deep, with a
  bridge, a USB hub and a virtual device. `eth0` may lead to a PCI or a USB adapter, two
  cards to the PCI GPU or the one of the SoC; two events, enough for a device to go and
  itself or another to come between any two reads, for a name to pass on and back, and for
  a device to take the name of one that goes. Each file is read on a machine without
  events, and the events take place with one file: nothing that happens after the file is
  read can change the database.
- *windows_inventory*: two devices of seven kinds, two disk numbers, two volumes, two drive
  letters and two events: a number passes to another device by one event for the device
  that goes and one for the next, a letter by one. One volume lies on two disks. Failures
  of the disk queries are combined with the other classes settled (`reliable`), and the
  other way round: the sections share nothing but the memory's total, and the product of
  both would add only runtime. Pairs of kinds without a complete device have one event
  instead of two (`over`).
- *darwin*: for the storage, seven media in two shapes, with volumes nested three levels
  below their partition, a snapshot, names of two digits and media without a name; 288
  assignments of UUIDs, labels and mounts. For the rows, buffers of 4 bytes that double
  twice and reach the largest size at 19 (`FirstCapacity`, `sizeMax`), a row with up to
  three more rows and fields; adapters in a heap of 4096 that does not fail. One interface
  of which each attribute is known, unknown or a placeholder beside a wired one; two
  accelerators of one controller, one of the SoC and a bridge above, in every order of the
  registry. The search for a PCI device looks at 32 entries in the code and at three here
  (`SearchDepth`), with one that finds its controller at the third and one a step too far.
  The collectors share nothing but their order, so the storage is combined with no
  adapters and the other way round (`Computers`).

### Fairness

Only LinuxBacking states any: weak fairness of `Next`. The walk runs in the caller's
goroutine, waits for nothing and its actions exclude one another, so the program takes
a step whenever one is possible. No liveness is claimed of the other collectors: they
loop over lists that are fixed before the loop begins.

## 4. Where the code differs from its documentation

Shown by a run:

1. *volumes_repeated*, `collect_storage_linux.go:282`: mount points of a volume under
   one partition are overwritten through the array it shares with the copy under
   another; `inventory.go:191` promises the sorted mount paths of the volume. Needs one
   device mounted twice on one path, a volume on two partitions and a second device
   with the same filesystem ID. Distinct mount points do it as well when a device has
   more than 16 of them, for then the array of its slice has room from the beginning
   (with `Exact = 0` the inputs of *volumes* show it).
2. *blockscan_phantom*, `collect_storage_linux.go:111`: a partition removed between two
   reads is reported as a disk; `inventory.go:13` says physical storage devices.
3. *darwin_hidden*, `darwin_native_cgo.go:714`: model, vendor and name are written from
   several properties to one key of a row, and the last one counts; if that is a
   placeholder such as "Unknown", Go removes it (`discover_darwin.go:563`, `623`) and what
   the others told is not seen. `doc.go:5` says that failures omit only the unavailable
   data.
4. *memory_exact*, `collect_processor_memory_windows.go:91`: a module that does not fit the
   sum is skipped and the sum of the others is reported as the total, where Linux and
   macOS omit it; `inventory.go:107` says exact bytes.

Met while modelling; the properties are limited accordingly:

5. `collect_processor_memory_linux.go:113`: a cpuinfo without physical ids (arm64) makes a
   processor `CPU0` when sysfs tells no package 0; `inventory.go:11` speaks of
   physical packages. TopologyExact is about a cpuinfo that names packages or is
   not there.
6. `collect_processor_memory_linux.go:51`: surplus DMI records get their position as ID,
   which can be out of order or taken already; `inventory.go:11` says sorted by ID.
   No property of LinuxProcessors speaks of the order of these IDs.
7. `collect_storage_windows.go:142`: rows are joined by disk number and volumes by drive
   letter (`205`) alone, so a number or a letter that passes on between two queries mixes
   two devices in one entry. OneDevice allows an entry what had its number or letter
   meanwhile, and nothing else.
8. `linux_source.go:94`, `collect_network_gpu_linux.go:77`: likewise a class name that
   passes to another device between two reads mixes both in one adapter or GPU.
   AttributesOfOneDevice allows an entry what its name has led to.
9. `linux_source.go:94`: a device that goes while it is read is given the PCI identity or
   udev names of the bridge or hub above it, as a directory that has gone reads like one
   without attributes. AttributesOfOneDevice bounds it to what is above the device. For
   the same reason a USB adapter without a manufacturer is given its hub's.
10. `collect_network_gpu_linux.go:61`: the kind of an address is read before the address;
    one assigned in between is reported as permanent.
11. `collect_network_gpu_linux.go:128`: a DRM card whose device is a child of the PCI
    device (virtio, simple-framebuffer) is a second entry; `inventory.go:215` speaks of
    the identifier of the controller.
12. `darwin_native_cgo.go:57`: when the buffer cannot grow in the middle of a row a
    separator may be lost and fields run together; `doc.go:5` as in 3. RoundTrip is about
    buffers that lost nothing.
13. `smbios_darwin.go:88`: one malformed structure ends the parse of the table, so the
    sound ones are lost with it; `doc.go:5` as in 3. OnlyMalformedLost says for macOS no
    more than that the longest parse was chosen.
14. `darwin_native_cgo.go:730`: interfaces listed by System Configuration are reported
    without the check for virtual ones that the registry's undergo.
15. `discover_darwin.go:625`: the first row of a GPU without a service name gives its
    model as the video processor, and an accelerator's name that comes later is not
    taken.

## 5. Proofs

Each `*_proofs` module holds the theorems of the module it extends, for every value of
the constants that satisfies the named `ASSUME` of that module, hence for any number of
devices, CPUs, lines, events and failing queries. An assumption says what an input is
(a well-formed graph, a machine, a row), never how large it is. The runs show the same
properties on small instances. TLC finds the inductive invariants to hold there too (those
of LinuxVolumes, which are slow to evaluate, on instances with fewer graphs or lines).

| Module | Theorem | States |
| --- | --- | --- |
| LinuxBacking_proofs | TypeCorrect | `Spec => []TypeOK` |
| | RecursionBounded | `Spec => []NoReentry` |
| | PartitionsKept | `Spec => []NothingLost` |
| | DevicesKept | `Spec => []NothingSkipped` |
| | Implementation | `Spec => ImplementsBacking` |
| LinuxVolumes_proofs | TypeCorrect | `Spec => []TypeOK` |
| | ExactlyTheirVolumes | `Spec => []VolumesExact` |
| | ExactMountPoints | `RoomNeverShared` implies `Spec => []MountPointsExact` |
| | OthersUntouched | `RoomNeverShared` implies `Spec => OtherPartitionsUntouched` |
| LinuxBlockScan_proofs | TypeCorrect | `Spec => []TypeOK` |
| | LocationsLead | `Spec => []LocationsMatch` |
| | StableReported | `Spec => []StableDevicesReported` |
| LinuxProcessors_proofs | TypeCorrect | `Spec => []TypeOK` |
| | EveryCPUOnce | `Spec => []CountedOnce` |
| | PackagesExact | `Spec => []TopologyExact` |
| | MergeKeepsAll | `Spec => []NothingDropped` |
| LinuxAdapters_proofs | TypeCorrect | `Spec => []TypeOK` |
| | NamesFromSections | `Spec => []NamesFromOwnSection` |
| | SteadyOnce | `Spec => []SteadyDevicesListedOnce` |
| | OwnAttributes | `Spec => []AttributesOfOneDevice` |
| WindowsInventory_proofs | TypeCorrect | `Spec => []TypeOK` |
| | JoinsAreRight | `Spec => []OneDevice` |
| | FoundStays | `Spec => BaseRemains` |
| | AvailableShown | `Spec => []InventoryShowsTheAvailable` |
| | FailuresAreContained | `Spec => []FailureOmitsOnlyItsData` |
| Darwin_proofs | CollectionTypes | `Spec => []TypeOK` of DarwinStorage |
| | VolumesArePlaced | `Spec => []VolumesOnTheirPartition` |
| | CollectionIsComplete | `Spec => []NothingMissing` |
| | TextFits | `RowsSpec => []InsideAllocation` |
| | RowsComeBack | `RowsSpec => []RoundTrip` |
| | NothingEmpty | `RowsSpec => []RowsTypeOK` |

Every one rests on a theorem of its module that an inductive invariant holds (`Invariance`,
`Spec => []IInv`; in Darwin_proofs `CollectionInvariance` and `RowsInvariance`), which has
one lemma for each action; the conjuncts of the invariant are named there. What they are
for:

**LinuxBacking.** `IInv` is TypeOK, FramesOK, NoReentry, NothingLost, NothingSkipped and
BeneathStart. None of the middle four is inductive alone. `NothingLost` needs FramesOK: a
partition returns as soon as its parent has a result, and that drops nothing only because
such a frame has found nothing before and has no other parent to call. `NothingSkipped`
needs the same fact to know that a frame that is left has called everything underneath
its device. The answer is then squeezed from both sides: what is visited is closed under
"directly underneath" when the stack is empty (NothingSkipped), so it contains everything
underneath the start, and it contains nothing else (BeneathStart); the partitions among
it are in the answer (NothingLost).

**LinuxVolumes.** Which volumes a partition lists does not depend on arrays: `IInv`
(Types, Slices, Control, Ids) says that the IDs under a partition are those of the blocks
attached so far, each once, and holds on every input. The mount points do depend on
arrays, and finding 1 shows that they are not always right. `RoomNeverShared` says when
they are: for each block, its mount points are all distinct and at most `Exact`, or it
is carried by one partition only. It speaks of the inputs alone, holds for every input
of *volumes*, and the input of *volumes_repeated* violates it. Under it a second
invariant, `JInv` (FromLines, Sharing, Contents), holds as well. The fact that carries
it is Sharing: an array reached from two places is full at both, so a merge that adds
something allocates; a merge that fits in place adds nothing and writes what is there.
Contents then says what each slice holds, and a step of one partition changes no array of
another (OthersUntouched).

**LinuxBlockScan.** Nested and Located say where partitions and locations are; positions
stay right because a disk is only ever appended and the final sort comes after the last
use. Kept follows a device that stays through the loops, one conjunct for each (still to
be scanned, or a block; still to be classified, or a disk; still to be built, or
reported): StableDevicesReported is its end, and nothing weaker survives `HotPlug`.

**LinuxProcessors.** A CPU is counted as logical processor one step before its core is:
Counts says that a row has one core fewer than logical processors in between, so that the
bound on cores is inductive. Exact keeps the rows equal to those of the machine cut down
to the CPUs seen, under the premise of TopologyExact. The merge with the DMI records is
about the largest package, hence the lemmas about greatest elements.

**LinuxAdapters.** Parsed relates the parser's current vendor to the lines read; Begun
says how far up a search may have got and from where each attribute read so far came,
relative to where the name has led (`led`); AdaptersListed, GpusListed and Found say of
each loop what it has listed already and what is pending. What is said of a device that
stays with its name (Alone) is lost and never won by an event, and what is said of the
others only grows with `led`: that is Widened, and the one fact the proofs need of the
three kinds of events. `Above` is a least set, so the only fact used of it is that it
contains the parents of its members.

**WindowsInventory.** StorageInv has for each disk that what it says comes from devices
that had its number (Own), that a volume is one its letter stood for and lies on the
partition (Lies), and that the associations read are true of such a device (Associated).
Nothing is assumed of how numbers and letters pass on: `numbered` and `named` only grow,
and all these conjuncts with them (JoinedWidens), so they survive every event. BaseRemains
needs less: each loop over rows only completes a disk (`EnrichDiskCompletes`), in whatever
order the rows come. Shown has one conjunct for each kind of section, all relative to the
classes asked so far. FailuresAreContained has an invariant of its own, Staged: for each
query of the disks, what its answer tells of the devices that kept their number, and of
the letters that did not pass on (Settled), is in the disks from the moment it is
answered, and no later query, event or failure takes it away.

**DarwinStorage.** A medium that was found is queued in a row or told in a disk, and `IInv`
says so for each phase: during the walk, what the rows in the queues are of (Right), that no
medium has two and that those seen have one (Once, Complete); while the rows are read, that
the positions remembered lead to the entry with that name (Positions; CollectionTypes says
so to the reader), what each entry is
(FoundDisks), and that what has left a queue is told (Told); at the end that it is reported
(Reported). The iterator may end early in any state: Complete has `cut` as a way out, the
others have not, so that what was read so far is in its place. Two further facts are about
the end. Merging is a recursive function over the volumes of a partition: what it has summed
up after `n` of them stands for exactly the first `n`, no two sums are alike, and each has
all the mount points (Summed). `Sorted` is a permutation in ascending order, strictly so
because the numbers of disks, and of the partitions of a disk, are distinct.

**DarwinRows.** The loop that doubles the capacity ends with enough and no more than
`SIZE_MAX` (DoubledFits), and an append to a good buffer (Good) makes a good buffer that
has the text added, or has dropped something and says so (Longer); this is carried from
the bytes to a cleaned text, a field and a row. What has been written can be told from
the text because kinds and keys have no separators and values are cleaned: split in
lines and cells as Go does it, the text is a table with a line for each row meant and in
it the kind and the keys and cleaned values in the order in which they were written
(Shape). `RowsInv` says that the buffer is good and that the text has the shape of the
rows meant unless an append was dropped. Reading a line of that shape gives its row with
the last value of each key, and a value that is empty was never written. NothingEmpty
needs no shape: it holds of a torn text as well.

Recursive functions (the merge, `strings.Split`, the loops over characters and lines) are
handled alike: a lemma shows that a function with the recursive equation exists, by taking
the least length for which there is none, and then whatever the definition chooses has it.

`OrderLemmas` has what these share: finite sets of numbers have a least and a greatest
element, and an ascending enumeration, and every finite sequence a permutation that sorts
it. The loops take the least name and `sort` a sorted permutation by `CHOOSE`, so nothing
could be said of them otherwise. Where a proof needs induction (the runs over rows of
WindowsStorage, the sorting permutation), it takes the least counterexample, for which a
least element of a set of numbers is enough.

Only model-checked:

- `Terminates`, which is liveness under fairness.
- The properties of Smbios and SystemMemory. What the parsers compute for any bytes, and a
  sum over any modules, is an induction over data in every part of it: folds over bytes,
  tables that continue where a string ends, sums over sets, an order of texts. TLC compares
  all of it with the references over all short inputs.
- AdaptersAreInterfaces, GpusAreControllers and AdaptersTypeOK of DarwinAdapters. What
  carries the rows, the buffer, is proved; the joins of the rows are over values of a
  fixed, small shape, of which TLC tries all. DarwinInventory is checked as a whole; the
  theorems are about its parts.
- The properties the findings violate.

## 6. Plan

Done: the core, Linux storage (BlockGraph, BackingSpec, LinuxBacking,
LinuxVolumes, LinuxBlockScan), then LinuxProcessors, LinuxAdapters, Smbios with
SystemMemory, WindowsStorage with WindowsInventory, DarwinStorage, DarwinRows with
DarwinAdapters, DarwinInventory; and the proofs of section 5.

To extend the model, in this order:

1. *LinuxStorage*: LinuxBlockScan composed with LinuxVolumes, so that volumes are
   attached to what the scan recorded while devices come and go, device numbers that
   are used again included.
2. Directories of LinuxAdapters in which another device takes its place: now a device that
   comes back to its directory is the same one.
3. *NaturalOrder*: `naturalLess` as an order, with runs of digits beyond 64 bits.

An abstract specification worth stating: the volumes of a machine for LinuxVolumes.

To prove, in this order: `TotalWholeOrOmitted` and `NothingKnownOmitted` of SystemMemory,
for which the library's folds and sums would have to become recursive functions like those
of DarwinRows; the joins of DarwinAdapters.

## 7. Not modelled

- Text: cleaning and placeholders of strings, names of chassis, media and buses, UUID,
  MAC and date formats, the unescaping of mountinfo. They are tables and pure functions
  whose result no control depends on, except that it may be empty, which is modelled.
- The collectors that copy one attribute after the other: the systems of Linux and
  macOS, the processors of macOS, and the attributes of a row on Windows, which are
  represented by those an ID or a total depends on.
- The medium of a Linux interface, which is one more attribute of its own directory, and
  `naturalLess`: names are visited in every order instead.
- The depth limits of the two walks upwards from a medium on macOS (`darwin_native_cgo.go:397`
  and `527`: 32 and 64 registry entries, those between the media included). DarwinStorage
  takes a registry to be shallower than that, as those of macOS are.
- Calls of IOKit, WMI and sysctl themselves; Objective-C and C memory management other
  than the row buffer.
- The parts of the plan in section 6 that are still to come; `PROJECT.json` lists every
  component with its status.

## 8. Running

```
tlc -config MCLinuxBacking.cfg MCLinuxBacking      # any MC*.cfg with its module
tlapm LinuxBacking_proofs.tla                      # any *_proofs module, and OrderLemmas
```

`PROJECT.json` lists the configurations with the outcome each must have. The largest,
MCWindowsInventory.cfg, has 2.5 million states and takes two minutes.
