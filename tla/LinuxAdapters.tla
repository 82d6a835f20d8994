------------------------------ MODULE LinuxAdapters ------------------------------
(****************************************************************************)
(* Network adapters and GPUs on Linux (src/collect_network_gpu_linux.go)      *)
(* with the parser of pci.ids and the searches in sysfs they use              *)
(* (src/linux_source.go), while devices come and go.                          *)
(*                                                                          *)
(* A device is its directory below /sys/devices.  The name of an interface or  *)
(* of a DRM card is a link to one, which is resolved again for every read and   *)
(* may lead to another device by then.  As in LinuxBlockScan each read that     *)
(* depends on the presence of a device is a step, except that reads of one      *)
(* device are joined when a later one that fails has the effect of the first    *)
(* one failing.  A value is represented by its source and the directories it    *)
(* was read from.                                                             *)
(****************************************************************************)
EXTENDS Naturals, FiniteSets, Sequences, SequencesExt

CONSTANTS
    Directories, Parent,    \* None is above the topmost
    Has,        \* the attributes of a directory
    Ids,        \* its PCI vendor and device, if Has "ids"
    Interfaces, Cards,      \* names in class/net and class/drm
    Devices,    \* the directories a name may lead to, one at a time
    Machines,   \* groups: contents of pci.ids, directories present, where the names
                \* lead, directories the interface of which has an assigned address,
                \* numbers of events that cannot happen any more
    MaxEvents   \* bound on the events during one collection

Attributes == {"modalias", "slot", "display", "ids", "udev", "manufacturer", "product",
               "compatible", "virtual"}

None == ""      \* no directory, no name, a word of a line that is no id

Names == Interfaces \cup Cards

ASSUME AdaptersAssumption ==
    /\ None \notin Directories /\ Parent \in [Directories -> Directories \cup {None}]
    /\ Has \in [Directories -> SUBSET Attributes]
    /\ Ids \in [{d \in Directories : "ids" \in Has[d]} -> STRING \X STRING]
    \* The directories of the bus devices are not below /sys/devices/virtual.
    /\ \A d \in Directories : ~({"virtual", "slot"} \subseteq Has[d])
    /\ Names \cap (Directories \cup {None}) = {}
    /\ Devices \in [Names -> SUBSET Directories]
    \* A device that is linked to says what it is: its uevent has a MODALIAS or a slot.
    /\ \A n \in Names : \A d \in Devices[n] : Has[d] \cap {"modalias", "slot"} # {}
    /\ \A g \in Machines :
         /\ g.files \subseteq Seq([depth : 0..2, id : STRING, name : STRING])
         /\ \A S \in g.present : S \subseteq Directories
         /\ \A l \in g.links : /\ l \in [Names -> Directories \cup {None}]
                               /\ \A n \in Names : l[n] \in Devices[n] \cup {None}
         /\ \A S \in g.assigned : S \subseteq Directories
         /\ g.over \subseteq 0..MaxEvents
    /\ MaxEvents \in Nat

VARIABLES
    present,    \* the directories there are
    link,       \* where the names lead; None for a name there is not
    assigned,   \* directories the interface of which has not its permanent address
    moved,      \* directories that came or went
    led,        \* where a name has led, since the collection began
    readdressed,    \* directories the interface of which was given an address
    events,
    file, lines,        \* pci.ids, and the lines of it read
    vendor,             \* currentVendor
    database,
    phase, todo,        \* the loop the collector is in, and what it has still to visit
    found,              \* `devices`: the GPUs by resolved path, with the path taken
    reading,            \* the iteration under way: its step and the entry so far
    adapters, gpus      \* the report

machine == <<present, link, assigned, moved, led, readdressed, events>>
parser  == <<file, lines, vendor, database>>
vars == <<machine, parser, phase, todo, found, reading, adapters, gpus>>

Idle == [step |-> "idle"]

\* A directory is there with all those above it.
Coherent(S) == \A d \in S : Parent[d] \in S \cup {None}

Init ==
    /\ \E g \in Machines :
         /\ present \in g.present /\ Coherent(present)
         /\ link \in g.links /\ assigned \in g.assigned
         /\ events \in g.over /\ file \in g.files
    /\ moved = {} /\ led = [n \in Names |-> {link[n]}] /\ readdressed = {}
    /\ lines = 0 /\ vendor = None
    /\ database = [vendors |-> << >>, devices |-> << >>]
    /\ phase = "ids" /\ todo = {} /\ found = << >> /\ reading = Idle
    /\ adapters = {} /\ gpus = {}

-------------------------------------------------------------------------------
\* The machine: a device goes or comes, a name passes to another device or to none,
\* or an interface is given an address.
Plug ==
    /\ \E d \in Directories :
         /\ present' = IF d \in present THEN present \ {d} ELSE present \cup {d}
         /\ moved' = moved \cup {d}
    /\ Coherent(present')
    /\ UNCHANGED <<link, led, assigned, readdressed>>

Pass ==
    /\ \E n \in Names : \E d \in (Devices[n] \cup {None}) \ {link[n]} :
         /\ link' = [link EXCEPT ![n] = d]
         /\ led' = [led EXCEPT ![n] = @ \cup {d}]
    /\ UNCHANGED <<present, moved, assigned, readdressed>>

Assign ==
    /\ \E d \in UNION {Devices[i] : i \in Interfaces} \ assigned :
         assigned' = assigned \cup {d} /\ readdressed' = readdressed \cup {d}
    /\ UNCHANGED <<present, moved, link, led>>

Event ==
    /\ phase \notin {"ids", "done"} /\ events < MaxEvents
    /\ events' = events + 1
    /\ Plug \/ Pass \/ Assign
    /\ UNCHANGED <<parser, phase, todo, found, reading, adapters, gpus>>

-------------------------------------------------------------------------------
\* loadPCIDatabase: a line has a depth, an id and a name.

Put(f, key, value) == [k \in DOMAIN f \cup {key} |-> IF k = key THEN value ELSE f[k]]

\* Slip: a line that opens no vendor leaves the current one.
VendorAfterSlip(line) == IF line.depth = 0 /\ line.id # None THEN line.id ELSE vendor

VendorAfter(line) == IF line.depth = 0 THEN line.id ELSE vendor

ReadLine ==
    /\ phase = "ids" /\ lines < Len(file)
    /\ lines' = lines + 1
    /\ LET line == file[lines + 1]
       IN  /\ vendor' = VendorAfter(line)
           /\ database' =
                IF line.id = None \/ line.depth = 2 THEN database
                ELSE IF line.depth = 0
                THEN [database EXCEPT !.vendors = Put(@, line.id, line.name)]
                ELSE IF vendor = None THEN database
                ELSE [database EXCEPT !.devices = Put(@, <<vendor, line.id>>, line.name)]
    /\ UNCHANGED <<machine, file, phase, todo, found, reading, adapters, gpus>>

Lookup(f, key) == IF key \in DOMAIN f THEN f[key] ELSE None

-------------------------------------------------------------------------------
\* The loops; each lists its directory when the one before ends.

\* A path is a name, or the directory of a PCI device.
Target(path) == IF path \in Names THEN link[path] ELSE path
Reached(path) == Target(path) \in present

Linked(names) == {n \in names : Reached(n)}

NextLoop ==
    /\ todo = {} /\ reading = Idle
    /\ \/ /\ phase = "ids" /\ lines = Len(file)
          /\ phase' = "net" /\ todo' = Linked(Interfaces)
       \/ /\ phase = "net"
          /\ phase' = "pci" /\ todo' = {d \in present : "slot" \in Has[d]}
       \/ phase = "pci" /\ phase' = "drm" /\ todo' = Linked(Cards)
       \/ phase = "drm" /\ phase' = "gpus" /\ todo' = DOMAIN found
       \/ phase = "gpus" /\ phase' = "done" /\ todo' = {}
    /\ UNCHANGED <<machine, parser, found, reading, adapters, gpus>>

\* A function of class 3 is a display controller.
ReadPci ==
    /\ phase = "pci"
    /\ \E d \in todo :
         /\ todo' = todo \ {d}
         /\ found' = IF d \in present /\ "display" \in Has[d] THEN Put(found, d, d) ELSE found
    /\ UNCHANGED <<machine, parser, phase, reading, adapters, gpus>>

\* Slip: a virtual device counts as one.
PhysicalSlipVirtual(path) == Reached(path)

\* The device behind a link can be resolved and is not virtual.
Physical(path) == Reached(path) /\ "virtual" \notin Has[Target(path)]

\* Slip: the name of a card is taken for the directory it leads to.
ReadCardSlipUnresolved ==
    /\ phase = "drm"
    /\ \E c \in todo :
         /\ todo' = todo \ {c}
         /\ found' = IF Physical(c) THEN Put(found, c, c) ELSE found
    /\ UNCHANGED <<machine, parser, phase, reading, adapters, gpus>>

ReadCard ==
    /\ phase = "drm"
    /\ \E c \in todo :
         /\ todo' = todo \ {c}
         /\ found' = IF Physical(c) /\ Target(c) \notin DOMAIN found
                     THEN Put(found, Target(c), c) ELSE found
    /\ UNCHANGED <<machine, parser, phase, reading, adapters, gpus>>

\* An iteration, for an interface or a GPU, over what its path leads to.
Entry(of, path) ==
    [step |-> "properties", of |-> of, path |-> path, at |-> None, udev |-> None,
     from |-> None, vendorAt |-> None, vendor |-> <<>>, model |-> <<>>]

\* The interface is looked up in udev by its index, which must still be there.
BeginAdapter ==
    /\ phase = "net" /\ reading = Idle
    /\ \E i \in todo :
         /\ todo' = todo \ {i}
         /\ reading' = IF Physical(i) THEN [Entry(i, i) EXCEPT !.step = "index"] ELSE Idle
    /\ UNCHANGED <<machine, parser, phase, found, adapters, gpus>>

ReadIndex ==
    /\ reading.step = "index"
    /\ reading' = [reading EXCEPT !.step = "properties",
                     !.udev = IF Reached(reading.path) THEN Target(reading.path) ELSE None]
    /\ UNCHANGED <<machine, parser, phase, todo, found, adapters, gpus>>

BeginGpu ==
    /\ phase = "gpus" /\ reading = Idle
    /\ \E d \in todo :
         /\ todo' = todo \ {d}
         /\ reading' = Entry(d, found[d])
    /\ UNCHANGED <<machine, parser, phase, found, adapters, gpus>>

-------------------------------------------------------------------------------
\* One iteration.  Its steps are named for what is being looked for; a search
\* begins with the resolution of the link and goes up the directories.

Searches == {"properties", "manufacturer", "product"}
Following == [properties |-> "vendor", manufacturer |-> "product", product |-> "end"]

\* A search that is not needed has no effect: it is passed over.
Needed ==
    CASE reading.step = "manufacturer" -> reading.vendor = << >>
      [] reading.step = "product"      -> reading.model = << >>
      [] OTHER                         -> TRUE

BeginSearch ==
    /\ reading # Idle /\ reading.step \in Searches /\ reading.at = None
    /\ reading' = IF Needed /\ Reached(reading.path)
                  THEN [reading EXCEPT !.at = Target(reading.path)]
                  ELSE [reading EXCEPT !.step = Following[@]]
    /\ UNCHANGED <<machine, parser, phase, todo, found, adapters, gpus>>

\* What a directory has to have for the search to end.
Sought(d) ==
    /\ d \in present
    /\ IF reading.step = "properties" THEN Has[d] \cap {"modalias", "slot"} # {}
       ELSE reading.step \in Has[d]

\* deviceProperties and ancestorAttribute; for a GPU udev is looked up by the slot.
Search ==
    /\ reading # Idle /\ reading.step \in Searches /\ reading.at # None
    /\ LET d     == reading.at
           ended == [reading EXCEPT !.step = Following[@], !.at = None]
       IN  reading' =
             IF ~Sought(d)
             THEN IF Parent[d] = None THEN ended ELSE [reading EXCEPT !.at = Parent[d]]
             ELSE CASE reading.step = "manufacturer" -> [ended EXCEPT !.vendor = <<"tree", {d}>>]
                    [] reading.step = "product"      -> [ended EXCEPT !.model = <<"tree", {d}>>]
                    [] reading.step = "properties"   ->
                         [ended EXCEPT !.from = d,
                                       !.udev = IF phase = "gpus" /\ "slot" \in Has[d] THEN d ELSE @]
    /\ UNCHANGED <<machine, parser, phase, todo, found, adapters, gpus>>

\* The PCI numbers of what a path leads to now.
Numbered(path) == Reached(path) /\ "ids" \in Has[Target(path)]
Vendor(d) == IF d = None THEN None ELSE Ids[d][1]
Device(d) == IF d = None THEN None ELSE Ids[d][2]

\* The names in udev come before those of pci.ids.  The entry of an interface was
\* read with its index; that of a GPU is read now.
ReadVendor ==
    /\ reading.step = "vendor"
    /\ LET udev == /\ reading.udev # None /\ "udev" \in Has[reading.udev]
                   /\ phase = "gpus" => reading.udev \in present
           d    == IF Numbered(reading.path) THEN Target(reading.path) ELSE None
       IN  reading' = [reading EXCEPT
             !.step = "device", !.vendorAt = d,
             !.vendor = IF udev THEN <<"udev", {reading.udev}>>
                        ELSE IF Lookup(database.vendors, Vendor(d)) # None THEN <<"ids", {d}>>
                        ELSE << >>,
             !.model  = IF udev THEN <<"udev", {reading.udev}>> ELSE << >>]
    /\ UNCHANGED <<machine, parser, phase, todo, found, adapters, gpus>>

\* The name of a device is that of two numbers, read one after the other.
ReadDevice ==
    /\ reading.step = "device"
    /\ LET d    == IF Numbered(reading.path) THEN Target(reading.path) ELSE None
           name == Lookup(database.devices, <<Vendor(reading.vendorAt), Device(d)>>)
       IN  reading' = [reading EXCEPT
             !.step = "manufacturer",
             !.model = IF @ = << >> /\ name # None THEN <<"ids", {reading.vendorAt, d}>> ELSE @]
    /\ UNCHANGED <<machine, parser, phase, todo, found, adapters, gpus>>

\* Slip: the address is taken without asking how it was assigned.
AddressKindSlip == IF Reached(reading.path) THEN "address" ELSE "udev"

\* linuxPermanentMAC: the kind of the address is read before the address.
AddressKind ==
    IF Reached(reading.path) /\ Target(reading.path) \notin assigned THEN "address" ELSE "udev"

ReadAddressKind ==
    /\ phase = "net" /\ reading # Idle /\ reading.step = "end"
    /\ reading' = [reading EXCEPT !.step = AddressKind]
    /\ UNCHANGED <<machine, parser, phase, todo, found, adapters, gpus>>

Address ==
    LET d == Target(reading.path)
    IN  IF reading.step = "udev"
        THEN IF reading.udev # None /\ "udev" \in Has[reading.udev]
             THEN <<"permanent", {reading.udev}>> ELSE << >>
        ELSE IF d \notin present THEN << >>
        ELSE <<IF d \in assigned THEN "assigned" ELSE "permanent", {d}>>

EndAdapter ==
    /\ reading.step \in {"address", "udev"}
    /\ adapters' = adapters \cup
         {[id |-> reading.of, path |-> reading.path, pnp |-> reading.from, mac |-> Address,
           vendor |-> reading.vendor, model |-> reading.model]}
    /\ reading' = Idle
    /\ UNCHANGED <<machine, parser, phase, todo, found, gpus>>

\* The ID is the slot that was found, or else the directory the GPU was found as.
EndGpu ==
    /\ phase = "gpus" /\ reading # Idle /\ reading.step = "end"
    /\ LET d    == Target(reading.path)
           slot == reading.from # None /\ "slot" \in Has[reading.from]
       IN  gpus' = gpus \cup
             {[id |-> IF slot THEN <<"slot", reading.from>> ELSE <<"path", reading.of>>,
               of |-> reading.of, path |-> reading.path, pnp |-> reading.from,
               vendor |-> reading.vendor,
               model |-> IF reading.model = << >> /\ d \in present /\ "compatible" \in Has[d]
                         THEN <<"compatible", {d}>> ELSE reading.model]}
    /\ reading' = Idle
    /\ UNCHANGED <<machine, parser, phase, todo, found, adapters>>

Collect ==
    \/ ReadLine \/ NextLoop \/ BeginAdapter \/ ReadIndex \/ ReadPci \/ ReadCard \/ BeginGpu
    \/ BeginSearch \/ Search \/ ReadVendor \/ ReadDevice
    \/ ReadAddressKind \/ EndAdapter \/ EndGpu

Next == Event \/ Collect

Spec == Init /\ [][Next]_vars

-------------------------------------------------------------------------------
\* Where a path has led since the collection began.
LedBy(path) == IF path \in Names THEN led[path] ELSE {path}

\* A GPU is found by a path that has led to it.
TypeOK ==
    /\ present \subseteq Directories /\ Coherent(present)
    /\ link \in [Names -> Directories \cup {None}]
    /\ led \in [Names -> SUBSET (Directories \cup {None})]
    /\ \A n \in Names : link[n] \in led[n]
    /\ assigned \subseteq Directories /\ readdressed \subseteq assigned
    /\ moved \subseteq Directories
    /\ events \in 0..MaxEvents /\ lines \in 0..Len(file)
    /\ phase \in {"ids", "net", "pci", "drm", "gpus", "done"}
    /\ DOMAIN found \subseteq Directories
    /\ \A d \in DOMAIN found : d \in LedBy(found[d])
    /\ todo \subseteq Directories \cup Names
    /\ \A a \in adapters : a.id \in Interfaces /\ a.path = a.id

\* The device line that stands for a device of a vendor: the last one of those
\* for which the nearest line above it that is not indented opens that vendor.
NameInFile(v, d) ==
    LET Section(k) == {j \in 1..k : file[j].depth = 0}
        at == {k \in 1..lines :
                 /\ file[k].depth = 1 /\ file[k].id = d
                 /\ Section(k) # {} /\ file[CHOOSE j \in Section(k) : \A i \in Section(k) : i <= j].id = v}
    IN  IF at = {} THEN None ELSE file[CHOOSE k \in at : \A j \in at : j <= k].name

\* A device is named by the line of its own vendor: what other vendors and the
\* class section have under the same number is not taken for it.
NamesFromOwnSection ==
    LET ids == {file[k].id : k \in 1..lines} \ {None}
    IN  /\ \A v, d \in ids : Lookup(database.devices, <<v, d>>) = NameInFile(v, d)
        /\ DOMAIN database.devices \subseteq ids \X ids

Steady(d) == d \in present \ moved

\* The directory itself and those above it: what is there whenever it is.
Above == [d \in Directories |->
            {e \in Directories : \A S \in SUBSET Directories : Coherent(S) /\ d \in S => e \in S}]

\* The name has led to this device alone.
Always(n, d) == led[n] = {d}

\* A device that stays while others come and go is listed once, as an adapter for
\* each interface the name of which stays with it, and as a GPU however many cards
\* and functions lead to it, with an ID that no other entry has of a device that
\* stays with its path; a virtual one is not listed.
SteadyDevicesListedOnce ==
    LET Of(d)    == {g \in gpus : g.of = d}
        isGpu(d) == {"slot", "display"} \subseteq Has[d] \/ \E c \in Cards : Always(c, d)
        Stays(g) == Steady(g.of) /\ LedBy(g.path) = {g.of}
    IN  phase = "done" =>
          /\ \A i \in Interfaces, d \in Directories : Steady(d) /\ Always(i, d) =>
               Cardinality({a \in adapters : a.id = i}) = IF "virtual" \in Has[d] THEN 0 ELSE 1
          /\ \A d \in Directories : Steady(d) =>
               /\ Cardinality(Of(d)) <= IF "virtual" \in Has[d] THEN 0 ELSE 1
               /\ isGpu(d) /\ "virtual" \notin Has[d] => Of(d) # {}
          /\ \A g, h \in gpus : Stays(g) /\ Stays(h) /\ g # h => g.id # h.id

\* Where the attributes of an entry may come from: the devices its path has led to,
\* and for some attributes those they are parts of.
Led(e)  == LedBy(e.path) \ {None}
Over(e) == UNION {Above[d] : d \in Led(e)}
\* The path has led to one device alone, and that has stayed.
Alone(e) == \E d \in Led(e) : LedBy(e.path) = {d} /\ Steady(d)

Own(e, value) ==
    value # << >> =>
      /\ value[1] \in {"ids", "compatible"} => value[2] \subseteq Led(e)
      /\ value[1] = "tree"                  => value[2] \subseteq Over(e)
      /\ value[1] = "udev"                  => value[2] \subseteq IF Alone(e) THEN Led(e) ELSE Over(e)

\* Nothing is said of an entry that is not of a device its path has led to, or of
\* one that device is a part of.  So what is said of a device that stays with its
\* path is its own: its identifiers are read from its own directory, its names from
\* its own entries in udev and pci.ids or from the device it is a part of, and its
\* address is its own and the permanent one.  Of a device that goes meanwhile this
\* holds as far as something of it is above it.
AttributesOfOneDevice ==
    /\ \A e \in adapters \cup gpus :
         /\ Own(e, e.vendor) /\ Own(e, e.model)
         /\ IF Alone(e) THEN e.pnp \in Led(e) ELSE e.pnp \in Over(e) \cup {None}
    /\ \A g \in gpus : g.of \in Led(g)
    /\ \A a \in adapters : a.mac # << >> =>
         /\ a.mac[2] \subseteq Led(a)
         /\ a.mac[1] = "assigned" => a.mac[2] \subseteq readdressed \/ a.mac[2] # Led(a)
===============================================================================
