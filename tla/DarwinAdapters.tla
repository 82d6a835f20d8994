----------------------------- MODULE DarwinAdapters -----------------------------
(****************************************************************************)
(* Network adapters and GPUs on macOS, from the I/O Registry to the report:   *)
(* hw_network and hw_gpus write a row for each of the services they find      *)
(* (src/darwin_native_cgo.go), DarwinRows carries the rows over, and           *)
(* collectDarwinNetworkAdapters and collectDarwinGPUs make one entry of the    *)
(* rows with one ID (src/discover_darwin.go).                                  *)
(*                                                                          *)
(* A text is a sequence of words and separators.                              *)
(****************************************************************************)
EXTENDS DarwinRows

CONSTANTS
    PciVendor,  \* names of the vendors darwinPCIVendor knows, by their number
    SearchDepth \* entries looked at by hw_find_pci_ancestor, 32 in the code

ASSUME SearchAssumption == SearchDepth \in Nat \ {0}

Placeholder == <<"unknown">>    \* a text that stands for none
ZeroMac == <<"zero">>

VARIABLES
    machine,    \* the network interfaces, the graphics services, or some other rows
    visited,    \* the records read so far
    byID        \* the entries of the report, by ID

adapterVars == <<machine, visited, byID>>

Other == [collector |-> "other"]
Ample == [sizeMax |-> 2^12, fails |-> FALSE]

-------------------------------------------------------------------------------
\* hw_network.

Network == <<"network">>
Gpu == <<"gpu">>

\* hw_collect_network_class, for a service e of the registry.
ClassRow(e) ==
    IF e.bsd = << >> \/ e.path = << >> \/ e.virtual \/ e.mac \in {<< >>, ZeroMac} THEN << >>
    ELSE <<Row(Network), Field(<<"id">>, e.bsd), Field(<<"name">>, e.bsd),
           Field(<<"pnp_id">>, e.path), Field(<<"mac_address">>, e.mac),
           Field(<<"vendor">>, e.nestedVendor), Field(<<"model">>, e.nestedModel),
           Field(<<"vendor">>, e.vendor), Field(<<"model">>, e.model),
           Field(<<"vendor_id">>, e.vendorID), Field(<<"physical_medium">>, e.medium)>>

\* hw_collect_sc_network, for an interface of System Configuration.
ScRow(e) ==
    IF e.type \notin {<<"wireless_lan">>, <<"ethernet">>} \/ e.bsd = << >> \/ e.mac = << >> THEN << >>
    ELSE <<Row(Network), Field(<<"id">>, e.bsd),
           Field(<<"name">>, IF e.display = << >> THEN e.bsd ELSE e.display),
           Field(<<"mac_address">>, e.mac), Field(<<"physical_medium">>, e.type)>>

\* The services of a class come in any order; a Wi-Fi interface is of both classes.
NetworkRows(interfaces) ==
    LET OfClass(class) == SetToSeqs({e \in interfaces : class \in e.classes})
    IN  {FlattenSeq([i \in DOMAIN s |-> ClassRow(s[i])] \o [i \in DOMAIN t |-> ClassRow(t[i])]
                      \o [i \in DOMAIN u |-> ScRow(u[i])]) :
           s \in OfClass("IONetworkInterface"), t \in OfClass("IO80211Interface"), u \in SetToSeqs(interfaces)}

\* hw_gpus.  A service is an entry of the registry with those above it.

\* Slip: the search goes up to the topmost PCI device.
BaseSlipTop(s) ==
    LET pci == SelectSeq(s, LAMBDA e : e.pci) IN IF pci = << >> THEN s[1] ELSE Last(pci)

\* hw_find_pci_ancestor: the PCI device a service is part of, or else the service.
Base(s) ==
    LET pci == SelectSeq(SubSeq(s, 1, Min({Len(s), SearchDepth})), LAMBDA e : e.pci)
    IN  IF pci = << >> THEN s[1] ELSE pci[1]

\* hw_gpu_row
GpuRow(s, requireDisplayClass) ==
    LET b == Base(s)
    IN  IF (requireDisplayClass /\ ~b.display) \/ b.path = << >> THEN << >>
        ELSE <<Row(Gpu), Field(<<"id">>, b.path), Field(<<"pnp_id">>, b.path),
               Field(<<"video_processor">>, s[1].name), Field(<<"name">>, s[1].name),
               Field(<<"name">>, b.model), Field(<<"manufacturer">>, b.vendorName),
               Field(<<"manufacturer">>, b.manufacturer), Field(<<"vendor_id">>, b.vendorID)>>
             \o (IF ~b.pci /\ b.apple THEN <<Field(<<"manufacturer">>, <<"Apple">>)>> ELSE << >>)

GpuRows(services) ==
    {FlattenSeq([i \in DOMAIN s |-> GpuRow(s[i], TRUE)] \o [i \in DOMAIN t |-> GpuRow(t[i], FALSE)]) :
       s \in SetToSeqs({s \in services : s[1].pci}), t \in SetToSeqs({s \in services : s[1].accelerator})}

\* What a collector is about to write: rows of any kind, from a group of scripts
\* with their heaps, or those of the interfaces or services of a machine.
AdaptersInit(groups, machines) ==
    /\ \/ /\ \E g \in groups : \E h \in g.heaps, script \in g.scripts : RowsInit(h, script)
          /\ machine = Other
       \/ \E m \in machines :
            /\ machine = m
            /\ \E script \in IF m.collector = "network" THEN NetworkRows(m.interfaces)
                             ELSE GpuRows(m.services) : RowsInit(Ample, script)
    /\ visited = 0 /\ byID = << >>

-------------------------------------------------------------------------------
First(a, b) == IF a # << >> THEN a ELSE b
Of(values, key) == IF key \in DOMAIN values THEN values[key] ELSE << >>

Trimmed(t) ==
    LET text == {i \in DOMAIN t : t[i] # Space}
    IN  IF text = {} THEN << >> ELSE SubSeq(t, Min(text), Max(text))

\* Slip: nothing is trimmed.
CleanStringSlipTrim(t) == IF t = Placeholder THEN << >> ELSE t

\* cleanString: without the spaces around it, and not a placeholder.
CleanString(t) == IF Trimmed(t) = Placeholder THEN << >> ELSE Trimmed(t)

VendorByNumber(v) == IF Of(v, <<"vendor_id">>) \in DOMAIN PciVendor
                     THEN PciVendor[v[<<"vendor_id">>]] ELSE << >>

\* The entry a record makes by itself.
Adapter(v) ==
    LET id == CleanString(Of(v, <<"id">>))
    IN  [id     |-> id,
         name   |-> First(CleanString(Of(v, <<"name">>)), id),
         model  |-> CleanString(Of(v, <<"model">>)),
         vendor |-> First(CleanString(Of(v, <<"vendor">>)), VendorByNumber(v)),
         medium |-> CleanString(Of(v, <<"physical_medium">>)),
         mac    |-> IF Of(v, <<"mac_address">>) = ZeroMac THEN << >> ELSE Of(v, <<"mac_address">>),
         pnp    |-> CleanString(Of(v, <<"pnp_id">>))]

GPU(v) ==
    LET pnp == CleanString(Of(v, <<"pnp_id">>))
    IN  [id     |-> First(CleanString(Of(v, <<"id">>)), pnp),
         name   |-> CleanString(Of(v, <<"name">>)),
         model  |-> First(CleanString(Of(v, <<"video_processor">>)), CleanString(Of(v, <<"name">>))),
         vendor |-> First(CleanString(Of(v, <<"manufacturer">>)), VendorByNumber(v)),
         pnp    |-> pnp]

\* Slip: the first name stays although it is only the ID.
MergedSlipName(left, right) == [k \in DOMAIN left |-> First(left[k], right[k])]

\* mergeDarwinNetworkAdapter, mergeDarwinGPU: the first value stays; the name of an
\* adapter that is only its ID gives way.
Merged(left, right) ==
    [k \in DOMAIN left |->
       IF k = "name" /\ "mac" \in DOMAIN left /\ left.name = left.id THEN First(right.name, left.name)
       ELSE First(left[k], right[k])]

\* One record of collectDarwinNetworkAdapters or collectDarwinGPUs.
Visit(kind, entry) ==
    /\ visited' = visited + 1
    /\ byID' = IF records[1][visited + 1].kind # kind \/ entry.id = << >> THEN byID
               ELSE [i \in DOMAIN byID \cup {entry.id} |->
                       IF i # entry.id THEN byID[i]
                       ELSE IF i \in DOMAIN byID THEN Merged(byID[i], entry) ELSE entry]
    /\ UNCHANGED <<rowVars, machine>>

Unvisited == records # << >> /\ visited < Len(records[1])

Collect ==
    /\ Unvisited
    /\ LET v == records[1][visited + 1].values
       IN  IF machine.collector = "gpus" THEN Visit(Gpu, GPU(v)) ELSE Visit(Network, Adapter(v))

-------------------------------------------------------------------------------
\* Entries have an ID and texts without space around them, even if the text of
\* the rows was torn.
AdaptersTypeOK ==
    /\ RowsTypeOK
    /\ visited \in 0..(IF records = << >> THEN 0 ELSE Len(records[1]))
    /\ \A i \in DOMAIN byID :
         /\ i # << >> /\ byID[i].id = i
         /\ \A k \in DOMAIN byID[i] \ {"mac"} :
              byID[i][k] # << >> => byID[i][k][1] # Space /\ Last(byID[i][k]) # Space

Done == records # << >> /\ ~Unvisited /\ ~lost

\* What the registry knows of something by the texts written for it, in their order.
Known(texts) == {CleanString(Clean(t)) : t \in ToSet(texts)} \ {<< >>}
KnownVendor(number) == {PciVendor[n] : n \in {number} \cap DOMAIN PciVendor}

\* One of what is known is reported, unless nothing is.
Reported(value, known) == value \in known \/ (value = << >> /\ known = {})

\* The last text written to a row is a placeholder: it hides those before it.
Hidden(texts) ==
    LET some == SelectSeq(texts, LAMBDA t : t # << >>)
    IN  some # << >> /\ CleanString(Clean(Last(some))) = << >>

\* The same, unless the last text written hides it.
ReportedOrHidden(value, known, hidden) == Reported(value, known) \/ (value = << >> /\ hidden)

\* What a service of a class, and System Configuration, have on an interface.
Physical(e) == e.classes # {} /\ ClassRow(e) # << >>
Listed(e)   == ScRow(e) # << >>
Models(e)   == IF Physical(e) THEN <<e.nestedModel, e.model>> ELSE << >>
Vendors(e)  == IF Physical(e) THEN <<e.nestedVendor, e.vendor>> ELSE << >>
VendorsOf(e) == Known(Vendors(e)) \cup IF Physical(e) THEN KnownVendor(e.vendorID) ELSE {}

\* An interface is one adapter, however many of its classes and services list it
\* and in whatever order, and what any of them knows of it is reported: its name
\* rather than its number, its own address; its model and vendor, too, unless a
\* placeholder was written to the same row after them.  A virtual one is listed
\* only if System Configuration has it.
AdaptersAreInterfaces ==
    Done /\ machine.collector = "network" =>
      /\ DOMAIN byID = {e.bsd : e \in {e \in machine.interfaces : Physical(e) \/ Listed(e)}}
      /\ \A e \in machine.interfaces : e.bsd \in DOMAIN byID =>
           LET a == byID[e.bsd]
           IN  /\ a.name = IF Listed(e) /\ Known(<<e.display>>) # {}
                           THEN CleanString(Clean(e.display)) ELSE e.bsd
               /\ a.mac = IF e.mac = ZeroMac THEN << >> ELSE e.mac
               /\ a.medium = (IF Physical(e) THEN e.medium ELSE e.type)
               /\ Reported(a.pnp, IF Physical(e) THEN {e.path} ELSE {})
               /\ ReportedOrHidden(a.model, Known(Models(e)), Hidden(Models(e)))
               /\ ReportedOrHidden(a.vendor, VendorsOf(e),
                                   Hidden(Vendors(e)) /\ KnownVendor(e.vendorID) = {})

\* What is reported as GPUs: the services of a path, and the entry they are rows of.
PartOf(s) ==
    LET up == {i \in DOMAIN s : i <= SearchDepth /\ s[i].pci}
    IN  s[IF up = {} THEN 1 ELSE Min(up)]
GpuServices ==
    {s \in machine.services : /\ PartOf(s).path # << >>
                              /\ (s[1].pci /\ s[1].display) \/ s[1].accelerator}
PartsAt(p) == {s \in GpuServices : PartOf(s).path = p}
Names(s)   == <<s[1].name, PartOf(s).model>>
Makers(s)  ==
    LET b == PartOf(s)
    IN  <<b.vendorName, b.manufacturer>> \o (IF ~b.pci /\ b.apple THEN <<<<"Apple">>>> ELSE << >>)
KnownIn(Texts(_), services) == UNION {Known(Texts(s)) : s \in services}
HiddenIn(Texts(_), services) == \A s \in services : Hidden(Texts(s)) \/ Known(Texts(s)) = {}
NumbersAt(p) == UNION {KnownVendor(PartOf(s).vendorID) : s \in PartsAt(p)}
MakersAt(p)  == KnownIn(Makers, PartsAt(p)) \cup NumbersAt(p)

\* A display controller and the accelerators that are parts of it are one GPU with
\* one ID, an accelerator that is part of none or too far below it is one by itself,
\* and what is known of any of them is reported; but a placeholder hides the names and
\* manufacturers that were written before it, if it does so in every row.
GpusAreControllers ==
    Done /\ machine.collector = "gpus" =>
      /\ DOMAIN byID = {PartOf(s).path : s \in GpuServices}
      /\ \A p \in DOMAIN byID :
           LET g      == byID[p]
               models == KnownIn(LAMBDA s : <<PartOf(s).model>>, PartsAt(p))
           IN  /\ g.pnp = p
               /\ Reported(g.model, KnownIn(Names, PartsAt(p)))
               /\ ReportedOrHidden(g.name, IF models = {} THEN KnownIn(Names, PartsAt(p)) ELSE models,
                                   HiddenIn(Names, PartsAt(p)))
               /\ ReportedOrHidden(g.vendor, MakersAt(p),
                                   HiddenIn(Makers, PartsAt(p)) /\ NumbersAt(p) = {})

\* The package says that only unavailable data is omitted (src/doc.go).  A model, a
\* vendor or a name that the registry has is not reported if another property
\* written to the same key after it holds a placeholder.
KnownIsReported ==
    Done =>
      /\ machine.collector = "network" =>
           \A e \in machine.interfaces : e.bsd \in DOMAIN byID =>
             /\ Reported(byID[e.bsd].model, Known(Models(e)))
             /\ Reported(byID[e.bsd].vendor, VendorsOf(e))
      /\ machine.collector = "gpus" =>
           \A p \in DOMAIN byID :
             /\ Reported(byID[p].name, KnownIn(Names, PartsAt(p)))
             /\ Reported(byID[p].vendor, MakersAt(p))
=================================================================================
