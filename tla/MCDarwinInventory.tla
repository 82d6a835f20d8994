--------------------------- MODULE MCDarwinInventory ---------------------------
(* Storage: two registries.  Containers: disk0 with an EFI partition and an     *)
(* APFS container, whose volumes are media of the virtual disk3, one of them     *)
(* with a snapshot.  Nested: disk10, and disk2 with a partition that holds a     *)
(* whole medium disk5, which is a physical disk by its path.                    *)
(* Rows: every sequence of a row and up to three more rows and fields of it,    *)
(* values with separators, in a small heap that may fail; and long values in     *)
(* one that doubles up to its end.                                             *)
(* Adapters: an interface of which one thing or another is known beside a wired *)
(* one, in every order of the registry; two accelerators of one display          *)
(* controller beside one of the SoC and a controller of another kind; one a step *)
(* too far below its controller to be found part of it.                         *)
EXTENDS DarwinInventory

MCMedia == 1..7

Volume(uuid, label, mount) == [described |-> TRUE, uuid |-> uuid, label |-> label, mount |-> mount]
NoVolume == [described |-> FALSE, uuid |-> 0, label |-> 0, mount |-> 0]

Paths(parent) ==
    LET path[x \in MCMedia] == {x} \cup IF parent[x] = 0 THEN {} ELSE path[parent[x]]
    IN  path

Containers(snapshot, volumes) ==
    [parent  |-> <<0, 1, 1, 3, 4, 4, 5>>,
     path    |-> Paths(<<0, 1, 1, 3, 4, 4, 5>>),
     whole   |-> {1, 4},
     virtual |-> {4},
     name    |-> << <<0>>, <<0, 2>>, <<0, 1>>, <<3>>, <<3, 1>>, <<3, 2>>, snapshot >>,
     base    |-> <<0, 20, 10, 0, 0, 0, 0>>,
     volume  |-> <<NoVolume, volumes[1], NoVolume, NoVolume, volumes[2], volumes[3], volumes[4]>>]

Nested(first, volumes) ==
    [parent  |-> <<0, 0, 2, 3, 4, 1, 2>>,
     path    |-> Paths(<<0, 0, 2, 3, 4, 1, 2>>),
     whole   |-> {1, 2, 4},
     virtual |-> {},
     name    |-> << <<10>>, <<2>>, <<2, 1>>, <<5>>, <<5, 1>>, <<10, first>>, << >> >>,
     base    |-> <<0, 0, 8, 0, 0, 0, 4>>,
     volume  |-> <<NoVolume, NoVolume, volumes[1], NoVolume, volumes[2], volumes[3], volumes[4]>>]

MCVolumes ==
    LET System   == {Volume(1, 0, 1), Volume(1, 1, 1), Volume(0, 1, 1), NoVolume}
        Data     == {Volume(2, 1, 2), Volume(0, 1, 2), Volume(0, 2, 2)}
        Snapshot == {Volume(1, 1, 3), Volume(0, 1, 3), NoVolume}
        Efi      == {Volume(0, 2, 0), NoVolume}
    IN  {<<e, v, w, s>> : e \in Efi, v \in System, w \in Data, s \in Snapshot}

\* A registry without any medium that is whole.
NoDisks ==
    [parent |-> [x \in MCMedia |-> 0], path |-> [x \in MCMedia |-> {x}], whole |-> {}, virtual |-> {},
     name |-> [x \in MCMedia |-> << >>], base |-> [x \in MCMedia |-> 0],
     volume |-> [x \in MCMedia |-> NoVolume]]

MCRegistries ==
    {Containers(n, v) : n \in {<<3, 1, 1>>, << >>}, v \in MCVolumes} \cup
    {Nested(n, v) : n \in {0, 1}, v \in MCVolumes} \cup {NoDisks}

Texts == {<< >>, <<"x">>, <<"y">>, <<Tab, "x">>, <<"x", Newline>>}
MCCharacters == STRING

FewWrites == {Row(Network)} \cup {Field(k, t) : k \in {<<"id">>, <<"name">>}, t \in Texts}
Long(n) == <<Row(Network), Field(<<"id">>, [i \in 1..n |-> "x"])>>

NoRows == [scripts |-> {<< >>}, heaps |-> {Ample}]
MCScripts ==
    {NoRows,
     [scripts |-> {<<Row(Network)>> \o s : s \in SeqOf(FewWrites, 3)},
      heaps |-> {[sizeMax |-> 19, fails |-> TRUE], [sizeMax |-> 4096, fails |-> FALSE]}],
     [scripts |-> {Long(n) : n \in 1..20}, heaps |-> {[sizeMax |-> 19, fails |-> FALSE]}]}

Wired ==
    [bsd |-> <<"en0">>, path |-> <<"path0">>, classes |-> {"IONetworkInterface"}, virtual |-> FALSE,
     mac |-> <<"mac0">>, nestedVendor |-> <<"vendor0">>, nestedModel |-> << >>,
     vendor |-> << >>, model |-> << >>, vendorID |-> <<"14e4">>, medium |-> <<"ethernet">>,
     type |-> <<"ethernet">>, display |-> <<"Ethernet">>]
Wireless ==
    [bsd |-> <<"en1">>, path |-> <<"path1">>, classes |-> {"IONetworkInterface", "IO80211Interface"},
     virtual |-> FALSE, mac |-> <<"mac1">>, nestedVendor |-> << >>, nestedModel |-> << >>,
     vendor |-> << >>, model |-> <<"model1">>, vendorID |-> <<"14e4">>, medium |-> <<"wireless_lan">>,
     type |-> <<"wireless_lan">>, display |-> <<"Wi-Fi">>]

Interfaces ==
    {[Wireless EXCEPT !.classes = c, !.type = t, !.display = d, !.vendor = v] :
       c \in {{}, {"IO80211Interface"}, {"IONetworkInterface", "IO80211Interface"}},
       t \in {<< >>, <<"wireless_lan">>}, d \in {<< >>, <<"Wi-Fi">>, <<Tab, "Wi-Fi">>, <<Newline>>},
       v \in {<< >>, <<"vendor2", Tab>>}}
      \cup
    {[Wireless EXCEPT !.classes = c, !.nestedVendor = n, !.vendor = v, !.nestedModel = m, !.model = l,
                      !.vendorID = i] :
       c \in {{"IONetworkInterface"}, {"IONetworkInterface", "IO80211Interface"}},
       n \in {<< >>, <<"vendor1">>}, v \in {<< >>, <<"vendor2">>, Placeholder},
       m \in {<< >>, <<"product1">>, Placeholder}, l \in {<< >>, <<"model1">>, Placeholder \o <<Tab>>},
       i \in {<<"14e4">>, <<"1234">>}}
      \cup
    {[Wireless EXCEPT !.virtual = u, !.mac = m, !.bsd = b, !.path = p, !.type = t] :
       u \in BOOLEAN, m \in {<< >>, ZeroMac, <<"mac1">>}, b \in {<< >>, <<"en1">>},
       p \in {<< >>, <<"path1">>}, t \in {<<"bridge">>, <<"wireless_lan">>}}

Bridge ==
    [name |-> <<"bridge">>, path |-> <<"path">>, pci |-> TRUE, accelerator |-> FALSE, display |-> FALSE,
     model |-> << >>, vendorName |-> << >>, manufacturer |-> <<"vendor0">>, vendorID |-> << >>,
     apple |-> FALSE]
Controller(n, m, v, w, i, d) ==
    [Bridge EXCEPT !.name = n, !.path = <<"path", "gpu">>, !.display = d, !.model = m,
                   !.vendorName = v, !.manufacturer = w, !.vendorID = i]
Driver ==
    [Bridge EXCEPT !.name = <<"driver">>, !.path = <<"path", "gpu", "driver">>, !.pci = FALSE,
                   !.manufacturer = << >>]
Engine == [Driver EXCEPT !.name = <<"engine">>, !.path = <<"path", "gpu", "driver", "engine">>]
Accelerator(n) ==
    [Driver EXCEPT !.name = n, !.path = <<"path", "accelerator">> \o n, !.accelerator = TRUE]
OfSoc == [Accelerator(<<"agx">>) EXCEPT !.apple = TRUE, !.manufacturer = Placeholder]

MCMachines ==
    {[collector |-> "network", interfaces |-> {Wired, e}] : e \in Interfaces}
      \cup
    {[collector |-> "gpus", services |->
        {<<Bridge>>, <<c, Bridge>>, <<Accelerator(n), Driver, c, Bridge>>,
         <<Accelerator(<<"accelerator2">>), c, Bridge>>, <<OfSoc>>}] :
       c \in {Controller(n, m, v, w, i, d) : n \in {<< >>, <<"GFX0">>}, m \in {<< >>, <<"model">>, Placeholder},
                v \in {<< >>, <<"vendor", Tab>>}, w \in {<< >>, <<"maker">>, Placeholder},
                i \in {<< >>, <<"14e4">>}, d \in BOOLEAN},
       n \in {<< >>, <<"accelerator1">>}}
      \cup
    {[collector |-> "gpus", services |->
        {<<Bridge>>, <<c, Bridge>>, <<Accelerator(<<"accelerator1">>), Engine, Driver, c, Bridge>>}] :
       c \in {Controller(<<"GFX0">>, <<"model">>, v, <<"maker">>, <<"14e4">>, d) :
                v \in {<< >>, <<"vendor", Tab>>}, d \in BOOLEAN}}

MCPciVendor == << "14e4" >> :> <<"Broadcom">>

MCComputers ==
    {[registries |-> MCRegistries \ {NoDisks},
      scripts |-> {NoRows}, machines |-> {}],
     [registries |-> {NoDisks}, scripts |-> MCScripts, machines |-> MCMachines]}
=================================================================================
