-------------------------- MODULE LinuxAdapters_proofs --------------------------
(****************************************************************************)
(* Whatever devices come and go while a Linux machine's adapters and GPUs   *)
(* are collected, and whatever names pass from one to another, on whatever  *)
(* tree of devices: a name is from the section of its vendor, a device that *)
(* stays is listed once, and what is said of it is its own.                 *)
(****************************************************************************)
EXTENDS LinuxAdapters, OrderLemmas, SequenceTheorems

Steps == {"index", "properties", "vendor", "device", "manufacturer", "product", "end",
          "address", "udev"}

Text == STRING \cup {None}

\* A value is missing or says where it comes from.
Values == {<< >>} \cup ({"udev", "tree", "ids"} \X SUBSET Directories)

Paths == Names \cup Directories

EntryType ==
    [step : Steps, of : Directories \cup Interfaces, path : Paths,
     at : Directories \cup {None}, udev : Directories \cup {None},
     from : Directories \cup {None}, vendorAt : Directories \cup {None},
     vendor : Values, model : Values]

Types ==
    /\ TypeOK
    /\ file \in Seq([depth : 0..2, id : STRING, name : STRING])
    /\ vendor \in Text
    /\ reading = Idle \/ reading \in EntryType
    /\ \A d \in DOMAIN found : found[d] \in Paths
    /\ \A n \in Names : led[n] \subseteq Devices[n] \cup {None}


-------------------------------------------------------------------------------
\* The vendor whose section a line is in.
Heads(n) == {j \in 1..n : file[j].depth = 0}
VendorOf(n) == file[CHOOSE j \in Heads(n) : \A i \in Heads(n) : i <= j].id

Parsed ==
    /\ vendor = IF Heads(lines) = {} THEN None ELSE VendorOf(lines)
    /\ None \notin DOMAIN database.vendors
    /\ \A key \in DOMAIN database.devices : key[1] # None /\ key[2] # None
    /\ \A id \in DOMAIN database.vendors : database.vendors[id] \in STRING
    /\ \A key \in DOMAIN database.devices : database.devices[key] \in STRING
    /\ DOMAIN database = {"vendors", "devices"}
    /\ NamesFromOwnSection

-------------------------------------------------------------------------------
\* What each loop has to visit, and what it is visiting.
Control ==
    /\ phase \in {"ids", "done"} => todo = {}
    /\ phase = "net" => todo \subseteq Interfaces
    /\ phase = "pci" => todo \subseteq {d \in Directories : "slot" \in Has[d]}
    /\ phase = "drm" => todo \subseteq Cards
    /\ phase = "gpus" => todo \subseteq DOMAIN found
    /\ reading # Idle =>
         /\ phase \in {"net", "gpus"} /\ reading.of \notin todo
         /\ phase = "net" =>
              /\ reading.of \in Interfaces /\ reading.path = reading.of
              /\ \E d \in LedBy(reading.path) \ {None} : "virtual" \notin Has[d]
         /\ phase = "gpus" =>
              /\ reading.of \in DOMAIN found /\ reading.path = found[reading.of]
              /\ reading.step \notin {"index", "address", "udev"}
    /\ phase \in {"ids", "net"} => found = << >>
    /\ \A d \in DOMAIN found : "virtual" \notin Has[d] /\ Has[d] \cap {"modalias", "slot"} # {}

\* What has been read so far is of the devices the path has led to.
Right(r) ==
    /\ r.step = "index" => r.at = None
    /\ r.at # None => r.at \in Over(r)
    /\ r.at # None /\ r.step = "properties" /\ Alone(r) => r.at \in Led(r)
    /\ r.from \in Over(r) \cup {None}
    /\ Alone(r) /\ r.step \notin {"index", "properties"} => r.from \in Led(r)
    /\ r.udev \in Over(r) \cup {None}
    /\ (Alone(r) \/ phase = "net") /\ r.udev # None => r.udev \in Led(r)
    /\ r.vendorAt \in Led(r) \cup {None}
    /\ Own(r, r.vendor) /\ Own(r, r.model)
    /\ r.step = "address" => \E d \in Led(r) : d \notin assigned \/ d \in readdressed

Begun == reading # Idle => Right(reading)

-------------------------------------------------------------------------------
\* An interface that is not visited yet; a device likewise.
NetPending(i) ==
    \/ phase = "ids"
    \/ phase = "net" /\ (i \in todo \/ (reading # Idle /\ reading.of = i))
GpuPending(d) ==
    \/ phase \in {"ids", "net", "pci", "drm"}
    \/ phase = "gpus" /\ (d \in todo \/ (reading # Idle /\ reading.of = d))

AdaptersListed ==
    /\ \A a \in adapters : ~NetPending(a.id) /\ \E d \in led[a.id] \ {None} : "virtual" \notin Has[d]
    /\ \A a, b \in adapters : a.id = b.id => a = b
    /\ \A i \in Interfaces, d \in Directories :
         Steady(d) /\ Always(i, d) /\ "virtual" \notin Has[d] /\ ~NetPending(i) =>
           \E a \in adapters : a.id = i

Stays(g) == Steady(g.of) /\ LedBy(g.path) = {g.of}

GpusListed ==
    /\ \A g \in gpus : g.of \in DOMAIN found /\ g.path = found[g.of] /\ ~GpuPending(g.of)
    /\ \A g \in gpus : Stays(g) => g.id \in {<<"slot", g.of>>, <<"path", g.of>>}
    /\ \A g, h \in gpus : g.of = h.of => g = h
    /\ \A d \in DOMAIN found : ~GpuPending(d) => \E g \in gpus : g.of = d

\* The devices of which something is there to make them GPUs are found.
Found ==
    /\ \A d \in Directories :
         /\ Steady(d) /\ {"slot", "display"} \subseteq Has[d]
         /\ (phase = "pci" /\ d \notin todo) \/ phase \in {"drm", "gpus", "done"}
         => d \in DOMAIN found
    /\ \A c \in Cards, d \in Directories :
         /\ Steady(d) /\ Always(c, d) /\ "virtual" \notin Has[d]
         /\ (phase = "drm" /\ c \notin todo) \/ phase \in {"gpus", "done"}
         => d \in DOMAIN found

IInv ==
    Types /\ Parsed /\ Control /\ Begun /\ AttributesOfOneDevice
      /\ AdaptersListed /\ GpusListed /\ Found

-------------------------------------------------------------------------------
\* The directories above a directory: it is one of them, and so is the one above
\* any of them.
LEMMA AboveFacts ==
  ASSUME NEW d \in Directories
  PROVE  /\ d \in Above[d] /\ Above[d] \subseteq Directories
         /\ \A e \in Above[d] : Parent[e] # None => Parent[e] \in Above[d]
<1>1. Above[d] = {e \in Directories :
                    \A S \in SUBSET Directories : Coherent(S) /\ d \in S => e \in S}
  BY DEF Above
<1>2. ASSUME NEW e \in Above[d], Parent[e] # None
      PROVE  Parent[e] \in Above[d]
  <2>1. e \in Directories /\ Parent[e] \in Directories
    BY <1>1, <1>2, AdaptersAssumption
  <2>2. \A S \in SUBSET Directories : Coherent(S) /\ d \in S => Parent[e] \in S
    BY <1>1, <1>2 DEF Coherent
  <2> QED
    BY <1>1, <2>1, <2>2
<1> QED
  BY <1>1, <1>2

\* A set of line numbers that is not empty has a last one.
LastOf(S) == CHOOSE k \in S : \A j \in S : j <= k

LEMMA LastExists ==
  ASSUME NEW n \in Nat, NEW S \in SUBSET (1..n), S # {}
  PROVE  LastOf(S) \in S /\ \A j \in S : j <= LastOf(S)
<1>1. 1..n \subseteq Int /\ IsFiniteSet(1..n)
  BY FS_Interval
<1>2. S \in SUBSET Int /\ IsFiniteSet(S)
  BY <1>1, FS_Subset
<1> QED
  BY <1>2, FiniteGreatest DEF LastOf

LEMMA LastIs ==
  ASSUME NEW n \in Nat, NEW S \in SUBSET (1..n), n \in S
  PROVE  LastOf(S) = n
<1>1. LastOf(S) \in S /\ n <= LastOf(S)
  BY LastExists
<1>2. LastOf(S) \in 1..n
  BY <1>1
<1> QED
  BY <1>1, <1>2

\* The device lines among the first n for a device of a vendor.
DeviceLines(n, v, d) ==
    {k \in 1..n : file[k].depth = 1 /\ file[k].id = d /\ Heads(k) # {} /\ VendorOf(k) = v}
LineName(n, v, d) ==
    IF DeviceLines(n, v, d) = {} THEN None ELSE file[LastOf(DeviceLines(n, v, d))].name

LEMMA NameInFileIs ==
  \A v, d : NameInFile(v, d) = LineName(lines, v, d)
BY DEF NameInFile, LineName, DeviceLines, Heads, VendorOf, LastOf

\* One more line.
LEMMA HeadsPlus ==
  ASSUME NEW n \in Nat
  PROVE  /\ Heads(n) \in SUBSET (1..n)
         /\ Heads(n + 1) = Heads(n) \cup (IF file[n + 1].depth = 0 THEN {n + 1} ELSE {})
<1>1. 1..(n + 1) = 1..n \cup {n + 1}
  OBVIOUS
<1> QED
  BY <1>1 DEF Heads

LEMMA DeviceLinesPlus ==
  ASSUME NEW n \in Nat, NEW v, NEW d
  PROVE  /\ DeviceLines(n, v, d) \in SUBSET (1..n)
         /\ DeviceLines(n + 1, v, d) =
              DeviceLines(n, v, d) \cup
                (IF /\ file[n + 1].depth = 1 /\ file[n + 1].id = d
                    /\ Heads(n) # {} /\ VendorOf(n) = v
                 THEN {n + 1} ELSE {})
<1>1. 1..(n + 1) = 1..n \cup {n + 1}
  OBVIOUS
<1>2. file[n + 1].depth = 1 => Heads(n + 1) = Heads(n) /\ VendorOf(n + 1) = VendorOf(n)
  <2>1. ASSUME file[n + 1].depth = 1
        PROVE  Heads(n + 1) = Heads(n)
    BY <2>1, HeadsPlus
  <2> QED
    BY <2>1 DEF VendorOf
<1> QED
  BY <1>1, <1>2 DEF DeviceLines

\* For numbers no line has, nothing is found and nothing is in the file.
LEMMA NamesOfAll ==
  ASSUME Types, Parsed, NEW v, NEW d, v # None, d # None
  PROVE  Lookup(database.devices, <<v, d>>) = LineName(lines, v, d)
<1> DEFINE ids == {file[k].id : k \in 1..lines} \ {None}
<1>0. lines \in Nat
  BY DEF Types, TypeOK
<1>1. CASE v \in ids /\ d \in ids
  BY <1>1, NameInFileIs DEF Parsed, NamesFromOwnSection
<1>2. CASE ~(v \in ids /\ d \in ids)
  <2>1. Lookup(database.devices, <<v, d>>) = None
    <3>1. <<v, d>> \notin DOMAIN database.devices
      BY <1>2 DEF Parsed, NamesFromOwnSection
    <3> QED
      BY <3>1 DEF Lookup
  <2>2. DeviceLines(lines, v, d) = {}
    <3> SUFFICES ASSUME NEW k \in DeviceLines(lines, v, d)
                 PROVE  FALSE
      OBVIOUS
    <3>1. k \in 1..lines /\ file[k].id = d /\ Heads(k) # {} /\ VendorOf(k) = v
      BY DEF DeviceLines
    <3>2. d \in ids
      BY <3>1
    <3>3. LastOf(Heads(k)) \in Heads(k)
      <4>1. k \in Nat
        BY <1>0, <3>1
      <4> QED
        BY <3>1, <4>1, HeadsPlus, LastExists
    <3>4. LastOf(Heads(k)) \in 1..lines
      BY <1>0, <3>1, <3>3 DEF Heads
    <3>5. v = file[LastOf(Heads(k))].id
      BY <3>1 DEF VendorOf, LastOf
    <3> QED
      BY <1>2, <3>2, <3>4, <3>5
  <2> QED
    BY <2>1, <2>2 DEF LineName
<1> QED
  BY <1>1, <1>2

LEMMA ReadLineParsed ==
  ASSUME Types, Parsed, ReadLine
  PROVE  Parsed' /\ vendor' \in Text
<1> DEFINE n == lines
           line == file[n + 1]
           D == database.devices
           V == database.vendors
           E == database'.devices
           opens == line.depth = 1 /\ line.id # None /\ vendor # None
<1>1. /\ n \in Nat /\ lines' = n + 1 /\ UNCHANGED file
      /\ line \in [depth : 0..2, id : STRING, name : STRING]
      /\ vendor' = VendorAfter(line)
      /\ database' =
           IF line.id = None \/ line.depth = 2 THEN database
           ELSE IF line.depth = 0
           THEN [database EXCEPT !.vendors = Put(@, line.id, line.name)]
           ELSE IF vendor = None THEN database
           ELSE [database EXCEPT !.devices = Put(@, <<vendor, line.id>>, line.name)]
  <2>1. file \in Seq([depth : 0..2, id : STRING, name : STRING]) /\ lines \in 0..Len(file)
    BY DEF Types, TypeOK
  <2>2. n < Len(file) /\ Len(file) \in Nat
    BY <2>1 DEF ReadLine
  <2>3. n + 1 \in 1..Len(file) /\ n \in Nat
    BY <2>1, <2>2
  <2>4. file[n + 1] \in [depth : 0..2, id : STRING, name : STRING]
    BY <2>1, <2>3, ElementOfSeq
  <2>5. UNCHANGED file
    BY DEF ReadLine
  <2>6. lines' = lines + 1 /\ vendor' = VendorAfter(file[lines + 1])
    BY DEF ReadLine
  <2>7. database' =
          IF file[lines + 1].id = None \/ file[lines + 1].depth = 2 THEN database
          ELSE IF file[lines + 1].depth = 0
          THEN [database EXCEPT !.vendors = Put(@, file[lines + 1].id, file[lines + 1].name)]
          ELSE IF vendor = None THEN database
          ELSE [database EXCEPT !.devices =
                  Put(@, <<vendor, file[lines + 1].id>>, file[lines + 1].name)]
    BY DEF ReadLine
  <2> QED
    BY <2>3, <2>4, <2>5, <2>6, <2>7
<1>2. /\ \A k : Heads(k)' = Heads(k) /\ VendorOf(k)' = VendorOf(k)
      /\ \A k, v, d : LineName(k, v, d)' = LineName(k, v, d)
  BY <1>1 DEF Heads, VendorOf, LineName, DeviceLines
<1>3. /\ line.depth \in 0..2 /\ line.id \in STRING /\ line.name \in STRING
      /\ DOMAIN database = {"vendors", "devices"}
      /\ None \notin DOMAIN V /\ \A id \in DOMAIN V : V[id] \in STRING
      /\ \A key \in DOMAIN D : key[1] # None /\ key[2] # None /\ D[key] \in STRING
      /\ vendor \in Text
  BY <1>1 DEF Parsed, Types
<1> HIDE DEF line
<1>4. /\ E = IF opens THEN Put(D, <<vendor, line.id>>, line.name) ELSE D
      /\ database'.vendors = IF line.depth = 0 /\ line.id # None THEN Put(V, line.id, line.name) ELSE V
      /\ DOMAIN database' = {"vendors", "devices"}
  BY <1>1, <1>3
\* The vendor is the one whose section the line is in.
<1>5. vendor' = IF Heads(n + 1) = {} THEN None ELSE VendorOf(n + 1)
  <2>1. CASE line.depth = 0
    <3>1. Heads(n + 1) \in SUBSET (1..(n + 1)) /\ n + 1 \in Heads(n + 1)
      BY <1>1, <2>1, HeadsPlus DEF line
    <3>2. LastOf(Heads(n + 1)) = n + 1
      BY <1>1, <3>1, LastIs
    <3> QED
      BY <1>1, <2>1, <3>1, <3>2 DEF VendorOf, LastOf, VendorAfter, line
  <2>2. CASE line.depth # 0
    <3>1. Heads(n + 1) = Heads(n)
      BY <1>1, <2>2, HeadsPlus DEF line
    <3>2. VendorOf(n + 1) = VendorOf(n)
      BY <3>1 DEF VendorOf
    <3>3. vendor' = vendor
      BY <1>1, <2>2 DEF VendorAfter
    <3>4. vendor = IF Heads(n) = {} THEN None ELSE VendorOf(n)
      BY DEF Parsed
    <3> QED
      BY <3>1, <3>2, <3>3, <3>4
  <2> QED
    BY <2>1, <2>2
<1>6. ASSUME NEW v, NEW d, v # None, d # None
      PROVE  Lookup(E, <<v, d>>) = LineName(n + 1, v, d)
  <2> DEFINE old == DeviceLines(n, v, d)
             new == DeviceLines(n + 1, v, d)
  <2>1. Lookup(D, <<v, d>>) = LineName(n, v, d)
    BY <1>6, NamesOfAll
  <2>2. old \in SUBSET (1..n) /\ new \in SUBSET (1..(n + 1))
    BY <1>1, DeviceLinesPlus
  <2>3. CASE opens /\ v = vendor /\ d = line.id
    <3>1. n + 1 \in new
      BY <1>1, <2>3, DeviceLinesPlus DEF Parsed, line
    <3>2. LineName(n + 1, v, d) = line.name
      BY <1>1, <2>2, <3>1, LastIs DEF LineName, line
    <3>3. Lookup(E, <<v, d>>) = line.name
      BY <1>4, <2>3 DEF Lookup, Put
    <3> QED
      BY <3>2, <3>3
  <2>4. CASE ~(opens /\ v = vendor /\ d = line.id)
    <3>1. new = old
      <4>1. ~(line.depth = 1 /\ line.id = d /\ Heads(n) # {} /\ VendorOf(n) = v)
        BY <1>6, <2>4 DEF Parsed
      <4>2. new = old \cup
                    (IF /\ file[n + 1].depth = 1 /\ file[n + 1].id = d
                        /\ Heads(n) # {} /\ VendorOf(n) = v
                     THEN {n + 1} ELSE {})
        BY <1>1, DeviceLinesPlus
      <4>3. new = old \cup {}
        BY <4>1, <4>2 DEF line
      <4> QED
        BY <4>3
    <3>2. Lookup(E, <<v, d>>) = Lookup(D, <<v, d>>)
      <4>1. CASE opens
        <5>1. <<v, d>> # <<vendor, line.id>>
          BY <2>4, <4>1
        <5> QED
          BY <1>4, <4>1, <5>1 DEF Lookup, Put
      <4>2. CASE ~opens
        BY <1>4, <4>2
      <4> QED
        BY <4>1, <4>2
    <3> QED
      BY <2>1, <3>1, <3>2 DEF LineName
  <2> QED
    BY <2>3, <2>4
<1>7. \A key \in DOMAIN E : key[1] # None /\ key[2] # None /\ E[key] \in STRING
  BY <1>3, <1>4 DEF Put
<1>8. LET all == {file[k].id : k \in 1..(n + 1)} \ {None}
      IN  DOMAIN E \subseteq all \X all
  <2> DEFINE all == {file[k].id : k \in 1..(n + 1)} \ {None}
             some == {file[k].id : k \in 1..n} \ {None}
  <2>1. some \subseteq all
    <3>1. \A k \in 1..n : k \in 1..(n + 1)
      BY <1>1
    <3> QED
      BY <3>1
  <2>2. DOMAIN D \subseteq some \X some
    BY DEF Parsed, NamesFromOwnSection
  <2>3. opens => vendor \in all /\ line.id \in all
    <3>1. opens => line.id \in all
      <4>1. n + 1 \in 1..(n + 1)
        BY <1>1
      <4> QED
        BY <4>1 DEF line
    <3>2. vendor # None => vendor \in some
      <4> SUFFICES ASSUME vendor # None
                   PROVE  vendor \in some
        OBVIOUS
      <4>1. Heads(n) # {} /\ vendor = VendorOf(n)
        BY DEF Parsed
      <4>2. LastOf(Heads(n)) \in 1..n
        BY <1>1, <4>1, HeadsPlus, LastExists
      <4>3. vendor = file[LastOf(Heads(n))].id
        BY <4>1 DEF VendorOf, LastOf
      <4> QED
        BY <4>2, <4>3
    <3> QED
      BY <2>1, <3>1, <3>2
  <2> HIDE DEF all, some, opens
  <2>4. DOMAIN D \subseteq all \X all
    BY <2>1, <2>2
  <2>5. DOMAIN E \subseteq all \X all
    BY <1>4, <2>3, <2>4 DEF Put
  <2> QED
    BY <2>5 DEF all
<1>9. NamesFromOwnSection'
  <2>1. (\A v, d : NameInFile(v, d) = LineName(lines, v, d))'
    BY NameInFileIs, PTL
  <2>2. \A v, d : NameInFile(v, d)' = LineName(n + 1, v, d)
    BY <1>1, <1>2, <2>1
  <2> HIDE DEF E
  <2>3. \A v, d : v # None /\ d # None => Lookup(E, <<v, d>>) = NameInFile(v, d)'
    BY <1>6, <2>2
  <2> QED
    BY <1>1, <1>8, <2>3 DEF NamesFromOwnSection, E
<1>10. None \notin DOMAIN database'.vendors /\ \A id \in DOMAIN database'.vendors : database'.vendors[id] \in STRING
  BY <1>3, <1>4 DEF Put
<1>11. vendor' \in Text
  BY <1>1, <1>3 DEF VendorAfter, Text
<1> QED
  BY <1>1, <1>2, <1>4, <1>5, <1>7, <1>9, <1>10, <1>11 DEF Parsed

LEMMA ParsedKept ==
  ASSUME Parsed, UNCHANGED parser
  PROVE  Parsed'
<1>1. UNCHANGED <<file, lines, vendor, database>>
  BY DEF parser
<1>2. NamesFromOwnSection'
  <2>1. \A v, d : NameInFile(v, d)' = NameInFile(v, d)
    BY <1>1 DEF NameInFile
  <2> QED
    BY <1>1, <2>1 DEF Parsed, NamesFromOwnSection
<1>3. \A n : Heads(n)' = Heads(n) /\ VendorOf(n)' = VendorOf(n)
  BY <1>1 DEF Heads, VendorOf
<1> QED
  BY <1>1, <1>2, <1>3 DEF Parsed

-------------------------------------------------------------------------------
\* Where a path leads, or has led, is a directory or nothing, and there it leads now.
LEMMA Leads ==
  ASSUME Types, NEW e, e.path \in Paths
  PROVE  /\ LedBy(e.path) \subseteq Directories \cup {None} /\ LedBy(e.path) # {}
         /\ Led(e) \subseteq Directories /\ Led(e) \subseteq Over(e) /\ Over(e) \subseteq Directories
         /\ Reached(e.path) => Target(e.path) \in Led(e)
         /\ \A d \in Led(e) : Has[d] \cap {"modalias", "slot"} # {} \/ e.path \in Directories
<1>1. /\ led \in [Names -> SUBSET (Directories \cup {None})] /\ \A n \in Names : link[n] \in led[n]
      /\ present \subseteq Directories /\ None \notin Directories
      /\ \A n \in Names : led[n] \subseteq Devices[n] \cup {None}
  BY AdaptersAssumption DEF Types, TypeOK
<1>2. LedBy(e.path) \subseteq Directories \cup {None} /\ LedBy(e.path) # {}
  BY <1>1 DEF LedBy, Paths
<1>3. Led(e) \subseteq Directories
  BY <1>2 DEF Led
<1>4. Led(e) \subseteq Over(e) /\ Over(e) \subseteq Directories
  BY <1>3, AboveFacts DEF Over
<1>5. Reached(e.path) => Target(e.path) \in Led(e)
  BY <1>1 DEF Reached, Target, Led, LedBy, Paths
<1>6. \A d \in Led(e) : Has[d] \cap {"modalias", "slot"} # {} \/ e.path \in Directories
  BY <1>1, AdaptersAssumption DEF Led, LedBy, Paths
<1> QED
  BY <1>2, <1>3, <1>4, <1>5, <1>6

\* What is said of an entry depends on its path.
LEMMA SamePath ==
  ASSUME NEW e, NEW f, e.path = f.path
  PROVE  /\ Led(e) = Led(f) /\ Over(e) = Over(f) /\ (Alone(e) <=> Alone(f))
         /\ \A value : Own(e, value) <=> Own(f, value)
<1>1. Led(e) = Led(f) /\ Over(e) = Over(f) /\ (Alone(e) <=> Alone(f))
  BY DEF Led, Over, Alone
<1> QED
  BY <1>1 DEF Own

\* While the machine is as it was, the same is true of every entry.
LEMMA SameMachine ==
  ASSUME UNCHANGED machine
  PROVE  /\ \A e : Led(e)' = Led(e) /\ Over(e)' = Over(e) /\ (Alone(e)' <=> Alone(e))
         /\ \A e, value : Own(e, value)' <=> Own(e, value)
         /\ \A d : Steady(d)' <=> Steady(d)
         /\ \A n, d : Always(n, d)' <=> Always(n, d)
         /\ \A path : LedBy(path)' = LedBy(path)
         /\ UNCHANGED <<present, link, assigned, moved, led, readdressed, events>>
<1>1. UNCHANGED <<present, link, assigned, moved, led, readdressed, events>>
  BY DEF machine
<1>2. /\ \A d : Steady(d)' <=> Steady(d)
      /\ \A n, d : Always(n, d)' <=> Always(n, d)
      /\ \A path : LedBy(path)' = LedBy(path)
  BY <1>1 DEF Steady, Always, LedBy
<1>3. \A e : Led(e)' = Led(e)
  BY <1>2 DEF Led
<1>4. \A e : Over(e)' = Over(e) /\ (Alone(e)' <=> Alone(e))
  BY <1>2, <1>3 DEF Over, Alone
<1>5. \A e, value : Own(e, value)' <=> Own(e, value)
  BY <1>3, <1>4 DEF Own
<1> QED
  BY <1>1, <1>2, <1>3, <1>4, <1>5

LEMMA InitInv == Init => IInv
<1> SUFFICES ASSUME Init
             PROVE  IInv
  OBVIOUS
<1>0. PICK g \in Machines :
         /\ present \in g.present /\ Coherent(present)
         /\ link \in g.links /\ assigned \in g.assigned /\ events \in g.over /\ file \in g.files
  BY DEF Init
<1>1. /\ present \subseteq Directories /\ assigned \subseteq Directories
      /\ events \in 0..MaxEvents
      /\ file \in Seq([depth : 0..2, id : STRING, name : STRING])
      /\ DOMAIN link = Names /\ \A n \in Names : link[n] \in Devices[n] \cup {None}
  BY <1>0, AdaptersAssumption
<1>2. /\ moved = {} /\ lines = 0 /\ vendor = None
      /\ led = [n \in Names |-> {link[n]}] /\ readdressed = {}
      /\ database = [vendors |-> << >>, devices |-> << >>]
      /\ phase = "ids" /\ todo = {} /\ found = << >> /\ reading = Idle
      /\ adapters = {} /\ gpus = {}
  BY DEF Init
<1>3. DOMAIN found = {}
  BY <1>2
<1>4. lines \in 0..Len(file)
  BY <1>1, <1>2
<1>5. Types
  <2>1. link \in [Names -> Directories \cup {None}]
    BY <1>0, AdaptersAssumption
  <2>2. TypeOK
    BY <1>0, <1>1, <1>2, <1>3, <1>4, <2>1 DEF TypeOK
  <2>3. vendor \in Text
    BY <1>2 DEF Text
  <2> QED
    BY <1>1, <1>2, <1>3, <2>2, <2>3 DEF Types
<1>6. 1..lines = {}
  BY <1>2
<1>7. Parsed
  <2>1. Heads(lines) = {}
    BY <1>6 DEF Heads
  <2>2. NamesFromOwnSection
    BY <1>2, <1>6 DEF NamesFromOwnSection
  <2> QED
    BY <1>2, <2>1, <2>2 DEF Parsed
<1>8. Control /\ Begun /\ AttributesOfOneDevice /\ AdaptersListed /\ GpusListed /\ Found
  BY <1>2, <1>3 DEF Control, Begun, AttributesOfOneDevice, AdaptersListed, GpusListed, Found,
                    NetPending, GpuPending
<1> QED
  BY <1>5, <1>7, <1>8 DEF IInv

-------------------------------------------------------------------------------
\* What stays has always been there, and where a name has led it has led for ever.
Widened ==
    /\ moved \subseteq moved'
    /\ \A n \in Names : led[n] \subseteq led[n]'
    /\ readdressed \subseteq readdressed' /\ assigned' \subseteq assigned \cup readdressed'
    /\ \A d : Steady(d)' => Steady(d)

LEMMA EventFacts ==
  ASSUME Types, Event
  PROVE  /\ UNCHANGED <<parser, phase, todo, found, reading, adapters, gpus>>
         /\ Widened /\ Types'
<1>1. /\ UNCHANGED <<parser, phase, todo, found, reading, adapters, gpus>>
      /\ events' \in 0..MaxEvents
  BY AdaptersAssumption DEF Event, Types, TypeOK
<1>2. CASE Plug
  <2>1. PICK d \in Directories :
          /\ present' = IF d \in present THEN present \ {d} ELSE present \cup {d}
          /\ moved' = moved \cup {d}
    BY <1>2 DEF Plug
  <2>2. Coherent(present') /\ UNCHANGED <<link, led, assigned, readdressed>>
    BY <1>2 DEF Plug
  <2>3. Widened
    BY <2>1, <2>2 DEF Widened, Steady
  <2>4. TypeOK'
    BY <1>1, <2>1, <2>2 DEF Types, TypeOK, parser, LedBy
  <2> QED
    BY <1>1, <2>2, <2>3, <2>4 DEF Types, parser
<1>3. CASE Pass
  <2>0. PICK n \in Names : \E e \in Devices[n] \cup {None} :
          /\ link' = [link EXCEPT ![n] = e]
          /\ led' = [led EXCEPT ![n] = led[n] \cup {e}]
    BY <1>3 DEF Pass
  <2>1. PICK d \in Devices[n] \cup {None} :
          /\ link' = [link EXCEPT ![n] = d]
          /\ led' = [led EXCEPT ![n] = led[n] \cup {d}]
    BY <2>0
  <2>2. UNCHANGED <<present, moved, assigned, readdressed>>
    BY <1>3 DEF Pass
  <2>3. d \in Directories \cup {None}
    BY <2>1, AdaptersAssumption
  <2>4. /\ link \in [Names -> Directories \cup {None}]
        /\ led \in [Names -> SUBSET (Directories \cup {None})]
        /\ \A m \in Names : link[m] \in led[m] /\ led[m] \subseteq Devices[m] \cup {None}
    BY DEF Types, TypeOK
  <2>5. /\ \A m \in Names : led[m] \subseteq led'[m] /\ link'[m] \in led'[m]
        /\ \A m \in Names : led'[m] \subseteq Devices[m] \cup {None}
        /\ link' \in [Names -> Directories \cup {None}]
        /\ led' \in [Names -> SUBSET (Directories \cup {None})]
    BY <2>1, <2>3, <2>4
  <2>6. Widened
    BY <2>2, <2>5 DEF Widened, Steady
  <2>7. \A d1 \in DOMAIN found : d1 \in LedBy(found[d1])'
    BY <1>1, <2>5 DEF LedBy, Types, TypeOK
  <2>8. TypeOK'
    BY <1>1, <2>2, <2>5, <2>7 DEF Types, TypeOK, parser, Coherent
  <2> QED
    BY <1>1, <2>5, <2>6, <2>8 DEF Types, parser
<1>4. CASE Assign
  <2>1. PICK d \in UNION {Devices[i] : i \in Interfaces} :
          assigned' = assigned \cup {d} /\ readdressed' = readdressed \cup {d}
    BY <1>4 DEF Assign
  <2>2. UNCHANGED <<present, moved, link, led>>
    BY <1>4 DEF Assign
  <2>3. d \in Directories
    BY <2>1, AdaptersAssumption DEF Names
  <2>4. Widened
    BY <2>1, <2>2 DEF Widened, Steady
  <2>5. TypeOK'
    BY <1>1, <2>1, <2>2, <2>3 DEF Types, TypeOK, parser, Coherent, LedBy
  <2> QED
    BY <1>1, <2>2, <2>4, <2>5 DEF Types, parser
<1> QED
  BY <1>1, <1>2, <1>3, <1>4 DEF Event

\* What was an entry's own remains it.
LEMMA EntryWidened ==
  ASSUME Types, Widened, NEW e, e.path \in Paths
  PROVE  /\ Led(e) \subseteq Led(e)' /\ Over(e) \subseteq Over(e)' /\ Led(e) \subseteq Over(e)'
         /\ LedBy(e.path) \subseteq LedBy(e.path)'
         /\ Alone(e)' => Alone(e)
         /\ \A value : Own(e, value) => Own(e, value)'
<1>1. LedBy(e.path) \subseteq LedBy(e.path)' /\ LedBy(e.path) # {}
  BY Leads DEF Widened, LedBy
<1>2. Led(e) \subseteq Led(e)' /\ Led(e) \subseteq Over(e)
  BY <1>1, Leads DEF Led
<1>3. Over(e) \subseteq Over(e)'
  BY <1>2 DEF Over
<1>4. Alone(e)' => Alone(e)
  <2> SUFFICES ASSUME Alone(e)'
               PROVE  Alone(e)
    OBVIOUS
  <2>1. PICK d \in Led(e)' : LedBy(e.path)' = {d} /\ Steady(d)'
    BY DEF Alone
  <2>2. LedBy(e.path) = {d} /\ d # None /\ Steady(d)
    BY <1>1, <2>1 DEF Widened, Led
  <2> QED
    BY <2>2 DEF Alone, Led
<1>5. \A value : Own(e, value) => Own(e, value)'
  BY <1>2, <1>3, <1>4 DEF Own
<1> QED
  BY <1>1, <1>2, <1>3, <1>4, <1>5

\* The paths of the entries there are.
LEMMA ListedPaths ==
  ASSUME Types, GpusListed
  PROVE  \A e \in adapters \cup gpus : e.path \in Paths
<1>1. \A a \in adapters : a.path \in Paths
  BY DEF Types, TypeOK, Paths, Names
<1>2. \A g \in gpus : g.path \in Paths
  BY DEF Types, GpusListed
<1> QED
  BY <1>1, <1>2

LEMMA EventStep ==
  ASSUME IInv, Event
  PROVE  IInv'
<1>1. /\ UNCHANGED <<parser, phase, todo, found, reading, adapters, gpus>>
      /\ Widened /\ Types'
  BY EventFacts DEF IInv
<1>2. Parsed'
  BY <1>1, ParsedKept DEF IInv
<1>3. ASSUME reading # Idle
      PROVE  reading.path \in Paths
  BY <1>3 DEF IInv, Types, EntryType
<1>4. Control'
  <2>1. reading # Idle => LedBy(reading.path) \subseteq LedBy(reading.path)'
    BY <1>1, <1>3, EntryWidened DEF IInv
  <2> QED
    BY <1>1, <2>1 DEF IInv, Control
<1>5. Begun'
  <2> SUFFICES ASSUME reading # Idle
               PROVE  Right(reading)'
    BY <1>1 DEF Begun
  <2> DEFINE r == reading
  <2>1. /\ Led(r) \subseteq Led(r)' /\ Over(r) \subseteq Over(r)'
        /\ Alone(r)' => Alone(r)
        /\ \A value : Own(r, value) => Own(r, value)'
    BY <1>1, <1>3, EntryWidened DEF IInv
  <2>2. Right(r)
    BY DEF IInv, Begun
  <2>3. \A d \in Led(r) : d \notin assigned \/ d \in readdressed => d \notin assigned' \/ d \in readdressed'
    BY <1>1 DEF Widened
  <2> QED
    BY <1>1, <2>1, <2>2, <2>3 DEF Right
<1>6. AttributesOfOneDevice'
  <2>1. ASSUME NEW e \in adapters \cup gpus
        PROVE  /\ Led(e) \subseteq Led(e)' /\ Led(e) \subseteq Over(e)' /\ Over(e) \subseteq Over(e)'
               /\ Alone(e)' => Alone(e)
               /\ \A value : Own(e, value) => Own(e, value)'
    BY <1>1, <2>1, ListedPaths, EntryWidened DEF IInv
  <2>2. \A e \in adapters \cup gpus :
          /\ Own(e, e.vendor)' /\ Own(e, e.model)'
          /\ IF Alone(e)' THEN e.pnp \in Led(e)' ELSE e.pnp \in Over(e)' \cup {None}
    BY <2>1 DEF IInv, AttributesOfOneDevice
  <2>3. \A g \in gpus : g.of \in Led(g)'
    BY <2>1 DEF IInv, AttributesOfOneDevice
  <2>4. ASSUME NEW a \in adapters, a.mac # << >>
        PROVE  /\ a.mac[2] \subseteq Led(a)'
               /\ a.mac[1] = "assigned" => a.mac[2] \subseteq readdressed' \/ a.mac[2] # Led(a)'
    <3>1. /\ a.mac[2] \subseteq Led(a)
          /\ a.mac[1] = "assigned" => a.mac[2] \subseteq readdressed \/ a.mac[2] # Led(a)
      BY <2>4 DEF IInv, AttributesOfOneDevice
    <3>2. Led(a) \subseteq Led(a)'
      BY <2>1
    <3>3. a.mac[2] = Led(a)' => a.mac[2] = Led(a)
      BY <3>1, <3>2
    <3>4. readdressed \subseteq readdressed'
      BY <1>1 DEF Widened
    <3> HIDE DEF Widened
    <3> QED
      BY <3>1, <3>2, <3>3, <3>4
  <2> QED
    BY <1>1, <2>2, <2>3, <2>4 DEF AttributesOfOneDevice
<1>7. AdaptersListed' /\ GpusListed' /\ Found'
  <2>1. /\ \A i : NetPending(i)' <=> NetPending(i)
        /\ \A d : GpuPending(d)' <=> GpuPending(d)
    BY <1>1 DEF NetPending, GpuPending
  <2>2. \A n \in Names : \A d : Always(n, d)' => Always(n, d)
    BY <1>1 DEF Widened, Always, IInv, Types, TypeOK
  <2>3. AdaptersListed'
    <3>1. \A a \in adapters : led[a.id] \subseteq led'[a.id]
      BY <1>1 DEF IInv, Types, TypeOK, Widened, Names
    <3>2. \A i \in Interfaces : i \in Names
      BY DEF Names
    <3> QED
      BY <1>1, <2>1, <2>2, <3>1, <3>2 DEF IInv, AdaptersListed, Widened
  <2>4. GpusListed'
    <3>1. ASSUME NEW g \in gpus, Stays(g)'
          PROVE  Stays(g)
      <4>1. g.path \in Paths
        BY ListedPaths DEF IInv
      <4>2. LedBy(g.path) \subseteq LedBy(g.path)' /\ LedBy(g.path) # {}
        BY <1>1, <4>1, EntryWidened, Leads DEF IInv
      <4> QED
        BY <1>1, <3>1, <4>2 DEF Stays, Widened
    <3> QED
      BY <1>1, <2>1, <3>1 DEF IInv, GpusListed
  <2>5. Found'
    <3>1. \A c \in Cards : c \in Names
      BY DEF Names
    <3> QED
      BY <1>1, <2>2, <3>1 DEF IInv, Found, Widened
  <2> QED
    BY <2>3, <2>4, <2>5
<1> QED
  BY <1>1, <1>2, <1>4, <1>5, <1>6, <1>7 DEF IInv

-------------------------------------------------------------------------------
\* While the machine is as it was, what was said remains true.
LEMMA SaidKept ==
  ASSUME AttributesOfOneDevice, UNCHANGED <<machine, adapters, gpus>>
  PROVE  AttributesOfOneDevice'
BY SameMachine DEF AttributesOfOneDevice

LEMMA ListsKept ==
  ASSUME AdaptersListed, GpusListed, UNCHANGED <<machine, found, adapters, gpus>>,
         \A i \in Interfaces, d \in Directories :
            Steady(d) /\ Always(i, d) /\ "virtual" \notin Has[d] /\ ~NetPending(i)' => ~NetPending(i),
         \A i : NetPending(i)' => NetPending(i),
         \A d \in DOMAIN found : GpuPending(d)' <=> GpuPending(d)
  PROVE  AdaptersListed' /\ GpusListed'
<1>1. /\ \A d : Steady(d)' <=> Steady(d)
      /\ \A n, d : Always(n, d)' <=> Always(n, d)
      /\ \A path : LedBy(path)' = LedBy(path)
      /\ UNCHANGED led
  BY SameMachine
<1>2. \A g : Stays(g)' <=> Stays(g)
  BY <1>1 DEF Stays
<1>3. AdaptersListed'
  BY <1>1 DEF AdaptersListed
<1>4. GpusListed'
  BY <1>2 DEF GpusListed
<1> QED
  BY <1>3, <1>4

LEMMA FoundKept ==
  ASSUME Found, UNCHANGED <<machine, found>>,
         phase' = phase, \A x : x \notin todo' /\ phase \in {"pci", "drm"} => x \notin todo
  PROVE  Found'
BY SameMachine DEF Found

LEMMA TypesKept ==
  ASSUME Types, UNCHANGED <<machine, file, vendor, phase, found, adapters>>,
         lines' \in 0..Len(file), todo' \subseteq Directories \cup Names,
         reading' = Idle \/ reading' \in EntryType
  PROVE  Types'
<1>1. UNCHANGED <<present, link, assigned, moved, led, readdressed, events>>
  BY DEF machine
<1>2. \A d \in DOMAIN found : d \in LedBy(found[d])'
  BY <1>1 DEF LedBy, Types, TypeOK
<1>3. TypeOK'
  BY <1>1, <1>2 DEF Types, TypeOK, Coherent
<1> QED
  BY <1>1, <1>3 DEF Types

LEMMA ReadLineStep ==
  ASSUME IInv, ReadLine
  PROVE  IInv'
<1>1. /\ phase = "ids" /\ lines < Len(file) /\ lines' = lines + 1
      /\ UNCHANGED <<machine, file, phase, todo, found, reading, adapters, gpus>>
  BY DEF ReadLine
<1>2. Parsed' /\ vendor' \in Text
  BY ReadLineParsed DEF IInv
<1>3. reading = Idle
  BY <1>1 DEF IInv, Control
<1>4. Types'
  <2>1. lines' \in 0..Len(file)'
    <3>1. lines \in 0..Len(file) /\ Len(file) \in Nat
      BY DEF IInv, Types, TypeOK
    <3> QED
      BY <1>1, <3>1
  <2>2. UNCHANGED <<present, link, assigned, moved, led, readdressed, events>>
    BY <1>1 DEF machine
  <2>3. TypeOK'
    BY <1>1, <2>1, <2>2 DEF IInv, Types, TypeOK, Coherent, LedBy
  <2> QED
    BY <1>1, <1>2, <2>2, <2>3 DEF IInv, Types
<1>5. Control'
  BY <1>1, <1>3 DEF IInv, Control
<1>6. Begun' /\ AttributesOfOneDevice'
  BY <1>1, <1>3, SaidKept DEF IInv, Begun
<1>7. AdaptersListed' /\ GpusListed' /\ Found'
  <2>1. /\ \A i : NetPending(i)' <=> NetPending(i)
        /\ \A d : GpuPending(d)' <=> GpuPending(d)
    BY <1>1 DEF NetPending, GpuPending
  <2> QED
    BY <1>1, <2>1, ListsKept, FoundKept DEF IInv
<1> QED
  BY <1>2, <1>4, <1>5, <1>6, <1>7 DEF IInv

\* When a loop ends everything it had to visit has been.
LEMMA NextLoopStep ==
  ASSUME IInv, NextLoop
  PROVE  IInv'
<1>1. /\ todo = {} /\ reading = Idle
      /\ UNCHANGED <<machine, parser, found, reading, adapters, gpus>>
      /\ \/ phase = "ids" /\ phase' = "net" /\ todo' = Linked(Interfaces)
         \/ phase = "net" /\ phase' = "pci" /\ todo' = {d \in present : "slot" \in Has[d]}
         \/ phase = "pci" /\ phase' = "drm" /\ todo' = Linked(Cards)
         \/ phase = "drm" /\ phase' = "gpus" /\ todo' = DOMAIN found
         \/ phase = "gpus" /\ phase' = "done" /\ todo' = {}
  BY DEF NextLoop
<1>2. Linked(Interfaces) \subseteq Interfaces /\ Linked(Cards) \subseteq Cards
  BY DEF Linked
<1>3. /\ \A d : Steady(d)' <=> Steady(d)
      /\ \A n, d : Always(n, d)' <=> Always(n, d)
  BY <1>1, SameMachine
\* A name that stays with a device that stays is linked to it.
<1>4. \A n \in Names, d \in Directories : Steady(d) /\ Always(n, d) => Reached(n)
  BY DEF Steady, Always, Reached, Target, IInv, Types, TypeOK
<1>5. Types'
  <2>1. UNCHANGED <<present, link, assigned, moved, led, readdressed, events>>
    BY <1>1 DEF machine
  <2>2. todo' \subseteq Directories \cup Names
    BY <1>1, <1>2 DEF IInv, Types, TypeOK, Names
  <2>3. phase' \in {"ids", "net", "pci", "drm", "gpus", "done"}
    BY <1>1
  <2>4. TypeOK'
    BY <1>1, <2>1, <2>2, <2>3 DEF IInv, Types, TypeOK, parser, Coherent, LedBy
  <2> QED
    BY <1>1, <2>1, <2>4 DEF IInv, Types, parser
<1>6. Parsed'
  BY <1>1, ParsedKept DEF IInv
<1>7. Control'
  BY <1>1, <1>2 DEF IInv, Control, Types, TypeOK
<1>8. Begun' /\ AttributesOfOneDevice'
  BY <1>1, SaidKept DEF IInv, Begun
<1>9. AdaptersListed' /\ GpusListed'
  <2>1. \A i \in Interfaces, d \in Directories :
          Steady(d) /\ Always(i, d) /\ "virtual" \notin Has[d] /\ ~NetPending(i)' => ~NetPending(i)
    BY <1>1, <1>4 DEF NetPending, Linked, Names
  <2>2. \A i : NetPending(i)' => NetPending(i)
    BY <1>1 DEF NetPending
  <2>3. \A d \in DOMAIN found : GpuPending(d)' <=> GpuPending(d)
    BY <1>1 DEF GpuPending
  <2> QED
    BY <1>1, <2>1, <2>2, <2>3, ListsKept DEF IInv
<1>10. Found'
  <2>1. ASSUME NEW d \in Directories, Steady(d), {"slot", "display"} \subseteq Has[d],
               (phase' = "pci" /\ d \notin todo') \/ phase' \in {"drm", "gpus", "done"}
        PROVE  d \in DOMAIN found
    BY <1>1, <2>1 DEF IInv, Found, Steady
  <2>2. ASSUME NEW c \in Cards, NEW d \in Directories, Steady(d), Always(c, d),
               "virtual" \notin Has[d],
               (phase' = "drm" /\ c \notin todo') \/ phase' \in {"gpus", "done"}
        PROVE  d \in DOMAIN found
    BY <1>1, <1>4, <2>2 DEF IInv, Found, Linked, Names
  <2> QED
    BY <1>1, <1>3, <2>1, <2>2 DEF Found
<1> QED
  BY <1>5, <1>6, <1>7, <1>8, <1>9, <1>10 DEF IInv

\* A device is added to those found, with a path that has led to it, or none is.
LEMMA FindStep ==
  ASSUME IInv, NEW x \in todo, phase \in {"pci", "drm"}, todo' = todo \ {x},
         UNCHANGED <<machine, parser, phase, reading, adapters, gpus>>,
         NEW d, NEW path \in Paths, NEW new, new \in BOOLEAN,
         found' = IF new THEN Put(found, d, path) ELSE found,
         new => /\ d \in Directories /\ d \in LedBy(path)
                /\ "virtual" \notin Has[d] /\ Has[d] \cap {"modalias", "slot"} # {},
         Found'
  PROVE  IInv'
<1>1. /\ DOMAIN found' = DOMAIN found \cup (IF new THEN {d} ELSE {})
      /\ \A e \in DOMAIN found' :
           \/ new /\ e = d /\ found'[e] = path
           \/ e \in DOMAIN found /\ found'[e] = found[e]
  BY DEF Put
<1>2. DOMAIN found' \subseteq Directories
  BY <1>1 DEF IInv, Types, TypeOK
<1>3. Types'
  <2>1. UNCHANGED <<present, link, assigned, moved, led, readdressed, events>>
    BY DEF machine
  <2>2. \A e \in DOMAIN found' : found'[e] \in Paths /\ e \in LedBy(found'[e])
    BY <1>1 DEF IInv, Types, TypeOK
  <2>3. \A e \in DOMAIN found' : e \in LedBy(found[e])'
    BY <2>1, <2>2 DEF LedBy
  <2>4. TypeOK'
    BY <1>2, <2>1, <2>3 DEF IInv, Types, TypeOK, parser, Coherent
  <2> QED
    BY <2>1, <2>2, <2>4 DEF IInv, Types, parser
<1>4. Parsed'
  BY ParsedKept DEF IInv
<1>5. reading = Idle
  BY DEF IInv, Control
<1>6. Control'
  BY <1>1, <1>5 DEF IInv, Control
<1>7. Begun' /\ AttributesOfOneDevice'
  BY <1>5, SaidKept DEF IInv, Begun
<1>8. AdaptersListed' /\ GpusListed'
  <2>1. /\ \A i : NetPending(i)' <=> NetPending(i)
        /\ \A e : GpuPending(e) /\ GpuPending(e)'
    BY DEF NetPending, GpuPending
  <2>2. gpus = {}
    BY <2>1 DEF IInv, GpusListed
  <2>3. GpusListed'
    BY <2>1, <2>2 DEF GpusListed
  <2>4. AdaptersListed'
    BY <2>1, SameMachine DEF IInv, AdaptersListed
  <2> QED
    BY <2>3, <2>4
<1> QED
  BY <1>3, <1>4, <1>6, <1>7, <1>8 DEF IInv

LEMMA ReadPciStep ==
  ASSUME IInv, ReadPci
  PROVE  IInv'
<1>1. PICK d \in todo :
        /\ todo' = todo \ {d}
        /\ found' = IF d \in present /\ "display" \in Has[d] THEN Put(found, d, d) ELSE found
  BY DEF ReadPci
<1>2. phase = "pci" /\ UNCHANGED <<machine, parser, phase, reading, adapters, gpus>>
  BY DEF ReadPci
<1>3. d \in Directories /\ "slot" \in Has[d]
  BY <1>2 DEF IInv, Control
<1>4. "virtual" \notin Has[d]
  BY <1>3, AdaptersAssumption
<1>5. DOMAIN found' = DOMAIN found \cup (IF d \in present /\ "display" \in Has[d] THEN {d} ELSE {})
  BY <1>1 DEF Put
<1>6. Found'
  <2>1. /\ \A e : Steady(e)' <=> Steady(e)
        /\ \A n, e : Always(n, e)' <=> Always(n, e)
    BY <1>2, SameMachine
  <2>2. Steady(d) => d \in present
    BY DEF Steady
  <2> QED
    BY <1>1, <1>2, <1>5, <2>1, <2>2 DEF IInv, Found
<1>7. d \in LedBy(d) /\ d \in Paths
  BY <1>3, AdaptersAssumption DEF LedBy, Paths
<1> DEFINE new == d \in present /\ "display" \in Has[d]
<1>8. new \in BOOLEAN /\ found' = IF new THEN Put(found, d, d) ELSE found
  BY <1>1
<1> HIDE DEF new
<1> QED
  BY <1>1, <1>2, <1>3, <1>4, <1>6, <1>7, <1>8, FindStep

\* A card leads to a device that is found with it, unless it was found already.
LEMMA ReadCardStep ==
  ASSUME IInv, ReadCard
  PROVE  IInv'
<1>1. PICK c \in todo :
        /\ todo' = todo \ {c}
        /\ found' = IF Physical(c) /\ Target(c) \notin DOMAIN found
                    THEN Put(found, Target(c), c) ELSE found
  BY DEF ReadCard
<1>2. phase = "drm" /\ UNCHANGED <<machine, parser, phase, reading, adapters, gpus>>
  BY DEF ReadCard
<1>3. c \in Cards /\ c \in Paths
  BY <1>2 DEF IInv, Control, Paths, Names
<1> DEFINE d == Target(c)
           new == Physical(c) /\ d \notin DOMAIN found
<1>4. DOMAIN found' = DOMAIN found \cup (IF new THEN {d} ELSE {})
  BY <1>1 DEF Put
<1>5. Found'
  <2>1. /\ \A e : Steady(e)' <=> Steady(e)
        /\ \A n, e : Always(n, e)' <=> Always(n, e)
    BY <1>2, SameMachine
  <2>2. ASSUME NEW e \in Directories, Steady(e), Always(c, e), "virtual" \notin Has[e]
        PROVE  e \in DOMAIN found'
    <3>1. link[c] \in led[c] /\ c \in Names
      BY <1>3 DEF IInv, Types, TypeOK, Names
    <3>2. e = Target(c) /\ Reached(c)
      BY <2>2, <3>1 DEF Always, Steady, Reached, Target
    <3> QED
      BY <1>4, <2>2, <3>2 DEF Physical
  <2> QED
    BY <1>1, <1>2, <1>4, <2>1, <2>2 DEF IInv, Found
<1>6. new \in BOOLEAN /\ found' = IF new THEN Put(found, d, c) ELSE found
  BY <1>1 DEF Physical
<1>7. new => /\ d \in Directories /\ d \in LedBy(c)
             /\ "virtual" \notin Has[d] /\ Has[d] \cap {"modalias", "slot"} # {}
  <2> SUFFICES ASSUME new
               PROVE  /\ d \in Directories /\ d \in LedBy(c)
                      /\ "virtual" \notin Has[d] /\ Has[d] \cap {"modalias", "slot"} # {}
    OBVIOUS
  <2>1. Reached(c) /\ "virtual" \notin Has[d]
    BY DEF Physical
  <2>2. d = link[c] /\ c \in Names
    BY <1>3 DEF Target, Names
  <2>3. d \in Directories /\ d \in led[c] /\ d \in Devices[c] \cup {None}
    BY <2>1, <2>2 DEF Reached, IInv, Types, TypeOK
  <2> QED
    BY <2>1, <2>2, <2>3, AdaptersAssumption DEF LedBy
<1> HIDE DEF new, d
<1> QED
  BY <1>1, <1>2, <1>3, <1>5, <1>6, <1>7, FindStep

-------------------------------------------------------------------------------
LEMMA BegunWhen ==
  ASSUME UNCHANGED <<machine, phase>>, Right(reading')
  PROVE  Right(reading)'
<1>1. UNCHANGED <<present, moved, led, assigned, readdressed, phase>>
  BY DEF machine
<1>2. /\ Led(reading)' = Led(reading') /\ Over(reading)' = Over(reading')
      /\ Alone(reading)' <=> Alone(reading')
  BY <1>1 DEF Led, Over, Alone, LedBy, Steady
<1>3. /\ Own(reading, reading.vendor)' <=> Own(reading', reading'.vendor)
      /\ Own(reading, reading.model)' <=> Own(reading', reading'.model)
  BY <1>2 DEF Own
<1> QED
  BY <1>1, <1>2, <1>3 DEF Right

\* A step that reads something more of what is being visited.
LEMMA ReadingStep ==
  ASSUME IInv, reading # Idle,
         UNCHANGED <<machine, parser, phase, todo, found, adapters, gpus>>,
         reading' \in EntryType, reading'.of = reading.of, reading'.path = reading.path,
         phase = "gpus" => reading'.step \notin {"index", "address", "udev"},
         Right(reading')
  PROVE  IInv'
<1>1. reading' # Idle
  BY DEF EntryType, Steps, Idle
<1>2. Types'
  <2>1. lines' \in 0..Len(file) /\ todo' \subseteq Directories \cup Names /\ UNCHANGED <<file, vendor>>
    BY DEF IInv, Types, TypeOK, parser
  <2> QED
    BY <2>1, TypesKept DEF IInv
<1>3. Parsed' /\ AttributesOfOneDevice'
  BY ParsedKept, SaidKept DEF IInv
<1>4. Control'
  BY <1>1, SameMachine DEF IInv, Control
<1>5. AdaptersListed' /\ GpusListed' /\ Found'
  <2>1. /\ \A i : NetPending(i)' <=> NetPending(i)
        /\ \A d : GpuPending(d)' <=> GpuPending(d)
    BY <1>1 DEF NetPending, GpuPending
  <2> QED
    BY <2>1, ListsKept, FoundKept DEF IInv
<1>6. Begun'
  BY BegunWhen DEF Begun
<1> QED
  BY <1>2, <1>3, <1>4, <1>5, <1>6 DEF IInv

\* The next one of a loop; an interface that leads to no device, or to a virtual
\* one, is passed over.
LEMMA BeginStep ==
  ASSUME IInv, reading = Idle, NEW x \in todo, todo' = todo \ {x},
         UNCHANGED <<machine, parser, phase, found, adapters, gpus>>,
         \/ /\ phase = "net" /\ x \in Interfaces /\ Physical(x)
            /\ reading' = [Entry(x, x) EXCEPT !.step = "index"]
         \/ phase = "net" /\ x \in Interfaces /\ reading' = Idle /\ ~Physical(x)
         \/ phase = "gpus" /\ x \in DOMAIN found /\ reading' = Entry(x, found[x])
  PROVE  IInv'
<1>1. DOMAIN found \subseteq Directories /\ todo \subseteq Directories \cup Names
  BY DEF IInv, Types, TypeOK
<1>2. reading' # Idle =>
        /\ reading' \in EntryType /\ reading'.of = x
        /\ reading'.path = IF phase = "net" THEN x ELSE found[x]
        /\ reading'.at = None /\ reading'.udev = None /\ reading'.from = None
        /\ reading'.vendorAt = None /\ reading'.vendor = << >> /\ reading'.model = << >>
        /\ reading'.step = IF phase = "net" THEN "index" ELSE "properties"
  <2>1. phase = "net" => x \in Interfaces /\ x \in Paths
    BY DEF Paths, Names
  <2>2. phase = "gpus" => x \in Directories /\ found[x] \in Paths
    BY <1>1 DEF IInv, Types
  <2> QED
    BY <2>1, <2>2 DEF Entry, EntryType, Steps, Values
<1>3. phase = "gpus" => reading' # Idle
  BY DEF Entry, Idle
<1>4. Types'
  <2>1. lines' \in 0..Len(file) /\ todo' \subseteq Directories \cup Names /\ UNCHANGED <<file, vendor>>
    BY <1>1 DEF IInv, Types, TypeOK, parser
  <2> QED
    BY <1>2, <2>1, TypesKept DEF IInv
<1>5. Parsed' /\ AttributesOfOneDevice'
  BY ParsedKept, SaidKept DEF IInv
<1>6. phase = "net" /\ Physical(x) => \E d \in LedBy(x) \ {None} : "virtual" \notin Has[d]
  <2> SUFFICES ASSUME phase = "net", Physical(x)
               PROVE  \E d \in LedBy(x) \ {None} : "virtual" \notin Has[d]
    OBVIOUS
  <2>1. x \in Names /\ Target(x) \in present /\ "virtual" \notin Has[Target(x)]
    BY DEF Physical, Reached, Names
  <2>2. Target(x) \in LedBy(x) /\ Target(x) # None
    BY <2>1, AdaptersAssumption DEF Target, LedBy, IInv, Types, TypeOK
  <2> QED
    BY <2>1, <2>2
<1>7. Control'
  BY <1>1, <1>2, <1>3, <1>6, SameMachine DEF IInv, Control
<1>8. Begun'
  <2>1. reading' # Idle => Right(reading')
    BY <1>2 DEF Right, Own
  <2> QED
    BY <2>1, BegunWhen DEF Begun
<1>9. AdaptersListed' /\ GpusListed'
  <2>1. ASSUME NEW i \in Interfaces, NEW d \in Directories,
               Steady(d), Always(i, d), "virtual" \notin Has[d], ~NetPending(i)'
        PROVE  ~NetPending(i)
    <3>1. Physical(i)
      <4>1. link[i] \in led[i] /\ i \in Names
        BY DEF IInv, Types, TypeOK, Names
      <4> QED
        BY <2>1, <4>1 DEF Physical, Reached, Target, Always, Steady
    <3> QED
      BY <1>2, <2>1, <3>1 DEF NetPending, Idle, Entry
  <2>2. \A i : NetPending(i)' => NetPending(i)
    BY <1>2 DEF NetPending
  <2>3. \A e : GpuPending(e)' <=> GpuPending(e)
    BY <1>2, <1>3 DEF GpuPending
  <2> QED
    BY <2>1, <2>2, <2>3, ListsKept DEF IInv
<1>10. Found'
  BY SameMachine DEF IInv, Found
<1> QED
  BY <1>4, <1>5, <1>7, <1>8, <1>9, <1>10 DEF IInv

LEMMA BeginAdapterStep ==
  ASSUME IInv, BeginAdapter
  PROVE  IInv'
<1>1. PICK i \in todo :
        /\ todo' = todo \ {i}
        /\ reading' = IF Physical(i) THEN [Entry(i, i) EXCEPT !.step = "index"] ELSE Idle
  BY DEF BeginAdapter
<1>2. /\ phase = "net" /\ reading = Idle
      /\ UNCHANGED <<machine, parser, phase, found, adapters, gpus>>
  BY DEF BeginAdapter
<1>3. i \in Interfaces
  BY <1>2 DEF IInv, Control
<1> QED
  BY <1>1, <1>2, <1>3, BeginStep

LEMMA BeginGpuStep ==
  ASSUME IInv, BeginGpu
  PROVE  IInv'
<1>1. PICK d \in todo : todo' = todo \ {d} /\ reading' = Entry(d, found[d])
  BY DEF BeginGpu
<1>2. /\ phase = "gpus" /\ reading = Idle
      /\ UNCHANGED <<machine, parser, phase, found, adapters, gpus>>
  BY DEF BeginGpu
<1>3. d \in DOMAIN found
  BY <1>2 DEF IInv, Control
<1> QED
  BY <1>1, <1>2, <1>3, BeginStep

-------------------------------------------------------------------------------
\* What is known of the entry under way.
LEMMA ReadingFacts ==
  ASSUME IInv, reading # Idle
  PROVE  /\ reading \in EntryType /\ DOMAIN reading = DOMAIN Entry(None, None)
         /\ Right(reading) /\ phase \in {"net", "gpus"}
         /\ Led(reading) \subseteq Over(reading) /\ Over(reading) \subseteq Directories
         /\ Reached(reading.path) => Target(reading.path) \in Led(reading)
         /\ \A d \in Led(reading) : Has[d] \cap {"modalias", "slot"} # {}
<1>1. reading \in EntryType /\ Right(reading) /\ phase \in {"net", "gpus"}
  BY DEF IInv, Types, Control, Begun
<1>2. reading.path \in Paths /\ DOMAIN reading = DOMAIN Entry(None, None)
  BY <1>1 DEF EntryType, Entry
<1>3. reading.path \in Directories => \A d \in Led(reading) : Has[d] \cap {"modalias", "slot"} # {}
  <2> SUFFICES ASSUME reading.path \in Directories
               PROVE  \A d \in Led(reading) : Has[d] \cap {"modalias", "slot"} # {}
    OBVIOUS
  <2>1. reading.path \notin Names
    BY AdaptersAssumption
  <2>2. Led(reading) = {reading.path} \ {None}
    BY <2>1 DEF Led, LedBy
  <2>3. phase = "gpus" /\ reading.of \in DOMAIN found /\ reading.path = found[reading.of]
    BY <1>1, <2>1 DEF IInv, Control, Names
  <2>4. reading.of = reading.path
    BY <2>1, <2>3 DEF IInv, Types, TypeOK, LedBy
  <2> QED
    BY <2>2, <2>3, <2>4 DEF IInv, Control
<1> QED
  BY <1>1, <1>2, <1>3, Leads DEF IInv

\* What is right of an entry with the same path.
LEMMA RightOf ==
  ASSUME NEW r, r.path = reading.path
  PROVE  Right(r) <=>
           /\ r.step = "index" => r.at = None
           /\ r.at # None => r.at \in Over(reading)
           /\ r.at # None /\ r.step = "properties" /\ Alone(reading) => r.at \in Led(reading)
           /\ r.from \in Over(reading) \cup {None}
           /\ Alone(reading) /\ r.step \notin {"index", "properties"} => r.from \in Led(reading)
           /\ r.udev \in Over(reading) \cup {None}
           /\ (Alone(reading) \/ phase = "net") /\ r.udev # None => r.udev \in Led(reading)
           /\ r.vendorAt \in Led(reading) \cup {None}
           /\ Own(reading, r.vendor) /\ Own(reading, r.model)
           /\ r.step = "address" => \E d \in Led(reading) : d \notin assigned \/ d \in readdressed
<1>1. /\ Led(r) = Led(reading) /\ Over(r) = Over(reading) /\ (Alone(r) <=> Alone(reading))
      /\ \A value : Own(r, value) <=> Own(reading, value)
  BY SamePath
<1> QED
  BY <1>1 DEF Right

LEMMA ReadIndexStep ==
  ASSUME IInv, ReadIndex
  PROVE  IInv'
<1> DEFINE d == IF Reached(reading.path) THEN Target(reading.path) ELSE None
<1>1. /\ reading.step = "index"
      /\ reading' = [reading EXCEPT !.step = "properties", !.udev = d]
      /\ UNCHANGED <<machine, parser, phase, todo, found, adapters, gpus>>
  BY DEF ReadIndex
<1>2. reading # Idle
  BY <1>1 DEF Idle
<1>3. /\ reading \in EntryType /\ Right(reading)
      /\ Led(reading) \subseteq Over(reading) /\ Over(reading) \subseteq Directories
      /\ d \in Led(reading) \cup {None}
  BY <1>2, ReadingFacts
<1> HIDE DEF d
<1>4. /\ reading' \in EntryType
      /\ reading'.step = "properties" /\ reading'.udev = d
      /\ reading'.of = reading.of /\ reading'.path = reading.path
      /\ reading'.at = reading.at /\ reading'.from = reading.from
      /\ reading'.vendorAt = reading.vendorAt
      /\ reading'.vendor = reading.vendor /\ reading'.model = reading.model
  BY <1>1, <1>3 DEF EntryType, Steps
<1>5. Right(reading')
  BY <1>1, <1>3, <1>4, RightOf
<1> QED
  BY <1>1, <1>2, <1>4, <1>5, ReadingStep

LEMMA BeginSearchStep ==
  ASSUME IInv, BeginSearch
  PROVE  IInv'
<1> DEFINE d == Target(reading.path)
<1>1. /\ reading # Idle /\ reading.step \in Searches /\ reading.at = None
      /\ reading' = IF Needed /\ Reached(reading.path)
                    THEN [reading EXCEPT !.at = d]
                    ELSE [reading EXCEPT !.step = Following[@]]
      /\ UNCHANGED <<machine, parser, phase, todo, found, adapters, gpus>>
  BY DEF BeginSearch
<1>2. /\ reading \in EntryType /\ Right(reading)
      /\ Led(reading) \subseteq Over(reading) /\ Over(reading) \subseteq Directories
      /\ Reached(reading.path) => d \in Led(reading)
  BY <1>1, ReadingFacts
<1> HIDE DEF d
<1>3. reading.step \notin {"index", "address", "udev"}
  BY <1>1 DEF Searches
<1>4. CASE Needed /\ Reached(reading.path)
  <2>1. /\ reading' \in EntryType
        /\ reading'.at = d /\ reading'.step = reading.step
        /\ reading'.of = reading.of /\ reading'.path = reading.path
        /\ reading'.udev = reading.udev /\ reading'.from = reading.from
        /\ reading'.vendorAt = reading.vendorAt
        /\ reading'.vendor = reading.vendor /\ reading'.model = reading.model
    BY <1>1, <1>2, <1>4 DEF EntryType
  <2>2. Right(reading')
    BY <1>2, <1>3, <1>4, <2>1, RightOf
  <2> QED
    BY <1>1, <1>3, <2>1, <2>2, ReadingStep
<1>5. CASE ~(Needed /\ Reached(reading.path))
  <2>1. /\ reading' = [reading EXCEPT !.step = Following[reading.step]]
        /\ Following[reading.step] \in {"vendor", "product", "end"}
        /\ Following[reading.step] = "vendor" <=> reading.step = "properties"
    BY <1>1, <1>5 DEF Searches, Following
  \* A path that leads to one device that stays leads to it now.
  <2>2. reading.step = "properties" => ~Alone(reading)
    <3>1. reading.step = "properties" => ~Reached(reading.path)
      BY <1>5 DEF Needed
    <3>2. Alone(reading) => Reached(reading.path)
      <4>1. reading.path \in Paths /\ \A n \in Names : link[n] \in led[n]
        BY <1>2 DEF EntryType, IInv, Types, TypeOK
      <4> QED
        BY <4>1 DEF Alone, LedBy, Steady, Reached, Target
    <3> QED
      BY <3>1, <3>2
  <2> HIDE DEF Following
  <2>3. /\ reading' \in EntryType
        /\ reading'.at = reading.at /\ reading'.step = Following[reading.step]
        /\ reading'.of = reading.of /\ reading'.path = reading.path
        /\ reading'.udev = reading.udev /\ reading'.from = reading.from
        /\ reading'.vendorAt = reading.vendorAt
        /\ reading'.vendor = reading.vendor /\ reading'.model = reading.model
    BY <1>2, <2>1 DEF EntryType, Steps
  <2>4. Right(reading')
    BY <1>1, <1>2, <1>3, <2>1, <2>2, <2>3, RightOf
  <2> QED
    BY <1>1, <2>1, <2>3, <2>4, ReadingStep
<1> QED
  BY <1>4, <1>5

\* The search goes up from where the path leads, and of a device that stays the
\* first directory already has what identifies it.
LEMMA SearchStep ==
  ASSUME IInv, Search
  PROVE  IInv'
<1> DEFINE d == reading.at
           ended == [reading EXCEPT !.step = Following[@], !.at = None]
<1>1. /\ reading # Idle /\ reading.step \in Searches /\ d # None
      /\ UNCHANGED <<machine, parser, phase, todo, found, adapters, gpus>>
  BY DEF Search
<1>2. /\ reading \in EntryType /\ DOMAIN reading = DOMAIN Entry(None, None) /\ Right(reading)
      /\ Led(reading) \subseteq Over(reading) /\ Over(reading) \subseteq Directories
      /\ \A e \in Led(reading) : Has[e] \cap {"modalias", "slot"} # {}
  BY <1>1, ReadingFacts
<1>4. d \in Over(reading) /\ d \in Directories
  BY <1>1, <1>2 DEF Right
<1>5. /\ Following[reading.step] \in {"vendor", "product", "end"}
      /\ Following[reading.step] = "vendor" <=> reading.step = "properties"
  BY <1>1 DEF Searches, Following
<1>6. reading.step = "properties" /\ Alone(reading) => d \in Led(reading) /\ Sought(d)
  <2> SUFFICES ASSUME reading.step = "properties", Alone(reading)
               PROVE  d \in Led(reading) /\ Sought(d)
    OBVIOUS
  <2>1. d \in Led(reading)
    BY <1>1, <1>2 DEF Right
  <2>2. Steady(d)
    BY <2>1 DEF Alone, Led
  <2> QED
    BY <1>2, <2>1, <2>2 DEF Sought, Steady
<1>7. CASE ~Sought(d) /\ Parent[d] # None
  <2>1. reading' = [reading EXCEPT !.at = Parent[d]]
    BY <1>7 DEF Search
  <2>2. Parent[d] \in Over(reading)
    <3>1. PICK e \in Led(reading) : d \in Above[e]
      BY <1>4 DEF Over
    <3>2. e \in Directories
      BY <1>2
    <3>3. Parent[d] \in Above[e]
      BY <1>7, <3>1, <3>2, AboveFacts
    <3> QED
      BY <3>3 DEF Over
  <2>3. /\ reading' \in EntryType
        /\ reading'.at = Parent[d] /\ reading'.step = reading.step
        /\ reading'.of = reading.of /\ reading'.path = reading.path
        /\ reading'.udev = reading.udev /\ reading'.from = reading.from
        /\ reading'.vendorAt = reading.vendorAt
        /\ reading'.vendor = reading.vendor /\ reading'.model = reading.model
    BY <1>2, <2>1, <2>2 DEF EntryType
  <2>4. reading.step \notin {"index", "address", "udev"}
    BY <1>1 DEF Searches
  <2>5. Right(reading')
    BY <1>2, <1>6, <1>7, <2>2, <2>3, <2>4, RightOf
  <2> QED
    BY <1>1, <2>3, <2>4, <2>5, ReadingStep
<1>8. CASE ~(~Sought(d) /\ Parent[d] # None)
  <2> DEFINE here(step) == Sought(d) /\ reading.step = step
  <2>1. /\ DOMAIN reading' = DOMAIN reading
        /\ reading'.at = None /\ reading'.step = Following[reading.step]
        /\ reading'.of = reading.of /\ reading'.path = reading.path
        /\ reading'.vendorAt = reading.vendorAt
        /\ reading'.vendor = IF here("manufacturer") THEN <<"tree", {d}>> ELSE reading.vendor
        /\ reading'.model = IF here("product") THEN <<"tree", {d}>> ELSE reading.model
        /\ reading'.from = IF here("properties") THEN d ELSE reading.from
        /\ reading'.udev = IF here("properties") /\ phase = "gpus" /\ "slot" \in Has[d] THEN d
                           ELSE reading.udev
        /\ reading' \in [DOMAIN Entry(None, None) -> {reading'[f] : f \in DOMAIN reading}]
    <3>1. CASE ~Sought(d)
      <4>1. reading' = ended
        BY <1>8, <3>1 DEF Search
      <4> QED
        BY <1>2, <3>1, <4>1 DEF EntryType, Entry
    <3>2. CASE here("manufacturer")
      <4>1. reading' = [ended EXCEPT !.vendor = <<"tree", {d}>>]
        BY <3>2 DEF Search
      <4> QED
        BY <1>2, <3>2, <4>1 DEF EntryType, Entry
    <3>3. CASE here("product")
      <4>1. reading' = [ended EXCEPT !.model = <<"tree", {d}>>]
        BY <3>3 DEF Search
      <4> QED
        BY <1>2, <3>3, <4>1 DEF EntryType, Entry
    <3>4. CASE here("properties")
      <4>1. reading' = [ended EXCEPT !.from = d,
                                     !.udev = IF phase = "gpus" /\ "slot" \in Has[d] THEN d ELSE @]
        BY <3>4 DEF Search
      <4> QED
        BY <1>2, <3>4, <4>1 DEF EntryType, Entry
    <3> QED
      BY <1>1, <3>1, <3>2, <3>3, <3>4 DEF Searches
  <2>2. reading' \in EntryType
    <3>1. <<"tree", {d}>> \in Values
      BY <1>4 DEF Values
    <3>2. reading'.vendor \in Values /\ reading'.model \in Values
      BY <1>2, <2>1, <3>1 DEF EntryType
    <3> QED
      BY <1>2, <1>4, <1>5, <2>1, <3>2 DEF EntryType, Steps, Entry
  <2>3. Own(reading, reading'.vendor) /\ Own(reading, reading'.model)
    <3>1. Own(reading, <<"tree", {d}>>)
      BY <1>4 DEF Own
    <3> QED
      BY <1>2, <2>1, <3>1 DEF Right
  <2>4. Right(reading')
    <3>1. /\ reading.from \in Over(reading) \cup {None}
          /\ reading.udev \in Over(reading) \cup {None}
          /\ Alone(reading) /\ reading.step \notin {"index", "properties"} => reading.from \in Led(reading)
          /\ (Alone(reading) \/ phase = "net") /\ reading.udev # None => reading.udev \in Led(reading)
          /\ reading.vendorAt \in Led(reading) \cup {None}
      BY <1>2 DEF Right
    <3>2. reading'.from \in Over(reading) \cup {None} /\ reading'.udev \in Over(reading) \cup {None}
      BY <1>4, <2>1, <3>1
    <3>3. Alone(reading) => reading'.from \in Led(reading)
      BY <1>1, <1>6, <2>1, <3>1 DEF Searches
    <3>4. (Alone(reading) \/ phase = "net") /\ reading'.udev # None => reading'.udev \in Led(reading)
      BY <1>6, <2>1, <3>1
    <3> HIDE DEF here
    <3> QED
      BY <1>5, <2>1, <2>3, <3>1, <3>2, <3>3, <3>4, RightOf
  <2> QED
    BY <1>1, <1>5, <2>1, <2>2, <2>4, ReadingStep
<1> QED
  BY <1>7, <1>8

\* A name is looked up only by numbers read from where the path has led.
LEMMA ReadVendorStep ==
  ASSUME IInv, ReadVendor
  PROVE  IInv'
<1> DEFINE udev == /\ reading.udev # None /\ "udev" \in Has[reading.udev]
                   /\ phase = "gpus" => reading.udev \in present
           d == IF Numbered(reading.path) THEN Target(reading.path) ELSE None
           name == Lookup(database.vendors, Vendor(d))
           newVendor == IF udev THEN <<"udev", {reading.udev}>>
                        ELSE IF name # None THEN <<"ids", {d}>> ELSE << >>
           newModel == IF udev THEN <<"udev", {reading.udev}>> ELSE << >>
<1>1. /\ reading.step = "vendor"
      /\ reading' = [reading EXCEPT !.step = "device", !.vendorAt = d,
                                    !.vendor = newVendor, !.model = newModel]
      /\ UNCHANGED <<machine, parser, phase, todo, found, adapters, gpus>>
  BY DEF ReadVendor
<1>2. reading # Idle
  BY <1>1 DEF Idle
<1>3. /\ reading \in EntryType /\ Right(reading)
      /\ Led(reading) \subseteq Over(reading) /\ Over(reading) \subseteq Directories
      /\ d \in Led(reading) \cup {None}
  BY <1>2, ReadingFacts DEF Numbered
<1>4. name # None => d # None
  BY DEF Vendor, Lookup, IInv, Parsed
<1>5. udev => reading.udev \in Over(reading) /\ (Alone(reading) => reading.udev \in Led(reading))
  BY <1>3 DEF Right
<1> HIDE DEF udev, d, name
<1>6. newVendor \in Values /\ newModel \in Values
  BY <1>3, <1>4, <1>5 DEF Values
<1>7. Own(reading, newVendor) /\ Own(reading, newModel)
  BY <1>3, <1>4, <1>5 DEF Own
<1> HIDE DEF newVendor, newModel
<1>8. /\ reading' \in EntryType
      /\ reading'.step = "device" /\ reading'.vendorAt = d
      /\ reading'.vendor = newVendor /\ reading'.model = newModel
      /\ reading'.of = reading.of /\ reading'.path = reading.path
      /\ reading'.at = reading.at /\ reading'.udev = reading.udev
      /\ reading'.from = reading.from
  BY <1>1, <1>3, <1>6 DEF EntryType, Steps
<1>9. Right(reading')
  BY <1>1, <1>3, <1>7, <1>8, RightOf
<1> QED
  BY <1>1, <1>2, <1>8, <1>9, ReadingStep

LEMMA ReadDeviceStep ==
  ASSUME IInv, ReadDevice
  PROVE  IInv'
<1> DEFINE d == IF Numbered(reading.path) THEN Target(reading.path) ELSE None
           name == Lookup(database.devices, <<Vendor(reading.vendorAt), Device(d)>>)
           newModel == IF reading.model = << >> /\ name # None
                       THEN <<"ids", {reading.vendorAt, d}>> ELSE reading.model
<1>1. /\ reading.step = "device"
      /\ reading' = [reading EXCEPT !.step = "manufacturer", !.model = newModel]
      /\ UNCHANGED <<machine, parser, phase, todo, found, adapters, gpus>>
  BY DEF ReadDevice
<1>2. reading # Idle
  BY <1>1 DEF Idle
<1>3. /\ reading \in EntryType /\ Right(reading)
      /\ Led(reading) \subseteq Over(reading) /\ Over(reading) \subseteq Directories
      /\ d \in Led(reading) \cup {None}
  BY <1>2, ReadingFacts DEF Numbered
<1>4. name # None => reading.vendorAt # None /\ d # None
  <2>1. name # None => Vendor(reading.vendorAt) # None /\ Device(d) # None
    BY DEF Lookup, IInv, Parsed
  <2> QED
    BY <2>1 DEF Vendor, Device
<1> HIDE DEF d, name
<1>5. reading.vendorAt \in Led(reading) \cup {None}
  BY <1>3 DEF Right
<1>6. newModel \in Values
  BY <1>3, <1>4, <1>5 DEF Values, EntryType
<1>7. Own(reading, newModel)
  BY <1>3, <1>4, <1>5 DEF Own, Right
<1> HIDE DEF newModel
<1>8. /\ reading' \in EntryType
      /\ reading'.step = "manufacturer" /\ reading'.vendorAt = reading.vendorAt
      /\ reading'.vendor = reading.vendor /\ reading'.model = newModel
      /\ reading'.of = reading.of /\ reading'.path = reading.path
      /\ reading'.at = reading.at /\ reading'.udev = reading.udev
      /\ reading'.from = reading.from
  BY <1>1, <1>3, <1>6 DEF EntryType, Steps
<1>9. Own(reading, reading.vendor)
  BY <1>3 DEF Right
<1>10. Right(reading')
  BY <1>1, <1>3, <1>7, <1>8, <1>9, RightOf
<1> QED
  BY <1>1, <1>2, <1>8, <1>10, ReadingStep

LEMMA ReadAddressKindStep ==
  ASSUME IInv, ReadAddressKind
  PROVE  IInv'
<1>1. /\ phase = "net" /\ reading # Idle /\ reading.step = "end"
      /\ reading' = [reading EXCEPT !.step = AddressKind]
      /\ UNCHANGED <<machine, parser, phase, todo, found, adapters, gpus>>
  BY DEF ReadAddressKind
<1>2. /\ reading \in EntryType /\ Right(reading)
      /\ Reached(reading.path) => Target(reading.path) \in Led(reading)
  BY <1>1, ReadingFacts
<1>3. /\ AddressKind \in {"address", "udev"}
      /\ AddressKind = "address" => \E d \in Led(reading) : d \notin assigned
  BY <1>2 DEF AddressKind
<1>4. /\ reading' \in EntryType
      /\ reading'.step = AddressKind
      /\ reading'.vendor = reading.vendor /\ reading'.model = reading.model
      /\ reading'.of = reading.of /\ reading'.path = reading.path
      /\ reading'.at = reading.at /\ reading'.udev = reading.udev
      /\ reading'.from = reading.from /\ reading'.vendorAt = reading.vendorAt
  BY <1>1, <1>2, <1>3 DEF EntryType, Steps
<1>5. Right(reading')
  BY <1>1, <1>2, <1>3, <1>4, RightOf
<1> QED
  BY <1>1, <1>4, <1>5, ReadingStep

-------------------------------------------------------------------------------
\* The entry is added to the report.
LEMMA SaidOf ==
  ASSUME AttributesOfOneDevice, UNCHANGED machine,
         NEW e, \/ adapters' = adapters \cup {e} /\ UNCHANGED gpus
                \/ gpus' = gpus \cup {e} /\ UNCHANGED adapters /\ e.of \in Led(e),
         Own(e, e.vendor), Own(e, e.model),
         IF Alone(e) THEN e.pnp \in Led(e) ELSE e.pnp \in Over(e) \cup {None},
         e \in adapters' /\ e.mac # << >> =>
           /\ e.mac[2] \subseteq Led(e)
           /\ e.mac[1] = "assigned" => e.mac[2] \subseteq readdressed \/ e.mac[2] # Led(e)
  PROVE  AttributesOfOneDevice'
<1>1. /\ \A f : Led(f)' = Led(f) /\ Over(f)' = Over(f) /\ (Alone(f)' <=> Alone(f))
      /\ \A f, value : Own(f, value)' <=> Own(f, value)
      /\ UNCHANGED readdressed
  BY SameMachine
<1>2. \A f \in adapters' \cup gpus' :
         /\ Own(f, f.vendor) /\ Own(f, f.model)
         /\ IF Alone(f) THEN f.pnp \in Led(f) ELSE f.pnp \in Over(f) \cup {None}
  BY DEF AttributesOfOneDevice
<1>3. \A g \in gpus' : g.of \in Led(g)
  BY DEF AttributesOfOneDevice
<1>4. \A a \in adapters' : a.mac # << >> =>
         /\ a.mac[2] \subseteq Led(a)
         /\ a.mac[1] = "assigned" => a.mac[2] \subseteq readdressed \/ a.mac[2] # Led(a)
  BY DEF AttributesOfOneDevice
<1> QED
  BY <1>1, <1>2, <1>3, <1>4 DEF AttributesOfOneDevice

\* An address that was assigned is read only of an interface that was given it
\* since the question how it was assigned, or if the name has passed.
LEMMA EndAdapterStep ==
  ASSUME IInv, EndAdapter
  PROVE  IInv'
<1> DEFINE i == reading.of
           mac == Address
           new == [id |-> i, path |-> reading.path, pnp |-> reading.from, mac |-> mac,
                   vendor |-> reading.vendor, model |-> reading.model]
<1>1. /\ reading.step \in {"address", "udev"}
      /\ adapters' = adapters \cup {new} /\ reading' = Idle
      /\ UNCHANGED <<machine, parser, phase, todo, found, gpus>>
  BY DEF EndAdapter
<1>2. reading # Idle
  <2>1. Idle.step = "idle"
    BY DEF Idle
  <2>2. reading.step # "idle"
    BY <1>1
  <2> QED
    BY <2>1, <2>2
<1>3. phase = "net"
  BY <1>1, <1>2 DEF IInv, Control
<1>4. /\ i \in Interfaces /\ reading.path = i /\ i \notin todo
      /\ \E d \in LedBy(i) \ {None} : "virtual" \notin Has[d]
  BY <1>2, <1>3 DEF IInv, Control
<1>5. /\ Right(reading) /\ Led(reading) \subseteq Directories
      /\ Reached(reading.path) => Target(reading.path) \in Led(reading)
  BY <1>2, ReadingFacts
<1>6. mac # << >> =>
        /\ mac[2] \subseteq Led(reading)
        /\ mac[1] = "assigned" => mac[2] \subseteq readdressed \/ mac[2] # Led(reading)
  <2> DEFINE d == Target(reading.path)
  <2>1. CASE reading.step = "udev"
    <3>1. mac = IF reading.udev # None /\ "udev" \in Has[reading.udev]
                THEN <<"permanent", {reading.udev}>> ELSE << >>
      BY <2>1 DEF Address
    <3>2. reading.udev # None => reading.udev \in Led(reading)
      BY <1>3, <1>5 DEF Right
    <3> QED
      BY <3>1, <3>2
  <2>2. CASE reading.step = "address"
    <3>1. mac = IF d \notin present THEN << >>
                ELSE <<IF d \in assigned THEN "assigned" ELSE "permanent", {d}>>
      BY <2>2 DEF Address
    <3>2. d \in present => d \in Led(reading)
      BY <1>5 DEF Reached
    <3>3. PICK e \in Led(reading) : e \notin assigned \/ e \in readdressed
      BY <1>5, <2>2 DEF Right
    <3> HIDE DEF d, mac
    <3>4. mac # << >> /\ mac[1] = "assigned" => d \in assigned /\ mac[2] = {d}
      BY <3>1
    <3> QED
      BY <3>1, <3>2, <3>3, <3>4
  <2> QED
    BY <1>1, <2>1, <2>2
<1> HIDE DEF mac
<1>7. /\ new.id = i /\ new.path = i /\ new.pnp = reading.from /\ new.mac = mac
      /\ new.vendor = reading.vendor /\ new.model = reading.model
  BY <1>4
<1> HIDE DEF new
<1>8. Types'
  <2>1. UNCHANGED <<present, link, assigned, moved, led, readdressed, events>>
    BY <1>1 DEF machine
  <2>2. TypeOK'
    BY <1>1, <1>4, <1>7, <2>1 DEF IInv, Types, TypeOK, parser, Coherent, LedBy
  <2> QED
    BY <1>1, <2>1, <2>2 DEF IInv, Types, parser
<1>9. Parsed'
  BY <1>1, ParsedKept DEF IInv
<1>10. Control' /\ Begun'
  BY <1>1 DEF IInv, Control, Begun
<1>11. AttributesOfOneDevice'
  <2>1. /\ Led(new) = Led(reading) /\ Over(new) = Over(reading)
        /\ Alone(new) <=> Alone(reading)
        /\ \A value : Own(new, value) <=> Own(reading, value)
    BY <1>4, <1>7, SamePath
  <2>2. Own(new, new.vendor) /\ Own(new, new.model)
    BY <1>5, <1>7, <2>1 DEF Right
  <2>3. IF Alone(new) THEN new.pnp \in Led(new) ELSE new.pnp \in Over(new) \cup {None}
    BY <1>1, <1>5, <1>7, <2>1 DEF Right
  <2>4. new.mac # << >> =>
           /\ new.mac[2] \subseteq Led(new)
           /\ new.mac[1] = "assigned" => new.mac[2] \subseteq readdressed \/ new.mac[2] # Led(new)
    BY <1>6, <1>7, <2>1
  <2> QED
    BY <1>1, <2>2, <2>3, <2>4, SaidOf DEF IInv
<1>12. /\ \A a \in adapters : a.id # i
       /\ \A j : NetPending(j)' <=> NetPending(j) /\ j # i
  BY <1>1, <1>2, <1>3, <1>4 DEF IInv, AdaptersListed, NetPending
<1>13. AdaptersListed'
  <2>1. /\ \A d : Steady(d)' <=> Steady(d)
        /\ \A n, d : Always(n, d)' <=> Always(n, d)
        /\ UNCHANGED led
    BY <1>1, SameMachine
  <2>2. \E d \in led[i] \ {None} : "virtual" \notin Has[d]
    BY <1>4 DEF LedBy, Names
  <2> QED
    BY <1>1, <1>7, <1>12, <2>1, <2>2 DEF IInv, AdaptersListed
<1>14. GpusListed' /\ Found'
  <2>1. \A e : GpuPending(e)' <=> GpuPending(e)
    BY <1>1, <1>3 DEF GpuPending
  <2>2. \A g : Stays(g)' <=> Stays(g)
    BY <1>1, SameMachine DEF Stays
  <2> QED
    BY <1>1, <2>1, <2>2, FoundKept DEF IInv, GpusListed
<1> QED
  BY <1>8, <1>9, <1>10, <1>11, <1>13, <1>14 DEF IInv

LEMMA EndGpuStep ==
  ASSUME IInv, EndGpu
  PROVE  IInv'
<1> DEFINE d == Target(reading.path)
           slot == reading.from # None /\ "slot" \in Has[reading.from]
           id == IF slot THEN <<"slot", reading.from>> ELSE <<"path", reading.of>>
           model == IF reading.model = << >> /\ d \in present /\ "compatible" \in Has[d]
                    THEN <<"compatible", {d}>> ELSE reading.model
           new == [id |-> id, of |-> reading.of, path |-> reading.path, pnp |-> reading.from,
                   vendor |-> reading.vendor, model |-> model]
<1>1. /\ phase = "gpus" /\ reading # Idle /\ reading.step = "end"
      /\ gpus' = gpus \cup {new} /\ reading' = Idle
      /\ UNCHANGED <<machine, parser, phase, todo, found, adapters>>
  BY DEF EndGpu
<1>2. /\ reading.of \in DOMAIN found /\ reading.path = found[reading.of] /\ reading.of \notin todo
      /\ reading.of \in Directories /\ reading.of \in LedBy(reading.path)
  BY <1>1 DEF IInv, Control, Types, TypeOK
<1>3. Right(reading) /\ (Reached(reading.path) => d \in Led(reading))
  BY <1>1, ReadingFacts
<1>4. reading.of \in Led(reading)
  BY <1>2, AdaptersAssumption DEF Led
<1>5. Stays(reading) => id \in {<<"slot", reading.of>>, <<"path", reading.of>>}
  <2>1. Stays(reading) => Alone(reading) /\ Led(reading) = {reading.of}
    BY <1>4 DEF Stays, Alone, Led
  <2>2. Alone(reading) => reading.from \in Led(reading)
    BY <1>1, <1>3 DEF Right
  <2> QED
    BY <2>1, <2>2
<1>6. Own(reading, reading.vendor) /\ Own(reading, model)
  <2>1. Own(reading, reading.vendor) /\ Own(reading, reading.model)
    BY <1>3 DEF Right
  <2>2. d \in present => Own(reading, <<"compatible", {d}>>)
    BY <1>3 DEF Own, Reached
  <2> QED
    BY <2>1, <2>2
<1> HIDE DEF id, model
<1>7. /\ new.id = id /\ new.of = reading.of /\ new.path = reading.path
      /\ new.pnp = reading.from /\ new.vendor = reading.vendor /\ new.model = model
  OBVIOUS
<1> HIDE DEF new, d
<1>8. Types' /\ Parsed'
  <2>1. UNCHANGED <<file, vendor, lines, adapters>> /\ reading' = Idle
    BY <1>1 DEF parser
  <2>2. lines' \in 0..Len(file) /\ todo' \subseteq Directories \cup Names
    BY <1>1, <2>1 DEF IInv, Types, TypeOK
  <2> QED
    BY <1>1, <2>1, <2>2, TypesKept, ParsedKept DEF IInv
<1>9. Control' /\ Begun'
  BY <1>1 DEF IInv, Control, Begun
<1>10. AttributesOfOneDevice'
  <2>1. /\ Led(new) = Led(reading) /\ Over(new) = Over(reading)
        /\ Alone(new) <=> Alone(reading)
        /\ \A value : Own(new, value) <=> Own(reading, value)
    BY <1>7, SamePath
  <2>2. Own(new, new.vendor) /\ Own(new, new.model) /\ new.of \in Led(new)
    BY <1>4, <1>6, <1>7, <2>1
  <2>3. IF Alone(new) THEN new.pnp \in Led(new) ELSE new.pnp \in Over(new) \cup {None}
    BY <1>1, <1>3, <1>7, <2>1 DEF Right
  <2>4. new \in adapters' /\ new.mac # << >> =>
           /\ new.mac[2] \subseteq Led(new)
           /\ new.mac[1] = "assigned" => new.mac[2] \subseteq readdressed \/ new.mac[2] # Led(new)
    BY <1>1 DEF IInv, AttributesOfOneDevice
  <2> QED
    BY <1>1, <2>2, <2>3, <2>4, SaidOf DEF IInv
<1>11. /\ \A g \in gpus : g.of # reading.of
       /\ \A e : GpuPending(e)' <=> GpuPending(e) /\ e # reading.of
  BY <1>1, <1>2 DEF IInv, GpusListed, GpuPending
<1>12. GpusListed'
  <2>1. \A g : Stays(g)' <=> Stays(g)
    BY <1>1, SameMachine DEF Stays
  <2>2. Stays(new) => new.id \in {<<"slot", new.of>>, <<"path", new.of>>}
    BY <1>5, <1>7 DEF Stays
  <2>3. /\ \A g \in gpus' : g.of \in DOMAIN found' /\ g.path = found'[g.of] /\ ~GpuPending(g.of)'
        /\ \A g \in gpus' : Stays(g) => g.id \in {<<"slot", g.of>>, <<"path", g.of>>}
        /\ \A g, h \in gpus' : g.of = h.of => g = h
    BY <1>1, <1>2, <1>7, <1>11, <2>2 DEF IInv, GpusListed
  <2>4. \A e \in DOMAIN found' : ~GpuPending(e)' => \E g \in gpus' : g.of = e
    BY <1>1, <1>7, <1>11 DEF IInv, GpusListed
  <2> QED
    BY <2>1, <2>3, <2>4 DEF GpusListed
<1>13. AdaptersListed' /\ Found'
  <2>1. \A j : NetPending(j)' <=> NetPending(j)
    BY <1>1 DEF NetPending
  <2>2. AdaptersListed'
    BY <1>1, <2>1, SameMachine DEF IInv, AdaptersListed
  <2> QED
    BY <1>1, <2>2, FoundKept DEF IInv
<1> QED
  BY <1>8, <1>9, <1>10, <1>12, <1>13 DEF IInv

-------------------------------------------------------------------------------
LEMMA Step == IInv /\ [Next]_vars => IInv'
<1> SUFFICES ASSUME IInv, [Next]_vars
             PROVE  IInv'
  OBVIOUS
<1>1. CASE Event
  BY <1>1, EventStep
<1>2. CASE ReadLine
  BY <1>2, ReadLineStep
<1>3. CASE NextLoop
  BY <1>3, NextLoopStep
<1>4. CASE BeginAdapter
  BY <1>4, BeginAdapterStep
<1>5. CASE ReadIndex
  BY <1>5, ReadIndexStep
<1>6. CASE ReadPci
  BY <1>6, ReadPciStep
<1>7. CASE ReadCard
  BY <1>7, ReadCardStep
<1>8. CASE BeginGpu
  BY <1>8, BeginGpuStep
<1>9. CASE BeginSearch
  BY <1>9, BeginSearchStep
<1>10. CASE Search
  BY <1>10, SearchStep
<1>11. CASE ReadVendor
  BY <1>11, ReadVendorStep
<1>12. CASE ReadDevice
  BY <1>12, ReadDeviceStep
<1>13. CASE ReadAddressKind
  BY <1>13, ReadAddressKindStep
<1>14. CASE EndAdapter
  BY <1>14, EndAdapterStep
<1>15. CASE EndGpu
  BY <1>15, EndGpuStep
<1>16. CASE UNCHANGED vars
  <2>1. UNCHANGED <<machine, parser, phase, todo, found, reading, adapters, gpus>>
    BY <1>16 DEF vars
  <2>2. Types'
    <3>1. lines' \in 0..Len(file) /\ todo' \subseteq Directories \cup Names /\ UNCHANGED <<file, vendor>>
      BY <2>1 DEF IInv, Types, TypeOK, parser
    <3> QED
      BY <2>1, <3>1, TypesKept DEF IInv, Types
  <2>3. Parsed' /\ AttributesOfOneDevice'
    BY <2>1, ParsedKept, SaidKept DEF IInv
  <2>4. /\ \A i : NetPending(i)' <=> NetPending(i)
        /\ \A d : GpuPending(d)' <=> GpuPending(d)
    BY <2>1 DEF NetPending, GpuPending
  <2>5. AdaptersListed' /\ GpusListed' /\ Found'
    BY <2>1, <2>4, ListsKept, FoundKept DEF IInv
  <2>6. Control'
    BY <2>1, SameMachine DEF IInv, Control
  <2>7. Begun'
    BY <2>1, BegunWhen DEF IInv, Begun
  <2> QED
    BY <2>2, <2>3, <2>5, <2>6, <2>7 DEF IInv
<1> QED
  BY <1>1, <1>2, <1>3, <1>4, <1>5, <1>6, <1>7, <1>8, <1>9, <1>10, <1>11, <1>12, <1>13,
     <1>14, <1>15, <1>16 DEF Next, Collect

\* What holds throughout the collection, whatever comes and goes meanwhile.
THEOREM Invariance == Spec => []IInv
<1> QED
  BY InitInv, Step, PTL DEF Spec

\* The variables keep their types: the loops visit directories and links there are.
THEOREM TypeCorrect == Spec => []TypeOK
<1>1. IInv => TypeOK
  BY DEF IInv, Types
<1> QED
  BY <1>1, Invariance, PTL

\* Whatever is in pci.ids (src/linux_source.go), and however far it has been
\* read: the name of a device is the one in the section of its vendor.
THEOREM NamesFromSections == Spec => []NamesFromOwnSection
<1>1. IInv => NamesFromOwnSection
  BY DEF IInv, Parsed
<1> QED
  BY <1>1, Invariance, PTL

\* A set of entries in which there is one, or none, has that many members.
LEMMA OneOrNone ==
  ASSUME NEW S, \A a, b \in S : a = b
  PROVE  Cardinality(S) = IF S = {} THEN 0 ELSE 1
<1>1. CASE S = {}
  BY <1>1, FS_EmptySet
<1>2. CASE S # {}
  <2>1. PICK a \in S : S = {a}
    BY <1>2
  <2> QED
    BY <1>2, <2>1, FS_Singleton
<1> QED
  BY <1>1, <1>2

LEMMA ListedOnce ==
  ASSUME IInv, phase = "done"
  PROVE  SteadyDevicesListedOnce
<1>1. /\ \A i : ~NetPending(i)
      /\ \A d : ~GpuPending(d)
  BY DEF NetPending, GpuPending
<1>2. ASSUME NEW i \in Interfaces, NEW d \in Directories, Steady(d), Always(i, d)
      PROVE  Cardinality({a \in adapters : a.id = i}) = IF "virtual" \in Has[d] THEN 0 ELSE 1
  <2> DEFINE S == {a \in adapters : a.id = i}
  <2>1. \A a, b \in S : a = b
    BY DEF IInv, AdaptersListed
  <2>2. S = {} <=> "virtual" \in Has[d]
    BY <1>1, <1>2 DEF IInv, AdaptersListed, Always
  <2> QED
    BY <2>1, <2>2, OneOrNone
<1>3. ASSUME NEW d \in Directories, Steady(d)
      PROVE  LET S == {g \in gpus : g.of = d}
             IN  /\ Cardinality(S) <= IF "virtual" \in Has[d] THEN 0 ELSE 1
                 /\ /\ {"slot", "display"} \subseteq Has[d] \/ \E c \in Cards : Always(c, d)
                    /\ "virtual" \notin Has[d]
                    => S # {}
  <2> DEFINE S == {g \in gpus : g.of = d}
  <2>1. Cardinality(S) = IF S = {} THEN 0 ELSE 1
    <3>1. \A g, h \in S : g = h
      BY DEF IInv, GpusListed
    <3> QED
      BY <3>1, OneOrNone
  <2>2. "virtual" \in Has[d] => S = {}
    BY DEF IInv, GpusListed, Control
  <2>3. ({"slot", "display"} \subseteq Has[d] \/ \E c \in Cards : Always(c, d)) /\ "virtual" \notin Has[d]
          => d \in DOMAIN found
    BY <1>3 DEF IInv, Found
  <2>4. d \in DOMAIN found => S # {}
    BY <1>1 DEF IInv, GpusListed
  <2> HIDE DEF S
  <2>5. Cardinality(S) <= IF "virtual" \in Has[d] THEN 0 ELSE 1
    BY <2>1, <2>2
  <2> QED
    BY <2>3, <2>4, <2>5 DEF S
<1>4. ASSUME NEW g \in gpus, NEW h \in gpus, Stays(g), Stays(h), g # h
      PROVE  g.id # h.id
  <2>1. g.of # h.of
    BY <1>4 DEF IInv, GpusListed
  <2>2. g.id \in {<<"slot", g.of>>, <<"path", g.of>>} /\ h.id \in {<<"slot", h.of>>, <<"path", h.of>>}
    BY <1>4 DEF IInv, GpusListed
  <2> QED
    BY <2>1, <2>2
<1> QED
  BY <1>2, <1>3, <1>4 DEF SteadyDevicesListedOnce, Stays

\* A device that stays is listed once, whatever others do, in however many ways
\* it is found (src/collect_network_gpu_linux.go).
THEOREM SteadyOnce == Spec => []SteadyDevicesListedOnce
<1>1. IInv => SteadyDevicesListedOnce
  <2>1. CASE phase # "done"
    BY <2>1 DEF SteadyDevicesListedOnce
  <2> QED
    BY <2>1, ListedOnce
<1> QED
  BY <1>1, Invariance, PTL

\* Whatever comes and goes, and wherever the names pass meanwhile: what is said in
\* an entry is of the devices its path has led to and those they are parts of, so
\* that what is said of a device that stays with its path is its own.
THEOREM OwnAttributes == Spec => []AttributesOfOneDevice
<1>1. IInv => AttributesOfOneDevice
  BY DEF IInv
<1> QED
  BY <1>1, Invariance, PTL
===============================================================================
