--------------------------------- MODULE Smbios ---------------------------------
(****************************************************************************)
(* SMBIOS structures.  Linux (src/dmi_linux.go) has one file per structure:   *)
(* readDMIRecords goes through the directory, parseDMIRecord takes the bytes   *)
(* of one apart.  macOS (src/smbios_darwin.go) has one blob with all of them,  *)
(* begun somewhere: parseDarwinSMBIOS tries each plausible start and keeps the *)
(* longest table.  Both make memory modules of the records of one type; what   *)
(* the memory section makes of them is in SystemMemory.                       *)
(*                                                                          *)
(* A structure is a formatted part, whose first bytes are its type and        *)
(* length, and strings that end in a zero each.  Offsets count from zero; the  *)
(* bytes of strings are printable, the cleaning of others is left out.        *)
(****************************************************************************)
EXTENDS Integers, FiniteSets, Sequences, SequencesExt

CONSTANTS
    Header,         \* the bytes every structure has, 4
    Wanted, End,    \* the types of a memory device and of the last structure, 17 and 127
    SizeAt, LocationAt, ExtendedAt, \* offsets of attributes, 12, 16 and 28
    MinModule,      \* the formatted bytes that macOS requires of a module, 19
    Base,           \* 256: a number has its bytes as digits
    Kilo, MaxInt,   \* 1024 and MaxUint64
    MinBlob, Least, \* macOS: the shortest blob, 6, and first structure, 0x12
    ScanLimit, MaxCandidates        \* macOS: 64 KiB and 64

ASSUME SmbiosAssumption ==
    /\ Header \in Nat \ {0, 1} /\ Wanted # End /\ {Wanted, End} \subseteq 1..Base - 1
    /\ {SizeAt, LocationAt, ExtendedAt} \subseteq Nat /\ MinModule \in Nat
    /\ Base % 2 = 0 /\ Base > 2 /\ Kilo \in Nat \ {0} /\ MaxInt \in Nat
    /\ MinBlob >= Header /\ Least >= Header /\ ScanLimit \in Nat /\ MaxCandidates > 0

Unreadable == <<Base>>   \* no byte: the entry cannot be read
None == -1               \* no capacity

VARIABLES
    system,
    input,      \* the entries in the order of their names, or the blob alone
    next,       \* entries read, or starts tried
    records,    \* `records`, or `best`; each with its entry or offset in the blob
    modules,    \* the memory modules, each with the place of its record
    phase

smbios == <<system, input, next, records, modules, phase>>

\* The part of a sequence from an offset on.
From(s, offset) == SubSeq(s, offset + 1, Len(s))

-------------------------------------------------------------------------------
\* Linux.  The loop over the strings: those before the first empty one, and what
\* is left of the bytes; the last one must end in a zero.
Strings(bytes) ==
    LET Step(state, b) ==
          IF state.ended THEN state
          ELSE IF b # 0 THEN [state EXCEPT !.open = Append(@, b)]
          ELSE IF state.open = << >> THEN [state EXCEPT !.ended = TRUE]
          ELSE [state EXCEPT !.open = << >>, !.strings = Append(@, state.open)]
    IN  FoldLeft(Step, [strings |-> << >>, open |-> << >>, ended |-> FALSE], bytes)

\* The conditions of parseDMIRecord.
Accepts(raw) ==
    /\ Len(raw) >= Header /\ raw[1] = Wanted
    /\ Header <= raw[2] /\ raw[2] <= Len(raw)
    /\ Strings(From(raw, raw[2])).open = << >>

\* One turn of the loop of readDMIRecords.
ReadEntry ==
    /\ system = "linux" /\ phase = "modules" /\ next < Len(input)
    /\ next' = next + 1
    /\ LET raw == input[next + 1]
       IN  records' =
             IF raw = Unreadable \/ ~Accepts(raw) THEN records
             ELSE Append(records, [at |-> next + 1, formatted |-> SubSeq(raw, 1, raw[2]),
                                   strings |-> Strings(From(raw, raw[2])).strings])
    /\ UNCHANGED <<system, input, modules, phase>>

-------------------------------------------------------------------------------
\* macOS.  The first two zeros from an offset on; the length of the data if none.
DoubleZero(data, from) ==
    LET at == {e \in from..Len(data) - 2 : data[e + 1] = 0 /\ data[e + 2] = 0}
    IN  IF at = {} THEN Len(data) ELSE CHOOSE e \in at : \A f \in at : e <= f

\* The strings between two offsets; an empty one is kept.
SplitAtZeros(bytes) ==
    IF bytes = << >> THEN << >>
    ELSE FoldLeft(LAMBDA parts, b : IF b = 0 THEN Append(parts, << >>)
                                    ELSE [parts EXCEPT ![Len(parts)] = Append(@, b)],
                  <<<< >>>>, bytes)

\* Slip: the next structure is looked for behind the first of the two zeros.
AfterSlip(stringsEnd) == stringsEnd + 1

After(stringsEnd) == stringsEnd + 2

\* parseDarwinSMBIOSTable from an offset; a table that is not whole has no records.
Table(data, start) ==
    LET rest[offset \in start..Len(data) + 2] ==
          IF offset + Header > Len(data) THEN [whole |-> TRUE, records |-> << >>]
          ELSE LET length     == data[offset + 2]
                   stringsEnd == DoubleZero(data, offset + length)
                   record     == [at        |-> offset,
                                  formatted |-> SubSeq(data, offset + 1, offset + length),
                                  strings   |-> SplitAtZeros(
                                      SubSeq(data, offset + length + 1, stringsEnd))]
               IN  IF \/ length < Header \/ offset + length > Len(data)
                      \/ stringsEnd = Len(data)
                   THEN [whole |-> FALSE, records |-> << >>]
                   ELSE IF data[offset + 1] = End
                   THEN [whole |-> TRUE, records |-> <<record>>]
                   ELSE LET more == rest[After(stringsEnd)]
                        IN  [more EXCEPT !.records = <<record>> \o @]
        table == rest[start]
    IN  IF table.whole THEN table.records ELSE << >>

\* Where a table may begin: at the first byte or at a BIOS structure, type 0.
Candidates(data) ==
    LET plausible == {o \in 1..Len(data) - 1 :
                        /\ o + Header <= Len(data) /\ o + Header <= ScanLimit
                        /\ data[o + 1] = 0 /\ data[o + 2] \in Least..Len(data) - o}
        first     == {o \in plausible : Cardinality({p \in plausible : p < o}) < MaxCandidates - 1}
    IN  IF Len(data) < MinBlob THEN << >> ELSE <<0>> \o SetToSortSeq(first, <)

\* Slip: the first start with a table is kept.
TryCandidateSlipFirst ==
    /\ system = "darwin" /\ phase = "modules" /\ next < Len(Candidates(input[1]))
    /\ next' = next + 1
    /\ LET table == Table(input[1], Candidates(input[1])[next + 1])
       IN  records' = IF records = << >> THEN table ELSE records
    /\ UNCHANGED <<system, input, modules, phase>>

TryCandidate ==
    /\ system = "darwin" /\ phase = "modules" /\ next < Len(Candidates(input[1]))
    /\ next' = next + 1
    /\ LET table == Table(input[1], Candidates(input[1])[next + 1])
       IN  records' = IF Len(table) > Len(records) THEN table ELSE records
    /\ UNCHANGED <<system, input, modules, phase>>

-------------------------------------------------------------------------------
\* stringAt: the offset is that of the number of a string; << >> if there is none.
StringAt(r, offset) ==
    IF offset >= Len(r.formatted) THEN << >>
    ELSE LET index == r.formatted[offset + 1]
         IN  IF index = 0 \/ index > Len(r.strings) THEN << >> ELSE r.strings[index]

\* Slip: a number of which the formatted part holds only some bytes is read.
NumberAtSlipHalf(r, offset, n) ==
    FoldRight(LAMBDA b, higher : b + Base * higher,
              SubSeq(r.formatted, offset + 1, IF offset + n > Len(r.formatted)
                                              THEN Len(r.formatted) ELSE offset + n), 0)

\* uint16At and uint32At, little endian, for n of two and four bytes.
NumberAt(r, offset, n) ==
    IF offset + n > Len(r.formatted) THEN 0
    ELSE FoldRight(LAMBDA b, higher : b + Base * higher,
                   SubSeq(r.formatted, offset + 1, offset + n), 0)

Word == Base * Base
HalfWord == Word \div 2

\* Slip: an extended size that does not fit is multiplied all the same.
CapacitySlipLimit(r) ==
    LET size     == NumberAt(r, SizeAt, 2)
        extended == NumberAt(r, ExtendedAt, 4) % (Word * HalfWord)
    IN  IF size \in {0, Word - 1, HalfWord} THEN None
        ELSE IF size = HalfWord - 1
        THEN IF extended = 0 THEN None ELSE extended * Kilo * Kilo
        ELSE IF size >= HalfWord THEN (size % HalfWord) * Kilo ELSE size * Kilo * Kilo

\* dmiMemoryCapacity and darwinSMBIOSMemoryCapacity; None if nothing is installed.
Capacity(r) ==
    LET size     == NumberAt(r, SizeAt, 2)
        extended == NumberAt(r, ExtendedAt, 4) % (Word * HalfWord)
    IN  IF size \in {0, Word - 1, HalfWord} THEN None
        ELSE IF size = HalfWord - 1
        THEN IF extended = 0 \/ extended > MaxInt \div (Kilo * Kilo) THEN None
             ELSE extended * Kilo * Kilo
        ELSE IF size >= HalfWord THEN (size % HalfWord) * Kilo ELSE size * Kilo * Kilo

\* The order of texts.
Before(s, t) ==
    \/ Len(s) < Len(t) /\ IsPrefix(s, t)
    \/ \E i \in DOMAIN s \cap DOMAIN t :
         s[i] < t[i] /\ SubSeq(s, 1, i - 1) = SubSeq(t, 1, i - 1)

IsModule(r) ==
    /\ system = "darwin" => Len(r.formatted) >= MinModule /\ r.formatted[1] = Wanted
    /\ Capacity(r) # None

\* The order of the modules in the report.
InOrder(found) == SortSeq(found, LAMBDA a, b : Before(a.location, b.location))

\* parseDMIMemoryModules and parseDarwinSMBIOSMemory, once the records are known.
MakeModules ==
    /\ phase = "modules"
    /\ \/ system = "linux" /\ next = Len(input)
       \/ system = "darwin" /\ next = Len(Candidates(input[1]))
    /\ phase' = "total"
    /\ LET installed == SelectSeq(records, IsModule)
       IN  modules' = InOrder([k \in DOMAIN installed |->
                                 [at       |-> installed[k].at,
                                  capacity |-> Capacity(installed[k]),
                                  location |-> StringAt(installed[k], LocationAt)]])
    /\ UNCHANGED <<system, input, next, records>>

ReadModules == ReadEntry \/ TryCandidate \/ MakeModules

-------------------------------------------------------------------------------
RecordsOK ==
    \A k \in DOMAIN records :
      LET r == records[k]
      IN  /\ Len(r.formatted) >= Header /\ Len(r.formatted) = r.formatted[2]
          /\ system = "linux" => r.formatted[1] = Wanted /\ << >> \notin ToSet(r.strings)
          /\ \A i \in DOMAIN r.strings : 0 \notin ToSet(r.strings[i])

\* The bytes of a record: its formatted part and its strings, a zero after each.
Encoded(r) == r.formatted \o FlattenSeq([i \in DOMAIN r.strings |-> Append(r.strings[i], 0)])

\* A record is the structure in its file: nothing of it left out, no byte taken
\* for something else.
FilesAreStructures ==
    \A k \in DOMAIN records :
      LET raw == input[records[k].at]
          n   == Len(Encoded(records[k]))
      IN  IsPrefix(Encoded(records[k]), raw) /\ (n = Len(raw) \/ raw[n + 1] = 0)

\* The records are one table of the blob, without gap or overlap, from a start to
\* a last structure or to bytes too few for another.
RecordsAreATable ==
    LET data == input[1]
        Size(r) == Len(Encoded(r)) + IF r.strings = << >> THEN 2 ELSE 1
        Bytes(r) == Encoded(r) \o IF r.strings = << >> THEN <<0, 0>> ELSE <<0>>
    IN  \A k \in DOMAIN records :
          LET r == records[k]
          IN  /\ IsPrefix(Bytes(r), From(data, r.at))
              /\ \A i \in 2..Len(r.strings) : r.strings[i] # << >>
              /\ k = 1 => r.at = 0 \/ r.formatted[1] = 0
              /\ IF k < Len(records)
                 THEN records[k + 1].at = r.at + Size(r) /\ r.formatted[1] # End
                 ELSE r.formatted[1] = End \/ r.at + Size(r) + Header > Len(data)

\* Every record is a structure that is there, whole and nothing but itself.
RecordsAreTheStructures ==
    /\ system = "linux" => FilesAreStructures
    /\ system = "darwin" => RecordsAreATable

\* A malformed or unreadable entry costs only itself: each entry of the type
\* that holds a whole structure has its record, in the order of the entries.
OnlyMalformedFilesLost ==
    LET Whole(raw) ==
          /\ raw # Unreadable
          /\ Len(raw) >= Header /\ raw[1] = Wanted /\ raw[2] \in Header..Len(raw)
          /\ \/ Last(raw) = 0 \/ raw[2] = Len(raw)
             \/ \E i \in raw[2] + 1..Len(raw) - 1 :      \* an end of the strings
                  raw[i] = 0 /\ (i = raw[2] + 1 \/ raw[i - 1] = 0)
        whole == {i \in 1..next : Whole(input[i])}
    IN  /\ {records[k].at : k \in DOMAIN records} = whole
        /\ \A j, k \in DOMAIN records : j < k => records[j].at < records[k].at

\* The offsets at which the structures behind a start begin.
Starts(data, start) ==
    LET NextStarts(o) ==
          IF o + Header > Len(data) \/ data[o + 1] = End THEN {}
          ELSE {e \in o + data[o + 2] + 2..Len(data) :
                  /\ data[o + 2] >= Header /\ data[e] = 0 /\ data[e - 1] = 0
                  /\ \A f \in o + data[o + 2] + 2..e - 1 : data[f] # 0 \/ data[f - 1] # 0}
    IN  FoldLeft(LAMBDA S, o : IF o \in S THEN S \cup NextStarts(o) ELSE S,
                 {start}, [i \in 1..Len(data) - start |-> start + i - 1])

\* No whole table begins at a BIOS structure, or at the first byte, that has more
\* structures than were reported: what stands before it in the blob hides none.
NoTableHidden ==
    LET data == input[1]
        IsStart(o) == /\ o + Header <= Len(data) /\ o + Header <= ScanLimit
                      /\ data[o + 1] = 0 /\ data[o + 2] >= Least /\ o + data[o + 2] <= Len(data)
        Tried(o) == /\ o = 0 \/ IsStart(o)
                    /\ Cardinality({p \in 1..o - 1 : IsStart(p)}) < MaxCandidates - 1 \/ o = 0
        Ended(o) == \/ o + Header > Len(data)
                    \/ /\ data[o + 1] = End /\ data[o + 2] >= Header
                       /\ \E e \in o + data[o + 2] + 2..Len(data) : data[e] = 0 /\ data[e - 1] = 0
    IN  phase # "modules" /\ Len(data) >= MinBlob =>
          \A o \in {p \in 0..Len(data) - 1 : Tried(p)} :
            (\E last \in Starts(data, o) : Ended(last)) =>
              Cardinality({s \in Starts(data, o) : s + Header <= Len(data)}) <= Len(records)

OnlyMalformedLost ==
    /\ system = "linux" => OnlyMalformedFilesLost
    /\ system = "darwin" => NoTableHidden

\* The size of a socket as the specification of SMBIOS has it: unit flag, unknown
\* and extended sizes, in a word that the structure holds wholly.
Installed(r) ==
    LET size == r.formatted[SizeAt + 1] + Base * r.formatted[SizeAt + 2]
    IN  /\ r.formatted[1] = Wanted
        /\ Len(r.formatted) >= IF system = "linux" THEN SizeAt + 2 ELSE MinModule
        /\ size \notin {0, Word - 1, HalfWord}
        /\ size = HalfWord - 1 => Len(r.formatted) >= ExtendedAt + 4

\* A module has one structure of its own that holds its size wholly; its location
\* is a string of that structure and no other; modules are in the order of their
\* locations, and an installed one is missing only if its extended size is no
\* number of bytes.
ModulesAreSockets ==
    LET Of(k) == CHOOSE r \in ToSet(records) : r.at = modules[k].at
        places == {modules[k].at : k \in DOMAIN modules}
    IN  phase # "modules" /\ system # "windows" =>
          /\ \A k \in DOMAIN modules : Installed(Of(k))
          /\ \A r \in ToSet(records) :
               Installed(r) /\ NumberAt(r, SizeAt, 2) # HalfWord - 1 => r.at \in places
          /\ \A j, k \in DOMAIN modules : j < k =>
               modules[j].at # modules[k].at /\ ~Before(modules[k].location, modules[j].location)
          /\ \A k \in DOMAIN modules :
               modules[k].location # << >> =>
                 \E i \in DOMAIN Of(k).strings :
                   Of(k).formatted[LocationAt + 1] = i /\ Of(k).strings[i] = modules[k].location
===============================================================================
