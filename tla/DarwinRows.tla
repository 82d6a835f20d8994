------------------------------- MODULE DarwinRows -------------------------------
(****************************************************************************)
(* The rows the native collectors of macOS hand to Go                        *)
(* (src/darwin_native_cgo.go): hw_row_start and hw_row_field write them into  *)
(* a growing C buffer as lines of fields separated by tabs, darwinRecordsFromC *)
(* splits the text again.  Every append may find no memory, and is dropped.   *)
(****************************************************************************)
EXTENDS Naturals, FiniteSets, Sequences, SequencesExt

CONSTANTS
    FirstCapacity,  \* of a buffer, 1024
    Characters,     \* what a text is made of
    Scripts     \* groups of what collectors write: sequences of rows, each opened by its
                \* kind, and of fields of the row last opened; with the heaps they find

Tab == "tab"
Newline == "newline"
Space == "space"

Row(kind) == [kind |-> kind]
Field(key, value) == [key |-> key, value |-> value]
IsRow(w) == "kind" \in DOMAIN w

\* A text has no NUL; a word, as all kinds and keys, has no separators either.
Text == Seq(Characters)
Word(t) == t \in Text /\ t # << >> /\ \A i \in DOMAIN t : t[i] \notin {Tab, Newline}

\* What is written: a row comes first.
Writes == [kind : Text] \cup [key : Text, value : Text]
Script(s) ==
    /\ s \in Seq(Writes)
    /\ s # << >> => IsRow(s[1])
    /\ \A i \in DOMAIN s : IF IsRow(s[i]) THEN Word(s[i].kind) ELSE Word(s[i].key)

\* A heap gives nothing larger than SIZE_MAX, and may fail to give that.
Heap == [sizeMax : {n \in Nat : n >= FirstCapacity}, fails : BOOLEAN]

ASSUME RowsAssumption ==
    /\ FirstCapacity \in Nat \ {0}
    /\ {Tab, Newline, Space} \subseteq Characters
    /\ \A g \in Scripts : g.heaps \subseteq Heap /\ \A script \in g.scripts : Script(script)

VARIABLES
    heap,
    data,       \* the text in the buffer, without its terminator
    capacity,   \* the allocated size, 0 before the first append
    lost,       \* was an append dropped
    pending,    \* what is still to be written
    written,    \* the rows meant: a kind and a sequence of fields each
    records     \* what darwinRecordsFromC returned; << >> before

rowVars == <<heap, data, capacity, lost, pending, written, records>>

RowsInit(h, script) ==
    /\ heap = h /\ pending = script
    /\ data = << >> /\ capacity = 0 /\ lost = FALSE
    /\ written = << >>
    /\ records = << >>

-------------------------------------------------------------------------------
\* A buffer on its way through several appends.
Buffer == [data |-> data, capacity |-> capacity, lost |-> lost]

\* The loop of hw_buffer_reserve: doubled until it is enough; what is needed
\* when it cannot be doubled any more.
Doubled(c, needed) ==
    LET enough[n \in Nat \ {0}] ==
          IF n >= needed THEN n
          ELSE IF n > heap.sizeMax \div 2 THEN needed ELSE enough[2 * n]
    IN  enough[c]

\* Slip: no room for the terminator.
ReserveSlipTerminator(b, extra) ==
    LET needed == Len(b.data) + extra
        first  == IF b.capacity = 0 THEN FirstCapacity ELSE b.capacity
    IN  IF extra > heap.sizeMax - Len(b.data) - 1 THEN {}
        ELSE IF needed <= b.capacity THEN {b.capacity}
        ELSE {Doubled(first, needed)}

\* hw_buffer_reserve: the capacities it may leave; none if it fails.
Reserve(b, extra) ==
    LET needed == Len(b.data) + extra + 1
        first  == IF b.capacity = 0 THEN FirstCapacity ELSE b.capacity
    IN  IF extra > heap.sizeMax - Len(b.data) - 1 THEN {}
        ELSE IF needed <= b.capacity THEN {b.capacity}
        ELSE {Doubled(first, needed)}

\* hw_buffer_append_bytes: the buffers it may leave.
AppendBytes(b, text) ==
    LET sizes == Reserve(b, Len(text))
        fits  == {[b EXCEPT !.data = @ \o text, !.capacity = c] : c \in sizes}
        drop  == {[b EXCEPT !.lost = TRUE]}
    IN  IF text = << >> THEN {b}
        ELSE IF sizes = {} THEN drop
        ELSE IF heap.fails /\ sizes # {b.capacity} THEN fits \cup drop
        ELSE fits

Clean(text) == [i \in DOMAIN text |-> IF text[i] \in {Tab, Newline} THEN Space ELSE text[i]]

\* hw_buffer_append_clean: one character after the other.
AppendClean(b, text) ==
    LET after[n \in 0..Len(text)] ==
          IF n = 0 THEN {b} ELSE UNION {AppendBytes(x, <<Clean(text)[n]>>) : x \in after[n - 1]}
    IN  after[Len(text)]

AppendAll(b, text, more) ==     \* a separator, then a text
    UNION {AppendClean(x, more) : x \in AppendBytes(b, text)}

Leave(b) == data' = b.data /\ capacity' = b.capacity /\ lost' = b.lost

\* hw_row_start
RowStart(kind) ==
    /\ \E b \in AppendAll(Buffer, IF data = << >> THEN << >> ELSE <<Newline>>, kind) : Leave(b)
    /\ written' = Append(written, [kind |-> kind, fields |-> << >>])

\* hw_row_field: a field without value is not written.
RowField(key, value) ==
    /\ IF value = << >>
       THEN UNCHANGED <<data, capacity, lost, written>>
       ELSE /\ \E b \in UNION {AppendAll(x, <<Tab>>, value) : x \in AppendAll(Buffer, <<Tab>>, key)} :
                 Leave(b)
            /\ written' = [written EXCEPT ![Len(written)].fields =
                              Append(written[Len(written)].fields, <<key, value>>)]

Write ==
    /\ pending # << >>
    /\ pending' = Tail(pending)
    /\ LET next == Head(pending)
       IN  IF IsRow(next) THEN RowStart(next.kind) ELSE RowField(next.key, next.value)
    /\ UNCHANGED <<heap, records>>

\* strings.Split: the texts between the separators, one character after the other.
NextPart(parts, c, separator) ==
    IF c = separator THEN Append(parts, << >>)
    ELSE [parts EXCEPT ![Len(parts)] = Append(parts[Len(parts)], c)]

Split(text, separator) ==
    LET parts[n \in 0..Len(text)] ==
          IF n = 0 THEN << << >> >> ELSE NextPart(parts[n - 1], text[n], separator)
    IN  parts[Len(text)]

\* The pairs of a key and a value that a line has after its kind.
Pairs(fields) ==
    {k \in 1..Len(fields) : /\ 2 * k + 1 <= Len(fields)
                            /\ fields[2 * k] # << >> /\ fields[2 * k + 1] # << >>}

\* Slip: of two values for a key the first one stays.
RecordSlipFirst(fields) ==
    [kind |-> fields[1],
     values |-> [key \in {fields[2 * k] : k \in Pairs(fields)} |->
                   fields[2 * Min({k \in Pairs(fields) : fields[2 * k] = key}) + 1]]]

\* A line of darwinRecordsFromC; of two values for a key the last one stays.
Record(fields) ==
    [kind |-> fields[1],
     values |-> [key \in {fields[2 * k] : k \in Pairs(fields)} |->
                   fields[2 * Max({k \in Pairs(fields) : fields[2 * k] = key}) + 1]]]

\* The loop of darwinRecordsFromC over the lines.
RecordsOf(lines) ==
    LET found[n \in 0..Len(lines)] ==
          IF n = 0 THEN << >>
          ELSE LET fields == Split(lines[n], Tab)
               IN  IF fields[1] = << >> THEN found[n - 1] ELSE Append(found[n - 1], Record(fields))
    IN  found[Len(lines)]

Read ==
    /\ records = << >> /\ pending = << >>
    /\ records' = <<RecordsOf(Split(data, Newline))>>
    /\ UNCHANGED <<heap, data, capacity, lost, pending, written>>

\* The rows of any collector, whatever it finds.
RowsSpec ==
    /\ heap \in Heap /\ Script(pending) /\ RowsInit(heap, pending)
    /\ [][Write \/ Read]_rowVars

-------------------------------------------------------------------------------
\* Keys and values that are read are not empty, even of a row whose end did not
\* fit any more.
RowsTypeOK ==
    /\ lost \in BOOLEAN
    /\ Len(records) <= 1
    /\ records # << >> =>
         \A i \in DOMAIN records[1] : \A key \in DOMAIN records[1][i].values :
           key # << >> /\ records[1][i].values[key] # << >>

\* The text and its terminator are inside the allocation, whose size fits a
\* size_t, up to the very largest one.
InsideAllocation ==
    /\ capacity <= heap.sizeMax
    /\ data # << >> => Len(data) < capacity

\* What is meant by the rows written.
Meant ==
    [i \in DOMAIN written |->
       LET fields == written[i].fields
       IN  [kind |-> written[i].kind,
            values |-> [key \in {fields[j][1] : j \in DOMAIN fields} |->
                          Clean(fields[Max({j \in DOMAIN fields : fields[j][1] = key})][2])]]]

\* If no append was dropped, Go reads the rows that were written: separators
\* inside a value make neither a row nor a field, and empty values none at all.
RoundTrip ==
    records # << >> /\ ~lost => records[1] = Meant
=================================================================================
