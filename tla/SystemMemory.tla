------------------------------ MODULE SystemMemory ------------------------------
(****************************************************************************)
(* The memory section of the inventory: collectLinuxMemory                   *)
(* (src/collect_processor_memory_linux.go) and collectDarwinMemory           *)
(* (src/discover_darwin.go) over the modules of Smbios, and collectMemory     *)
(* (src/collect_processor_memory_windows.go) over rows.  The system states a  *)
(* total, or it is added up from the modules, in 64 bits.                    *)
(****************************************************************************)
EXTENDS Smbios

CONSTANT
    Machines    \* groups: the system, inputs, and totals stated (in kB on Linux)

VARIABLES
    stated,     \* the total stated by the system; 0 if unknown
    sum,        \* the running sum of Windows
    result      \* the section; << >> before it is known or if there is none

vars == <<smbios, stated, sum, result>>

\* A row of Win32_PhysicalMemory; a query that fails gives what no row gives.
Row == [capacity : 0..MaxInt \cup {None}, location : Seq(1..Base - 1)]

ASSUME MemoryAssumption ==
    \A g \in Machines :
      /\ g.totals \subseteq 0..MaxInt
      /\ \/ g.system = "linux" /\ \A i \in g.inputs : i \in Seq(Seq(0..Base))
         \/ g.system = "darwin" /\ \A i \in g.inputs : Len(i) = 1 /\ i[1] \in Seq(0..Base - 1)
         \/ g.system = "windows" /\ \A i \in g.inputs : i \in Seq(Row)

Init ==
    /\ \E g \in Machines : system = g.system /\ input \in g.inputs /\ stated \in g.totals
    /\ next = 0 /\ records = << >> /\ modules = << >> /\ phase = "modules"
    /\ sum = 0 /\ result = << >>

\* One turn of the loop over the rows: one that says nothing is left out, and a
\* capacity that does not fit the sum is not counted.
ReadRow ==
    /\ system = "windows" /\ phase = "modules" /\ next < Len(input)
    /\ next' = next + 1
    /\ LET row   == input[next + 1]
           bytes == IF row.capacity = None THEN 0 ELSE row.capacity
       IN  /\ sum' = IF MaxInt - sum >= bytes THEN sum + bytes ELSE sum
           /\ modules' = IF bytes = 0 /\ row.location = << >> THEN modules
                         ELSE Append(modules, [at       |-> next + 1,
                                               capacity |-> bytes,
                                               location |-> row.location])
    /\ UNCHANGED <<system, input, records, phase, stated, result>>

RowsRead ==
    /\ system = "windows" /\ phase = "modules" /\ next = Len(input)
    /\ phase' = "total" /\ modules' = InOrder(modules)
    /\ UNCHANGED <<system, input, next, records, stated, sum, result>>

\* linuxMemTotal counts kilobytes; a total too large for bytes is unknown.
StatedBytes ==
    IF system # "linux" THEN stated
    ELSE IF stated > MaxInt \div Kilo THEN 0 ELSE stated * Kilo

\* Slip: the modules that fit are counted, as on Windows.
SumSlipSkip(found) ==
    FoldLeft(LAMBDA total, m : IF MaxInt - total < m.capacity THEN total ELSE total + m.capacity,
             0, found)

\* The loop over the modules on Linux and macOS: a sum that does not fit is
\* given up.
Sum(found) ==
    LET Plus(total, m) ==
          IF total = None \/ MaxInt - total < m.capacity THEN None ELSE total + m.capacity
        total == FoldLeft(Plus, 0, found)
    IN  IF total = None THEN 0 ELSE total

\* Slip: a section without total is no section.
FinishSlipEmpty ==
    /\ phase = "total" /\ phase' = "done"
    /\ LET total == IF StatedBytes # 0 THEN StatedBytes
                    ELSE IF system = "windows" THEN sum ELSE Sum(modules)
       IN  result' = IF total = 0 THEN << >> ELSE <<[total |-> total, modules |-> modules]>>
    /\ UNCHANGED <<system, input, next, records, modules, stated, sum>>

Finish ==
    /\ phase = "total" /\ phase' = "done"
    /\ LET total == IF StatedBytes # 0 THEN StatedBytes
                    ELSE IF system = "windows" THEN sum ELSE Sum(modules)
       IN  result' = IF total = 0 /\ modules = << >> THEN << >>
                     ELSE <<[total |-> total, modules |-> modules]>>
    /\ UNCHANGED <<system, input, next, records, modules, stated, sum>>

Next ==
    \/ ReadModules /\ UNCHANGED <<stated, sum, result>>
    \/ ReadRow
    \/ RowsRead
    \/ Finish

Spec == Init /\ [][Next]_vars

-------------------------------------------------------------------------------
TypeOK ==
    /\ system \in {"linux", "darwin", "windows"}
    /\ phase \in {"modules", "total", "done"}
    /\ next \in 0..IF system = "darwin" THEN MaxCandidates ELSE Len(input)
    /\ RecordsOK
    /\ \A k \in DOMAIN modules : modules[k].capacity \in 0..MaxInt
    /\ sum \in 0..MaxInt

\* The bytes of some of the modules reported, however many there are.
Bytes(chosen) == MapThenSumSet(LAMBDA i : modules[i].capacity, chosen)
AllBytes == Bytes(DOMAIN modules)

StatedExactly == IF system = "linux" THEN stated * Kilo ELSE stated

\* The package promises byte counts in exact bytes (src/doc.go, src/inventory.go):
\* a total is the one the system states or the sum of all the modules, if that fits,
\* and is omitted otherwise.  collectMemory of Windows adds up the modules that fit.
TotalExact ==
    result # << >> =>
      result[1].total \in {n \in {0, AllBytes, StatedExactly} : n <= MaxInt}

\* No total wraps, whatever the capacities are.  It is exact on Linux and macOS, and
\* on Windows if the sum of the modules fits; else it is there the sum of some of
\* them, to which none of the others could be added.
TotalWholeOrOmitted ==
    result # << >> =>
      LET total == result[1].total
      IN  /\ total <= MaxInt
          /\ \/ TotalExact
             \/ /\ system = "windows" /\ AllBytes > MaxInt
                /\ \E chosen \in SUBSET DOMAIN modules :
                     /\ total = Bytes(chosen)
                     /\ \A i \in DOMAIN modules \ chosen : total + modules[i].capacity > MaxInt

\* Nothing known is lost: every module found is reported, on Windows every row
\* that says anything, and a total is omitted only if the system states none that
\* fits and the modules have no bytes or too many.
NothingKnownOmitted ==
    phase = "done" =>
      LET total == IF result = << >> THEN 0 ELSE result[1].total
          fits  == stated <= IF system = "linux" THEN MaxInt \div Kilo ELSE MaxInt
          said  == {i \in DOMAIN input : input[i].capacity > 0 \/ input[i].location # << >>}
      IN  /\ modules # << >> => result # << >> /\ result[1].modules = modules
          /\ system = "windows" => {modules[k].at : k \in DOMAIN modules} = said
          /\ total = 0 => /\ stated = 0 \/ ~fits
                          /\ AllBytes = 0 \/ AllBytes > MaxInt
===============================================================================
