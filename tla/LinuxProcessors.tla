---------------------------- MODULE LinuxProcessors ----------------------------
(****************************************************************************)
(* collectLinuxProcessors, linuxCPUTopology, applyCPUInfo and               *)
(* enrichLinuxProcessor (src/collect_processor_memory_linux.go): processor  *)
(* packages put together from sysfs, /proc/cpuinfo and the DMI records,     *)
(* while CPUs go offline and come back.                                     *)
(*                                                                          *)
(* The directory of a CPU stays when the CPU goes offline, its topology     *)
(* attributes do not: the collector reads them one by one, and falls back   *)
(* to package 0, to the CPU's number as core and to no die.  Names, clocks  *)
(* and serial numbers are left out; of a DMI record only its place in the   *)
(* list counts, and whether it describes a package the other sources have.  *)
(****************************************************************************)
EXTENDS Integers, FiniteSets, Sequences

CONSTANTS
    CPUs,       \* the numbers of the CPU directories
    Machines,   \* the machines the collector may be run on
    MaxEvents   \* bound on the offline and online events of one collection

\* What the kernel reports as the package of a CPU when it does not know it.
Unknown == -1

\* A machine: the package, die and core of each CPU; whether /sys lists the CPUs
\* and the kernel is old enough not to tell dies; the kind of /proc/cpuinfo,
\* with physical ids as on amd64, without as on arm64, or unreadable; and the
\* number of DMI records of populated, enabled processors.
Machine(m) ==
    /\ m.package \in [CPUs -> Nat \cup {Unknown}]
    /\ m.die \in [CPUs -> Nat] /\ m.core \in [CPUs -> Nat]
    /\ m.sysfs \in BOOLEAN /\ m.dies \in BOOLEAN
    /\ m.cpuinfo \in {"physical", "plain", "unreadable"}
    /\ m.dmi \in Nat

ASSUME MachinesAssumption ==
    /\ CPUs \subseteq Nat /\ IsFiniteSet(CPUs) /\ CPUs # {}
    /\ MaxEvents \in Nat
    /\ \A m \in Machines : Machine(m)

VARIABLES
    machine,
    online,     \* CPUs that are online
    events,     \* offline and online events so far
    phase,      \* the function the collector is in
    todo,       \* CPUs (or their cpuinfo stanzas) still to visit
    reading,    \* the attribute of the current CPU to be read next
    core,       \* coreID of the current CPU
    package,    \* packageID of the current CPU
    rows,       \* `packages`
    available,  \* topologyAvailable
    processors  \* the result

collector == <<phase, todo, reading, core, package, rows, available, processors>>
vars == <<machine, online, events, collector>>

Least(S) == CHOOSE c \in S : \A d \in S : c <= d
NewRow == [logical |-> 0, cores |-> {}]
Row(p) == IF p \in DOMAIN rows THEN rows[p] ELSE NewRow
WithRow(p, row) == [q \in DOMAIN rows \cup {p} |-> IF q = p THEN row ELSE rows[q]]

NoDie == 0
Die(c) == machine.die[c] + 1        \* a die_id, apart from none

Init ==
    /\ machine \in Machines
    /\ online \in SUBSET CPUs /\ Least(CPUs) \in online
    /\ events = 0
    /\ phase = "topology"
    /\ todo = IF machine.sysfs THEN CPUs ELSE {}
    /\ reading = "package"
    /\ core = <<NoDie, 0>>
    /\ package = 0
    /\ rows = << >>
    /\ available = FALSE
    /\ processors = << >>

\* A CPU goes offline or comes back; the boot CPU stays.
HotPlug ==
    /\ events < MaxEvents
    /\ events' = events + 1
    /\ \E c \in CPUs \ {Least(CPUs)} : online' = IF c \in online THEN online \ {c} ELSE online \cup {c}
    /\ UNCHANGED <<machine, collector>>

-------------------------------------------------------------------------------
\* linuxCPUTopology, one CPU after the other in natural order.
Current == Least(todo)

\* Slip: a negative package ID is taken as it is.
PackageReadSigned(c) == IF c \in online THEN machine.package[c] ELSE 0

\* A package ID that is missing or negative is replaced by 0.
PackageRead(c) ==
    IF c \in online /\ machine.package[c] # Unknown THEN machine.package[c] ELSE 0

ReadPackage ==
    /\ phase = "topology" /\ todo # {} /\ reading = "package"
    /\ LET p == PackageRead(Current)
       IN  /\ package' = p
           /\ rows' = WithRow(p, [Row(p) EXCEPT !.logical = @ + 1])
    /\ reading' = "core"
    /\ UNCHANGED <<machine, online, events, phase, todo, core, available, processors>>

ReadCore ==
    /\ phase = "topology" /\ reading = "core"
    /\ core' = <<NoDie, IF Current \in online THEN machine.core[Current] ELSE Current>>
    /\ reading' = "die"
    /\ UNCHANGED <<machine, online, events, phase, todo, package, rows, available, processors>>

\* Slip: cores of different dies are not told apart.
ReadNoDie ==
    /\ phase = "topology" /\ reading = "die"
    /\ rows' = [rows EXCEPT ![package].cores = @ \cup {core}]
    /\ reading' = "package"
    /\ todo' = todo \ {Current}
    /\ UNCHANGED <<machine, online, events, phase, core, package, available, processors>>

ReadDie ==
    /\ phase = "topology" /\ reading = "die"
    /\ LET id == IF machine.dies /\ Current \in online
                 THEN [core EXCEPT ![1] = Die(Current)] ELSE core
       IN  rows' = [rows EXCEPT ![package].cores = @ \cup {id}]
    /\ reading' = "package"
    /\ todo' = todo \ {Current}
    /\ UNCHANGED <<machine, online, events, phase, core, package, available, processors>>

-------------------------------------------------------------------------------
\* applyCPUInfo: one read of the file, which has a stanza per online CPU.
ReadCpuinfo ==
    /\ phase = "topology" /\ todo = {}
    /\ available' = (DOMAIN rows # {})
    /\ phase' = "cpuinfo"
    /\ todo' = IF machine.cpuinfo = "unreadable" THEN {} ELSE online
    /\ UNCHANGED <<machine, online, events, reading, core, package, rows, processors>>

\* Slip: a stanza always counts one.
CountedAlways(row, id) == [row EXCEPT !.logical = @ + 1, !.cores = @ \cup {id}]

\* Only when sysfs had no CPU does a stanza count one.
Counted(row, id) ==
    IF available THEN row
    ELSE [row EXCEPT !.logical = @ + 1, !.cores = @ \cup {id}]

\* A stanza without "physical id" is about package 0.
ApplyStanza ==
    /\ phase = "cpuinfo" /\ todo # {}
    /\ LET physical == machine.cpuinfo = "physical"
           p  == IF physical /\ machine.package[Current] # Unknown
                 THEN machine.package[Current] ELSE 0
           id == <<NoDie, IF physical THEN machine.core[Current] ELSE Current>>
       IN  rows' = WithRow(p, Counted(Row(p), id))
    /\ todo' = todo \ {Current}
    /\ UNCHANGED <<machine, online, events, phase, reading, core, package, available, processors>>

-------------------------------------------------------------------------------
\* The numbers of S in order.
Ascending(S) ==
    CHOOSE s \in [1..Cardinality(S) -> S] : \A i, j \in DOMAIN s : i < j => s[i] < s[j]

\* Slip: the DMI records there is no row for are dropped.
MergedRows ==
    LET ids == Ascending(DOMAIN rows)
    IN  [i \in 1..Len(ids) |->
           [id |-> ids[i], row |-> TRUE, dmi |-> IF i <= machine.dmi THEN i ELSE 0,
            logical |-> rows[ids[i]].logical, cores |-> Cardinality(rows[ids[i]].cores)]]

\* The rows in order of package ID, then the DMI records there is no row for,
\* with their place in the list as ID.  The i-th DMI record enriches the i-th
\* processor.
Merged ==
    LET ids == Ascending(DOMAIN rows)
        Enriched(i) == IF i <= machine.dmi THEN i ELSE 0
        size == IF Len(ids) > machine.dmi THEN Len(ids) ELSE machine.dmi
    IN  [i \in 1..size |->
           IF i <= Len(ids)
           THEN [id |-> ids[i], row |-> TRUE, dmi |-> Enriched(i),
                 logical |-> rows[ids[i]].logical, cores |-> Cardinality(rows[ids[i]].cores)]
           ELSE [id |-> i - 1, row |-> FALSE, dmi |-> i, logical |-> 0, cores |-> 0]]

Merge ==
    /\ phase = "cpuinfo" /\ todo = {}
    /\ processors' = Merged
    /\ phase' = "done"
    /\ UNCHANGED <<machine, online, events, todo, reading, core, package, rows, available>>

Next ==
    \/ HotPlug
    \/ ReadPackage \/ ReadCore \/ ReadDie \/ ReadCpuinfo \/ ApplyStanza \/ Merge

Spec == Init /\ [][Next]_vars

-------------------------------------------------------------------------------
TypeOK ==
    /\ Machine(machine)
    /\ online \subseteq CPUs /\ todo \subseteq CPUs
    /\ events \in 0..MaxEvents
    /\ phase \in {"topology", "cpuinfo", "done"}
    /\ reading \in {"package", "core", "die"}
    /\ \A p \in DOMAIN rows :
         /\ p \in Nat /\ rows[p].logical \in Nat
         /\ rows[p].cores \in SUBSET (Nat \X Nat)
    /\ available \in BOOLEAN

\* The logical processors counted, each with its package.
Logical == UNION {{p} \X (1..rows[p].logical) : p \in DOMAIN rows}

\* Every CPU directory is counted in exactly one package, offline or not, and
\* the stanzas of cpuinfo count no CPU again; no package has more cores than CPUs.
CountedOnce ==
    /\ machine.sysfs =>
         Cardinality(Logical) = Cardinality(CPUs) - (IF phase = "topology" THEN Cardinality(todo) ELSE 0)
                   + (IF phase = "topology" /\ reading # "package" THEN 1 ELSE 0)
    /\ \A p \in DOMAIN rows : Cardinality(rows[p].cores) <= rows[p].logical

AlwaysOnline == events = 0 /\ online = CPUs
TruePackages == {machine.package[c] : c \in CPUs}
PackagesKnown == Unknown \notin TruePackages
On(p) == {c \in CPUs : machine.package[c] = p}

\* With all CPUs online, and with a cpuinfo that names packages or is not
\* there, the packages with CPUs are exactly the machine's, each with its
\* logical processors and, dies told, its cores.
TopologyExact ==
    (phase = "done" /\ AlwaysOnline /\ PackagesKnown /\ machine.sysfs /\ machine.cpuinfo # "plain") =>
      /\ DOMAIN rows = TruePackages
      /\ \A p \in TruePackages :
           /\ rows[p].logical = Cardinality(On(p))
           /\ machine.dies => Cardinality(rows[p].cores)
                                = Cardinality({<<machine.die[c], machine.core[c]>> : c \in On(p)})

\* Each row and each DMI record ends in exactly one processor, and a record that
\* has a row of its own rank is merged with it rather than reported on its own.
NothingDropped ==
    phase = "done" =>
      /\ {processors[i].id : i \in {j \in DOMAIN processors : processors[j].row}} = DOMAIN rows
      /\ {processors[i].dmi : i \in DOMAIN processors} \ {0} = 1..machine.dmi
      /\ Cardinality({i \in DOMAIN processors : processors[i].row}) = Cardinality(DOMAIN rows)
      /\ \A i, j \in DOMAIN processors : processors[i].row /\ ~processors[j].row => processors[i].dmi # 0
===============================================================================
