------------------------ MODULE LinuxProcessors_proofs ------------------------
(****************************************************************************)
(* Whatever CPUs go offline meanwhile, each CPU directory is counted once;  *)
(* on a machine that keeps them online the packages are the machine's; and  *)
(* merging with the DMI records drops neither rows nor records.             *)
(****************************************************************************)
EXTENDS LinuxProcessors, OrderLemmas

RowType == [logical : Nat, cores : SUBSET (Nat \X Nat)]

Types ==
    /\ TypeOK
    /\ machine \in Machines
    /\ rows \in [DOMAIN rows -> RowType]
    /\ IsFiniteSet(DOMAIN rows)
    /\ \A p \in DOMAIN rows : IsFiniteSet(rows[p].cores)
    /\ core \in Nat \X Nat
    /\ package \in Nat

MidCPU == phase = "topology" /\ reading # "package"

Control ==
    /\ MidCPU => todo # {} /\ package \in DOMAIN rows
    /\ phase # "topology" => reading = "package"
    /\ phase # "topology" /\ machine.sysfs => available
    /\ phase = "topology" => ~available
    /\ phase = "cpuinfo" /\ machine.cpuinfo = "unreadable" => todo = {}
    /\ phase = "done" => processors = Merged

\* One logical processor was counted ahead of its core.
Counts ==
    /\ CountedOnce
    /\ IsFiniteSet(Logical)
    /\ MidCPU => Cardinality(rows[package].cores) + 1 <= rows[package].logical

\* The CPUs whose core has been counted, and those counted at all.
Cored == IF phase = "topology" THEN CPUs \ todo ELSE CPUs
Seen == IF MidCPU THEN Cored \cup {Current} ELSE Cored
CoreOf(c) == <<IF machine.dies THEN Die(c) ELSE NoDie, machine.core[c]>>

AllKnown ==
    /\ AlwaysOnline /\ PackagesKnown /\ machine.sysfs
    /\ phase = "topology" \/ machine.cpuinfo # "plain"

\* The rows are those of the machine with the CPUs seen so far.
Exact ==
    AllKnown =>
      /\ DOMAIN rows = {machine.package[c] : c \in Seen}
      /\ \A p \in DOMAIN rows :
           /\ rows[p].logical = Cardinality(Seen \cap On(p))
           /\ rows[p].cores = {CoreOf(c) : c \in Cored \cap On(p)}
      /\ MidCPU => package = machine.package[Current]
      /\ phase = "topology" /\ reading = "die" => core = <<NoDie, machine.core[Current]>>

IInv == Types /\ Control /\ Counts /\ Exact

-------------------------------------------------------------------------------
\* The loops take the least CPU there still is.
LEMMA LeastCPU ==
  ASSUME NEW S \in SUBSET CPUs, S # {}
  PROVE  Least(S) \in S
<1>1. S \in SUBSET Nat
  BY MachinesAssumption
<1> QED
  BY <1>1, NaturalLeast DEF Least

LEMMA RowFacts ==
  ASSUME Types, NEW p
  PROVE  /\ Row(p) \in RowType /\ IsFiniteSet(Row(p).cores)
         /\ p \notin DOMAIN rows => Row(p).logical = 0 /\ Row(p).cores = {}
         /\ p \in DOMAIN rows => Row(p) = rows[p]
<1>1. CASE p \in DOMAIN rows
  BY <1>1 DEF Types, Row
<1>2. CASE p \notin DOMAIN rows
  BY <1>2, FS_EmptySet DEF Row, NewRow, RowType
<1> QED
  BY <1>1, <1>2

\* Setting one row leaves the others alone.
LEMMA RowSet ==
  ASSUME Types, NEW p \in Nat, NEW row \in RowType, IsFiniteSet(row.cores),
         rows' = WithRow(p, row)
  PROVE  /\ DOMAIN rows' = DOMAIN rows \cup {p} /\ rows'[p] = row
         /\ \A q \in DOMAIN rows : q # p => rows'[q] = rows[q]
         /\ rows' \in [DOMAIN rows' -> RowType] /\ IsFiniteSet(DOMAIN rows')
         /\ \A q \in DOMAIN rows' : q \in Nat /\ IsFiniteSet(rows'[q].cores)
<1>1. /\ DOMAIN rows' = DOMAIN rows \cup {p} /\ rows'[p] = row
      /\ \A q \in DOMAIN rows : q # p => rows'[q] = rows[q]
  BY DEF WithRow
<1>2. IsFiniteSet(DOMAIN rows')
  <2>1. IsFiniteSet(DOMAIN rows)
    BY DEF Types
  <2>2. IsFiniteSet(DOMAIN rows \cup {p})
    BY <2>1, FS_AddElement
  <2> QED
    BY <1>1, <2>2
<1>3. rows' \in [DOMAIN rows' -> RowType]
  <2>1. \A q \in DOMAIN rows : rows[q] \in RowType
    BY DEF Types
  <2>2. \A q \in DOMAIN rows \cup {p} : (IF q = p THEN row ELSE rows[q]) \in RowType
    BY <2>1
  <2> QED
    BY <1>1, <2>2 DEF WithRow
<1>4. \A q \in DOMAIN rows' : q \in Nat /\ IsFiniteSet(rows'[q].cores)
  BY <1>1 DEF Types, TypeOK
<1> QED
  BY <1>1, <1>2, <1>3, <1>4

LEMMA LogicalMembers ==
  \A x : x \in Logical <=> \E q \in DOMAIN rows : \E k \in 1..rows[q].logical : x = <<q, k>>
BY DEF Logical

\* A row that counts one more adds one logical processor.
LEMMA LogicalPlus ==
  ASSUME Types, NEW p \in Nat, NEW row \in RowType, IsFiniteSet(row.cores),
         rows' = WithRow(p, row), row.logical = Row(p).logical + 1, IsFiniteSet(Logical)
  PROVE  IsFiniteSet(Logical') /\ Cardinality(Logical') = Cardinality(Logical) + 1
<1> DEFINE new == <<p, row.logical>>
<1>1. /\ DOMAIN rows' = DOMAIN rows \cup {p} /\ rows'[p] = row
      /\ \A q \in DOMAIN rows : q # p => rows'[q] = rows[q]
  BY RowSet
<1>2. Row(p).logical \in Nat /\ (p \in DOMAIN rows => Row(p) = rows[p])
      /\ (p \notin DOMAIN rows => Row(p).logical = 0)
  BY RowFacts DEF RowType
<1>3. \A x : x \in Logical' <=> \E q \in DOMAIN rows' : \E k \in 1..rows'[q].logical : x = <<q, k>>
  BY DEF Logical
<1>4. \A k : k \in 1..row.logical <=> k \in 1..Row(p).logical \/ k = row.logical
  BY <1>2
<1>5. new \notin Logical
  <2> SUFFICES ASSUME NEW q \in DOMAIN rows, NEW k \in 1..rows[q].logical, new = <<q, k>>
               PROVE  FALSE
    BY LogicalMembers
  <2> QED
    BY <1>2
<1>6. \A x : x \in Logical' <=> x \in Logical \/ x = new
  <2> TAKE x
  <2>1. ASSUME x \in Logical' PROVE x \in Logical \/ x = new
    <3>1. PICK q \in DOMAIN rows' : \E k \in 1..rows'[q].logical : x = <<q, k>>
      BY <1>3, <2>1
    <3>2. CASE q = p
      BY <1>1, <1>2, <1>4, <3>1, <3>2, LogicalMembers
    <3>3. CASE q # p
      BY <1>1, <3>1, <3>3, LogicalMembers
    <3> QED
      BY <3>2, <3>3
  <2>2. ASSUME x \in Logical PROVE x \in Logical'
    <3>1. PICK q \in DOMAIN rows : \E k \in 1..rows[q].logical : x = <<q, k>>
      BY <2>2, LogicalMembers
    <3>2. CASE q = p
      BY <1>1, <1>2, <1>3, <1>4, <3>1, <3>2
    <3>3. CASE q # p
      BY <1>1, <1>3, <3>1, <3>3
    <3> QED
      BY <3>2, <3>3
  <2>3. new \in Logical'
    BY <1>1, <1>2, <1>3, <1>4
  <2> QED
    BY <2>1, <2>2, <2>3
<1>7. Logical' = Logical \cup {new}
  <2> HIDE DEF new
  <2> QED
    BY <1>6
<1> QED
  BY <1>5, <1>7, FS_AddElement

LEMMA LogicalSame ==
  ASSUME Types, NEW p \in Nat, NEW row \in RowType, IsFiniteSet(row.cores),
         rows' = WithRow(p, row), row.logical = Row(p).logical
  PROVE  Logical' = Logical
<1>1. /\ DOMAIN rows' = DOMAIN rows \cup {p} /\ rows'[p] = row
      /\ \A q \in DOMAIN rows : q # p => rows'[q] = rows[q]
  BY RowSet
<1>2. Row(p).logical \in Nat /\ (p \in DOMAIN rows => Row(p) = rows[p])
      /\ (p \notin DOMAIN rows => Row(p).logical = 0)
  BY RowFacts DEF RowType
<1>3. \A x : x \in Logical' <=> \E q \in DOMAIN rows' : \E k \in 1..rows'[q].logical : x = <<q, k>>
  BY DEF Logical
<1>4. \A x : x \in Logical' <=> x \in Logical
  BY <1>1, <1>2, <1>3, LogicalMembers
<1> QED
  BY <1>4
-------------------------------------------------------------------------------
LEMMA InitIInv == Init => IInv
<1> SUFFICES ASSUME Init PROVE IInv
  OBVIOUS
<1>1. /\ Machine(machine) /\ machine \in Machines /\ events = 0 /\ phase = "topology"
      /\ todo \subseteq CPUs /\ (machine.sysfs => todo = CPUs) /\ reading = "package"
      /\ rows = << >> /\ DOMAIN rows = {} /\ available = FALSE
  BY MachinesAssumption DEF Init
<1>2. Types
  <2>1. TypeOK
    <3>1. online \subseteq CPUs
      BY DEF Init
    <3>2. events \in 0..MaxEvents
      BY <1>1, MachinesAssumption
    <3> QED
      BY <1>1, <3>1, <3>2 DEF TypeOK
  <2>2. rows \in [DOMAIN rows -> RowType]
    BY <1>1
  <2>3. core \in Nat \X Nat /\ package \in Nat
    BY DEF Init, NoDie
  <2> QED
    BY <1>1, <2>1, <2>2, <2>3, FS_EmptySet DEF Types
<1>3. Control
  BY <1>1 DEF Control, MidCPU
<1>4. Logical = {}
  BY <1>1 DEF Logical
<1>5. Counts
  BY <1>1, <1>4, FS_EmptySet, FS_CardinalityType, MachinesAssumption
     DEF Counts, CountedOnce, MidCPU
<1>6. Exact
  BY <1>1 DEF Exact, AllKnown, Seen, Cored, MidCPU
<1> QED
  BY <1>2, <1>3, <1>5, <1>6 DEF IInv

LEMMA HotPlugStep == IInv /\ HotPlug => IInv'
<1> SUFFICES ASSUME IInv, HotPlug PROVE IInv'
  OBVIOUS
<1>1. /\ UNCHANGED <<machine, phase, todo, reading, core, package, rows, available, processors>>
      /\ events' = events + 1 /\ events' \in 0..MaxEvents /\ events' # 0
  BY MachinesAssumption DEF HotPlug, collector, IInv, Types, TypeOK
<1>2. online' \subseteq CPUs
  BY DEF HotPlug, IInv, Types, TypeOK
<1>3. Types'
  BY <1>1, <1>2 DEF IInv, Types, TypeOK
<1>4. Control'
  BY <1>1 DEF IInv, Control, MidCPU, Merged
<1>5. Counts'
  BY <1>1 DEF IInv, Counts, CountedOnce, Logical, MidCPU
<1>6. Exact'
  BY <1>1 DEF Exact, AllKnown, AlwaysOnline
<1> QED
  BY <1>3, <1>4, <1>5, <1>6 DEF IInv

\* The attribute read counts the CPU in one package, the fallback included.
LEMMA ReadPackageStep == IInv /\ ReadPackage => IInv'
<1> SUFFICES ASSUME IInv, ReadPackage PROVE IInv'
  OBVIOUS
<1> DEFINE p == PackageRead(Current)
           row == [Row(p) EXCEPT !.logical = @ + 1]
<1>1. /\ phase = "topology" /\ todo # {} /\ reading = "package" /\ reading' = "core"
      /\ package' = p /\ rows' = WithRow(p, row)
      /\ UNCHANGED <<machine, online, events, phase, todo, core, available, processors>>
      /\ Current' = Current
  BY DEF ReadPackage, Current
<1>2. Current \in todo /\ Current \in CPUs
  BY <1>1, LeastCPU DEF Current, IInv, Types, TypeOK
<1>3. p \in Nat
  BY <1>2 DEF PackageRead, IInv, Types, TypeOK, Machine
<1>4. /\ Row(p) \in RowType /\ IsFiniteSet(Row(p).cores)
      /\ p \notin DOMAIN rows => Row(p).logical = 0 /\ Row(p).cores = {}
      /\ p \in DOMAIN rows => Row(p) = rows[p]
  BY RowFacts DEF IInv
<1>5. /\ row \in RowType /\ row.logical = Row(p).logical + 1 /\ row.cores = Row(p).cores
      /\ IsFiniteSet(row.cores) /\ Row(p).logical \in Nat
  BY <1>4 DEF RowType
<1> HIDE DEF p, row
<1>6. /\ DOMAIN rows' = DOMAIN rows \cup {p} /\ rows'[p] = row
      /\ \A q \in DOMAIN rows : q # p => rows'[q] = rows[q]
      /\ rows' \in [DOMAIN rows' -> RowType] /\ IsFiniteSet(DOMAIN rows')
      /\ \A q \in DOMAIN rows' : q \in Nat /\ IsFiniteSet(rows'[q].cores)
  BY <1>1, <1>3, <1>5, RowSet DEF IInv
<1>7. Types'
  BY <1>1, <1>3, <1>6 DEF IInv, Types, TypeOK, RowType
<1>8. Control'
  BY <1>1, <1>6 DEF IInv, Control, MidCPU
<1>9. Counts'
  <2>1. IsFiniteSet(Logical') /\ Cardinality(Logical') = Cardinality(Logical) + 1
    BY <1>1, <1>3, <1>5, LogicalPlus DEF IInv, Counts
  <2>2. Cardinality(row.cores) + 1 <= row.logical
    <3>1. Cardinality(Row(p).cores) <= Row(p).logical
      BY <1>4, FS_EmptySet DEF IInv, Counts, CountedOnce
    <3>2. Cardinality(Row(p).cores) \in Nat
      BY <1>4, FS_CardinalityType
    <3> QED
      BY <1>5, <3>1, <3>2
  <2>3. \A q \in DOMAIN rows' : Cardinality(rows'[q].cores) <= rows'[q].logical
    <3>1. Cardinality(row.cores) \in Nat /\ row.logical \in Nat
      BY <1>5, FS_CardinalityType DEF RowType
    <3> QED
      BY <1>6, <2>2, <3>1 DEF IInv, Counts, CountedOnce
  <2>4. Cardinality(CPUs) \in Nat /\ Cardinality(todo) \in Nat
    BY FS_CardinalityType, FS_Subset, MachinesAssumption DEF IInv, Types, TypeOK
  <2>5. machine.sysfs => Cardinality(Logical') = Cardinality(CPUs) - Cardinality(todo) + 1
    BY <1>1, <2>1, <2>4 DEF IInv, Counts, CountedOnce
  <2> QED
    BY <1>1, <1>6, <2>1, <2>2, <2>3, <2>5 DEF Counts, CountedOnce, MidCPU
<1>10. Exact'
  <2> SUFFICES ASSUME AllKnown' PROVE Exact'
    BY DEF Exact
  <2>1. AllKnown /\ Current \in online
    BY <1>1, <1>2 DEF AllKnown, AlwaysOnline, PackagesKnown, TruePackages
  <2>2. p = machine.package[Current]
    BY <1>2, <2>1 DEF p, PackageRead, AllKnown, PackagesKnown, TruePackages
  <2>3. /\ Cored = CPUs \ todo /\ Cored' = Cored /\ Seen = Cored /\ Seen' = Cored \cup {Current}
        /\ Current \notin Cored /\ \A c : CoreOf(c)' = CoreOf(c) /\ On(c)' = On(c)
    BY <1>1, <1>2 DEF Cored, Seen, MidCPU, CoreOf, On, Die
  <2>4. /\ DOMAIN rows = {machine.package[c] : c \in Cored}
        /\ \A q \in DOMAIN rows :
             /\ rows[q].logical = Cardinality(Cored \cap On(q))
             /\ rows[q].cores = {CoreOf(c) : c \in Cored \cap On(q)}
    BY <2>1, <2>3 DEF IInv, Exact
  <2>5. DOMAIN rows' = {machine.package[c] : c \in Seen'}
    BY <1>6, <2>2, <2>3, <2>4
  <2>6. /\ Row(p).logical = Cardinality(Cored \cap On(p))
        /\ Row(p).cores = {CoreOf(c) : c \in Cored \cap On(p)}
    <3>1. CASE p \in DOMAIN rows
      BY <1>4, <2>4, <3>1
    <3>2. CASE p \notin DOMAIN rows
      <4>1. Cored \cap On(p) = {}
        BY <2>4, <3>2 DEF On
      <4> QED
        BY <1>4, <3>2, <4>1, FS_EmptySet
    <3> QED
      BY <3>1, <3>2
  <2>7. Seen' \cap On(p) = (Cored \cap On(p)) \cup {Current} /\ Current \notin Cored \cap On(p)
    BY <1>2, <2>2, <2>3 DEF On
  <2>8. Cardinality(Seen' \cap On(p)) = row.logical
    <3>1. IsFiniteSet(Cored \cap On(p))
      BY <2>3, FS_Subset, MachinesAssumption
    <3> QED
      BY <1>5, <2>6, <2>7, <3>1, FS_AddElement
  <2>9. \A q \in DOMAIN rows : q # p => Seen' \cap On(q) = Cored \cap On(q)
    BY <2>2, <2>3 DEF On
  <2>10. \A q \in DOMAIN rows' :
           /\ rows'[q].logical = Cardinality(Seen' \cap On(q))
           /\ rows'[q].cores = {CoreOf(c) : c \in Cored \cap On(q)}
    <3>1. rows'[p].logical = Cardinality(Seen' \cap On(p))
          /\ rows'[p].cores = {CoreOf(c) : c \in Cored \cap On(p)}
      BY <1>5, <1>6, <2>6, <2>8
    <3>2. ASSUME NEW q \in DOMAIN rows, q # p
          PROVE  /\ rows'[q].logical = Cardinality(Seen' \cap On(q))
                 /\ rows'[q].cores = {CoreOf(c) : c \in Cored \cap On(q)}
      BY <1>6, <2>4, <2>9, <3>2
    <3> QED
      BY <1>6, <3>1, <3>2
  <2> QED
    BY <1>1, <2>2, <2>3, <2>5, <2>10 DEF Exact
<1> QED
  BY <1>7, <1>8, <1>9, <1>10 DEF IInv
LEMMA ReadCoreStep == IInv /\ ReadCore => IInv'
<1> SUFFICES ASSUME IInv, ReadCore PROVE IInv'
  OBVIOUS
<1>1. /\ phase = "topology" /\ reading = "core" /\ MidCPU /\ MidCPU'
      /\ core' = <<NoDie, IF Current \in online THEN machine.core[Current] ELSE Current>>
      /\ reading' = "die" /\ Current' = Current
      /\ UNCHANGED <<machine, online, events, phase, todo, package, rows, available, processors>>
  BY DEF ReadCore, Current, MidCPU
<1>2. Current \in todo /\ Current \in CPUs /\ todo # {}
  BY <1>1, LeastCPU DEF Current, IInv, Types, TypeOK, Control
<1>3. core' \in Nat \X Nat
  BY <1>1, <1>2, MachinesAssumption DEF IInv, Types, TypeOK, Machine, NoDie
<1>4. Types'
  BY <1>1, <1>3 DEF IInv, Types, TypeOK
<1>5. Control'
  BY <1>1 DEF IInv, Control
<1>6. Counts'
  BY <1>1 DEF IInv, Counts, CountedOnce, Logical
<1>7. Exact'
  <2> SUFFICES ASSUME AllKnown' PROVE Exact'
    BY DEF Exact
  <2>1. AllKnown /\ Current \in online
    BY <1>1, <1>2 DEF AllKnown, AlwaysOnline, PackagesKnown, TruePackages
  <2>2. Seen' = Seen /\ Cored' = Cored /\ \A c : CoreOf(c)' = CoreOf(c) /\ On(c)' = On(c)
    BY <1>1 DEF Cored, Seen, CoreOf, On, Die
  <2> QED
    BY <1>1, <2>1, <2>2 DEF IInv, Exact
<1> QED
  BY <1>4, <1>5, <1>6, <1>7 DEF IInv

\* With its die read, the core of the CPU joins those of its package.
LEMMA ReadDieStep == IInv /\ ReadDie => IInv'
<1> SUFFICES ASSUME IInv, ReadDie PROVE IInv'
  OBVIOUS
<1> DEFINE id == IF machine.dies /\ Current \in online THEN [core EXCEPT ![1] = Die(Current)] ELSE core
<1>1. /\ phase = "topology" /\ reading = "die" /\ MidCPU /\ ~MidCPU'
      /\ rows' = [rows EXCEPT ![package].cores = @ \cup {id}]
      /\ reading' = "package" /\ todo' = todo \ {Current}
      /\ UNCHANGED <<machine, online, events, phase, core, package, available, processors>>
  BY DEF ReadDie, MidCPU
<1>2. Current \in todo /\ Current \in CPUs /\ todo # {} /\ package \in DOMAIN rows
  BY <1>1, LeastCPU DEF Current, IInv, Types, TypeOK, Control
<1>3. id \in Nat \X Nat
  <2>1. Die(Current) \in Nat /\ core \in Nat \X Nat
    BY <1>2 DEF IInv, Types, TypeOK, Machine, Die
  <2> QED
    BY <2>1
<1> HIDE DEF id
<1>4. /\ DOMAIN rows' = DOMAIN rows
      /\ \A q \in DOMAIN rows : rows'[q].logical = rows[q].logical
      /\ \A q \in DOMAIN rows : q # package => rows'[q].cores = rows[q].cores
      /\ rows'[package].cores = rows[package].cores \cup {id}
      /\ rows' \in [DOMAIN rows -> RowType]
  BY <1>1, <1>2, <1>3 DEF IInv, Types, RowType
<1>5. /\ \A q \in DOMAIN rows : IsFiniteSet(rows'[q].cores)
      /\ Cardinality(rows'[package].cores) <= Cardinality(rows[package].cores) + 1
  <2>1. IsFiniteSet(rows[package].cores)
    BY <1>2 DEF IInv, Types
  <2>2. IsFiniteSet(rows'[package].cores)
        /\ Cardinality(rows'[package].cores) <= Cardinality(rows[package].cores) + 1
    <3> DEFINE S == rows[package].cores
    <3>1. /\ IsFiniteSet(S \cup {id}) /\ Cardinality(S) \in Nat
          /\ Cardinality(S \cup {id}) = IF id \in S THEN Cardinality(S) ELSE Cardinality(S) + 1
      BY <2>1, FS_AddElement, FS_CardinalityType
    <3> HIDE DEF S
    <3>2. Cardinality(S \cup {id}) <= Cardinality(S) + 1
      BY <3>1
    <3> QED
      BY <1>4, <3>1, <3>2 DEF S
  <2> QED
    BY <1>4, <2>2 DEF IInv, Types
<1>6. Types'
  BY <1>1, <1>4, <1>5 DEF IInv, Types, TypeOK, RowType
<1>7. Control'
  BY <1>1 DEF IInv, Control
<1>8. Counts'
  <2>1. Logical' = Logical
    BY <1>4 DEF Logical
  <2>2. /\ Cardinality(todo') = Cardinality(todo) - 1
        /\ Cardinality(CPUs) \in Nat /\ Cardinality(todo) \in Nat
    <3>1. IsFiniteSet(todo) /\ IsFiniteSet(CPUs)
      BY FS_Subset, MachinesAssumption DEF IInv, Types, TypeOK
    <3> QED
      BY <1>1, <1>2, <3>1, FS_RemoveElement, FS_CardinalityType
  <2>3. machine.sysfs => Cardinality(Logical) = Cardinality(CPUs) - Cardinality(todo')
    BY <1>1, <2>2 DEF IInv, Counts, CountedOnce
  <2>4. \A q \in DOMAIN rows : Cardinality(rows'[q].cores) <= rows'[q].logical
    <3>1. Cardinality(rows'[package].cores) <= rows'[package].logical
      <4>1. Cardinality(rows[package].cores) + 1 <= rows[package].logical
        BY <1>1 DEF IInv, Counts
      <4>2. /\ Cardinality(rows[package].cores) \in Nat
            /\ Cardinality(rows'[package].cores) \in Nat /\ rows[package].logical \in Nat
        BY <1>2, <1>5, FS_CardinalityType DEF IInv, Types, RowType
      <4> QED
        BY <1>2, <1>4, <1>5, <4>1, <4>2
    <3> QED
      BY <1>4, <3>1 DEF IInv, Counts, CountedOnce
  <2>5. machine'.sysfs =>
          Cardinality(Logical') = Cardinality(CPUs) - Cardinality(todo') + 0
    <3>1. IsFiniteSet(todo') /\ Cardinality(todo') \in Nat
      BY <1>6, FS_Subset, FS_CardinalityType, MachinesAssumption DEF Types, TypeOK
    <3> QED
      BY <1>1, <2>1, <2>2, <2>3, <3>1
  <2> QED
    BY <1>1, <1>4, <2>1, <2>4, <2>5 DEF IInv, Counts, CountedOnce
<1>9. Exact'
  <2> SUFFICES ASSUME AllKnown' PROVE Exact'
    BY DEF Exact
  <2>1. AllKnown /\ Current \in online
    BY <1>1, <1>2 DEF AllKnown, AlwaysOnline, PackagesKnown, TruePackages
  <2>2. package = machine.package[Current] /\ core = <<NoDie, machine.core[Current]>>
    BY <1>1, <2>1 DEF IInv, Exact
  <2>3. id = CoreOf(Current)
    BY <2>1, <2>2 DEF id, CoreOf
  <2>4. /\ Cored = CPUs \ todo /\ Cored' = Cored \cup {Current} /\ Seen = Cored' /\ Seen' = Seen
        /\ \A c : CoreOf(c)' = CoreOf(c) /\ On(c)' = On(c)
    BY <1>1, <1>2 DEF Cored, Seen, CoreOf, On, Die
  <2>5. Cored' \cap On(package) = (Cored \cap On(package)) \cup {Current}
    BY <1>2, <2>2, <2>4 DEF On
  <2>6. \A q \in DOMAIN rows : q # package => Cored' \cap On(q) = Cored \cap On(q)
    BY <2>2, <2>4 DEF On
  <2>7. rows'[package].cores = {CoreOf(c) : c \in Cored' \cap On(package)}
    <3>1. rows[package].cores = {CoreOf(c) : c \in Cored \cap On(package)}
      BY <1>2, <2>1 DEF IInv, Exact
    <3> QED
      BY <1>4, <2>3, <2>5, <3>1
  <2>8. \A q \in DOMAIN rows : rows'[q].cores = {CoreOf(c) : c \in Cored' \cap On(q)}
    BY <1>4, <2>1, <2>6, <2>7 DEF IInv, Exact
  <2> QED
    BY <1>1, <1>4, <2>1, <2>4, <2>8 DEF IInv, Exact
<1> QED
  BY <1>6, <1>7, <1>8, <1>9 DEF IInv
LEMMA ReadCpuinfoStep == IInv /\ ReadCpuinfo => IInv'
<1> SUFFICES ASSUME IInv, ReadCpuinfo PROVE IInv'
  OBVIOUS
<1>1. /\ phase = "topology" /\ todo = {} /\ ~MidCPU /\ ~MidCPU' /\ reading = "package"
      /\ available' = (DOMAIN rows # {}) /\ phase' = "cpuinfo" /\ todo' \subseteq CPUs
      /\ (machine.cpuinfo = "unreadable" => todo' = {})
      /\ UNCHANGED <<machine, online, events, reading, core, package, rows, processors>>
  BY DEF ReadCpuinfo, MidCPU, IInv, Types, TypeOK, Control
<1>2. Types'
  <2>1. available' \in BOOLEAN
    BY <1>1
  <2> QED
    BY <1>1, <2>1 DEF IInv, Types, TypeOK
<1>3. machine.sysfs => Cardinality(Logical) = Cardinality(CPUs)
  <2>1. Cardinality(todo) = 0 /\ Cardinality(CPUs) \in Nat
    BY <1>1, FS_EmptySet, FS_CardinalityType, MachinesAssumption
  <2> QED
    BY <1>1, <2>1 DEF IInv, Counts, CountedOnce
<1>4. machine.sysfs => DOMAIN rows # {}
  <2> SUFFICES ASSUME machine.sysfs, DOMAIN rows = {} PROVE FALSE
    OBVIOUS
  <2>1. Logical = {}
    BY DEF Logical
  <2>2. Cardinality(CPUs) = 0
    BY <1>3, <2>1, FS_EmptySet
  <2> QED
    BY <2>2, FS_EmptySet, MachinesAssumption
<1>5. Control'
  BY <1>1, <1>4 DEF Control
<1>6. Counts'
  <2>1. Logical' = Logical /\ Cardinality(CPUs) \in Nat
    BY <1>1, FS_CardinalityType, MachinesAssumption DEF Logical
  <2> QED
    BY <1>1, <1>3, <2>1 DEF IInv, Counts, CountedOnce
<1>7. Exact'
  <2> SUFFICES ASSUME AllKnown' PROVE Exact'
    BY DEF Exact
  <2>1. AllKnown
    BY <1>1 DEF AllKnown, AlwaysOnline, PackagesKnown, TruePackages
  <2>2. Cored = CPUs /\ Cored' = CPUs /\ Seen = CPUs /\ Seen' = CPUs
        /\ \A c : CoreOf(c)' = CoreOf(c) /\ On(c)' = On(c)
    BY <1>1 DEF Cored, Seen, CoreOf, On, Die
  <2> QED
    BY <1>1, <2>1, <2>2 DEF IInv, Exact
<1> QED
  BY <1>2, <1>5, <1>6, <1>7 DEF IInv

\* A stanza counts only where sysfs had nothing to count.
LEMMA ApplyStanzaStep == IInv /\ ApplyStanza => IInv'
<1> SUFFICES ASSUME IInv, ApplyStanza PROVE IInv'
  OBVIOUS
<1> DEFINE physical == machine.cpuinfo = "physical"
           p  == IF physical /\ machine.package[Current] # Unknown
                 THEN machine.package[Current] ELSE 0
           id == <<NoDie, IF physical THEN machine.core[Current] ELSE Current>>
           row == Counted(Row(p), id)
<1>1. /\ phase = "cpuinfo" /\ todo # {} /\ ~MidCPU /\ ~MidCPU'
      /\ rows' = WithRow(p, row) /\ todo' = todo \ {Current}
      /\ UNCHANGED <<machine, online, events, phase, reading, core, package, available, processors>>
  BY DEF ApplyStanza, MidCPU
<1>2. Current \in todo /\ Current \in CPUs
  BY <1>1, LeastCPU DEF Current, IInv, Types, TypeOK
<1>3. p \in Nat /\ id \in Nat \X Nat
  BY <1>2, MachinesAssumption DEF IInv, Types, TypeOK, Machine, NoDie
<1>4. /\ Row(p) \in RowType /\ IsFiniteSet(Row(p).cores)
      /\ p \notin DOMAIN rows => Row(p).logical = 0 /\ Row(p).cores = {}
      /\ p \in DOMAIN rows => Row(p) = rows[p]
  BY RowFacts DEF IInv
<1>5. /\ available => row = Row(p)
      /\ ~available => /\ row.logical = Row(p).logical + 1
                       /\ row.cores = Row(p).cores \cup {id}
                       /\ row = [Row(p) EXCEPT !.logical = @ + 1, !.cores = @ \cup {id}]
  BY <1>4 DEF Counted, RowType
<1> HIDE DEF p, id, row
<1>6. row \in RowType /\ IsFiniteSet(row.cores)
  <2>1. CASE available
    BY <1>4, <1>5, <2>1
  <2>2. CASE ~available
    BY <1>3, <1>4, <1>5, <2>2, FS_AddElement DEF RowType
  <2> QED
    BY <2>1, <2>2
<1>7. /\ DOMAIN rows' = DOMAIN rows \cup {p} /\ rows'[p] = row
      /\ \A q \in DOMAIN rows : q # p => rows'[q] = rows[q]
      /\ rows' \in [DOMAIN rows' -> RowType] /\ IsFiniteSet(DOMAIN rows')
      /\ \A q \in DOMAIN rows' : q \in Nat /\ IsFiniteSet(rows'[q].cores)
  BY <1>1, <1>3, <1>6, RowSet DEF IInv
<1>8. Types'
  BY <1>1, <1>7 DEF IInv, Types, TypeOK, RowType
<1>9. Control'
  BY <1>1 DEF IInv, Control
<1>10. Counts'
  <2>1. IsFiniteSet(Logical') /\ (available => Logical' = Logical)
    BY <1>1, <1>3, <1>5, <1>6, LogicalPlus, LogicalSame DEF IInv, Counts
  <2>2. machine.sysfs => available
    BY <1>1 DEF IInv, Control
  <2>3. Cardinality(row.cores) <= row.logical
    <3>1. Cardinality(Row(p).cores) <= Row(p).logical
      BY <1>4, FS_EmptySet DEF IInv, Counts, CountedOnce
    <3>2. CASE available
      BY <1>5, <3>1, <3>2
    <3>3. CASE ~available
      <4>1. Cardinality(row.cores) \in Nat /\ Cardinality(Row(p).cores) \in Nat
            /\ Row(p).logical \in Nat
        BY <1>4, <1>6, FS_CardinalityType DEF RowType
      <4>2. \/ Cardinality(row.cores) = Cardinality(Row(p).cores)
            \/ Cardinality(row.cores) = Cardinality(Row(p).cores) + 1
        BY <1>4, <1>5, <3>3, FS_AddElement
      <4> QED
        BY <1>5, <3>1, <3>3, <4>1, <4>2
    <3> QED
      BY <3>2, <3>3
  <2>4. \A q \in DOMAIN rows' : Cardinality(rows'[q].cores) <= rows'[q].logical
    BY <1>7, <2>3 DEF IInv, Counts, CountedOnce
  <2> QED
    BY <1>1, <2>1, <2>2, <2>4 DEF IInv, Counts, CountedOnce
<1>11. Exact'
  <2> SUFFICES ASSUME AllKnown' PROVE Exact'
    BY DEF Exact
  <2>1. AllKnown /\ available /\ physical
    BY <1>1 DEF AllKnown, AlwaysOnline, PackagesKnown, TruePackages, IInv, Control, Types, TypeOK, Machine
  <2>2. p = machine.package[Current]
    BY <1>2, <2>1 DEF p, AllKnown, PackagesKnown, TruePackages
  <2>3. Cored = CPUs /\ Cored' = CPUs /\ Seen = CPUs /\ Seen' = CPUs
        /\ \A c : CoreOf(c)' = CoreOf(c) /\ On(c)' = On(c)
    BY <1>1 DEF Cored, Seen, CoreOf, On, Die
  <2>4. p \in DOMAIN rows
    BY <1>2, <2>1, <2>2, <2>3 DEF IInv, Exact
  <2>5. DOMAIN rows' = DOMAIN rows /\ \A q \in DOMAIN rows : rows'[q] = rows[q]
    BY <1>4, <1>5, <1>7, <2>1, <2>4
  <2>6. /\ DOMAIN rows = {machine.package[c] : c \in CPUs}
        /\ \A q \in DOMAIN rows :
             /\ rows[q].logical = Cardinality(CPUs \cap On(q))
             /\ rows[q].cores = {CoreOf(c) : c \in CPUs \cap On(q)}
    BY <2>1, <2>3 DEF IInv, Exact
  <2> QED
    BY <1>1, <2>3, <2>5, <2>6 DEF Exact
<1> QED
  BY <1>8, <1>9, <1>10, <1>11 DEF IInv

LEMMA MergeStep == IInv /\ Merge => IInv'
<1> SUFFICES ASSUME IInv, Merge PROVE IInv'
  OBVIOUS
<1>1. /\ phase = "cpuinfo" /\ phase' = "done" /\ processors' = Merged /\ ~MidCPU /\ ~MidCPU'
      /\ UNCHANGED <<machine, online, events, todo, reading, core, package, rows, available>>
  BY DEF Merge, MidCPU
<1>2. Types'
  BY <1>1 DEF IInv, Types, TypeOK
<1>3. Control'
  BY <1>1 DEF IInv, Control, Merged
<1>4. Counts'
  BY <1>1 DEF IInv, Counts, CountedOnce, Logical
<1>5. Exact'
  <2> SUFFICES ASSUME AllKnown' PROVE Exact'
    BY DEF Exact
  <2>1. AllKnown
    BY <1>1 DEF AllKnown, AlwaysOnline, PackagesKnown, TruePackages
  <2>2. Cored' = Cored /\ Seen' = Seen /\ \A c : CoreOf(c)' = CoreOf(c) /\ On(c)' = On(c)
    BY <1>1 DEF Cored, Seen, CoreOf, On, Die
  <2>3. /\ DOMAIN rows = {machine.package[c] : c \in Seen}
        /\ \A q \in DOMAIN rows :
             /\ rows[q].logical = Cardinality(Seen \cap On(q))
             /\ rows[q].cores = {CoreOf(c) : c \in Cored \cap On(q)}
    BY <2>1 DEF IInv, Exact
  <2>4. phase' # "topology" /\ ~MidCPU'
    BY <1>1
  <2>5. ASSUME NEW q \in DOMAIN rows'
        PROVE  /\ rows'[q].logical = Cardinality(Seen \cap On(q))'
               /\ rows'[q].cores = {CoreOf(c) : c \in Cored \cap On(q)}'
    <3>1. q \in DOMAIN rows /\ rows'[q] = rows[q]
      BY <1>1
    <3>2. (Seen \cap On(q))' = Seen \cap On(q)
      BY <2>2
    <3>3. {CoreOf(c) : c \in Cored \cap On(q)}' = {CoreOf(c) : c \in Cored \cap On(q)}
      BY <2>2
    <3> QED
      BY <2>3, <3>1, <3>2, <3>3
  <2>6. DOMAIN rows' = {machine'.package[c] : c \in Seen'}
    BY <1>1, <2>2, <2>3
  <2> QED
    BY <2>4, <2>5, <2>6 DEF Exact
<1> QED
  BY <1>2, <1>3, <1>4, <1>5 DEF IInv
LEMMA NextIInv == IInv /\ [Next]_vars => IInv'
<1> SUFFICES ASSUME IInv, [Next]_vars PROVE IInv'
  OBVIOUS
<1>1. CASE Next
  BY <1>1, HotPlugStep, ReadPackageStep, ReadCoreStep, ReadDieStep, ReadCpuinfoStep,
     ApplyStanzaStep, MergeStep DEF Next
<1>2. CASE UNCHANGED vars
  <2>1. UNCHANGED <<machine, online, events, phase, todo, reading, core, package, rows,
                    available, processors>>
    BY <1>2 DEF vars, collector
  <2>2. Types' /\ Counts'
    BY <2>1 DEF IInv, Types, TypeOK, Counts, CountedOnce, Logical, MidCPU
  <2>3. Control'
    BY <2>1 DEF IInv, Control, MidCPU, Merged
  <2>4. Exact'
    <3>1. /\ AllKnown' => AllKnown
          /\ Cored' = Cored /\ Seen' = Seen /\ MidCPU' = MidCPU /\ Current' = Current
          /\ \A c : CoreOf(c)' = CoreOf(c) /\ On(c)' = On(c)
      BY <2>1 DEF AllKnown, AlwaysOnline, PackagesKnown, TruePackages, Cored, Seen, MidCPU,
                  Current, CoreOf, On, Die
    <3>2. AllKnown =>
            /\ DOMAIN rows = {machine.package[c] : c \in Seen}
            /\ \A q \in DOMAIN rows :
                 /\ rows[q].logical = Cardinality(Seen \cap On(q))
                 /\ rows[q].cores = {CoreOf(c) : c \in Cored \cap On(q)}
            /\ MidCPU => package = machine.package[Current]
            /\ phase = "topology" /\ reading = "die" => core = <<NoDie, machine.core[Current]>>
      BY DEF IInv, Exact
    <3> QED
      BY <2>1, <3>1, <3>2, ZenonT(60) DEF Exact
  <2> QED
    BY <2>2, <2>3, <2>4 DEF IInv
<1> QED
  BY <1>1, <1>2

-------------------------------------------------------------------------------
\* The inductive invariant holds whichever CPUs go offline.
THEOREM Invariance == Spec => []IInv
<1> QED
  BY InitIInv, NextIInv, PTL DEF Spec

\* Type correctness: rows have natural numbers as package IDs and as counts,
\* whatever the kernel reports for a CPU whose package it does not know.
THEOREM TypeCorrect == Spec => []TypeOK
<1>1. IInv => TypeOK
  BY DEF IInv, Types
<1> QED
  BY <1>1, Invariance, PTL

\* Every CPU directory counts once, in one package, and the stanzas of cpuinfo
\* count none again; no package has more cores than logical processors.
THEOREM EveryCPUOnce == Spec => []CountedOnce
<1>1. IInv => CountedOnce
  BY DEF IInv, Counts
<1> QED
  BY <1>1, Invariance, PTL

\* On a machine whose CPUs stay online the rows are its packages, with the
\* logical processors and the cores each of them has.
THEOREM PackagesExact == Spec => []TopologyExact
<1>1. IInv => TopologyExact
  <2> SUFFICES ASSUME IInv, phase = "done", AlwaysOnline, PackagesKnown, machine.sysfs,
                      machine.cpuinfo # "plain"
               PROVE  /\ DOMAIN rows = TruePackages
                      /\ \A p \in TruePackages :
                           /\ rows[p].logical = Cardinality(On(p))
                           /\ machine.dies => Cardinality(rows[p].cores)
                                = Cardinality({<<machine.die[c], machine.core[c]>> : c \in On(p)})
    BY DEF TopologyExact
  <2>1. AllKnown /\ Seen = CPUs /\ Cored = CPUs /\ \A p : CPUs \cap On(p) = On(p)
    BY DEF AllKnown, Seen, Cored, MidCPU, On
  <2>2. /\ DOMAIN rows = TruePackages
        /\ \A p \in DOMAIN rows :
             /\ rows[p].logical = Cardinality(On(p))
             /\ rows[p].cores = {CoreOf(c) : c \in On(p)}
    BY <2>1 DEF IInv, Exact, TruePackages
  <2>3. ASSUME NEW p \in TruePackages, machine.dies
        PROVE  Cardinality(rows[p].cores)
                 = Cardinality({<<machine.die[c], machine.core[c]>> : c \in On(p)})
    <3> DEFINE A == {<<machine.die[c] + 1, machine.core[c]>> : c \in On(p)}
               B == {<<machine.die[c], machine.core[c]>> : c \in On(p)}
               f == [a \in A |-> <<a[1] - 1, a[2]>>]
    <3>1. \A c \in On(p) : machine.die[c] \in Nat /\ machine.core[c] \in Nat
      BY DEF On, IInv, Types, TypeOK, Machine
    <3>2. rows[p].cores = A
      BY <2>2, <2>3 DEF CoreOf, Die
    <3>3. IsFiniteSet(A)
      BY <2>2, <3>2 DEF IInv, Types
    <3>4. \A c \in On(p) : f[<<machine.die[c] + 1, machine.core[c]>>] = <<machine.die[c], machine.core[c]>>
      BY <3>1
    <3>5. f \in Injection(A, B)
      <4>1. f \in [A -> B]
        <5>1. \A a \in A : f[a] \in B
          <6> SUFFICES ASSUME NEW c \in On(p)
                       PROVE  f[<<machine.die[c] + 1, machine.core[c]>>] \in B
            OBVIOUS
          <6> QED
            BY <3>4
        <5> QED
          BY <5>1
      <4>2. \A a, b \in A : f[a] = f[b] => a = b
        BY <3>1
      <4> HIDE DEF f, A, B
      <4> QED
        BY <4>1, <4>2 DEF Injection, IsInjective
    <3>6. f \in Surjection(A, B)
      <4>1. f \in [A -> B]
        BY <3>5 DEF Injection
      <4>2. \A b \in B : \E a \in A : f[a] = b
        <5>1. ASSUME NEW b \in B PROVE \E a \in A : f[a] = b
          <6>1. PICK c \in On(p) : b = <<machine.die[c], machine.core[c]>>
            OBVIOUS
          <6>2. <<machine.die[c] + 1, machine.core[c]>> \in A
            OBVIOUS
          <6> HIDE DEF f, A, B
          <6> QED
            BY <3>4, <6>1, <6>2
        <5> QED
          BY <5>1
      <4> HIDE DEF f, A, B
      <4> QED
        BY <4>1, <4>2 DEF Surjection
    <3> HIDE DEF f, A, B
    <3>7. Cardinality(B) = Cardinality(A)
      BY <3>3, <3>5, <3>6, FS_Surjection
    <3> QED
      BY <3>2, <3>7 DEF B
  <2> QED
    BY <2>2, <2>3
<1> QED
  BY <1>1, Invariance, PTL
\* The rows in order, and the list they are merged into.
LEMMA MergedFacts ==
  Types =>
    \A n, ids, size :
      /\ n = Cardinality(DOMAIN rows) /\ ids = Ascending(DOMAIN rows)
      /\ size = IF n > machine.dmi THEN n ELSE machine.dmi
      =>
         /\ n \in Nat /\ machine.dmi \in Nat /\ size \in Nat /\ n <= size /\ machine.dmi <= size
         /\ ids \in [1..n -> DOMAIN rows] /\ \A p \in DOMAIN rows : \E i \in 1..n : ids[i] = p
         /\ DOMAIN Merged = 1..size
         /\ \A i \in 1..size : i <= n =>
              /\ Merged[i].row = TRUE /\ Merged[i].id = ids[i]
              /\ Merged[i].dmi = IF i <= machine.dmi THEN i ELSE 0
         /\ \A i \in 1..size : ~(i <= n) => Merged[i].row = FALSE /\ Merged[i].dmi = i
<1> HAVE Types
<1> TAKE n, ids, size
<1> HAVE /\ n = Cardinality(DOMAIN rows) /\ ids = Ascending(DOMAIN rows)
         /\ size = IF n > machine.dmi THEN n ELSE machine.dmi
<1>1. n \in Nat /\ machine.dmi \in Nat /\ IsFiniteSet(DOMAIN rows) /\ DOMAIN rows \in SUBSET Int
  BY FS_CardinalityType DEF Types, TypeOK, Machine
<1>2. ids \in [1..n -> DOMAIN rows] /\ \A i, j \in DOMAIN ids : i < j => ids[i] < ids[j]
  BY <1>1, AscendingExists DEF Ascending
<1>3. \A p \in DOMAIN rows : \E i \in 1..n : ids[i] = p
  BY <1>1, <1>2, AscendingOnto
<1>4. Len(ids) = n
  BY <1>1, <1>2
<1>5. size \in Nat /\ n <= size /\ machine.dmi <= size
  BY <1>1
<1>6. Merged = [i \in 1..size |->
           IF i <= n
           THEN [id |-> ids[i], row |-> TRUE, dmi |-> IF i <= machine.dmi THEN i ELSE 0,
                 logical |-> rows[ids[i]].logical, cores |-> Cardinality(rows[ids[i]].cores)]
           ELSE [id |-> i - 1, row |-> FALSE, dmi |-> i, logical |-> 0, cores |-> 0]]
  BY <1>4 DEF Merged
<1> QED
  BY <1>1, <1>2, <1>3, <1>5, <1>6

\* The merge loses neither a row nor a DMI record, and reports a record on its
\* own only when every row has one.
THEOREM MergeKeepsAll == Spec => []NothingDropped
<1>1. IInv => NothingDropped
  <2> SUFFICES ASSUME IInv, phase = "done" PROVE NothingDropped
    BY DEF NothingDropped
  <2> DEFINE n == Cardinality(DOMAIN rows)
             ids == Ascending(DOMAIN rows)
             size == IF n > machine.dmi THEN n ELSE machine.dmi
  <2>0. n = Cardinality(DOMAIN rows) /\ ids = Ascending(DOMAIN rows)
        /\ size = IF n > machine.dmi THEN n ELSE machine.dmi
    OBVIOUS
  <2> HIDE DEF n, ids, size
  <2>1. processors = Merged /\ Types
    BY DEF IInv, Control
  <2>2. /\ n \in Nat /\ machine.dmi \in Nat /\ size \in Nat /\ n <= size /\ machine.dmi <= size
        /\ ids \in [1..n -> DOMAIN rows] /\ \A p \in DOMAIN rows : \E i \in 1..n : ids[i] = p
        /\ DOMAIN processors = 1..size
        /\ \A i \in 1..size : i <= n =>
             /\ processors[i].row = TRUE /\ processors[i].id = ids[i]
             /\ processors[i].dmi = IF i <= machine.dmi THEN i ELSE 0
        /\ \A i \in 1..size : ~(i <= n) => processors[i].row = FALSE /\ processors[i].dmi = i
    <3>1. /\ n \in Nat /\ machine.dmi \in Nat /\ size \in Nat /\ n <= size /\ machine.dmi <= size
          /\ ids \in [1..n -> DOMAIN rows] /\ \A p \in DOMAIN rows : \E i \in 1..n : ids[i] = p
          /\ DOMAIN Merged = 1..size
          /\ \A i \in 1..size : i <= n =>
               /\ Merged[i].row = TRUE /\ Merged[i].id = ids[i]
               /\ Merged[i].dmi = IF i <= machine.dmi THEN i ELSE 0
          /\ \A i \in 1..size : ~(i <= n) => Merged[i].row = FALSE /\ Merged[i].dmi = i
      BY <2>0, <2>1, MergedFacts
    <3> QED
      BY <2>1, <3>1
  <2>3. size = n \/ (size = machine.dmi /\ n <= machine.dmi)
    BY <2>0, <2>2
  <2>4. {j \in DOMAIN processors : processors[j].row} = 1..n
    <3>1. \A j \in 1..size : processors[j].row <=> j \in 1..n
      BY <2>2
    <3>2. 1..n \subseteq 1..size
      BY <2>2
    <3> QED
      BY <2>2, <3>1, <3>2
  <2>5. {processors[i].id : i \in 1..n} = DOMAIN rows
    <3>1. \A i \in 1..n : i \in 1..size /\ i <= n
      BY <2>2
    <3>2. \A i \in 1..n : processors[i].id = ids[i] /\ ids[i] \in DOMAIN rows
      BY <2>2, <3>1
    <3>3. \A p \in DOMAIN rows : \E i \in 1..n : ids[i] = p
      BY <2>2
    <3> QED
      BY <3>2, <3>3
  <2>6. {processors[i].dmi : i \in DOMAIN processors} \ {0} = 1..machine.dmi
    <3>1. \A i \in 1..size : processors[i].dmi = 0 \/ processors[i].dmi \in 1..machine.dmi
      BY <2>2, <2>3
    <3>2. \A r \in 1..machine.dmi : r \in 1..size /\ r # 0 /\ processors[r].dmi = r
      BY <2>2
    <3> QED
      BY <2>2, <3>1, <3>2
  <2>7. Cardinality({i \in DOMAIN processors : processors[i].row}) = Cardinality(DOMAIN rows)
    <3>1. Cardinality(1..n) = n
      BY <2>2, FS_Interval
    <3> QED
      BY <2>0, <2>4, <3>1
  <2>8. \A i, j \in DOMAIN processors : processors[i].row /\ ~processors[j].row => processors[i].dmi # 0
    <3> SUFFICES ASSUME NEW i \in 1..size, NEW j \in 1..size, processors[i].row, ~processors[j].row
                 PROVE  processors[i].dmi # 0
      BY <2>2
    <3>1. i <= n /\ ~(j <= n)
      BY <2>2
    <3>2. i <= machine.dmi
      BY <2>2, <2>3, <3>1
    <3> QED
      BY <2>2, <3>1, <3>2
  <2> QED
    BY <2>4, <2>5, <2>6, <2>7, <2>8 DEF NothingDropped
<1> QED
  BY <1>1, Invariance, PTL

===============================================================================
