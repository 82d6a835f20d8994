--------------------------- MODULE WindowsInventory ---------------------------
(****************************************************************************)
(* Discover on Windows (src/discover_windows.go): one section after the      *)
(* other, each from the queries of its own classes, with WindowsStorage as    *)
(* the section of the disks.                                                  *)
(*                                                                          *)
(* A row is the set of its properties that are known.  An attribute of the    *)
(* report is represented by the class its value comes from.                   *)
(****************************************************************************)
EXTENDS WindowsStorage

CONSTANT
    Computers   \* groups: machines, events that cannot happen any more, and rows
                \* of the other classes

SystemClasses ==
    <<"Win32_ComputerSystem", "Win32_ComputerSystemProduct", "Win32_SystemEnclosure",
      "Win32_BaseBoard", "Win32_BIOS">>
EntityClasses == {"Win32_Processor", "Win32_NetworkAdapter", "Win32_VideoController"}
OtherClasses == ToSet(SystemClasses) \cup {"Win32_PhysicalMemory"} \cup EntityClasses

ASSUME ComputersAssumption ==
    \A g \in Computers :
      /\ \A m \in g.machines : Machine(m)
      /\ g.over \in 0..MaxEvents
      /\ g.rows \subseteq [OtherClasses -> Seq(SUBSET STRING)]

VARIABLES
    rows,           \* the rows of each of the other classes
    unanswered,     \* the other classes whose query failed
    section,        \* the class to be queried next, or "disks" or "done"
    system,         \* the attributes of the system, by the class each is from
    installed,      \* installedPhysicalBytes: is it known
    memory,         \* nothing, or where its total is from and its modules
    entities        \* processors, adapters and GPUs: their rows and what their ID is

inventoryVars == <<rows, unanswered, section, system, installed, memory, entities>>
vars == <<storageVars, inventoryVars>>

Init ==
    /\ \E g \in Computers :
         StorageInit(g.machines, g.over) /\ rows \in g.rows
    /\ unanswered = {} /\ section = SystemClasses[1]
    /\ system = << >> /\ installed = FALSE /\ memory = << >>
    /\ entities = [c \in EntityClasses |-> {}]

-------------------------------------------------------------------------------
\* A query that fails or panics leaves its class without rows.
Answer(class) ==
    {<<FALSE, rows[class]>>} \cup (IF class \in machine.reliable THEN {} ELSE {<<TRUE, << >>>>})

\* The class to be queried next; the disks have a sequence of their own.
Turn == IF section = "disks" /\ phase = "done" THEN "Win32_NetworkAdapter" ELSE section

Answered(class, failure, next) ==
    /\ Turn = class /\ section' = next
    /\ unanswered' = IF failure THEN unanswered \cup {class} ELSE unanswered
    /\ UNCHANGED <<storageVars, rows>>

\* collectSystem: the first row of each class; an attribute that is known stays.
QuerySystem ==
    \E i \in DOMAIN SystemClasses : LET class == SystemClasses[i] IN
      \E a \in Answer(class) :
        /\ Answered(class, a[1],
                    IF i = Len(SystemClasses) THEN "Win32_PhysicalMemory" ELSE SystemClasses[i + 1])
        /\ LET row == IF a[2] = << >> THEN {} ELSE a[2][1]
           IN  /\ system' = [k \in DOMAIN system \cup (row \ {"total"}) |->
                               IF k \in DOMAIN system THEN system[k] ELSE class]
               /\ installed' = (installed \/ "total" \in row)
        /\ UNCHANGED <<memory, entities>>

\* Slip: without modules there is no memory.
MemorySlipQuery(failure, answer) ==
    LET modules == {i \in DOMAIN answer : answer[i] # {}}
        total   == IF installed THEN "stated"
                   ELSE IF \E i \in DOMAIN answer : "capacity" \in answer[i] THEN "sum" ELSE "none"
    IN  IF failure \/ (total = "none" /\ modules = {}) THEN << >>
        ELSE <<[total |-> total, modules |-> modules]>>

\* collectMemory, with the total collectSystem has found.
Memory(failure, answer) ==
    LET modules == {i \in DOMAIN answer : answer[i] # {}}
        total   == IF installed THEN "stated"
                   ELSE IF \E i \in DOMAIN answer : "capacity" \in answer[i] THEN "sum" ELSE "none"
    IN  IF total = "none" /\ modules = {} THEN << >>
        ELSE <<[total |-> total, modules |-> modules]>>

QueryMemory ==
    \E a \in Answer("Win32_PhysicalMemory") :
      /\ Answered("Win32_PhysicalMemory", a[1], "Win32_Processor")
      /\ memory' = Memory(a[1], a[2])
      /\ UNCHANGED <<system, installed, entities>>

\* The properties an ID is taken from, the first one first.
IdProperties ==
    [Win32_Processor       |-> <<"DeviceID", "ProcessorId">>,
     Win32_NetworkAdapter  |-> <<"GUID", "PNPDeviceID", "DeviceID">>,
     Win32_VideoController |-> <<"PNPDeviceID", "DeviceID">>]
After ==
    [Win32_Processor |-> "disks", Win32_NetworkAdapter |-> "Win32_VideoController",
     Win32_VideoController |-> "done"]

\* collectProcessors, collectNetworkAdapters, collectGPUs: rows with an ID, of
\* adapters only those that say they are physical.
Entities(class, answer) ==
    LET names == IdProperties[class]
        Known(row) == {n \in DOMAIN names : names[n] \in row}
    IN  {[row |-> i, id |-> names[Min(Known(answer[i]))]] :
           i \in {i \in DOMAIN answer :
                    /\ Known(answer[i]) # {}
                    /\ class = "Win32_NetworkAdapter" => "PhysicalAdapter" \in answer[i]}}

QueryEntities ==
    \E class \in EntityClasses : \E a \in Answer(class) :
      /\ Answered(class, a[1], After[class])
      /\ entities' = [entities EXCEPT ![class] = Entities(class, a[2])]
      /\ UNCHANGED <<system, installed, memory>>

\* collectDisks.
Disks ==
    /\ Turn = "disks" /\ (HotPlug \/ Relabel \/ Collect)
    /\ UNCHANGED inventoryVars

Next == QuerySystem \/ QueryMemory \/ QueryEntities \/ Disks

Spec == Init /\ [][Next]_vars

-------------------------------------------------------------------------------
TypeOK ==
    /\ StorageTypeOK
    /\ unanswered \subseteq OtherClasses \ machine.reliable
    /\ section \in OtherClasses \cup {"disks", "done"}
    /\ \A k \in DOMAIN system : system[k] \in ToSet(SystemClasses)
    /\ installed \in BOOLEAN /\ Len(memory) <= 1
    /\ \A c \in EntityClasses : \A e \in entities[c] : e.row \in DOMAIN rows[c]

\* The rows that can be known of.
Available(class) == IF class \in unanswered THEN << >> ELSE rows[class]

\* The classes of the system that tell k, by their place in the order.
Telling(k) ==
    {i \in DOMAIN SystemClasses :
       Available(SystemClasses[i]) # << >> /\ k \in Available(SystemClasses[i])[1]}

\* The inventory shows whatever the queries that succeeded tell: an attribute of
\* the system from the first of its classes that knows it, the memory a system
\* says it has although its modules cannot be queried, or the modules although
\* the system does not say, and each entity that has an ID.  A section of which
\* nothing is known is omitted.
InventoryShowsTheAvailable ==
    section = "done" =>
      /\ DOMAIN system = {k \in (UNION {UNION ToSet(rows[c]) : c \in ToSet(SystemClasses)}) \ {"total"} :
                            Telling(k) # {}}
      /\ \A k \in DOMAIN system : system[k] = SystemClasses[Min(Telling(k))]
      /\ LET known   == Available("Win32_PhysicalMemory")
             modules == {i \in DOMAIN known : known[i] # {}}
             sized   == \E i \in modules : "capacity" \in known[i]
         IN  /\ (memory = << >>) <=> (Telling("total") = {} /\ modules = {})
             /\ memory # << >> =>
                  /\ memory[1].modules = modules
                  /\ memory[1].total =
                       IF Telling("total") # {} THEN "stated" ELSE IF sized THEN "sum" ELSE "none"
      /\ \A c \in EntityClasses :
           {e.row : e \in entities[c]} =
             {i \in DOMAIN Available(c) :
                /\ Available(c)[i] \cap ToSet(IdProperties[c]) # {}
                /\ "PhysicalAdapter" \in Available(c)[i] \/ c # "Win32_NetworkAdapter"}
===============================================================================
