--------------------------- MODULE MCLinuxProcessors ---------------------------
(* Every machine with the given CPUs over small sets of IDs. *)
EXTENDS LinuxProcessors

CONSTANTS PackageIDs, DieIDs, CoreIDs, MaxDMI

\* The packages are all known or all unknown, and dies are told or all zero.
MCMachines ==
    {m \in [package : [CPUs -> PackageIDs \cup {Unknown}], die : [CPUs -> DieIDs],
            core : [CPUs -> CoreIDs], sysfs : BOOLEAN, dies : BOOLEAN,
            cpuinfo : {"physical", "plain", "unreadable"}, dmi : 0..MaxDMI] :
       /\ \A c, d \in CPUs : m.package[c] = Unknown <=> m.package[d] = Unknown
       /\ m.dies \/ \A c \in CPUs : m.die[c] = Least(DieIDs)}
===============================================================================
