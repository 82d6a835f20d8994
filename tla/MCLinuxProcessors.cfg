SPECIFICATION Spec
CONSTANTS
    CPUs = {0, 1, 2}
    Machines <- MCMachines
    MaxEvents = 1
    PackageIDs = {0, 3}
    DieIDs = {0, 1}
    CoreIDs = {0, 1}
    MaxDMI = 3
INVARIANTS TypeOK CountedOnce TopologyExact NothingDropped
CHECK_DEADLOCK FALSE
