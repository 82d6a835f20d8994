SPECIFICATION Spec
CONSTANTS
    Header = 2
    Wanted = 1
    End = 3
    SizeAt = 2
    LocationAt = 4
    ExtendedAt = 5
    MinModule = 5
    Base = 16
    Kilo = 2
    MaxInt = 511
    MinBlob = 4
    Least = 3
    ScanLimit = 14
    MaxCandidates = 4
    Machines <- MCMachines
INVARIANTS TypeOK RecordsAreTheStructures OnlyMalformedLost ModulesAreSockets TotalWholeOrOmitted NothingKnownOmitted
CHECK_DEADLOCK FALSE
