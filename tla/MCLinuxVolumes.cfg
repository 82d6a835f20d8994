SPECIFICATION Spec
CONSTANTS
    NBlocks = 4
    Inputs <- MCInputs
    Exact = 16
    Rooms = {0, 1, 2}
    Paths = 2
    MaxLines = 3
    Lowers = {{1, 2}, {2}, {3}, {4}, {}}
    Usages = {"", "other"}
    Repeats = FALSE
INVARIANTS TypeOK VolumesExact MountPointsExact
PROPERTIES OtherPartitionsUntouched
CHECK_DEADLOCK FALSE
