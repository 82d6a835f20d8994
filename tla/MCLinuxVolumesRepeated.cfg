SPECIFICATION Spec
CONSTANTS
    NBlocks = 4
    Inputs <- MCInputs
    Exact = 16
    Rooms = {0, 1, 2}
    Paths = 2
    MaxLines = 3
    Lowers = {{1, 2}, {3}}
    Usages = {"other"}
    Repeats = TRUE
INVARIANT MountPointsExact
CHECK_DEADLOCK FALSE
