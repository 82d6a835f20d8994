SPECIFICATION Spec
CONSTANTS
    Devices = {1, 2}
    Slots = {0, 1}
    Computers <- MCComputers
    MaxEvents = 2
    Volumes = {1, 2}
    Letters = {"C", "D"}
INVARIANTS TypeOK OneDevice FailureOmitsOnlyItsData InventoryShowsTheAvailable
PROPERTY BaseRemains
CHECK_DEADLOCK FALSE
