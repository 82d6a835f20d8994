SPECIFICATION Spec
CONSTANTS
    Devices <- MCDevices
    Parent <- MCParent
    Virtual = {6}
    MaxEvents = 3
INVARIANT DisksArePhysical
CHECK_DEADLOCK FALSE
