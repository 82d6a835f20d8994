SPECIFICATION Spec
CONSTANTS
    Devices <- MCDevices
    Parent <- MCParent
    Virtual = {6}
    MaxEvents = 3
INVARIANTS TypeOK LocationsMatch StableDevicesReported
CHECK_DEADLOCK FALSE
