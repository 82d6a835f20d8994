SPECIFICATION Spec
CONSTANTS
    Directories <- MCDirectories
    Parent <- MCParent
    Has <- MCHas
    Ids <- MCIds
    Interfaces <- MCInterfaces
    Cards <- MCCards
    Devices <- MCDevices
    Machines <- MCMachines
    MaxEvents = 2
INVARIANTS TypeOK NamesFromOwnSection SteadyDevicesListedOnce AttributesOfOneDevice
CHECK_DEADLOCK FALSE
