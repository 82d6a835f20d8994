SPECIFICATION InventorySpec
CONSTANTS
    Media <- MCMedia
    Registries <- MCRegistries
    Interrupted = TRUE
    FirstCapacity = 4
    Characters <- MCCharacters
    Scripts <- MCScripts
    PciVendor <- MCPciVendor
    SearchDepth = 3
    Computers <- MCComputers
INVARIANTS
    TypeOK VolumesOnTheirPartition NothingMissing
    AdaptersTypeOK InsideAllocation RoundTrip AdaptersAreInterfaces GpusAreControllers
CHECK_DEADLOCK FALSE
