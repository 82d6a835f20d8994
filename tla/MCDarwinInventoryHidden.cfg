SPECIFICATION InventorySpec
CONSTANTS
    Media <- MCMedia
    Registries <- MCRegistries
    Interrupted = TRUE
    FirstCapacity = 4
    Characters <- MCCharacters
    Scripts <- MCScripts
    PciVendor <- MCPciVendor
    SearchDepth = 3
    Computers <- MCComputers
INVARIANT KnownIsReported
CHECK_DEADLOCK FALSE
