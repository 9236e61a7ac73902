SPECIFICATION FairSpec
CONSTANTS
    v1 = v1
    v2 = v2
    p1 = p1
    p2 = p2
    None = None
    NoObject = NoObject
    Versions <- MCVersions
    Paths <- MCPaths
    FirstImage = p1
    Installs <- MCInstalls
    getImagePath <- MCGetImagePath
    Slots = {1, 2}
    Setups <- MCSetups
INVARIANTS
    Inv
PROPERTIES
    ImagesAreTried
    MachineReturns
    FirmwareFollows
\* Without a machine the operator has nothing to do.
CHECK_DEADLOCK FALSE
