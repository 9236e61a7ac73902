SPECIFICATION RevSpec
CONSTANTS
    h1 = h1  h2 = h2
    a1 = a1  a2 = a2  a3 = a3  a4 = a4  b1 = b1  b2 = b2  b3 = b3  b4 = b4
    None = None  NoObject = NoObject
    Hosts <- MCHosts
    Ids <- MCIds
    HostOf <- MCHostOf
    Supported <- MCHosts
    Handlers = {e1, e2}
    e1 = e1  e2 = e2
    Disturbances <- MCAllKinds
    MaxDisturbances = 3
INVARIANT RevInv ObjectsNameTheirMachine ManagedObjectsAreComplete
PROPERTY ImplementsLifecycle
