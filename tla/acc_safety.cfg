SPECIFICATION Spec
CONSTANTS
    h1 = h1  h2 = h2
    a1 = a1  a2 = a2  b1 = b1
    None = None  NoObject = NoObject
    Hosts <- MCHosts
    Ids <- MCIds
    HostOf <- MCHostOf
    Supported = {h1}
    Handlers = {e1, e2}
    e1 = e1  e2 = e2
    Disturbances <- MCAllKinds
    MaxDisturbances = 3
INVARIANT AddedObjectsAreComplete Inv
PROPERTY UnregisterOnlyDeleted ImplementsLifecycle
