SPECIFICATION Spec
CONSTANTS
    h1 = h1  h2 = h2
    a1 = a1  a2 = a2  b1 = b1
    None = None  NoObject = NoObject
    Hosts <- MCHosts
    Ids <- MCIds
    HostOf <- MCHostOf
    Supported <- MCHosts
    Handlers = {e1}
    e1 = e1
    Disturbances <- MCEvent
    MaxDisturbances = 2
INVARIANT MarkedSystemsAreGone
