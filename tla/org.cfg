SPECIFICATION Spec
CONSTANTS
    m1 = m1
    m2 = m2
    None = None
    Machines <- MCMachines
    Dotted = {m2}
    Specs <- MCSpecs
    Disturbances = {"remove", "create", "annotate", "add", "fault"}
    MaxDisturbances = 2
INVARIANT
    StatusTellsSpec
PROPERTY
    AskedIsSubscribed
\* A request is made, refused or ends the process.
CHECK_DEADLOCK FALSE
