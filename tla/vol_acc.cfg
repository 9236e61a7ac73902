SPECIFICATION Spec
CONSTANTS
    b1 = b1
    v1 = v1
    v2 = v2
    v3 = v3
    d1 = d1
    d2 = d2
    i1 = i1
    i2 = i2
    i3 = i3
    i12 = i12
    None = None
    NoObject = NoObject
    Bmcs <- MCBmcs
    Titles <- MCTitles
    Names <- MCNames
    NameOf <- MCNameOf
    Ids <- MCIds3
    DrivesOf <- MCDrivesOf
    Before <- MCSomeOrder
    Last <- MCLast
    Contains <- MCContains
    Setups <- MCSafety
INVARIANTS
    Inv
    ObjectsNameTheirVolume
PROPERTIES
    DropsOnlyLost
