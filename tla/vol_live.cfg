SPECIFICATION FairSpec
CONSTANTS
    b1 = b1
    v1 = v1
    v2 = v2
    v3 = v3
    d1 = d1
    d2 = d2
    i1 = i1
    i2 = i2
    i3 = i3
    i12 = i12
    None = None
    NoObject = NoObject
    Bmcs <- MCBmcs
    Titles <- MCOneName
    Names <- MCOneName
    NameOf <- MCSameOne
    Ids <- MCIds4
    DrivesOf <- MCDrivesOne
    Before <- MCInOrder
    Last <- MCLastSame
    Contains <- MCContainsOne
    Setups <- MCLasting
PROPERTIES
    VolumesGetObjects
    LostVolumesComeBack
