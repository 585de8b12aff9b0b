SPECIFICATION Spec
CONSTANTS
    v1 = v1
    v2 = v2
    v3 = v3
    v4 = v4
    v5 = v5
    Images <- MCImages
    Bootable <- MCBootable
    Healthy <- MCHealthy
    Len <- MCLen
    NoImage = NoImage
    Torn = Torn
    Blank = Blank
    Garbage = Garbage
    AppBlocks = 3
    CandFirst = 1
    CandLast = 2
    GoodFirst = 3
    GoodLast = 4
    MaxCrashes = 2
    MaxGlitches = 0
    MaxFaults = 0
INVARIANTS
    NeverHangsBesideGoodImage
