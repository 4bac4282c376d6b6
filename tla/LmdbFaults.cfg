CONSTANTS
    k1 = k1
    k2 = k2
    k3 = k3
    i1 = i1
    i2 = i2
    NoKey = NoKey
    None = None
    Keys <- MCKeys
    Ids <- MCIds
    InitialSize = 2
    Tightness = {TRUE, FALSE}
    MaxFaults = 2
SPECIFICATION FairSpec
INVARIANTS StoredIfSuccess FullMapOnlyRefuses
PROPERTY PutDbEnds
