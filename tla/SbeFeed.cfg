SPECIFICATION FairSpec
CONSTANTS
    Capacity = 2
    Tops <- MCTops
    Noise <- MCNoise
    kMinExponent <- MCMinExponent
    kMaxExponent = 1
    Threshold = 2
    Unit = 100
    MaxSeq = 2
    MaxDisconnects = 1
    MaxRestarts = 1
    MaxOnTheWay = 2
INVARIANTS BookIsTop MidFollowsTop
PROPERTIES CatchesUp
CHECK_DEADLOCK FALSE
