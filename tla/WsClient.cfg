SPECIFICATION FairSpec
CONSTANTS
    N = 5
    SizeMod = 10
    FrameLen <- MCFrameLen
    MaxFragments = 2
    MaxConnections = 3
    MaxFaults = 1
    MaxSends = 2
    MaxArrivals = 2
    MaxBeats = 1
    MaxReady = 2
    MaxEarly = 1
INVARIANTS StreamIntact NoLostWakeup OneReadOneWrite LoginFirst
PROPERTIES NoSpuriousTeardown Reconnects TxDrains
