SPECIFICATION FairSpec
CONSTANTS
    Capacity = 2
    Prices <- MCPrices
    Sizes = {0, 1}
    MaxSeq = 4
    MaxMissed = 1
    MaxDisconnects = 1
    MaxOnTheWay = 2
INVARIANTS BookIsExchanges
PROPERTIES GapBlocksUpdates GapIsClosed
