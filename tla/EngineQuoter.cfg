SPECIFICATION Spec
CONSTANTS
  MaxOrders = 3
  MaxLeftover = 0
  StoreCapacity = 3
  MaxOpenOrders = 0
  MaxDisconnects = 1
  MaxRestErrors = 0
  MaxRequests = 1
  MaxPushes = 1
INVARIANTS
  QuoterTracksStore
PROPERTIES
  NoPlacementAfterKill
CHECK_DEADLOCK FALSE
