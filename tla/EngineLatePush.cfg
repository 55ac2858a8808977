SPECIFICATION Spec
CONSTANTS
  MaxOrders = 3
  MaxLeftover = 0
  StoreCapacity = 3
  MaxOpenOrders = 2
  MaxDisconnects = 1
  MaxRestErrors = 0
  MaxRequests = 0
  MaxPushes = 1
INVARIANTS
  LatePushesNeverThrow
CHECK_DEADLOCK FALSE
