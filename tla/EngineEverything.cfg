SPECIFICATION FairSpec
CONSTANTS
  MaxOrders = 2
  MaxLeftover = 1
  StoreCapacity = 2
  MaxOpenOrders = 1
  MaxDisconnects = 1
  MaxRestErrors = 1
  MaxRequests = 2
  MaxPushes = 1
INVARIANTS
  IInv
  NoIllegalTransition
  NoPhantomAcknowledgement
PROPERTIES
  LoginAlignsStore
  DroppedOnlyIfNotPending
  NeverRegresses
  KnownOrdersCancelledByKill
  DeadPendingOrdersAreDropped
CHECK_DEADLOCK FALSE
