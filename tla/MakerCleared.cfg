CONSTANTS
  MaxOrders = 2
  Lots = 1
  MaxEvents = 2
  MaxTroubles = 2
SPECIFICATION Spec
INVARIANT ClearedIsGone
CHECK_DEADLOCK FALSE
