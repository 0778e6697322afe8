CONSTANTS
  Batches <- Mixed
  MaxHistory = 3
  MaxItems = 4
  Wanted = {"event", "metric"}
  BroadcastCap = 9
  SendBuffer = 9
  WarnEvery = 9
  DropLimit = 9
  MaxConnects = 2
  MaxRestarts = 0
SPECIFICATION Spec
CHECK_DEADLOCK FALSE
INVARIANT MetricsNotLost
