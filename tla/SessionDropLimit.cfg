CONSTANTS
  Batches <- Full
  MaxHistory = 4
  MaxItems = 4
  Wanted = {"event", "metric"}
  BroadcastCap = 9
  SendBuffer = 2
  WarnEvery = 9
  DropLimit = 2
  MaxConnects = 2
  MaxRestarts = 0
SPECIFICATION Spec
CHECK_DEADLOCK FALSE
INVARIANT SlowClientDisconnected
