CONSTANTS
  Batches <- EventOnly
  MaxHistory = 3
  MaxItems = 3
  Wanted = {"event", "metric"}
  BroadcastCap = 9
  SendBuffer = 9
  WarnEvery = 9
  DropLimit = 9
  MaxConnects = 2
  MaxRestarts = 1
SPECIFICATION Spec
CHECK_DEADLOCK FALSE
PROPERTY RestartGivesSnapshot
