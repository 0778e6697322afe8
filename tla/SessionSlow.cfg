CONSTANTS
  Batches <- Full
  MaxHistory = 2
  MaxItems = 4
  Wanted = {"event", "metric"}
  BroadcastCap = 2
  SendBuffer = 3
  WarnEvery = 1
  DropLimit = 2
  MaxConnects = 2
  MaxRestarts = 1
SPECIFICATION Spec
CHECK_DEADLOCK FALSE
INVARIANTS TypeOK  NoGapInSession LossIsCounted
