CONSTANTS
  Slots <- AllSlots
  Feeds <- TwoBlocks
  RingCap = 4
  PayloadCap = 3
  QueueCap = 2
  TableSize = 2
  TopSlots = 1
  TopContracts = 1
  TopEdges = 1
SPECIFICATION FairSpec
CHECK_DEADLOCK FALSE
INVARIANTS TypeOK Accounted HashOfItsTransaction ContentionOfItsBlock StretchAccumulated TpsIsWindow TxnsCounted
PROPERTIES  DeadForwarderEnds
