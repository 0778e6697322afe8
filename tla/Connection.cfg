CONSTANTS
  Sockets = {s1, s2}
  Channel = "blocks"
  Specs <- AllSpecs
  Requests <- TwoRequests
  Items <- SomeItems
  BaseFilter <- NoFilter
  MaxAttempts = 2
  MaxInFlight = 1
  MaxFaults = 1
SPECIFICATION FairSpec
CHECK_DEADLOCK FALSE
INVARIANTS TypeOK ClientsCounted SubscriptionInForce SingleConnection DisconnectStays
PROPERTIES DeadLinkNoticed ComesBack SessionEnds
