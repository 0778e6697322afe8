CONSTANTS
  a = a
  b = b
  c = c
  d = d
  Zero = Zero
  Hash = {a, b, c}
  Number = {1, 2, 3}
  NumberOf <- MCNumberOf
  MaxCompleted = 1
  Time = {0}
  MaxTxns = 1
  MaxMissed = 2
SYMMETRY Interchangeable
SPECIFICATION ChainSpec
CHECK_DEADLOCK FALSE
INVARIANTS FinalityIsTrue PublishedIsCurrent TxnsOfTheirBlock ActiveReachable ReadersSeePublished IndexSound
