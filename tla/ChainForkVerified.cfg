CONSTANTS
  a = a
  b = b
  c = c
  d = d
  Zero = Zero
  Hash = {a, b, c}
  Number = {1, 2, 3}
  NumberOf <- MCNumberOf
  MaxCompleted = 1
  Time = {0}
  MaxTxns = 0
  MaxMissed = 0
SYMMETRY Interchangeable
SPECIFICATION ChainSpec
CHECK_DEADLOCK FALSE
INVARIANT NoMisattribution
