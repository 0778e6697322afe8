CONSTANTS
  a = a
  b = b
  c = c
  Zero = Zero
  Hash = {a, b}
  Number = {1}
  NumberOf <- MCNumberOf
  MaxCompleted = 0
  Time = {0, 1, 3}
  MaxTxns = 1
SYMMETRY Interchangeable
SPECIFICATION Spec
INVARIANTS TypeOK FeedMatchesTracker AgeIsSumOfStages
 
