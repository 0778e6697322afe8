CONSTANTS
  Item = {x, y, z, w}
  Capacity = 2
  MaxTotal = 12
SYMMETRY Interchangeable
SPECIFICATION Spec
INVARIANTS TypeOK CountWithinRounds HeavyHittersTracked
