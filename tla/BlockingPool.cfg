CONSTANTS
  Calls = {c1, c2, c3}
  Workers = {w1, w2}
  Capacity = 1
  None = None
SPECIFICATION FairSpec
INVARIANTS NobodyIsStranded
PROPERTIES ImplementsJobPool PoolDrains
CHECK_DEADLOCK FALSE
