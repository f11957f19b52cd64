CONSTANTS
  Bodies <- LongHeaders
  MaxChunk = 3
  MaxHeader = 4
  MaxParts = 2
SPECIFICATION Spec
INVARIANT LimitsAreShared
CHECK_DEADLOCK FALSE
