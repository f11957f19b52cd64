CONSTANTS
  Owned = FALSE
  MaxBatch = 2
  MaxRequests = 3
  MaxBody = 1
  MaxUnits = 4
SPECIFICATION Spec
INVARIANT TasksAfterBody
CHECK_DEADLOCK FALSE
