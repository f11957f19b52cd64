CONSTANTS
  Owned = FALSE
  MaxBatch = 2
  MaxRequests = 3
  MaxBody = 1
  MaxUnits = 7
SPECIFICATION FairSpec
INVARIANTS AnsweredInOrder NothingIsHeldBack CloseIsFinal
PROPERTY ShutdownCloses
CHECK_DEADLOCK FALSE
