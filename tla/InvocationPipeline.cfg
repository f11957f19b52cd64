CONSTANTS
  Invocations = {i1, i2}
  N = 2
  Hooked = TRUE
SPECIFICATION FairSpec
INVARIANTS EveryValueIsTornDown LifetimesNest
PROPERTIES CleanupIsShielded SignalEndsInvocation
CHECK_DEADLOCK FALSE
