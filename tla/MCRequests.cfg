CONSTANTS
  Messages = {m1, m2}
  Workers = {w1, w2}
  Policy <- ThreeTries
  Width = 3
  MaxDuration = 4
  MaxStops = 1
  MaxExpiries = 1
  None = None
  Requests = {"r1", "r2"}
  Chains <- MCChains
  Keys = {"k1", "k2", "k3"}
  Capacity = 2
  Period = 2
  MaxKeys = 2
  IdleTtl = 2
  Budget = 1
  MaxTime = 5
  Nil = Nil
  Processes = {"old", "new", "other"}
  Versions = {1, 2, 3}
  NoVersion = NoVersion
  SetOf <- MCSetOf
  SumOf <- MCSumOf
  MaxRuns = 2
  FrameLists <- MCFrameLists
  Misread <- MCMisread
  Reads = {1, 7, 16}
  MaxMessage = 4
  MaxSends = 1
SPECIFICATION MCSpec
INVARIANTS StatesAreSound MetricsBalance RequestsAreUnderstood SessionIsOrderly MatchingIsRight MigrationsAgree BuildIsSound MessagesAreSafe
PROPERTIES ImplementsTokenBuckets DeliveredInTurn
CHECK_DEADLOCK FALSE
