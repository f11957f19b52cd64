CONSTANTS
  Callers = {c1, c2}
  Connections = {k1}
  NoConnection = NoConnection
  Failure = Failure
  Installer = Installer
  None = None
  Conns = {n1, n2}
  N = 2
  Hooks = 2
  MaxConnections = 1
  Kinds = {"local", "multicore"}
  MayDie = {1}
  Length = 6
  Window = 2
  MaxEdits = 3
  QuietPolls = 2
  Broken = {2}
SPECIFICATION MCSpec
INVARIANTS LifecycleIsSound AnswersMatchTheDatabase RelayIsSound RestartsAreSound
PROPERTIES BackoffIsRight WaitsEnd
CHECK_DEADLOCK FALSE
