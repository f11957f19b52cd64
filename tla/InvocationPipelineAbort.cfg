CONSTANTS
  Invocations = {i1}
  N = 2
  Hooked = TRUE
SPECIFICATION Spec
INVARIANT CreatedIsFinalized
CHECK_DEADLOCK FALSE
