CONSTANTS
  s1 = s1 s2 = s2
  Streams = {s1, s2}
  MaxBody = 1
  MaxData = 2
SPECIFICATION Spec
INVARIANTS CreditIsRight StreamsEndQuietly
CHECK_DEADLOCK FALSE
