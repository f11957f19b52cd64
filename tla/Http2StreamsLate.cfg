CONSTANTS
  s1 = s1
  Streams = {s1}
  MaxBody = 2
  MaxData = 2
SPECIFICATION Spec

PROPERTY LateDataIsDiscarded
CHECK_DEADLOCK FALSE
