CONSTANTS
  Length = 6
  Window = 2
  Failure = Failure
SPECIFICATION UploadSpec
INVARIANT EndMeansWhole
CHECK_DEADLOCK FALSE
