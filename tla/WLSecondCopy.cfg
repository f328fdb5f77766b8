SPECIFICATION Spec
CONSTANTS
  Pages = 2
  PageSize = 1
  Data <- MCData
  Erased = "erased"
  Faults = {}
INVARIANT EitherCopyReadsVolume
CHECK_DEADLOCK FALSE
