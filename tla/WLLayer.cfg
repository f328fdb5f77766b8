SPECIFICATION Spec
CONSTANTS
  Pages = 3
  PageSize = 1
  Data <- MCData
  Erased = "erased"
  Faults <- MCFaults
INVARIANTS NeverRefused FirstCopyReadsVolume ReadAnswers OneToOne
CHECK_DEADLOCK FALSE
