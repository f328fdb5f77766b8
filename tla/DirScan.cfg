CONSTANTS
  Files <- MCFiles
  Long <- MCLong
  Alias <- MCAlias
  Texts <- MCTexts
  Nul = Nul
  MaxPieces = 2
  Lower <- MCLower
  Wanted <- MCWanted
  Slots = 5
  PerSector = 2
  PerCluster = 4
  Faults <- MCFaults
SPECIFICATION Spec
PROPERTIES ScansDirectory FindAgrees
CHECK_DEADLOCK FALSE
