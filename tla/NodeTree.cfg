SPECIFICATION Spec
CONSTANTS
  n1 = n1
  n2 = n2
  n3 = n3
  n4 = n4
  n5 = n5
  Null = Null
  Addr <- MCAddr
  Name <- MCName
  Entry <- MCEntry
  RootEntry = "/"
  Dirs <- MCDirs
  Contents <- MCContents
  Paths <- MCPaths
  Faults <- AllFaults
SYMMETRY Symmetry
INVARIANTS Shape NoNodeLost HandlesLive Standing
PROPERTIES ListingExact FindResolvesPath
CHECK_DEADLOCK FALSE
