SPECIFICATION NavSpec
CONSTANTS
  n1 = n1
  n2 = n2
  n3 = n3
  n4 = n4
  n5 = n5
  Null = Null
  Addr <- MCAddr
  Name <- MCName
  Entry <- MCEntry
  RootEntry = "/"
  Dirs <- MCDirs
  Contents <- MCContents
  Paths <- MCPaths
  UserPaths <- MCUserPaths
  TabDirs <- MCTabDirs
  Faults <- MCFaults
SYMMETRY Symmetry
INVARIANTS CwdIsPrompt ResultsLive
PROPERTIES DriverContract CdGoesThere CatReadsNamed
CHECK_DEADLOCK FALSE
