SPECIFICATION LiveSpec
CONSTANTS
  Clusters <- MCClusters
  Values <- MCValues
  NoCluster = NoCluster
  Zero = 0
  Faults <- MCFaults
  TotalClusters = 3
  Eoc = 7
  Top = 7
  SectorsPerCluster = 2
  SectorSize = 2
  FirstDataSector = 3
  RootSector = 1
  RootSectors = 2
  Word = 18
  Offsets = 18
  ImageSize = 16
  EndPlaces = {0, 12}
  Sizes <- MCSizes
  Tables <- FewTables
INVARIANTS ReadsChain
PROPERTIES ReadShort FreeCounted CallsAdvance CallsReturn
