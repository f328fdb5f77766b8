CONSTANTS
  Word = 65536
  EntrySize = 32
  Fat12End = 3
  Fat16End = 6
  SectorSize = 512
  Candidates = {4096, 512}
  PageUnit = 512
  HeaderSize = 64
  ConfigSize = 36
  Images <- MCImages
  NoLayout = NoLayout
  NoConfig = NoConfig
SPECIFICATION Spec
INVARIANTS ReadsFormatted ClustersInVolume AreasApart RecordsInCopy
CHECK_DEADLOCK FALSE
