SPECIFICATION Spec
CONSTANTS
  SectorSize = 4
  FirstFat = 1
  Clusters <- MCClusters
  Faults <- MCFaults
INVARIANTS Coherent
PROPERTY ServedFromTable
