SPECIFICATION FairMBSpec
CONSTANTS
  MaxLayers = 5
  MaxCpuLayers = 2
  MaxGroups = 3
  BuilderCount = 3
INVARIANTS MBTypeOK SplitIsPartition NothingOutOfRange ServedLayersBuilt WholeModelRuns
PROPERTIES BuildingEnds
