SPECIFICATION FilesSpec
CONSTANTS
  NumChunks = 2
  NoFile = NoFile
  MaxAttempts = 2
  MaxFaults = 2
  NumItems = 2
  Pinned = pinned
  Own = own
  Foreign = foreign
  ExpertAlignment = 2
  TableAlignment = 2
  GateUpTile <- MCGateUp
  DownTile <- MCDown
  Layers <- MCLayers
  DefaultAlignment = 2
  ProbeLength = 400
  BatchBlocks = 3
  MaxDims = 3
  MaxWord = 1000
  Block <- MCBlock
  ExtentAlignment = 2
  NumPlanes = 2
  RoutedDims <- MCRoutedDims
  Subjects <- MCSubjects
\* A picked subject is the end.
CHECK_DEADLOCK FALSE
INVARIANT
  TiledContainersOpen
