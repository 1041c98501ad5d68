\* rm of a bare name in a subdirectory.
CONSTANTS
  TotalBlocks = 6
  Reserved = 2
  InodeCount = 3
  BitmapBits = 6
  Names = {"a", "b"}
  DirectBlocks = 2
  EntriesPerBlock = 2
  InodesPerBlock = 2
  ChunksPerBlock = 2
  NewPaths <- RootNames
  OldPaths <- RootNames
  DirPaths <- BareDirs
  Sessions <- RemoveBelow
  Careful = FALSE
  Faults <- NoFaults
  MaxFaults = 0
SPECIFICATION Spec
PROPERTY RemovedIsGone
CHECK_DEADLOCK FALSE
