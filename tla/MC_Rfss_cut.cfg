\* Power cuts, and formats of the mounted drive that fail or are cut, in one
\* session; removals in the next.
CONSTANTS
  TotalBlocks = 6
  Reserved = 2
  InodeCount = 3
  BitmapBits = 6
  Names = {"a", "b"}
  DirectBlocks = 3
  EntriesPerBlock = 1
  InodesPerBlock = 2
  ChunksPerBlock = 2
  NewPaths <- RootNames
  OldPaths <- RootAndBelow
  DirPaths <- NoDirs
  Sessions <- FormatOrCut
  Careful = TRUE
  Faults <- FormatFaults
  MaxFaults = 1
SPECIFICATION Spec
INVARIANT NothingShared
INVARIANT WrittenBeforeReferred
PROPERTY FormatErases
CHECK_DEADLOCK FALSE
