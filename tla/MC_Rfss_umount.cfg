\* Two sessions that unmount, the second on a drive that is not fresh any more.
CONSTANTS
  TotalBlocks = 6
  Reserved = 2
  InodeCount = 4
  BitmapBits = 6
  Names = {"a", "b"}
  DirectBlocks = 2
  EntriesPerBlock = 2
  InodesPerBlock = 2
  ChunksPerBlock = 2
  NewPaths <- RootNames
  OldPaths <- RootAndBelow
  DirPaths <- NoDirs
  Sessions <- UnmountTwice
  Careful = TRUE
  Faults <- NoFaults
  MaxFaults = 0
SPECIFICATION Spec
INVARIANT SharingExcluded
CHECK_DEADLOCK FALSE
