\* One session with directories, at most one disk error that the code handles.
CONSTANTS
  TotalBlocks = 6
  Reserved = 2
  InodeCount = 3
  BitmapBits = 6
  Names = {"a", "b"}
  DirectBlocks = 2
  EntriesPerBlock = 2
  InodesPerBlock = 2
  ChunksPerBlock = 2
  NewPaths <- RootNames
  OldPaths <- RootAndBelow
  DirPaths <- DirsAndUp
  Sessions <- OneSession
  Careful = TRUE
  Faults <- HandledFaults
  MaxFaults = 1
SPECIFICATION Spec
INVARIANT TypeOK
INVARIANT SharingExcluded
INVARIANT NothingLeaked
INVARIANT WrittenBeforeReferred
INVARIANT CurrentDirectoryExists
PROPERTY FileTreeImplemented
PROPERTY RemovedIsGone
CHECK_DEADLOCK FALSE
