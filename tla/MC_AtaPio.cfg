\* Two blocks of two sectors; a wait polls twice.
CONSTANTS
  TotalBlocks = 2
  SectorsPerBlock = 2
  Data = {"d1", "d2"}
  Patience = 2
SPECIFICATION Spec
INVARIANT TypeOK
INVARIANT KnownState
PROPERTY StoreImplemented
PROPERTY TransfersEnd
