\* Three records of 8 bytes, or fewer of 12, and some bytes left over.
CONSTANTS
  BlockSize = 30
  EntrySize = 6
  DotLen = 3
  Names = {"a", "b", "long"}
  NoName = "none"
  NameLen <- Lengths
  Files = {2, 3}
SPECIFICATION Spec
INVARIANT TypeOK
INVARIANT ChainWhole
INVARIANT RecordsIntact
INVARIANT ScanSound
PROPERTY TableImplemented
