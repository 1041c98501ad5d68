\* Three data blocks and two inodes; every block's bit is in the block bitmap.
CONSTANTS
  TotalBlocks = 5
  Reserved = 2
  InodeCount = 2
  BitmapBits = 5
  MaxTornSaves = 1
SPECIFICATION Spec
INVARIANT TypeOK
INVARIANT DfTruthful
INVARIANT SaveProgress
INVARIANT ReservedKept
PROPERTY BlockPoolImplemented
PROPERTY InodePoolImplemented
