\* A drive with two blocks more than the block bitmap has bits for.
CONSTANTS
  TotalBlocks = 7
  Reserved = 2
  InodeCount = 2
  BitmapBits = 5
  MaxTornSaves = 1
SPECIFICATION Spec
INVARIANT DfTruthful
