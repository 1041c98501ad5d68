---------------------------- MODULE RfssBitmaps ----------------------------
(***************************************************************************)
(* The allocator of the RFSS filesystem (src/fs/rfss.c) as operators on    *)
(* the in-memory copy of what it allocates from: the superblock's two free *)
(* counters and the two bitmaps.                                           *)
(*                                                                         *)
(* The two bitmaps are buffers of BitmapBits bits each that rfss_mount     *)
(* takes from the bump allocator one after the other, so they are          *)
(* contiguous: bit i of the block bitmap, for i >= BitmapBits, IS bit      *)
(* i - BitmapBits of the inode bitmap.  A copy therefore has one set of    *)
(* set bits over 0 .. 2 * BitmapBits - 1.                                  *)
(***************************************************************************)
EXTENDS Integers, FiniteSets, SequencesExt

CONSTANTS
  TotalBlocks,   \* superblock.total_blocks: drive sectors / 8
  Reserved,      \* reserved_blocks: 80 in the source
  InodeCount,    \* superblock.inode_count: 1024 in the source
  BitmapBits     \* bits in one bitmap buffer: 8 * RFSS_BLOCK_SIZE = 32768

\* The checks rfss_format makes (a drive has more than the reserved blocks)
\* and the sizes its literals have; the last conjunct keeps every block's bit
\* inside the two bitmaps (beyond it they run into the inode table's copy).
ASSUME SizesAssumption ==
  /\ TotalBlocks \in Nat /\ Reserved \in Nat
  /\ InodeCount \in Nat /\ BitmapBits \in Nat
  /\ 0 < Reserved /\ Reserved < TotalBlocks /\ Reserved <= BitmapBits
  /\ 0 < InodeCount /\ InodeCount <= BitmapBits
  /\ TotalBlocks <= 2 * BitmapBits

Bits == 0 .. (2 * BitmapBits - 1)
BlockBits == 0 .. (BitmapBits - 1)           \* the bits of the block bitmap's block
InodeBits == BitmapBits .. (2 * BitmapBits - 1)

DataBlocks == Reserved .. (TotalBlocks - 1)
Inodes == 1 .. InodeCount
RootInode == 1
InodeBit(i) == BitmapBits + i - 1

\* What rfss_mount holds in memory and what the first blocks of the disk hold.
Copies == [bits : SUBSET Bits, freeBlocks : Nat, freeInodes : Nat]

ClearBlocks(c) == {b \in DataBlocks : b \notin c.bits}
ClearInodes(c) == {i \in Inodes : InodeBit(i) \notin c.bits}

Lowest(S) == CHOOSE x \in S : \A y \in S : x <= y

\* What rfss_format writes: the reserved blocks and the root inode in use.
Formatted ==
  [bits |-> (0 .. (Reserved - 1)) \cup {InodeBit(RootInode)},
   freeBlocks |-> TotalBlocks - Reserved,
   freeInodes |-> InodeCount - 1]

-----------------------------------------------------------------------------
(***************************************************************************)
(* rfss_allocate_block and rfss_allocate_inode: the number returned (0     *)
(* when there is none) and the copy afterwards.                            *)
(***************************************************************************)
\* Mutants of AllocatedBlock: the counter is not looked at; the last block is kept.
AllocatedBlockUncounted(c) == IF ClearBlocks(c) = {} THEN 0 ELSE Lowest(ClearBlocks(c))
AllocatedBlockButLast(c) ==
  IF c.freeBlocks <= 1 \/ ClearBlocks(c) = {} THEN 0 ELSE Lowest(ClearBlocks(c))

AllocatedBlock(c) ==
  IF c.freeBlocks = 0 \/ ClearBlocks(c) = {} THEN 0 ELSE Lowest(ClearBlocks(c))

AfterAllocateBlock(c) ==
  IF AllocatedBlock(c) = 0
    THEN c
    ELSE [c EXCEPT !.bits = @ \cup {AllocatedBlock(c)}, !.freeBlocks = @ - 1]

AllocatedInode(c) ==
  IF c.freeInodes = 0 \/ ClearInodes(c) = {} THEN 0 ELSE Lowest(ClearInodes(c))

\* Mutant of AfterAllocateInode: bit i is set for inode i, not bit i - 1.
AfterAllocateInodeShifted(c) ==
  IF AllocatedInode(c) = 0
    THEN c
    ELSE [c EXCEPT !.bits = @ \cup {InodeBit(AllocatedInode(c)) + 1}, !.freeInodes = @ - 1]

AfterAllocateInode(c) ==
  IF AllocatedInode(c) = 0
    THEN c
    ELSE [c EXCEPT !.bits = @ \cup {InodeBit(AllocatedInode(c))}, !.freeInodes = @ - 1]

(***************************************************************************)
(* rfss_free_block and rfss_free_inode: out-of-range numbers, reserved     *)
(* blocks and clear bits are ignored.                                      *)
(***************************************************************************)
\* Mutants of AfterFreeBlock: a block is freed twice; a reserved one is freed.
AfterFreeBlockTwice(c, b) ==
  IF b \in DataBlocks
    THEN [c EXCEPT !.bits = @ \ {b}, !.freeBlocks = @ + 1]
    ELSE c
AfterFreeAnyBlock(c, b) ==
  IF b \in c.bits
    THEN [c EXCEPT !.bits = @ \ {b}, !.freeBlocks = @ + 1]
    ELSE c

AfterFreeBlock(c, b) ==
  IF b \in DataBlocks /\ b \in c.bits
    THEN [c EXCEPT !.bits = @ \ {b}, !.freeBlocks = @ + 1]
    ELSE c

\* The blocks of a file or a directory are freed one after the other.
FreeAll(m, blocks) == FoldLeft(AfterFreeBlock, m, blocks)

AfterFreeInode(c, i) ==
  IF i \in Inodes /\ InodeBit(i) \in c.bits
    THEN [c EXCEPT !.bits = @ \ {InodeBit(i)}, !.freeInodes = @ + 1]
    ELSE c

\* Mutant of SavedCopy: one of the two counters is not saved.
SavedCopyOneCounter(disk, image, stage) ==
  CASE stage = "superblock" -> [disk EXCEPT !.freeBlocks = image.freeBlocks]
    [] stage = "block_bitmap" ->
         [disk EXCEPT !.bits = (@ \ BlockBits) \cup (image.bits \cap BlockBits)]
    [] OTHER ->
         [disk EXCEPT !.bits = (@ \ InodeBits) \cup (image.bits \cap InodeBits)]

\* The disk's copy after the block of one stage of rfss_unmount (or rfss_format)
\* was written from an image: block 0 has the counters, 69 and 70 the bitmaps.
SavedCopy(disk, image, stage) ==
  CASE stage = "superblock" ->
         [disk EXCEPT !.freeBlocks = image.freeBlocks, !.freeInodes = image.freeInodes]
    [] stage = "block_bitmap" ->
         [disk EXCEPT !.bits = (@ \ BlockBits) \cup (image.bits \cap BlockBits)]
    [] OTHER ->
         [disk EXCEPT !.bits = (@ \ InodeBits) \cup (image.bits \cap InodeBits)]

\* The counters rfss_get_stats reports are the numbers of clear bits.
CountersAgree(c) ==
  /\ c.freeBlocks = Cardinality(ClearBlocks(c))
  /\ c.freeInodes = Cardinality(ClearInodes(c))
=============================================================================
