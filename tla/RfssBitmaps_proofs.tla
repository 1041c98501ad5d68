------------------------- MODULE RfssBitmaps_proofs -------------------------
(***************************************************************************)
(* Lemmas about the allocator's operators: what they return, the type of   *)
(* the copy they leave, and that they keep the free counters equal to the  *)
(* numbers of clear bits when every block's bit is in the block bitmap.    *)
(***************************************************************************)
EXTENDS RfssBitmaps, Iteration

\* The scans of rfss_allocate_block and rfss_allocate_inode (upwards from the
\* first candidate) find the least clear one whenever there is a clear one.
LEMMA LowestIsIn ==
  ASSUME NEW S, S \subseteq Nat, S # {}
  PROVE  Lowest(S) \in S /\ \A y \in S : Lowest(S) <= y
<1>1. IsWellFoundedOn(OpToRel(<, Nat), Nat)
  BY NatLessThanWellFounded
<1>2. PICK x \in S : \A y \in S : ~(<<y, x>> \in OpToRel(<, Nat))
  BY <1>1, WFMin, Zenon
<1>3. \A y \in S : y \in Nat /\ x \in Nat /\ ~(y < x)
  BY <1>2 DEF OpToRel
<1>4. \A y \in S : x <= y
  BY <1>3, SMT
<1> QED
  BY <1>4, Zenon DEF Lowest

\* The numbers an allocation can return: 0, or a clear item that it counted.
LEMMA AllocatedBlockValue ==
  ASSUME NEW c \in Copies, AllocatedBlock(c) # 0
  PROVE  /\ AllocatedBlock(c) \in ClearBlocks(c)
         /\ AllocatedBlock(c) \in DataBlocks /\ AllocatedBlock(c) \in Bits
         /\ c.freeBlocks \in Nat \ {0}
<1>1. c.freeBlocks # 0 /\ ClearBlocks(c) # {} /\ AllocatedBlock(c) = Lowest(ClearBlocks(c))
  BY DEF AllocatedBlock
<1>2. ClearBlocks(c) \subseteq Nat
  BY SizesAssumption DEF ClearBlocks, DataBlocks
<1>3. AllocatedBlock(c) \in ClearBlocks(c)
  BY <1>1, <1>2, LowestIsIn
<1>4. DataBlocks \subseteq Bits
  BY SizesAssumption DEF DataBlocks, Bits
<1> QED
  BY <1>1, <1>3, <1>4 DEF ClearBlocks, Copies

LEMMA AllocatedInodeValue ==
  ASSUME NEW c \in Copies, AllocatedInode(c) # 0
  PROVE  /\ AllocatedInode(c) \in ClearInodes(c)
         /\ AllocatedInode(c) \in Inodes /\ InodeBit(AllocatedInode(c)) \in Bits
         /\ c.freeInodes \in Nat \ {0}
<1>1. c.freeInodes # 0 /\ ClearInodes(c) # {} /\ AllocatedInode(c) = Lowest(ClearInodes(c))
  BY DEF AllocatedInode
<1>2. ClearInodes(c) \subseteq Nat
  BY SizesAssumption DEF ClearInodes, Inodes
<1>3. AllocatedInode(c) \in ClearInodes(c)
  BY <1>1, <1>2, LowestIsIn
<1>4. \A i \in Inodes : InodeBit(i) \in Bits
  BY SizesAssumption DEF Inodes, InodeBit, Bits
<1> QED
  BY <1>1, <1>3, <1>4 DEF ClearInodes, Copies

LEMMA AllocatedBlockType ==
  ASSUME NEW c \in Copies
  PROVE  AllocatedBlock(c) \in {0} \cup DataBlocks
BY AllocatedBlockValue

LEMMA AllocatedInodeType ==
  ASSUME NEW c \in Copies
  PROVE  AllocatedInode(c) \in {0} \cup Inodes
BY AllocatedInodeValue

\* Every operation leaves a well-typed copy; in particular no counter goes
\* below zero.
LEMMA AllocatorTypes ==
  ASSUME NEW c \in Copies
  PROVE  /\ AfterAllocateBlock(c) \in Copies
         /\ AfterAllocateInode(c) \in Copies
         /\ \A b : AfterFreeBlock(c, b) \in Copies
         /\ \A i : AfterFreeInode(c, i) \in Copies
<1>1. AfterAllocateBlock(c) \in Copies
  <2>1. CASE AllocatedBlock(c) = 0
    BY <2>1 DEF AfterAllocateBlock
  <2>2. CASE AllocatedBlock(c) # 0
    <3>1. AllocatedBlock(c) \in Bits /\ c.freeBlocks - 1 \in Nat
      BY <2>2, AllocatedBlockValue
    <3> QED BY <2>2, <3>1 DEF AfterAllocateBlock, Copies
  <2> QED BY <2>1, <2>2
<1>2. AfterAllocateInode(c) \in Copies
  <2>1. CASE AllocatedInode(c) = 0
    BY <2>1 DEF AfterAllocateInode
  <2>2. CASE AllocatedInode(c) # 0
    <3>1. InodeBit(AllocatedInode(c)) \in Bits /\ c.freeInodes - 1 \in Nat
      BY <2>2, AllocatedInodeValue
    <3> QED BY <2>2, <3>1 DEF AfterAllocateInode, Copies
  <2> QED BY <2>1, <2>2
<1>3. ASSUME NEW b PROVE AfterFreeBlock(c, b) \in Copies
  <2>1. c.freeBlocks + 1 \in Nat /\ c.bits \ {b} \in SUBSET Bits
    BY DEF Copies
  <2> QED BY <2>1 DEF AfterFreeBlock, Copies
<1>4. ASSUME NEW i PROVE AfterFreeInode(c, i) \in Copies
  <2>1. c.freeInodes + 1 \in Nat /\ c.bits \ {InodeBit(i)} \in SUBSET Bits
    BY DEF Copies
  <2> QED BY <2>1 DEF AfterFreeInode, Copies
<1> QED
  BY <1>1, <1>2, <1>3, <1>4

-----------------------------------------------------------------------------
\* The two bitmaps do not share bits when the block bitmap has a bit for every
\* block; ClearInodes and InodeBit are injective on Inodes.
LEMMA BitmapsApart ==
  ASSUME TotalBlocks <= BitmapBits
  PROVE  /\ \A b \in DataBlocks, i \in Inodes : b # InodeBit(i)
         /\ \A i, j \in Inodes : InodeBit(i) = InodeBit(j) => i = j
BY SizesAssumption DEF DataBlocks, Inodes, InodeBit

LEMMA ClearSetsFinite ==
  ASSUME NEW c
  PROVE  /\ IsFiniteSet(ClearBlocks(c)) /\ Cardinality(ClearBlocks(c)) \in Nat
         /\ IsFiniteSet(ClearInodes(c)) /\ Cardinality(ClearInodes(c)) \in Nat
<1>1. IsFiniteSet(DataBlocks) /\ IsFiniteSet(Inodes)
  BY SizesAssumption, FS_Interval DEF DataBlocks, Inodes
<1>2. ClearBlocks(c) \subseteq DataBlocks /\ ClearInodes(c) \subseteq Inodes
  BY DEF ClearBlocks, ClearInodes
<1> QED
  BY <1>1, <1>2, FS_Subset, FS_CardinalityType

\* Each operation moves exactly one item between the clear and the set ones of
\* its own kind, and its counter with it.
LEMMA AllocateBlockAgrees ==
  ASSUME NEW c \in Copies, TotalBlocks <= BitmapBits, CountersAgree(c)
  PROVE  CountersAgree(AfterAllocateBlock(c))
<1> DEFINE b == AllocatedBlock(c)
           d == AfterAllocateBlock(c)
<1>1. CASE b = 0
  BY <1>1 DEF AfterAllocateBlock
<1>2. CASE b # 0
  <2>1. b \in ClearBlocks(c) /\ b \in DataBlocks /\ c.freeBlocks \in Nat \ {0}
    BY <1>2, AllocatedBlockValue
  <2>2. /\ d.bits = c.bits \cup {b} /\ d.freeBlocks = c.freeBlocks - 1
        /\ d.freeInodes = c.freeInodes
    BY <1>2 DEF AfterAllocateBlock, Copies
  <2>3. ClearBlocks(d) = ClearBlocks(c) \ {b}
    BY <2>2 DEF ClearBlocks
  <2>4. ClearInodes(d) = ClearInodes(c)
    BY <2>1, <2>2, BitmapsApart DEF ClearInodes
  <2>5. Cardinality(ClearBlocks(d)) = Cardinality(ClearBlocks(c)) - 1
    BY <2>1, <2>3, ClearSetsFinite, FS_RemoveElement
  <2> QED
    BY <2>2, <2>4, <2>5 DEF CountersAgree
<1> QED BY <1>1, <1>2

LEMMA AllocateInodeAgrees ==
  ASSUME NEW c \in Copies, TotalBlocks <= BitmapBits, CountersAgree(c)
  PROVE  CountersAgree(AfterAllocateInode(c))
<1> DEFINE i == AllocatedInode(c)
           d == AfterAllocateInode(c)
<1>1. CASE i = 0
  BY <1>1 DEF AfterAllocateInode
<1>2. CASE i # 0
  <2>1. i \in ClearInodes(c) /\ i \in Inodes /\ c.freeInodes \in Nat \ {0}
    BY <1>2, AllocatedInodeValue
  <2>2. /\ d.bits = c.bits \cup {InodeBit(i)} /\ d.freeInodes = c.freeInodes - 1
        /\ d.freeBlocks = c.freeBlocks
    BY <1>2 DEF AfterAllocateInode, Copies
  <2>3. ClearInodes(d) = ClearInodes(c) \ {i}
    BY <2>1, <2>2, BitmapsApart DEF ClearInodes
  <2>4. ClearBlocks(d) = ClearBlocks(c)
    BY <2>1, <2>2, BitmapsApart DEF ClearBlocks
  <2>5. Cardinality(ClearInodes(d)) = Cardinality(ClearInodes(c)) - 1
    BY <2>1, <2>3, ClearSetsFinite, FS_RemoveElement
  <2> QED
    BY <2>2, <2>4, <2>5 DEF CountersAgree
<1> QED BY <1>1, <1>2

LEMMA FreeBlockAgrees ==
  ASSUME NEW c \in Copies, NEW b, TotalBlocks <= BitmapBits, CountersAgree(c)
  PROVE  CountersAgree(AfterFreeBlock(c, b))
<1> DEFINE d == AfterFreeBlock(c, b)
<1>1. CASE ~(b \in DataBlocks /\ b \in c.bits)
  BY <1>1 DEF AfterFreeBlock
<1>2. CASE b \in DataBlocks /\ b \in c.bits
  <2>1. /\ d.bits = c.bits \ {b} /\ d.freeBlocks = c.freeBlocks + 1
        /\ d.freeInodes = c.freeInodes
    BY <1>2 DEF AfterFreeBlock, Copies
  <2>2. ClearBlocks(d) = ClearBlocks(c) \cup {b} /\ b \notin ClearBlocks(c)
    BY <1>2, <2>1 DEF ClearBlocks
  <2>3. ClearInodes(d) = ClearInodes(c)
    BY <1>2, <2>1, BitmapsApart DEF ClearInodes
  <2>4. Cardinality(ClearBlocks(d)) = Cardinality(ClearBlocks(c)) + 1
    BY <2>2, ClearSetsFinite, FS_AddElement
  <2> QED
    BY <2>1, <2>3, <2>4 DEF CountersAgree
<1> QED BY <1>1, <1>2

LEMMA FreeInodeAgrees ==
  ASSUME NEW c \in Copies, NEW i, TotalBlocks <= BitmapBits, CountersAgree(c)
  PROVE  CountersAgree(AfterFreeInode(c, i))
<1> DEFINE d == AfterFreeInode(c, i)
<1>1. CASE ~(i \in Inodes /\ InodeBit(i) \in c.bits)
  BY <1>1 DEF AfterFreeInode
<1>2. CASE i \in Inodes /\ InodeBit(i) \in c.bits
  <2>1. /\ d.bits = c.bits \ {InodeBit(i)} /\ d.freeInodes = c.freeInodes + 1
        /\ d.freeBlocks = c.freeBlocks
    BY <1>2 DEF AfterFreeInode, Copies
  <2>2. ClearInodes(d) = ClearInodes(c) \cup {i} /\ i \notin ClearInodes(c)
    BY <1>2, <2>1, BitmapsApart DEF ClearInodes
  <2>3. ClearBlocks(d) = ClearBlocks(c)
    BY <1>2, <2>1, BitmapsApart DEF ClearBlocks
  <2>4. Cardinality(ClearInodes(d)) = Cardinality(ClearInodes(c)) + 1
    BY <2>2, ClearSetsFinite, FS_AddElement
  <2> QED
    BY <2>1, <2>3, <2>4 DEF CountersAgree
<1> QED BY <1>1, <1>2

\* rfss_format writes counters that agree with the bitmaps it writes.
LEMMA FormattedAgrees ==
  ASSUME TotalBlocks <= BitmapBits
  PROVE  Formatted \in Copies /\ CountersAgree(Formatted)
<1>1. Formatted \in Copies
  BY SizesAssumption DEF Formatted, Copies, Bits, InodeBit, RootInode
<1>2. ClearBlocks(Formatted) = Reserved .. (TotalBlocks - 1)
  BY SizesAssumption DEF Formatted, ClearBlocks, DataBlocks, InodeBit, RootInode
<1>3. Cardinality(ClearBlocks(Formatted)) = TotalBlocks - Reserved
  BY <1>2, SizesAssumption, FS_Interval
<1>4. ClearInodes(Formatted) = 2 .. InodeCount
  BY SizesAssumption DEF Formatted, ClearInodes, Inodes, InodeBit, RootInode
<1>5. Cardinality(ClearInodes(Formatted)) = InodeCount - 1
  BY <1>4, SizesAssumption, FS_Interval
<1> QED
  BY <1>1, <1>3, <1>5 DEF CountersAgree, Formatted

-----------------------------------------------------------------------------
(***************************************************************************)
(* What the allocator does to the bits.                                    *)
(***************************************************************************)
LEMMA GivesInode ==
  ASSUME NEW m \in Copies, AllocatedInode(m) # 0
  PROVE  /\ AllocatedInode(m) \in Inodes /\ InodeBit(AllocatedInode(m)) \notin m.bits
         /\ AfterAllocateInode(m) \in Copies /\ AfterAllocateInode(m) # m
         /\ AfterAllocateInode(m).bits = m.bits \cup {InodeBit(AllocatedInode(m))}
<1>1. AllocatedInode(m) \in Inodes /\ InodeBit(AllocatedInode(m)) \notin m.bits
  BY AllocatedInodeValue DEF ClearInodes
<1>2. AfterAllocateInode(m) \in Copies
  BY AllocatorTypes
<1>3. AfterAllocateInode(m).bits = m.bits \cup {InodeBit(AllocatedInode(m))}
  BY DEF AfterAllocateInode, Copies
<1> QED
  BY <1>1, <1>2, <1>3

LEMMA GivesBlock ==
  ASSUME NEW m \in Copies, AllocatedBlock(m) # 0
  PROVE  /\ AllocatedBlock(m) \in DataBlocks /\ AllocatedBlock(m) \notin m.bits
         /\ AfterAllocateBlock(m) \in Copies /\ AfterAllocateBlock(m) # m
         /\ AfterAllocateBlock(m).bits = m.bits \cup {AllocatedBlock(m)}
<1>1. AllocatedBlock(m) \in DataBlocks /\ AllocatedBlock(m) \notin m.bits
  BY AllocatedBlockValue DEF ClearBlocks
<1>2. AfterAllocateBlock(m) \in Copies
  BY AllocatorTypes
<1>3. AfterAllocateBlock(m).bits = m.bits \cup {AllocatedBlock(m)}
  BY DEF AfterAllocateBlock, Copies
<1> QED
  BY <1>1, <1>2, <1>3

LEMMA TakesBack ==
  ASSUME NEW m \in Copies
  PROVE  /\ \A i \in Inodes : AfterFreeInode(m, i) \in Copies
                              /\ AfterFreeInode(m, i).bits = m.bits \ {InodeBit(i)}
         /\ \A b \in DataBlocks : AfterFreeBlock(m, b) \in Copies
                                  /\ AfterFreeBlock(m, b).bits = m.bits \ {b}
<1>1. \A i \in Inodes : AfterFreeInode(m, i).bits = m.bits \ {InodeBit(i)}
  BY DEF AfterFreeInode, Copies
<1>2. \A b \in DataBlocks : AfterFreeBlock(m, b).bits = m.bits \ {b}
  BY DEF AfterFreeBlock, Copies
<1> QED
  BY <1>1, <1>2, AllocatorTypes

-----------------------------------------------------------------------------
(***************************************************************************)
(* Saving a copy, in three stages.                                         *)
(***************************************************************************)
LEMMA SavedCopyType ==
  ASSUME NEW disk \in Copies, NEW image \in Copies, NEW stage
  PROVE  SavedCopy(disk, image, stage) \in Copies
<1>1. /\ disk.bits \subseteq Bits /\ image.bits \subseteq Bits
      /\ image.freeBlocks \in Nat /\ image.freeInodes \in Nat
  BY DEF Copies
<1>2. BlockBits \subseteq Bits /\ InodeBits \subseteq Bits
  BY SizesAssumption DEF BlockBits, InodeBits, Bits
<1>3. [disk EXCEPT !.freeBlocks = image.freeBlocks, !.freeInodes = image.freeInodes] \in Copies
  BY <1>1 DEF Copies
<1>4. [disk EXCEPT !.bits = (@ \ BlockBits) \cup (image.bits \cap BlockBits)] \in Copies
  BY <1>1, <1>2 DEF Copies
<1>5. [disk EXCEPT !.bits = (@ \ InodeBits) \cup (image.bits \cap InodeBits)] \in Copies
  BY <1>1, <1>2 DEF Copies
<1>6. CASE stage = "superblock"
  BY <1>3, <1>6 DEF SavedCopy
<1>7. CASE stage = "block_bitmap"
  BY <1>4, <1>7 DEF SavedCopy
<1>8. CASE stage # "superblock" /\ stage # "block_bitmap"
  BY <1>5, <1>8 DEF SavedCopy
<1> QED
  BY <1>6, <1>7, <1>8

\* The three blocks that hold the saved copy, one after the other.
LEMMA SavedStages ==
  ASSUME NEW disk \in Copies, NEW image \in Copies
  PROVE  /\ LET d == SavedCopy(disk, image, "superblock") IN
              d.freeBlocks = image.freeBlocks /\ d.freeInodes = image.freeInodes
         /\ LET d == SavedCopy(disk, image, "block_bitmap") IN
              /\ d.freeBlocks = disk.freeBlocks /\ d.freeInodes = disk.freeInodes
              /\ d.bits \cap BlockBits = image.bits \cap BlockBits
         /\ disk.freeBlocks = image.freeBlocks /\ disk.freeInodes = image.freeInodes
              /\ disk.bits \cap BlockBits = image.bits \cap BlockBits
            => SavedCopy(disk, image, "inode_bitmap") = image
<1>0. disk.bits \subseteq Bits /\ image.bits \subseteq Bits
  BY DEF Copies
<1>1. LET d == SavedCopy(disk, image, "superblock") IN
        d.freeBlocks = image.freeBlocks /\ d.freeInodes = image.freeInodes
  BY DEF SavedCopy, Copies
<1>2. LET d == SavedCopy(disk, image, "block_bitmap") IN
        /\ d.freeBlocks = disk.freeBlocks /\ d.freeInodes = disk.freeInodes
        /\ d.bits \cap BlockBits = image.bits \cap BlockBits
  <2>1. SavedCopy(disk, image, "block_bitmap") =
          [disk EXCEPT !.bits = (@ \ BlockBits) \cup (image.bits \cap BlockBits)]
    BY DEF SavedCopy
  <2> QED
    BY <2>1 DEF Copies
<1>3. ASSUME disk.freeBlocks = image.freeBlocks, disk.freeInodes = image.freeInodes,
             disk.bits \cap BlockBits = image.bits \cap BlockBits
      PROVE  SavedCopy(disk, image, "inode_bitmap") = image
  <2>1. SavedCopy(disk, image, "inode_bitmap") =
          [disk EXCEPT !.bits = (@ \ InodeBits) \cup (image.bits \cap InodeBits)]
    BY DEF SavedCopy
  <2>2. Bits = BlockBits \cup InodeBits /\ BlockBits \cap InodeBits = {}
    BY SizesAssumption DEF Bits, BlockBits, InodeBits
  <2>3. (disk.bits \ InodeBits) \cup (image.bits \cap InodeBits) = image.bits
    BY <1>0, <1>3, <2>2
  <2>4. disk = [bits |-> disk.bits, freeBlocks |-> image.freeBlocks, freeInodes |-> image.freeInodes]
        /\ image = [bits |-> image.bits, freeBlocks |-> image.freeBlocks, freeInodes |-> image.freeInodes]
    BY <1>3 DEF Copies
  <2>5. SavedCopy(disk, image, "inode_bitmap") =
          [bits |-> image.bits, freeBlocks |-> image.freeBlocks, freeInodes |-> image.freeInodes]
    BY <1>3, <2>1, <2>3 DEF Copies
  <2> QED
    BY <2>4, <2>5
<1> QED
  BY <1>1, <1>2, <1>3

-----------------------------------------------------------------------------
(***************************************************************************)
(* Freeing the blocks of a file: whatever else is marked stays marked.     *)
(***************************************************************************)
LEMMA FreeAllIsFold ==
  ASSUME NEW m, NEW blocks
  PROVE  FreeAll(m, blocks) =
           (CHOOSE f : f = [s \in SUBSET DOMAIN blocks |->
                              IF s = {} THEN m
                              ELSE AfterFreeBlock(f[s \ {Max(s)}], blocks[Max(s)])])[DOMAIN blocks]
BY DEF FreeAll, FoldLeft, MapThenFoldSet

LEMMA FreeBlockKeeps ==
  ASSUME NEW c \in Copies, NEW b
  PROVE  AfterFreeBlock(c, b) \in Copies /\ c.bits \ {b} \subseteq AfterFreeBlock(c, b).bits
<1>1. CASE b \in DataBlocks /\ b \in c.bits
  <2>1. AfterFreeBlock(c, b).bits = c.bits \ {b}
    BY <1>1 DEF AfterFreeBlock, Copies
  <2> QED
    BY <2>1, AllocatorTypes
<1>2. CASE ~ (b \in DataBlocks /\ b \in c.bits)
  BY <1>2 DEF AfterFreeBlock
<1> QED
  BY <1>1, <1>2

\* FreeAll frees the first block, the second and so on.
LEMMA FreeAllSteps ==
  ASSUME NEW m \in Copies, NEW blocks, Len(blocks) \in Nat, DOMAIN blocks = 1 .. Len(blocks)
  PROVE  \E g : /\ g[0] = m /\ g[Len(blocks)] = FreeAll(m, blocks)
                /\ \A k \in 0 .. Len(blocks) : g[k] \in Copies
                /\ \A k \in 1 .. Len(blocks) : g[k] = AfterFreeBlock(g[k - 1], blocks[k])
<1> DEFINE n == Len(blocks)
           T == Copies
           step == [p \in T \X (1 .. n) |-> AfterFreeBlock(p[1], blocks[p[2]])]
           Fold(f) == f = [s \in SUBSET (1 .. n) |->
                             IF s = {} THEN m ELSE AfterFreeBlock(f[s \ {Max(s)}], blocks[Max(s)])]
           iter == CHOOSE f : Fold(f)
<1>1. n \in Nat /\ DOMAIN blocks = 1 .. n /\ m \in T
  OBVIOUS
<1>2. step \in [T \X (1 .. n) -> T]
  <2>1. \A c \in T : \A k \in 1 .. n : AfterFreeBlock(c, blocks[k]) \in T
    BY FreeBlockKeeps
  <2> HIDE DEF T, n
  <2> QED
    BY <2>1
<1>3. \A c \in T, k \in 1 .. n : step[<<c, k>>] = AfterFreeBlock(c, blocks[k])
  OBVIOUS
<1> HIDE DEF n, step, T
<1>4. PICK f \in [SUBSET (1 .. n) -> T] : Solves(f, n, m, step)
  <2>1. Solvable(T, n, m, step)
    BY <1>1, <1>2, FoldExists
  <2> QED
    BY <2>1 DEF Solvable
<1>5. Fold(f)
  <2>1. ASSUME NEW s \in SUBSET (1 .. n)
        PROVE  f[s] = IF s = {} THEN m ELSE AfterFreeBlock(f[s \ {Max(s)}], blocks[Max(s)])
    <3>1. CASE s = {}
      BY <1>4, <3>1 DEF Solves
    <3>2. CASE s # {}
      <4>1. Max(s) \in 1 .. n /\ f[s] = step[<<f[s \ {Max(s)}], Max(s)>>]
        BY <1>4, <3>2 DEF Solves
      <4>2. f[s \ {Max(s)}] \in T
        BY <1>4
      <4> QED
        BY <1>3, <3>2, <4>1, <4>2
    <3> QED
      BY <3>1, <3>2
  <2> QED
    BY <2>1
<1>6. Fold(iter)
  <2> HIDE DEF Fold
  <2> QED
    BY <1>5
<1>7. Follows(iter, T, n, m, step)
  <2> HIDE DEF iter
  <2>1. \A s \in SUBSET (1 .. n) :
          iter[s] = IF s = {} THEN m ELSE AfterFreeBlock(iter[s \ {Max(s)}], blocks[Max(s)])
    BY <1>6
  <2>2. ASSUME NEW s \in SUBSET (1 .. n), s # {} PROVE Max(s) \in 1 .. n
    BY <1>4, <2>2 DEF Solves
  <2> QED
    BY <1>3, <2>1, <2>2 DEF Follows
<1>8. Stepwise(iter, T, n, m, step)
  <2> HIDE DEF iter
  <2> QED
    BY <1>1, <1>2, <1>7, FoldKeeps
<1>9. FreeAll(m, blocks) = iter[1 .. n]
  BY <1>1, FreeAllIsFold
<1> HIDE DEF iter
<1> DEFINE g == [k \in 0 .. n |-> iter[1 .. k]]
<1>10. g[0] = m /\ g[n] = FreeAll(m, blocks) /\ \A k \in 0 .. n : g[k] \in T
  BY <1>1, <1>8, <1>9 DEF Stepwise
<1>11. ASSUME NEW k \in 1 .. n PROVE g[k] = AfterFreeBlock(g[k - 1], blocks[k])
  <2>1. PICK j : j = k - 1
    OBVIOUS
  <2>2. j \in 0 .. n - 1 /\ j \in 0 .. n /\ j + 1 = k /\ k \in 0 .. n
    BY <1>1, <2>1
  <2>3. iter[1 .. j + 1] = step[<<iter[1 .. j], j + 1>>] /\ iter[1 .. j] \in T
    BY <1>8, <2>2 DEF Stepwise
  <2>4. iter[1 .. k] = AfterFreeBlock(iter[1 .. j], blocks[k])
    BY <1>3, <2>2, <2>3
  <2>5. g[k] = iter[1 .. k] /\ g[j] = iter[1 .. j]
    BY <2>2
  <2> QED
    BY <2>1, <2>4, <2>5
<1> HIDE DEF g
<1> QED
  BY <1>10, <1>11 DEF n, T

LEMMA FreeAllKeeps ==
  ASSUME NEW m \in Copies, NEW blocks, Len(blocks) \in Nat, DOMAIN blocks = 1 .. Len(blocks)
  PROVE  /\ FreeAll(m, blocks) \in Copies
         /\ \A x \in m.bits : (\A k \in DOMAIN blocks : blocks[k] # x) => x \in FreeAll(m, blocks).bits
<1> DEFINE Others == {x \in m.bits : \A k \in DOMAIN blocks : blocks[k] # x}
           T == {c \in Copies : Others \subseteq c.bits}
<1>1. PICK g : /\ g[0] = m /\ g[Len(blocks)] = FreeAll(m, blocks)
               /\ \A k \in 1 .. Len(blocks) : g[k] = AfterFreeBlock(g[k - 1], blocks[k])
  BY FreeAllSteps
<1>2. g[0] \in T
  BY <1>1
<1>3. ASSUME NEW k \in 1 .. Len(blocks), g[k - 1] \in T PROVE g[k] \in T
  <2>1. g[k] \in Copies /\ g[k - 1].bits \ {blocks[k]} \subseteq g[k].bits
    BY <1>1, <1>3, FreeBlockKeeps
  <2>2. Others \subseteq g[k - 1].bits \ {blocks[k]}
    BY <1>3
  <2> QED
    BY <2>1, <2>2
<1>4. \A k \in 0 .. Len(blocks) : g[k] \in T
  <2> HIDE DEF T
  <2> QED
    BY <1>2, <1>3, PassedOn
<1> QED
  BY <1>1, <1>4

\* The blocks are free afterwards, and nothing comes to be marked.
LEMMA FreeAllFrees ==
  ASSUME NEW m \in Copies, NEW blocks, Len(blocks) \in Nat, DOMAIN blocks = 1 .. Len(blocks)
  PROVE  /\ FreeAll(m, blocks).bits \subseteq m.bits
         /\ \A k \in DOMAIN blocks : blocks[k] \in DataBlocks => blocks[k] \notin FreeAll(m, blocks).bits
<1> DEFINE n == Len(blocks)
<1>1. PICK g : /\ g[0] = m /\ g[n] = FreeAll(m, blocks) /\ \A k \in 0 .. n : g[k] \in Copies
               /\ \A k \in 1 .. n : g[k] = AfterFreeBlock(g[k - 1], blocks[k])
  BY FreeAllSteps
<1> HIDE DEF n
<1> DEFINE f == [k \in 0 .. n |-> k]
           T == {k \in 0 .. n : /\ g[k].bits \subseteq m.bits
                               /\ \A j \in 1 .. k : blocks[j] \in DataBlocks => blocks[j] \notin g[k].bits}
<1>2. n \in Nat /\ DOMAIN blocks = 1 .. n
  BY DEF n
<1>3. f[0] \in T
  BY <1>1, <1>2
<1>4. ASSUME NEW k \in 1 .. n, f[k - 1] \in T PROVE f[k] \in T
  <2>1. k - 1 \in 0 .. n /\ k \in 0 .. n /\ \A j \in 1 .. k : j = k \/ j \in 1 .. (k - 1)
    BY <1>2
  <2>2. k - 1 \in T
    BY <1>4, <2>1
  <2>3. g[k].bits \subseteq g[k - 1].bits /\ (blocks[k] \in DataBlocks => blocks[k] \notin g[k].bits)
    <3>1. PICK c : c = g[k - 1]
      OBVIOUS
    <3>2. c \in Copies /\ g[k] = AfterFreeBlock(c, blocks[k])
      BY <1>1, <2>1, <3>1
    <3>3. AfterFreeBlock(c, blocks[k]).bits \subseteq c.bits
          /\ (blocks[k] \in DataBlocks => blocks[k] \notin AfterFreeBlock(c, blocks[k]).bits)
      BY <3>2 DEF AfterFreeBlock, Copies
    <3> QED
      BY <3>1, <3>2, <3>3
  <2>4. g[k].bits \subseteq m.bits
    BY <2>2, <2>3
  <2>5. \A j \in 1 .. k : blocks[j] \in DataBlocks => blocks[j] \notin g[k].bits
    BY <2>1, <2>2, <2>3
  <2> QED
    BY <2>1, <2>4, <2>5
<1>5. \A k \in 0 .. n : f[k] \in T
  <2> HIDE DEF T, f
  <2> QED
    BY <1>2, <1>3, <1>4, PassedOn
<1>6. n \in T
  BY <1>2, <1>5
<1> QED
  BY <1>1, <1>2, <1>6
=============================================================================
