-------------------------- MODULE RfssAlloc_proofs --------------------------
(***************************************************************************)
(* Theorems about RfssAlloc, for every size of the drive, the bitmaps and  *)
(* the inode table and every number of torn saves.                         *)
(***************************************************************************)
EXTENDS RfssAlloc, RfssBitmaps_proofs

\* rfss_format's copy is well-typed on every drive, whatever its bitmaps share.
LEMMA FormattedType == Formatted \in Copies /\ Blank \in Copies
BY SizesAssumption DEF Formatted, Blank, Copies, Bits, InodeBit, RootInode

\* One block of a save keeps the disk's copy well-typed.
LEMMA DiskAfterType ==
  ASSUME TypeOK, NEW s
  PROVE  DiskAfter(s) \in Copies
<1>1. Image \in Copies /\ disk \in Copies
  BY FormattedType DEF TypeOK, Image
<1>2. CASE s = "superblock"
  BY <1>1, <1>2 DEF DiskAfter, SavedCopy, Copies
<1>3. CASE s = "block_bitmap"
  BY <1>1, <1>3 DEF DiskAfter, SavedCopy, Copies
<1>4. CASE s # "superblock" /\ s # "block_bitmap"
  BY <1>1, <1>4 DEF DiskAfter, SavedCopy, Copies
<1> QED BY <1>2, <1>3, <1>4

-----------------------------------------------------------------------------
LEMMA TypeInit == Init => TypeOK
<1> SUFFICES ASSUME Init PROVE TypeOK
  OBVIOUS
<1>1. 0 \in 0 .. MaxTornSaves
  BY TornSavesAssumption
<1> QED
  BY <1>1, FormattedType DEF Init, TypeOK, Idle, Ops, Calls, Stages, Returns

LEMMA TypeNext == TypeOK /\ [Next]_vars => TypeOK'
<1> SUFFICES ASSUME TypeOK, [Next]_vars PROVE TypeOK'
  OBVIOUS
<1> USE DEF TypeOK
<1>0. Idle \in Ops /\ torn \in Nat
  BY TornSavesAssumption DEF Idle, Ops, Calls, Stages
<1>1. CASE AllocateBlock
  <2>1. mem' \in Copies /\ dirty' \in BOOLEAN
    BY <1>1, AllocatorTypes DEF AllocateBlock, Changes
  <2>2. ret' \in Returns
    BY <1>1, AllocatedBlockType DEF AllocateBlock, Returns
  <2> QED BY <1>1, <2>1, <2>2 DEF AllocateBlock
<1>2. CASE AllocateInode
  <2>1. mem' \in Copies /\ dirty' \in BOOLEAN
    BY <1>2, AllocatorTypes DEF AllocateInode, Changes
  <2>2. ret' \in Returns
    BY <1>2, AllocatedInodeType DEF AllocateInode, Returns
  <2> QED BY <1>2, <2>1, <2>2 DEF AllocateInode
<1>3. CASE FreeBlock
  BY <1>3, AllocatorTypes DEF FreeBlock, Changes
<1>4. CASE FreeInode
  BY <1>4, AllocatorTypes DEF FreeInode, Changes
<1>5. CASE Mount
  BY <1>5 DEF Mount
<1>6. CASE UnmountClean
  BY <1>6, FormattedType DEF UnmountClean, Forget
<1>7. CASE UnmountDirty
  BY <1>7 DEF UnmountDirty, Begin, Ops, Calls, Stages
<1>8. CASE Format
  BY <1>8 DEF Format, Begin, Ops, Calls, Stages
<1>9. CASE WriteStage
  <2>1. disk' \in Copies
    BY <1>9, DiskAfterType DEF WriteStage
  <2>2. op' \in Ops
    BY <1>9 DEF WriteStage, NextStage, Ops, Stages
  <2> QED BY <1>9, <2>1, <2>2 DEF WriteStage
<1>10. CASE FinishUnmount
  <2>1. disk' \in Copies
    BY <1>10, DiskAfterType DEF FinishUnmount
  <2>2. diskWhole' \in BOOLEAN
    BY <1>10 DEF FinishUnmount, Ops
  <2> QED BY <1>0, <1>10, <2>1, <2>2, FormattedType DEF FinishUnmount, Forget
<1>11. CASE FinishFormat
  <2>1. disk' \in Copies
    BY <1>11, DiskAfterType DEF FinishFormat
  <2> QED BY <1>0, <1>11, <2>1 DEF FinishFormat
<1>12. CASE UnmountWriteFails
  <2>1. disk' \in Copies
    BY <1>12, DiskAfterType DEF UnmountWriteFails
  <2>2. torn' \in 0 .. MaxTornSaves
    BY <1>0, <1>12, TornSavesAssumption DEF UnmountWriteFails, TearSave
  <2>3. CASE op.stage = "inode_bitmap"
    BY <1>0, <1>12, <2>1, <2>2, <2>3, FormattedType DEF UnmountWriteFails, Forget
  <2>4. CASE op.stage # "inode_bitmap"
    <3>1. op' \in Ops
      BY <1>12, <2>4 DEF UnmountWriteFails, NextStage, Ops, Stages
    <3> QED BY <1>12, <2>1, <2>2, <2>4, <3>1 DEF UnmountWriteFails
  <2> QED BY <2>3, <2>4
<1>13. CASE FormatWriteFails
  <2>1. disk' \in Copies
    BY <1>13, DiskAfterType DEF FormatWriteFails
  <2>2. torn' \in 0 .. MaxTornSaves
    BY <1>0, <1>13, TornSavesAssumption DEF FormatWriteFails, TearSave
  <2> QED BY <1>0, <1>13, <2>1, <2>2 DEF FormatWriteFails
<1>14. CASE PowerCut
  <2>1. torn' \in 0 .. MaxTornSaves
    BY <1>0, <1>14, TornSavesAssumption DEF PowerCut, TearSave
  <2> QED BY <1>0, <1>14, <2>1, FormattedType DEF PowerCut, Forget
<1>15. CASE UNCHANGED vars
  BY <1>15 DEF vars
<1> QED
  BY <1>1, <1>2, <1>3, <1>4, <1>5, <1>6, <1>7, <1>8, <1>9, <1>10, <1>11,
     <1>12, <1>13, <1>14, <1>15 DEF Next

\* Type correctness of RfssAlloc: among the rest, no free counter ever goes
\* below zero, not even when a torn save has set counters and bitmaps apart.
THEOREM TypeCorrect == Spec => []TypeOK
<1>1. Init => TypeOK
  BY TypeInit
<1>2. TypeOK /\ [Next]_vars => TypeOK'
  BY TypeNext
<1> QED
  BY <1>1, <1>2, PTL DEF Spec

-----------------------------------------------------------------------------
(***************************************************************************)
(* The counters.  DfTruthful alone is not inductive: what the last write   *)
(* of a save makes whole depends on what the earlier ones wrote, which     *)
(* SaveProgress records.                                                   *)
(***************************************************************************)
CountersInv == TypeOK /\ SaveProgress /\ DfTruthful

\* The last write of a save in which nothing failed leaves exactly the image.
LEMMA SaveCompletes ==
  ASSUME TypeOK, SaveProgress, op.ok, op.stage = "inode_bitmap"
  PROVE  DiskAfter(op.stage) = Image
<1> DEFINE d == DiskAfter("inode_bitmap")
<1>1. Image \in Copies /\ disk \in Copies
  BY FormattedType DEF TypeOK, Image
<1>2. d = [disk EXCEPT !.bits = (@ \ InodeBits) \cup (Image.bits \cap InodeBits)]
  BY DEF DiskAfter, SavedCopy
<1>3. d \in Copies
  BY DiskAfterType
<1>4. d.freeBlocks = Image.freeBlocks /\ d.freeInodes = Image.freeInodes
  BY <1>1, <1>2 DEF SaveProgress, Copies
<1>5. Bits = BlockBits \cup InodeBits /\ BlockBits \cap InodeBits = {}
  BY SizesAssumption DEF Bits, BlockBits, InodeBits
<1>6. disk.bits \cap BlockBits = Image.bits \cap BlockBits
  BY DEF SaveProgress
<1>7. disk.bits \subseteq Bits /\ Image.bits \subseteq Bits
  BY <1>1 DEF Copies
<1>8. d.bits = (disk.bits \ InodeBits) \cup (Image.bits \cap InodeBits)
  BY <1>1, <1>2 DEF Copies
<1>9. d.bits = Image.bits
  BY <1>5, <1>6, <1>7, <1>8
<1>10. d = Image
  BY <1>1, <1>3, <1>4, <1>9 DEF Copies
<1> QED BY <1>10

\* SaveProgress is preserved by every step.
LEMMA SaveProgressNext ==
  ASSUME TypeOK, SaveProgress, [Next]_vars
  PROVE  SaveProgress'
<1>0. /\ op \in Ops /\ disk \in Copies /\ Image \in Copies
      /\ Idle.call = "none" /\ Idle.stage = "none"
  BY FormattedType DEF TypeOK, Image, Idle
<1>1. CASE AllocateBlock \/ AllocateInode \/ FreeBlock \/ FreeInode
  <2>1. op = Idle /\ op' = Idle /\ mounted' = mounted
    BY <1>1 DEF AllocateBlock, AllocateInode, FreeBlock, FreeInode, Serving
  <2> QED BY <2>1, <1>0 DEF SaveProgress
<1>2. CASE Mount \/ UnmountClean \/ FinishUnmount \/ FinishFormat \/ FormatWriteFails \/ PowerCut
  <2>1. op' = Idle
    BY <1>2 DEF Mount, UnmountClean, Serving, FinishUnmount, FinishFormat, FormatWriteFails, PowerCut
  <2> QED BY <2>1, <1>0 DEF SaveProgress
<1>3. CASE UnmountDirty \/ Format
  <2>1. /\ op'.call \in {"unmount", "format"} /\ op'.stage = "superblock"
        /\ op'.ok /\ (op'.call = "unmount" => mounted')
    BY <1>3 DEF UnmountDirty, Format, Begin, Serving
  <2> QED BY <2>1 DEF SaveProgress
<1>4. CASE WriteStage
  <2>1. /\ op'.call = op.call /\ op'.ok = op.ok /\ mounted' = mounted /\ Image' = Image
        /\ op'.stage = NextStage(op.stage) /\ op.call # "none"
    BY <1>0, <1>4 DEF WriteStage, SaveProgress, Ops, Image
  <2>2. CASE op.stage = "superblock"
    <3>1. disk'.freeBlocks = Image.freeBlocks /\ disk'.freeInodes = Image.freeInodes
      BY <1>0, <1>4, <2>2 DEF WriteStage, DiskAfter, SavedCopy, Copies
    <3> QED BY <2>1, <2>2, <3>1 DEF NextStage, SaveProgress
  <2>3. CASE op.stage = "block_bitmap"
    <3>1. /\ disk'.freeBlocks = disk.freeBlocks /\ disk'.freeInodes = disk.freeInodes
          /\ disk'.bits = (disk.bits \ BlockBits) \cup (Image.bits \cap BlockBits)
      BY <1>0, <1>4, <2>3 DEF WriteStage, DiskAfter, SavedCopy, Copies
    <3>2. disk'.bits \cap BlockBits = Image.bits \cap BlockBits
      BY <3>1
    <3> QED BY <2>1, <2>3, <3>1, <3>2 DEF NextStage, SaveProgress
  <2> QED BY <1>4, <2>2, <2>3 DEF WriteStage
<1>5. CASE UnmountWriteFails
  <2>1. CASE op.stage = "inode_bitmap"
    BY <1>0, <1>5, <2>1 DEF UnmountWriteFails, SaveProgress
  <2>2. CASE op.stage # "inode_bitmap"
    <3>1. /\ op'.call = "unmount" /\ ~op'.ok /\ mounted' = mounted
          /\ op'.stage = NextStage(op.stage)
      BY <1>0, <1>5, <2>2 DEF UnmountWriteFails, Ops
    <3>2. mounted
      BY <1>5 DEF UnmountWriteFails, SaveProgress
    <3> QED BY <3>1, <3>2 DEF NextStage, SaveProgress
  <2> QED BY <2>1, <2>2
<1>6. CASE UNCHANGED vars
  BY <1>6 DEF vars, SaveProgress, Image
<1> QED
  BY <1>1, <1>2, <1>3, <1>4, <1>5, <1>6 DEF Next

\* DfTruthful is preserved by every step when blocks have bits of their own.
LEMMA DfTruthfulNext ==
  ASSUME TotalBlocks <= BitmapBits, CountersInv, [Next]_vars
  PROVE  DfTruthful'
<1> USE DEF CountersInv
<1>0. mem \in Copies /\ disk \in Copies
  BY DEF TypeOK
<1>1. CASE AllocateBlock
  BY <1>0, <1>1, AllocateBlockAgrees DEF AllocateBlock, Changes, DfTruthful, Serving
<1>2. CASE AllocateInode
  BY <1>0, <1>2, AllocateInodeAgrees DEF AllocateInode, Changes, DfTruthful, Serving
<1>3. CASE FreeBlock
  BY <1>0, <1>3, FreeBlockAgrees DEF FreeBlock, Changes, DfTruthful, Serving
<1>4. CASE FreeInode
  BY <1>0, <1>4, FreeInodeAgrees DEF FreeInode, Changes, DfTruthful, Serving
<1>5. CASE Mount
  BY <1>5 DEF Mount, DfTruthful
<1>6. CASE UnmountClean
  BY <1>6 DEF UnmountClean, Forget, DfTruthful
<1>7. CASE UnmountDirty \/ Format
  BY <1>7 DEF UnmountDirty, Format, Begin, DfTruthful
<1>8. CASE WriteStage
  BY <1>8 DEF WriteStage, DfTruthful
<1>9. CASE FinishUnmount
  <2>1. CASE op.ok /\ memWhole
    <3>1. disk' = mem
      BY <1>9, <2>1, SaveCompletes DEF FinishUnmount, Image
    <3>2. CountersAgree(mem)
      BY <1>9, <2>1 DEF FinishUnmount, SaveProgress, DfTruthful
    <3> QED BY <1>9, <3>1, <3>2 DEF FinishUnmount, Forget, DfTruthful
  <2>2. CASE ~(op.ok /\ memWhole)
    BY <1>9, <2>2 DEF FinishUnmount, Forget, DfTruthful
  <2> QED BY <2>1, <2>2
<1>10. CASE FinishFormat
  <2>1. disk' = Formatted
    BY <1>10, SaveCompletes DEF FinishFormat, Image, SaveProgress
  <2> QED BY <1>10, <2>1, FormattedAgrees DEF FinishFormat, DfTruthful
<1>11. CASE UnmountWriteFails
  <2>1. CASE op.stage = "inode_bitmap"
    BY <1>11, <2>1 DEF UnmountWriteFails, Forget, DfTruthful
  <2>2. CASE op.stage # "inode_bitmap"
    BY <1>11, <2>2 DEF UnmountWriteFails, DfTruthful
  <2> QED BY <2>1, <2>2
<1>12. CASE FormatWriteFails
  BY <1>12 DEF FormatWriteFails, DfTruthful
<1>13. CASE PowerCut
  BY <1>13 DEF PowerCut, Forget, DfTruthful
<1>14. CASE UNCHANGED vars
  BY <1>14 DEF vars, DfTruthful
<1> QED
  BY <1>1, <1>2, <1>3, <1>4, <1>5, <1>6, <1>7, <1>8, <1>9, <1>10, <1>11,
     <1>12, <1>13, <1>14 DEF Next

LEMMA CountersInit ==
  ASSUME TotalBlocks <= BitmapBits
  PROVE  Init => CountersInv
<1> SUFFICES ASSUME Init PROVE CountersInv
  OBVIOUS
<1>1. TypeOK
  BY TypeInit
<1>2. SaveProgress
  BY DEF Init, SaveProgress, Idle
<1>3. DfTruthful
  BY FormattedAgrees DEF Init, DfTruthful
<1> QED BY <1>1, <1>2, <1>3 DEF CountersInv

\* A save that has gone well so far has written, block by block, what memory (or
\* a format) holds: its calls and stages follow each other, and no format goes on
\* after a write that failed.
THEOREM SaveProgressHolds == Spec => []SaveProgress
<1>1. Init => TypeOK /\ SaveProgress
  BY TypeInit DEF Init, SaveProgress, Idle
<1>2. TypeOK /\ SaveProgress /\ [Next]_vars => (TypeOK /\ SaveProgress)'
  BY TypeNext, SaveProgressNext
<1> QED
  BY <1>1, <1>2, PTL DEF Spec

\* What df prints is true: in a session begun from a whole copy the free
\* counters are the numbers of blocks and inodes the allocator can still give
\* out, provided the block bitmap has a bit for every block of the drive (on a
\* larger drive it does not hold: run alloc_large_drive).
THEOREM DfTruthfulHolds ==
  ASSUME TotalBlocks <= BitmapBits
  PROVE  Spec => []DfTruthful
<1>1. Init => CountersInv
  BY CountersInit
<1>2. CountersInv /\ [Next]_vars => CountersInv'
  BY TypeNext, SaveProgressNext, DfTruthfulNext DEF CountersInv
<1>3. CountersInv => DfTruthful
  BY DEF CountersInv
<1> QED
  BY <1>1, <1>2, <1>3, PTL DEF Spec

-----------------------------------------------------------------------------
\* The allocator's operations keep the reserved blocks' bits: the scan starts
\* above them, rfss_free_block refuses them, and no inode's bit is among them.
LEMMA ReservedKeptByAllocator ==
  ASSUME NEW c \in Copies, 0 .. (Reserved - 1) \subseteq c.bits
  PROVE  /\ 0 .. (Reserved - 1) \subseteq AfterAllocateBlock(c).bits
         /\ 0 .. (Reserved - 1) \subseteq AfterAllocateInode(c).bits
         /\ \A b : 0 .. (Reserved - 1) \subseteq AfterFreeBlock(c, b).bits
         /\ \A i : 0 .. (Reserved - 1) \subseteq AfterFreeInode(c, i).bits
<1>1. c.bits \subseteq AfterAllocateBlock(c).bits
  BY DEF AfterAllocateBlock, Copies
<1>2. c.bits \subseteq AfterAllocateInode(c).bits
  BY DEF AfterAllocateInode, Copies
<1>3. ASSUME NEW b PROVE 0 .. (Reserved - 1) \subseteq AfterFreeBlock(c, b).bits
  <2>1. CASE b \in DataBlocks /\ b \in c.bits
    <3>1. AfterFreeBlock(c, b).bits = c.bits \ {b}
      BY <2>1 DEF AfterFreeBlock, Copies
    <3>2. b \notin 0 .. (Reserved - 1)
      BY <2>1, SizesAssumption DEF DataBlocks
    <3> QED BY <3>1, <3>2
  <2> QED BY <2>1 DEF AfterFreeBlock
<1>4. ASSUME NEW i PROVE 0 .. (Reserved - 1) \subseteq AfterFreeInode(c, i).bits
  <2>1. CASE i \in Inodes /\ InodeBit(i) \in c.bits
    <3>1. AfterFreeInode(c, i).bits = c.bits \ {InodeBit(i)}
      BY <2>1 DEF AfterFreeInode, Copies
    <3>2. InodeBit(i) \notin 0 .. (Reserved - 1)
      BY <2>1, SizesAssumption DEF Inodes, InodeBit
    <3> QED BY <3>1, <3>2
  <2> QED BY <2>1 DEF AfterFreeInode
<1> QED
  BY <1>1, <1>2, <1>3, <1>4

\* Every image that is saved has the reserved blocks' bits, so a copy of which
\* only some blocks were written has them too.
LEMMA ReservedKeptOnDisk ==
  ASSUME TypeOK, SaveProgress, ReservedKept, NEW s
  PROVE  0 .. (Reserved - 1) \subseteq DiskAfter(s).bits
         \/ op.call = "none"
<1> SUFFICES ASSUME op.call # "none" PROVE 0 .. (Reserved - 1) \subseteq DiskAfter(s).bits
  OBVIOUS
<1>1. Image \in Copies /\ disk \in Copies
  BY FormattedType DEF TypeOK, Image
<1>2. 0 .. (Reserved - 1) \subseteq Image.bits
  BY DEF SaveProgress, ReservedKept, Image, Formatted
<1>3. 0 .. (Reserved - 1) \subseteq disk.bits
  BY DEF ReservedKept
<1>4. CASE s = "superblock"
  BY <1>1, <1>3, <1>4 DEF DiskAfter, SavedCopy, Copies
<1>5. CASE s = "block_bitmap"
  <2>1. DiskAfter(s).bits = (disk.bits \ BlockBits) \cup (Image.bits \cap BlockBits)
    BY <1>1, <1>5 DEF DiskAfter, SavedCopy, Copies
  <2> QED BY <1>2, <1>3, <2>1
<1>6. CASE s # "superblock" /\ s # "block_bitmap"
  <2>1. DiskAfter(s).bits = (disk.bits \ InodeBits) \cup (Image.bits \cap InodeBits)
    BY <1>1, <1>6 DEF DiskAfter, SavedCopy, Copies
  <2> QED BY <1>2, <1>3, <2>1
<1> QED BY <1>4, <1>5, <1>6

\* The reserved blocks are never free, in memory or on the disk, whatever is
\* freed and whichever writes of whichever saves are lost.
THEOREM ReservedKeptHolds == Spec => []ReservedKept
<1> DEFINE IInv == TypeOK /\ SaveProgress /\ ReservedKept
<1>1. Init => IInv
  <2> SUFFICES ASSUME Init PROVE IInv
    OBVIOUS
  <2>1. TypeOK
    BY TypeInit
  <2>2. SaveProgress
    BY DEF Init, SaveProgress, Idle
  <2>3. ReservedKept
    BY DEF Init, ReservedKept, Formatted
  <2> QED BY <2>1, <2>2, <2>3
<1>2. IInv /\ [Next]_vars => IInv'
  <2> SUFFICES ASSUME IInv, [Next]_vars PROVE ReservedKept'
    BY TypeNext, SaveProgressNext
  <2>0. mem \in Copies /\ disk \in Copies
    BY DEF TypeOK
  <2>1. CASE AllocateBlock
    BY <2>0, <2>1, ReservedKeptByAllocator DEF AllocateBlock, Changes, ReservedKept, Serving
  <2>2. CASE AllocateInode
    BY <2>0, <2>2, ReservedKeptByAllocator DEF AllocateInode, Changes, ReservedKept, Serving
  <2>3. CASE FreeBlock
    BY <2>0, <2>3, ReservedKeptByAllocator DEF FreeBlock, Changes, ReservedKept, Serving
  <2>4. CASE FreeInode
    BY <2>0, <2>4, ReservedKeptByAllocator DEF FreeInode, Changes, ReservedKept, Serving
  <2>5. CASE Mount
    BY <2>5 DEF Mount, ReservedKept
  <2>6. CASE UnmountClean \/ PowerCut
    BY <2>6 DEF UnmountClean, PowerCut, Forget, ReservedKept
  <2>7. CASE UnmountDirty \/ Format
    BY <2>7 DEF UnmountDirty, Format, Begin, ReservedKept
  <2>8. CASE WriteStage
    <3>1. op.call # "none" /\ disk' = DiskAfter(op.stage)
      BY <2>8 DEF WriteStage, SaveProgress
    <3> QED BY <2>8, <3>1, ReservedKeptOnDisk DEF WriteStage, ReservedKept
  <2>9. CASE FinishUnmount
    BY <2>9, ReservedKeptOnDisk DEF FinishUnmount, Forget, ReservedKept
  <2>10. CASE FinishFormat
    BY <2>10, ReservedKeptOnDisk DEF FinishFormat, ReservedKept
  <2>11. CASE UnmountWriteFails
    <3>1. 0 .. (Reserved - 1) \subseteq disk'.bits
      BY <2>11, ReservedKeptOnDisk DEF UnmountWriteFails, ReservedKept
    <3>2. (mounted' /\ mem' = mem /\ mounted) \/ ~mounted'
      BY <2>11 DEF UnmountWriteFails, Forget, SaveProgress
    <3> QED BY <3>1, <3>2 DEF ReservedKept
  <2>12. CASE FormatWriteFails
    BY <2>12, ReservedKeptOnDisk DEF FormatWriteFails, ReservedKept
  <2>13. CASE UNCHANGED vars
    BY <2>13 DEF vars, ReservedKept
  <2> QED
    BY <2>1, <2>2, <2>3, <2>4, <2>5, <2>6, <2>7, <2>8, <2>9, <2>10, <2>11,
       <2>12, <2>13 DEF Next
<1>3. IInv => ReservedKept
  OBVIOUS
<1> QED
  BY <1>1, <1>2, <1>3, PTL DEF Spec

-----------------------------------------------------------------------------
(***************************************************************************)
(* RfssAlloc implements FreePool, for blocks and for inodes, on every      *)
(* drive whose blocks all have a bit in the block bitmap.                  *)
(***************************************************************************)
\* What the allocator's calls do to the two sets of clear items: each moves at
\* most one item, of its own kind.
LEMMA ClearAfter ==
  ASSUME TotalBlocks <= BitmapBits, NEW c \in Copies
  PROVE  /\ ClearBlocks(AfterAllocateBlock(c)) = ClearBlocks(c) \ {AllocatedBlock(c)}
         /\ ClearInodes(AfterAllocateBlock(c)) = ClearInodes(c)
         /\ ClearInodes(AfterAllocateInode(c)) = ClearInodes(c) \ {AllocatedInode(c)}
         /\ ClearBlocks(AfterAllocateInode(c)) = ClearBlocks(c)
         /\ \A b : /\ ClearBlocks(AfterFreeBlock(c, b)) = ClearBlocks(c) \cup ({b} \cap DataBlocks)
                   /\ ClearInodes(AfterFreeBlock(c, b)) = ClearInodes(c)
         /\ \A i : /\ ClearInodes(AfterFreeInode(c, i)) = ClearInodes(c) \cup ({i} \cap Inodes)
                   /\ ClearBlocks(AfterFreeInode(c, i)) = ClearBlocks(c)
<1>0. 0 \notin DataBlocks /\ 0 \notin Inodes
  BY SizesAssumption DEF DataBlocks, Inodes
<1>1. /\ ClearBlocks(AfterAllocateBlock(c)) = ClearBlocks(c) \ {AllocatedBlock(c)}
      /\ ClearInodes(AfterAllocateBlock(c)) = ClearInodes(c)
  <2>1. CASE AllocatedBlock(c) = 0
    BY <1>0, <2>1 DEF AfterAllocateBlock, ClearBlocks
  <2>2. CASE AllocatedBlock(c) # 0
    <3>1. AllocatedBlock(c) \in DataBlocks
      BY <2>2, AllocatedBlockValue
    <3>2. AfterAllocateBlock(c).bits = c.bits \cup {AllocatedBlock(c)}
      BY <2>2 DEF AfterAllocateBlock, Copies
    <3> QED BY <3>1, <3>2, BitmapsApart DEF ClearBlocks, ClearInodes
  <2> QED BY <2>1, <2>2
<1>2. /\ ClearInodes(AfterAllocateInode(c)) = ClearInodes(c) \ {AllocatedInode(c)}
      /\ ClearBlocks(AfterAllocateInode(c)) = ClearBlocks(c)
  <2>1. CASE AllocatedInode(c) = 0
    BY <1>0, <2>1 DEF AfterAllocateInode, ClearInodes
  <2>2. CASE AllocatedInode(c) # 0
    <3>1. AllocatedInode(c) \in Inodes
      BY <2>2, AllocatedInodeValue
    <3>2. AfterAllocateInode(c).bits = c.bits \cup {InodeBit(AllocatedInode(c))}
      BY <2>2 DEF AfterAllocateInode, Copies
    <3> QED BY <3>1, <3>2, BitmapsApart DEF ClearBlocks, ClearInodes
  <2> QED BY <2>1, <2>2
<1>3. ASSUME NEW b
      PROVE  /\ ClearBlocks(AfterFreeBlock(c, b)) = ClearBlocks(c) \cup ({b} \cap DataBlocks)
             /\ ClearInodes(AfterFreeBlock(c, b)) = ClearInodes(c)
  <2>1. CASE b \in DataBlocks /\ b \in c.bits
    <3>1. AfterFreeBlock(c, b).bits = c.bits \ {b}
      BY <2>1 DEF AfterFreeBlock, Copies
    <3> QED BY <2>1, <3>1, BitmapsApart DEF ClearBlocks, ClearInodes
  <2> QED BY <2>1 DEF AfterFreeBlock, ClearBlocks
<1>4. ASSUME NEW i
      PROVE  /\ ClearInodes(AfterFreeInode(c, i)) = ClearInodes(c) \cup ({i} \cap Inodes)
             /\ ClearBlocks(AfterFreeInode(c, i)) = ClearBlocks(c)
  <2>1. CASE i \in Inodes /\ InodeBit(i) \in c.bits
    <3>1. AfterFreeInode(c, i).bits = c.bits \ {InodeBit(i)}
      BY <2>1 DEF AfterFreeInode, Copies
    <3> QED BY <2>1, <3>1, BitmapsApart DEF ClearBlocks, ClearInodes
  <2> QED BY <2>1 DEF AfterFreeInode, ClearInodes
<1> QED BY <1>1, <1>2, <1>3, <1>4

\* A session begun from a whole copy refuses an item only when none is clear.
LEMMA RefusalMeansNoneLeft ==
  ASSUME NEW c \in Copies, CountersAgree(c)
  PROVE  /\ AllocatedBlock(c) = 0 => ClearBlocks(c) = {}
         /\ AllocatedInode(c) = 0 => ClearInodes(c) = {}
<1>1. 0 \notin DataBlocks /\ 0 \notin Inodes /\ DataBlocks \subseteq Nat /\ Inodes \subseteq Nat
  BY SizesAssumption DEF DataBlocks, Inodes
<1>2. ASSUME AllocatedBlock(c) = 0, ClearBlocks(c) # {} PROVE FALSE
  <2>1. Lowest(ClearBlocks(c)) # 0
    BY <1>1, <1>2, LowestIsIn DEF ClearBlocks
  <2>2. c.freeBlocks = 0
    BY <1>2, <2>1 DEF AllocatedBlock
  <2> QED BY <1>2, <2>2, ClearSetsFinite, FS_EmptySet DEF CountersAgree
<1>3. ASSUME AllocatedInode(c) = 0, ClearInodes(c) # {} PROVE FALSE
  <2>1. Lowest(ClearInodes(c)) # 0
    BY <1>1, <1>3, LowestIsIn DEF ClearInodes
  <2>2. c.freeInodes = 0
    BY <1>3, <2>1 DEF AllocatedInode
  <2> QED BY <1>3, <2>2, ClearSetsFinite, FS_EmptySet DEF CountersAgree
<1> QED BY <1>2, <1>3

\* One block write of a save replaces the clear blocks, the clear inodes or
\* neither by those of the image being saved.
LEMMA ClearOnDisk ==
  ASSUME TotalBlocks <= BitmapBits, TypeOK, op.call # "none", SaveProgress
  PROVE  /\ ClearBlocks(DiskAfter(op.stage)) \in {ClearBlocks(disk), ClearBlocks(Image)}
         /\ ClearInodes(DiskAfter(op.stage)) \in {ClearInodes(disk), ClearInodes(Image)}
<1>0. /\ Image \in Copies /\ disk \in Copies
      /\ op.stage \in {"superblock", "block_bitmap", "inode_bitmap"}
  BY FormattedType DEF TypeOK, Image, SaveProgress, Ops, Stages
<1>1. /\ \A b \in DataBlocks : b \in BlockBits /\ b \notin InodeBits
      /\ \A i \in Inodes : InodeBit(i) \in InodeBits /\ InodeBit(i) \notin BlockBits
  BY SizesAssumption DEF DataBlocks, Inodes, BlockBits, InodeBits, InodeBit
<1>2. CASE op.stage = "superblock"
  <2>1. DiskAfter(op.stage).bits = disk.bits
    BY <1>0, <1>2 DEF DiskAfter, SavedCopy, Copies
  <2> QED BY <2>1 DEF ClearBlocks, ClearInodes
<1>3. CASE op.stage = "block_bitmap"
  <2>1. DiskAfter(op.stage).bits = (disk.bits \ BlockBits) \cup (Image.bits \cap BlockBits)
    BY <1>0, <1>3 DEF DiskAfter, SavedCopy, Copies
  <2> QED BY <1>1, <2>1 DEF ClearBlocks, ClearInodes
<1>4. CASE op.stage = "inode_bitmap"
  <2>1. DiskAfter(op.stage).bits = (disk.bits \ InodeBits) \cup (Image.bits \cap InodeBits)
    BY <1>0, <1>4 DEF DiskAfter, SavedCopy, Copies
  <2> QED BY <1>1, <2>1 DEF ClearBlocks, ClearInodes
<1> QED BY <1>0, <1>2, <1>3, <1>4

-----------------------------------------------------------------------------
LEMMA BlockPoolInit == Init => BlockPool!Init
BY DEF Init, BlockPool!Init

\* Every step of the allocator of blocks is a step of the pool or leaves it alone.
LEMMA BlockPoolNext ==
  ASSUME TotalBlocks <= BitmapBits, CountersInv, [Next]_vars
  PROVE  [BlockPool!Next]_(BlockPool!vars)
<1> USE DEF CountersInv
<1> DEFINE free == IF mounted THEN ClearBlocks(mem) ELSE {}
<1>0. mem \in Copies /\ disk \in Copies /\ ret \in Returns
  BY DEF TypeOK
<1>1. CASE AllocateBlock
  <2>1. /\ mounted /\ mounted' = mounted /\ memWhole' = memWhole
        /\ disk' = disk /\ diskWhole' = diskWhole
        /\ ret'.block = AllocatedBlock(mem)
        /\ ClearBlocks(mem') = ClearBlocks(mem) \ {AllocatedBlock(mem)}
    BY <1>0, <1>1, ClearAfter DEF AllocateBlock, Serving, Changes, Returns
  <2>2. CASE AllocatedBlock(mem) # 0
    <3>1. AllocatedBlock(mem) \in ClearBlocks(mem)
      BY <1>0, <2>2, AllocatedBlockValue
    <3>2. BlockPool!Take
      BY <2>1, <3>1 DEF BlockPool!Take
    <3> QED BY <3>2 DEF BlockPool!Next
  <2>3. CASE AllocatedBlock(mem) = 0
    <3>1. memWhole => ClearBlocks(mem) = {}
      BY <1>0, <2>1, <2>3, RefusalMeansNoneLeft DEF DfTruthful
    <3>2. ClearBlocks(mem') = ClearBlocks(mem)
      BY <1>1, <2>3 DEF AllocateBlock, Changes, AfterAllocateBlock
    <3>3. BlockPool!Refuse
      BY <2>1, <2>3, <3>1, <3>2 DEF BlockPool!Refuse
    <3> QED BY <3>3 DEF BlockPool!Next
  <2> QED BY <2>2, <2>3
<1>2. CASE AllocateInode \/ FreeInode
  <2>1. /\ mounted' = mounted /\ memWhole' = memWhole /\ disk' = disk
        /\ diskWhole' = diskWhole /\ ret'.block = ret.block
        /\ ClearBlocks(mem') = ClearBlocks(mem)
    BY <1>0, <1>2, ClearAfter DEF AllocateInode, FreeInode, Changes, Returns
  <2> QED BY <2>1 DEF BlockPool!vars
<1>3. CASE FreeBlock
  <2>0. PICK x \in 0 .. TotalBlocks : mem' = AfterFreeBlock(mem, x)
    BY <1>3 DEF FreeBlock, Changes
  <2>1. /\ ClearBlocks(mem') = ClearBlocks(mem) \cup ({x} \cap DataBlocks)
        /\ mounted /\ mounted' = mounted /\ memWhole' = memWhole
        /\ disk' = disk /\ diskWhole' = diskWhole /\ ret' = ret
    BY <1>0, <1>3, <2>0, ClearAfter DEF FreeBlock, Serving
  <2>2. CASE x \in DataBlocks
    <3>1. BlockPool!Put
      BY <2>1, <2>2 DEF BlockPool!Put
    <3> QED BY <3>1 DEF BlockPool!Next
  <2>3. CASE x \notin DataBlocks
    BY <2>1, <2>3 DEF BlockPool!vars
  <2> QED BY <2>2, <2>3
<1>4. CASE Mount
  <2>1. BlockPool!Open
    BY <1>4 DEF Mount, BlockPool!Open
  <2> QED BY <2>1 DEF BlockPool!Next
<1>5. CASE UnmountClean \/ PowerCut
  <2>1. BlockPool!Close
    BY <1>5 DEF UnmountClean, PowerCut, Forget, BlockPool!Close
  <2> QED BY <2>1 DEF BlockPool!Next
<1>6. CASE UnmountDirty \/ Format
  BY <1>6 DEF UnmountDirty, Format, Begin, BlockPool!vars
<1>7. ASSUME op.call # "none"
      PROVE  ClearBlocks(DiskAfter(op.stage)) \in {ClearBlocks(disk), free, ClearBlocks(Formatted)}
  BY <1>7, ClearOnDisk DEF Image, SaveProgress
<1>8. CASE WriteStage
  <2>1. op.call # "none"
    BY <1>8 DEF WriteStage, SaveProgress
  <2>2. BlockPool!Save
    BY <1>7, <1>8, <2>1 DEF WriteStage, BlockPool!Save, BlockPool!Written
  <2> QED BY <2>2 DEF BlockPool!Next
<1>9. CASE FinishUnmount
  <2>1. mounted
    BY <1>9 DEF FinishUnmount, SaveProgress
  <2>2. CASE op.ok /\ memWhole
    <3>1. disk' = mem
      BY <1>9, <2>2, SaveCompletes DEF FinishUnmount, Image
    <3>2. BlockPool!Close
      BY <1>9, <2>1, <2>2, <3>1 DEF FinishUnmount, Forget, BlockPool!Close, BlockPool!Written
    <3> QED BY <3>2 DEF BlockPool!Next
  <2>3. CASE ~(op.ok /\ memWhole)
    <3>1. BlockPool!Close
      BY <1>7, <1>9, <2>3 DEF FinishUnmount, Forget, BlockPool!Close, BlockPool!Written
    <3> QED BY <3>1 DEF BlockPool!Next
  <2> QED BY <2>2, <2>3
<1>10. CASE FinishFormat
  <2>1. disk' = Formatted
    BY <1>10, SaveCompletes DEF FinishFormat, Image, SaveProgress
  <2>2. BlockPool!Save
    BY <1>10, <2>1 DEF FinishFormat, BlockPool!Save, BlockPool!Written
  <2> QED BY <2>2 DEF BlockPool!Next
<1>11. CASE UnmountWriteFails
  <2>1. ClearBlocks(disk') \in {ClearBlocks(disk), free, ClearBlocks(Formatted)}
    BY <1>7, <1>11 DEF UnmountWriteFails
  <2>2. CASE op.stage = "inode_bitmap"
    <3>1. BlockPool!Close
      BY <1>11, <2>1, <2>2 DEF UnmountWriteFails, Forget, BlockPool!Close, BlockPool!Written
    <3> QED BY <3>1 DEF BlockPool!Next
  <2>3. CASE op.stage # "inode_bitmap"
    <3>1. BlockPool!Save
      BY <1>11, <2>1, <2>3 DEF UnmountWriteFails, BlockPool!Save, BlockPool!Written
    <3> QED BY <3>1 DEF BlockPool!Next
  <2> QED BY <2>2, <2>3
<1>12. CASE FormatWriteFails
  <2>1. ClearBlocks(disk') \in {ClearBlocks(disk), free, ClearBlocks(Formatted)}
    BY <1>7, <1>12 DEF FormatWriteFails
  <2>2. BlockPool!Save
    BY <1>12, <2>1 DEF FormatWriteFails, BlockPool!Save, BlockPool!Written
  <2> QED BY <2>2 DEF BlockPool!Next
<1>13. CASE UNCHANGED vars
  BY <1>13 DEF vars, BlockPool!vars
<1> QED
  BY <1>1, <1>2, <1>3, <1>4, <1>5, <1>6, <1>8, <1>9, <1>10, <1>11, <1>12,
     <1>13 DEF Next

\* The allocator of blocks keeps FreePool's promise: no block is given out twice,
\* none is refused while one is free, and an unmount in which no write failed
\* brings the same pool back at the next mount.
THEOREM BlockPoolHolds ==
  ASSUME TotalBlocks <= BitmapBits
  PROVE  Spec => BlockPoolImplemented
<1>1. Init => CountersInv
  BY CountersInit
<1>2. CountersInv /\ [Next]_vars => CountersInv'
  BY TypeNext, SaveProgressNext, DfTruthfulNext DEF CountersInv
<1>3. CountersInv /\ [Next]_vars => [BlockPool!Next]_(BlockPool!vars)
  BY BlockPoolNext
<1> QED
  BY <1>1, <1>2, <1>3, BlockPoolInit, PTL DEF Spec, BlockPoolImplemented, BlockPool!Spec

-----------------------------------------------------------------------------
LEMMA InodePoolInit == Init => InodePool!Init
BY DEF Init, InodePool!Init

\* Every step of the allocator of inodes is a step of the pool or leaves it alone.
LEMMA InodePoolNext ==
  ASSUME TotalBlocks <= BitmapBits, CountersInv, [Next]_vars
  PROVE  [InodePool!Next]_(InodePool!vars)
<1> USE DEF CountersInv
<1> DEFINE free == IF mounted THEN ClearInodes(mem) ELSE {}
<1>0. mem \in Copies /\ disk \in Copies /\ ret \in Returns
  BY DEF TypeOK
<1>1. CASE AllocateInode
  <2>1. /\ mounted /\ mounted' = mounted /\ memWhole' = memWhole
        /\ disk' = disk /\ diskWhole' = diskWhole
        /\ ret'.inode = AllocatedInode(mem)
        /\ ClearInodes(mem') = ClearInodes(mem) \ {AllocatedInode(mem)}
    BY <1>0, <1>1, ClearAfter DEF AllocateInode, Serving, Changes, Returns
  <2>2. CASE AllocatedInode(mem) # 0
    <3>1. AllocatedInode(mem) \in ClearInodes(mem)
      BY <1>0, <2>2, AllocatedInodeValue
    <3>2. InodePool!Take
      BY <2>1, <3>1 DEF InodePool!Take
    <3> QED BY <3>2 DEF InodePool!Next
  <2>3. CASE AllocatedInode(mem) = 0
    <3>1. memWhole => ClearInodes(mem) = {}
      BY <1>0, <2>1, <2>3, RefusalMeansNoneLeft DEF DfTruthful
    <3>2. ClearInodes(mem') = ClearInodes(mem)
      BY <1>1, <2>3 DEF AllocateInode, Changes, AfterAllocateInode
    <3>3. InodePool!Refuse
      BY <2>1, <2>3, <3>1, <3>2 DEF InodePool!Refuse
    <3> QED BY <3>3 DEF InodePool!Next
  <2> QED BY <2>2, <2>3
<1>2. CASE AllocateBlock \/ FreeBlock
  <2>1. /\ mounted' = mounted /\ memWhole' = memWhole /\ disk' = disk
        /\ diskWhole' = diskWhole /\ ret'.inode = ret.inode
        /\ ClearInodes(mem') = ClearInodes(mem)
    BY <1>0, <1>2, ClearAfter DEF AllocateBlock, FreeBlock, Changes, Returns
  <2> QED BY <2>1 DEF InodePool!vars
<1>3. CASE FreeInode
  <2>0. PICK x \in 0 .. (InodeCount + 1) : mem' = AfterFreeInode(mem, x)
    BY <1>3 DEF FreeInode, Changes
  <2>1. /\ ClearInodes(mem') = ClearInodes(mem) \cup ({x} \cap Inodes)
        /\ mounted /\ mounted' = mounted /\ memWhole' = memWhole
        /\ disk' = disk /\ diskWhole' = diskWhole /\ ret' = ret
    BY <1>0, <1>3, <2>0, ClearAfter DEF FreeInode, Serving
  <2>2. CASE x \in Inodes
    <3>1. InodePool!Put
      BY <2>1, <2>2 DEF InodePool!Put
    <3> QED BY <3>1 DEF InodePool!Next
  <2>3. CASE x \notin Inodes
    BY <2>1, <2>3 DEF InodePool!vars
  <2> QED BY <2>2, <2>3
<1>4. CASE Mount
  <2>1. InodePool!Open
    BY <1>4 DEF Mount, InodePool!Open
  <2> QED BY <2>1 DEF InodePool!Next
<1>5. CASE UnmountClean \/ PowerCut
  <2>1. InodePool!Close
    BY <1>5 DEF UnmountClean, PowerCut, Forget, InodePool!Close
  <2> QED BY <2>1 DEF InodePool!Next
<1>6. CASE UnmountDirty \/ Format
  BY <1>6 DEF UnmountDirty, Format, Begin, InodePool!vars
<1>7. ASSUME op.call # "none"
      PROVE  ClearInodes(DiskAfter(op.stage)) \in {ClearInodes(disk), free, ClearInodes(Formatted)}
  BY <1>7, ClearOnDisk DEF Image, SaveProgress
<1>8. CASE WriteStage
  <2>1. op.call # "none"
    BY <1>8 DEF WriteStage, SaveProgress
  <2>2. InodePool!Save
    BY <1>7, <1>8, <2>1 DEF WriteStage, InodePool!Save, InodePool!Written
  <2> QED BY <2>2 DEF InodePool!Next
<1>9. CASE FinishUnmount
  <2>1. mounted
    BY <1>9 DEF FinishUnmount, SaveProgress
  <2>2. CASE op.ok /\ memWhole
    <3>1. disk' = mem
      BY <1>9, <2>2, SaveCompletes DEF FinishUnmount, Image
    <3>2. InodePool!Close
      BY <1>9, <2>1, <2>2, <3>1 DEF FinishUnmount, Forget, InodePool!Close, InodePool!Written
    <3> QED BY <3>2 DEF InodePool!Next
  <2>3. CASE ~(op.ok /\ memWhole)
    <3>1. InodePool!Close
      BY <1>7, <1>9, <2>3 DEF FinishUnmount, Forget, InodePool!Close, InodePool!Written
    <3> QED BY <3>1 DEF InodePool!Next
  <2> QED BY <2>2, <2>3
<1>10. CASE FinishFormat
  <2>1. disk' = Formatted
    BY <1>10, SaveCompletes DEF FinishFormat, Image, SaveProgress
  <2>2. InodePool!Save
    BY <1>10, <2>1 DEF FinishFormat, InodePool!Save, InodePool!Written
  <2> QED BY <2>2 DEF InodePool!Next
<1>11. CASE UnmountWriteFails
  <2>1. ClearInodes(disk') \in {ClearInodes(disk), free, ClearInodes(Formatted)}
    BY <1>7, <1>11 DEF UnmountWriteFails
  <2>2. CASE op.stage = "inode_bitmap"
    <3>1. InodePool!Close
      BY <1>11, <2>1, <2>2 DEF UnmountWriteFails, Forget, InodePool!Close, InodePool!Written
    <3> QED BY <3>1 DEF InodePool!Next
  <2>3. CASE op.stage # "inode_bitmap"
    <3>1. InodePool!Save
      BY <1>11, <2>1, <2>3 DEF UnmountWriteFails, InodePool!Save, InodePool!Written
    <3> QED BY <3>1 DEF InodePool!Next
  <2> QED BY <2>2, <2>3
<1>12. CASE FormatWriteFails
  <2>1. ClearInodes(disk') \in {ClearInodes(disk), free, ClearInodes(Formatted)}
    BY <1>7, <1>12 DEF FormatWriteFails
  <2>2. InodePool!Save
    BY <1>12, <2>1 DEF FormatWriteFails, InodePool!Save, InodePool!Written
  <2> QED BY <2>2 DEF InodePool!Next
<1>13. CASE UNCHANGED vars
  BY <1>13 DEF vars, InodePool!vars
<1> QED
  BY <1>1, <1>2, <1>3, <1>4, <1>5, <1>6, <1>8, <1>9, <1>10, <1>11, <1>12,
     <1>13 DEF Next

\* The allocator of inodes keeps FreePool's promise: no inode is given out twice,
\* none is refused while one is free, and an unmount in which no write failed
\* brings the same pool back at the next mount.
THEOREM InodePoolHolds ==
  ASSUME TotalBlocks <= BitmapBits
  PROVE  Spec => InodePoolImplemented
<1>1. Init => CountersInv
  BY CountersInit
<1>2. CountersInv /\ [Next]_vars => CountersInv'
  BY TypeNext, SaveProgressNext, DfTruthfulNext DEF CountersInv
<1>3. CountersInv /\ [Next]_vars => [InodePool!Next]_(InodePool!vars)
  BY InodePoolNext
<1> QED
  BY <1>1, <1>2, <1>3, InodePoolInit, PTL DEF Spec, InodePoolImplemented, InodePool!Spec
=============================================================================
