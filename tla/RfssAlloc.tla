----------------------------- MODULE RfssAlloc -----------------------------
(***************************************************************************)
(* The life of RFSS's free counters and bitmaps (src/fs/rfss.c): mounting  *)
(* reads them, the allocator works on the copy in memory, and they go back *)
(* to the disk only block by block in rfss_unmount, when the copy is       *)
(* dirty; rfss_format writes new ones, and nothing stops it while the      *)
(* filesystem is mounted.  Power can be lost between any two writes.       *)
(***************************************************************************)
EXTENDS RfssBitmaps

\* Bound: how many saves may be cut off or lose a write in one behaviour (each
\* can set counters and bitmaps apart, so the counters have no other bound).
CONSTANT MaxTornSaves

ASSUME TornSavesAssumption == MaxTornSaves \in Nat

VARIABLES
  mounted,     \* fs->mounted
  mem,         \* the copy in memory
  dirty,       \* fs->dirty
  disk,        \* blocks 0 (counters), 69 and 70 (bitmaps) of the drive
  op,          \* the rfss_unmount or rfss_format in progress
  ret,         \* what the last allocation of a block and of an inode returned
  memWhole,    \* history: mem was read from a whole disk copy
  diskWhole,   \* history: no write of the disk's copy is missing
  torn         \* history: the saves cut off or with a failed write so far

vars == <<mounted, mem, dirty, disk, op, ret, memWhole, diskWhole, torn>>

Blank == [bits |-> {}, freeBlocks |-> 0, freeInodes |-> 0]
Idle == [call |-> "none", stage |-> "none", ok |-> TRUE]
Calls == {"none", "unmount", "format"}
Stages == {"none", "superblock", "block_bitmap", "inode_bitmap"}
Ops == [call : Calls, stage : Stages, ok : BOOLEAN]
Returns == [block : {0} \cup DataBlocks, inode : {0} \cup Inodes]

TypeOK ==
  /\ mounted \in BOOLEAN /\ dirty \in BOOLEAN
  /\ mem \in Copies /\ disk \in Copies
  /\ op \in Ops
  /\ ret \in Returns
  /\ memWhole \in BOOLEAN /\ diskWhole \in BOOLEAN
  /\ torn \in 0 .. MaxTornSaves

Init ==
  /\ mounted = FALSE /\ mem = Blank /\ dirty = FALSE
  /\ disk = Formatted
  /\ op = Idle
  /\ ret = [block |-> 0, inode |-> 0]
  /\ memWhole = FALSE /\ diskWhole = TRUE /\ torn = 0

-----------------------------------------------------------------------------
\* The shell runs one command at a time: no call starts before the last ended.
Serving == mounted /\ op = Idle

\* The allocator's four calls, made by every operation of the filesystem.
Changes(m) == mem' = m /\ dirty' = (dirty \/ m # mem)

AllocateBlock ==
  /\ Serving
  /\ Changes(AfterAllocateBlock(mem))
  /\ ret' = [ret EXCEPT !.block = AllocatedBlock(mem)]
  /\ UNCHANGED <<mounted, disk, op, memWhole, diskWhole, torn>>

AllocateInode ==
  /\ Serving
  /\ Changes(AfterAllocateInode(mem))
  /\ ret' = [ret EXCEPT !.inode = AllocatedInode(mem)]
  /\ UNCHANGED <<mounted, disk, op, memWhole, diskWhole, torn>>

\* Callers pass whatever block number an inode on the disk holds.
FreeBlock ==
  /\ Serving
  /\ \E b \in 0 .. TotalBlocks : Changes(AfterFreeBlock(mem, b))
  /\ UNCHANGED <<mounted, disk, op, ret, memWhole, diskWhole, torn>>

FreeInode ==
  /\ Serving
  /\ \E i \in 0 .. (InodeCount + 1) : Changes(AfterFreeInode(mem, i))
  /\ UNCHANGED <<mounted, disk, op, ret, memWhole, diskWhole, torn>>

-----------------------------------------------------------------------------
Mount ==
  /\ ~mounted /\ op = Idle
  /\ mounted' = TRUE /\ mem' = disk /\ dirty' = FALSE
  /\ memWhole' = diskWhole
  /\ UNCHANGED <<disk, op, ret, diskWhole, torn>>

\* memset(fs, 0, sizeof(rfss_fs_t)); mounted_fs = NULL;
Forget == mounted' = FALSE /\ mem' = Blank /\ dirty' = FALSE /\ memWhole' = FALSE

\* A copy that is not dirty is not written back at all.
UnmountClean ==
  /\ Serving /\ ~dirty
  /\ Forget
  /\ UNCHANGED <<disk, op, ret, diskWhole, torn>>

Begin(call) ==
  /\ op' = [call |-> call, stage |-> "superblock", ok |-> TRUE]
  /\ UNCHANGED <<mounted, mem, dirty, disk, ret, memWhole, diskWhole, torn>>

UnmountDirty == Serving /\ dirty /\ Begin("unmount")
Format == op = Idle /\ Begin("format")

\* The copy being written, and the disk after the block of one stage of it.
Image == IF op.call = "unmount" THEN mem ELSE Formatted

DiskAfter(stage) == SavedCopy(disk, Image, stage)

NextStage(stage) == IF stage = "superblock" THEN "block_bitmap" ELSE "inode_bitmap"

\* A write that reaches the disk.  The last one of a call makes the copy there
\* whole if every write of the call succeeded (and the copy was whole itself).
WriteStage ==
  /\ op.stage \in {"superblock", "block_bitmap"}
  /\ disk' = DiskAfter(op.stage)
  /\ op' = [op EXCEPT !.stage = NextStage(@)]
  /\ diskWhole' = FALSE
  /\ UNCHANGED <<mounted, mem, dirty, ret, memWhole, torn>>

FinishUnmount ==
  /\ op.call = "unmount" /\ op.stage = "inode_bitmap"
  /\ disk' = DiskAfter(op.stage)
  /\ diskWhole' = (op.ok /\ memWhole)
  /\ op' = Idle
  /\ Forget
  /\ UNCHANGED <<ret, torn>>

FinishFormat ==
  /\ op.call = "format" /\ op.stage = "inode_bitmap"
  /\ disk' = DiskAfter(op.stage)
  /\ diskWhole' = TRUE
  /\ op' = Idle
  /\ UNCHANGED <<mounted, mem, dirty, ret, memWhole, torn>>

TearSave == torn < MaxTornSaves /\ torn' = torn + 1

\* A write that fails: rfss_unmount ignores the error and goes on, rfss_format
\* returns.  The drive may have stored the block all the same.
UnmountWriteFails ==
  /\ op.call = "unmount" /\ TearSave
  /\ disk' \in {disk, DiskAfter(op.stage)}
  /\ diskWhole' = FALSE
  /\ IF op.stage = "inode_bitmap"
       THEN op' = Idle /\ Forget
       ELSE /\ op' = [op EXCEPT !.stage = NextStage(@), !.ok = FALSE]
            /\ UNCHANGED <<mounted, mem, dirty, memWhole>>
  /\ UNCHANGED ret

FormatWriteFails ==
  /\ op.call = "format" /\ TearSave
  /\ disk' \in {disk, DiskAfter(op.stage)}
  /\ diskWhole' = FALSE
  /\ op' = Idle
  /\ UNCHANGED <<mounted, mem, dirty, ret, memWhole>>

\* The reboot command and power loss: no unmount, whatever was in progress.
PowerCut ==
  /\ mounted \/ op # Idle
  /\ Forget
  /\ op' = Idle
  /\ IF op = Idle THEN UNCHANGED torn ELSE TearSave
  /\ UNCHANGED <<disk, ret, diskWhole>>

Next ==
  \/ AllocateBlock \/ AllocateInode \/ FreeBlock \/ FreeInode
  \/ Mount \/ UnmountClean \/ UnmountDirty \/ Format
  \/ WriteStage \/ FinishUnmount \/ FinishFormat
  \/ UnmountWriteFails \/ FormatWriteFails \/ PowerCut

Spec == Init /\ [][Next]_vars

-----------------------------------------------------------------------------
(***************************************************************************)
(* Properties                                                              *)
(***************************************************************************)

\* What df prints (rfss_get_stats) is what the allocator can still give out:
\* in a session begun from a whole disk copy the counters are the numbers of
\* clear bits, whatever was allocated, freed twice or refused since; and a
\* whole disk copy never mixes the counters of one save with the bitmaps of
\* another.
DfTruthful ==
  /\ mounted /\ memWhole => CountersAgree(mem)
  /\ diskWhole => CountersAgree(disk)

\* Why a completed save is whole: what has been written so far of a save with
\* no failed write is what memory (or a format) holds, block by block in the
\* order of the writes; the filesystem stays mounted until an unmount ends, and
\* a format never continues after a failed write.
SaveProgress ==
  /\ op.call = "none" <=> op.stage = "none"
  /\ op.call = "unmount" => mounted
  /\ op.call = "format" => op.ok
  /\ op.ok /\ op.stage \in {"block_bitmap", "inode_bitmap"} =>
       disk.freeBlocks = Image.freeBlocks /\ disk.freeInodes = Image.freeInodes
  /\ op.ok /\ op.stage = "inode_bitmap" =>
       disk.bits \cap BlockBits = Image.bits \cap BlockBits

\* No call sequence, not even one cut off between two block writes of a save,
\* frees a reserved block: the superblock, the inode table, the bitmaps and the
\* root directory's block keep their bits, so that no file can ever be given one.
ReservedKept ==
  /\ mounted => 0 .. (Reserved - 1) \subseteq mem.bits
  /\ 0 .. (Reserved - 1) \subseteq disk.bits

\* Both allocators implement the pool that callers rely on: an item is never
\* given out twice, and none is refused while one is free (FreePool).
BlockPool == INSTANCE FreePool WITH
  Items <- DataBlocks, None <- 0, NewPool <- ClearBlocks(Formatted),
  open <- mounted, free <- IF mounted THEN ClearBlocks(mem) ELSE {},
  whole <- memWhole, saved <- ClearBlocks(disk), savedWhole <- diskWhole,
  ret <- ret.block

InodePool == INSTANCE FreePool WITH
  Items <- Inodes, None <- 0, NewPool <- ClearInodes(Formatted),
  open <- mounted, free <- IF mounted THEN ClearInodes(mem) ELSE {},
  whole <- memWhole, saved <- ClearInodes(disk), savedWhole <- diskWhole,
  ret <- ret.inode

BlockPoolImplemented == BlockPool!Spec
InodePoolImplemented == InodePool!Spec
=============================================================================
