-------------------------------- MODULE Rfss --------------------------------
(***************************************************************************)
(* The RFSS filesystem (src/fs/rfss.c) as the shell drives it: one command *)
(* at a time, run to the end inside the keyboard interrupt, as a sequence  *)
(* of block writes.  A step is one block write (or the memory work before  *)
(* the first of them); between any two steps the power can go.  Inodes and *)
(* directory blocks go to the drive at once, the free counters and bitmaps *)
(* only when rfss_unmount writes them back, together with the inode table  *)
(* as it was when rfss_mount read it.                                      *)
(***************************************************************************)
EXTENDS RfssDirectory

CONSTANTS
  InodesPerBlock,   \* inodes in one block of the table: 16
  ChunksPerBlock,   \* rfss_write_file calls that fit in a block: 4 of 1024 bytes
  NewPaths,         \* arguments of touch and mkdir: their shell commands let
                    \* only bare names through
  OldPaths,         \* arguments of rm, rmdir, edit, cp
  DirPaths,         \* arguments of cd
  Sessions,         \* bound: the commands allowed in each session, in order
  Careful,          \* TRUE: the user avoids the arguments that CarefulAbout names
  Faults,           \* <<call, kind>>: the disk errors that may happen, by call
  MaxFaults         \* bound: how many disk errors happen in a behaviour

Up == [absolute |-> FALSE, names |-> <<"..">>]

ASSUME RfssAssumption ==
  /\ InodesPerBlock \in Nat \ {0} /\ ChunksPerBlock \in Nat \ {0}
  /\ NewPaths \subseteq OldPaths /\ OldPaths \subseteq PathRecords
  /\ DirPaths \subseteq PathRecords \cup {Up}
  /\ \A p \in NewPaths : ~p.absolute /\ Len(p.names) = 1
  /\ Sessions \in Seq(SUBSET STRING)
  /\ MaxFaults \in Nat /\ Careful \in BOOLEAN
  /\ Faults \subseteq {"create_file", "create_directory", "delete", "open", "write",
                       "change_directory", "unmount", "format"}
                      \X {"unreadable", "lost", "late"}

\* Every disk error after which the code gives everything back or gives up; and
\* those of a format, which it answers by stopping where it is.
HandledFaults ==
  {"create_file", "create_directory"} \X {"lost"}
    \cup {"open", "write", "change_directory"} \X {"unreadable"}
FormatFaults == {"format"} \X {"lost", "late"}

VARIABLES
  mounted, mem, dirty,   \* fs->mounted, the allocator's copy in memory, fs->dirty
  snapshot,              \* fs->inode_table: the table as rfss_mount read it
  cwd,                   \* fs->current_dir_inode and fs->current_path
  diskCopy,              \* blocks 0, 69 and 70 of the drive
  table,                 \* blocks 1..64: the inode table
  content,               \* block 79 and up
  op,                    \* the command in progress
  session,               \* how many mounts there were
  faults                 \* how many disk errors there were

fsVars == <<mounted, snapshot, cwd>>
diskVars == <<diskCopy, table, content>>
vars == <<mounted, mem, dirty, snapshot, cwd, diskCopy, table, content, op, session, faults>>

NoPath == [absolute |-> FALSE, names |-> <<>>]
NoOp == [call |-> "none", pc |-> "none", path |-> NoPath, copy |-> FALSE,
         parent |-> 0, inode |-> 0, block |-> 0, grown |-> 0,
         node |-> NoInode, position |-> 0, left |-> 0]
Blank == [bits |-> {}, freeBlocks |-> 0, freeInodes |-> 0]
AtRoot == [inode |-> RootInode, path |-> <<>>]

FreshTable ==
  [i \in Inodes |-> IF i = RootInode
                      THEN [type |-> "directory", blocks |-> <<RootBlock>>]
                      ELSE NoInode]

TypeOK ==
  /\ mounted \in BOOLEAN /\ dirty \in BOOLEAN
  /\ mem \in Copies /\ diskCopy \in Copies
  /\ \A i \in Inodes : \A t \in {table, snapshot} :
       t[i].type \in Types /\ Range(t[i].blocks) \subseteq FileBlocks
                           /\ Len(t[i].blocks) <= DirectBlocks
  /\ \A b \in FileBlocks :
       /\ content[b].kind \in {"zero", "data", "dots", "entries"}
       /\ content[b].of \in {0} \cup Inodes
       /\ Range(content[b].list) \subseteq EntryRecords
       /\ Len(content[b].list) <= EntriesPerBlock
  /\ cwd.inode \in Inodes /\ Range(cwd.path) \subseteq Names
  /\ op.inode \in {0} \cup Inodes /\ op.parent \in {0} \cup Inodes
  /\ op.block \in Nat /\ op.grown \in {0} \cup DataBlocks
  /\ session \in 0 .. Len(Sessions) /\ faults \in 0 .. MaxFaults

\* A drive that was just formatted, before it is mounted.
Init ==
  /\ mounted = FALSE /\ mem = Blank /\ dirty = FALSE
  /\ snapshot = FreshTable /\ cwd = AtRoot
  /\ diskCopy = Formatted
  /\ table = FreshTable
  /\ content = [b \in FileBlocks |-> IF b = RootBlock THEN DotsOf(RootInode) ELSE ZeroBlock]
  /\ op = NoOp /\ session = 0 /\ faults = 0

-----------------------------------------------------------------------------
(***************************************************************************)
(* Disk errors.  A block that cannot be read is skipped by the scans; a    *)
(* write that reports an error has been lost, or has been stored after all *)
(* (the error came from the cache flush).                                  *)
(***************************************************************************)
Unreadable(call) ==
  {{}} \cup IF <<call, "unreadable">> \in Faults /\ faults < MaxFaults
              THEN {{b} : b \in FileBlocks} ELSE {}

Reading(bad) == faults' = faults + Cardinality(bad)

Outcomes ==
  {"done"} \cup IF faults < MaxFaults
                  THEN {k \in {"lost", "late"} : <<op.call, k>> \in Faults} ELSE {}

Wrote(w) == faults' = IF w = "done" THEN faults ELSE faults + 1

PutContent(b, c, w) ==
  content' = IF w = "lost" THEN content ELSE [content EXCEPT ![b] = c]

\* rfss_write_inode rewrites the inode's block of the table, read just before.
PutInode(i, n, w) ==
  table' = IF w = "lost" THEN table ELSE [table EXCEPT ![i] = n]

\* Mutant of Changes: a change that is not marked dirty.
ChangesUnmarked(m) == mem' = m /\ UNCHANGED dirty

\* What the four allocator functions do to memory; nothing else sets fs->dirty.
Changes(m) == mem' = m /\ dirty' = (dirty \/ m # mem)

-----------------------------------------------------------------------------
(***************************************************************************)
(* Commands start one at a time, on a mounted filesystem.                  *)
(***************************************************************************)
Ready(command) == mounted /\ op = NoOp /\ command \in Sessions[session]

Find(path, bad) == Resolve(table, content, cwd.inode, path, bad)

(***************************************************************************)
(* rfss_create_file and rfss_create_directory                              *)
(***************************************************************************)
ParentOfNew(path, bad) == Find([path EXCEPT !.names = Front(@)], bad)

\* The checks before anything is allocated; a parent that is not a directory
\* passes them, for nothing is found in it.
CanCreate(path, bad) ==
  /\ path.names # <<>>
  /\ ParentOfNew(path, bad) # 0
  /\ Lookup(table, content, ParentOfNew(path, bad), Last(path.names), bad) = 0
  /\ AllocatedInode(mem) # 0

\* Mutant of FirstWrite: a new directory's block is not written.
FirstWriteSkipsDots(call) == "new_inode"

FirstWrite(call) == IF call = "create_file" THEN "new_inode" ELSE "dots"

CreateFile(path, copy, left) ==
  \E bad \in Unreadable("create_file") :
    /\ CanCreate(path, bad)
    /\ op' = [NoOp EXCEPT !.call = "create_file", !.pc = FirstWrite("create_file"), !.path = path,
                !.parent = ParentOfNew(path, bad), !.inode = AllocatedInode(mem),
                !.copy = copy, !.left = left]
    /\ Changes(AfterAllocateInode(mem))
    /\ Reading(bad)
    /\ UNCHANGED <<fsVars, diskVars, session>>

CreateDirectory(path) ==
  \E bad \in Unreadable("create_directory") :
    LET m == AfterAllocateInode(mem)
        b == AllocatedBlock(m) IN
    /\ CanCreate(path, bad)
    /\ Reading(bad)
    /\ UNCHANGED <<fsVars, diskVars, session>>
    /\ \/ /\ b # 0
          /\ op' = [NoOp EXCEPT !.call = "create_directory",
                      !.pc = FirstWrite("create_directory"), !.path = path,
                      !.parent = ParentOfNew(path, bad), !.inode = AllocatedInode(mem),
                      !.block = b]
          /\ Changes(AfterAllocateBlock(m))
       \/ /\ b = 0
          /\ mem' = AfterFreeInode(m, AllocatedInode(mem)) /\ dirty' = TRUE
          /\ UNCHANGED op

Touch == Ready("touch") /\ \E p \in NewPaths : CreateFile(p, FALSE, 0)
Mkdir == Ready("mkdir") /\ \E p \in NewPaths : CreateDirectory(p)

\* cmd_cp opens the source, creates the destination, and goes on when it could;
\* the size of the source is known here only up to a block.
Copy ==
  /\ Ready("cp")
  /\ \E from, to \in OldPaths :
       LET n == Len(table[Find(from, {})].blocks) IN
       /\ Find(from, {}) # 0
       /\ \E left \in IF n = 0 THEN {0}
                      ELSE (ChunksPerBlock * (n - 1) + 1) .. (ChunksPerBlock * n) :
            CreateFile(to, TRUE, left)

\* What a failing creation gives back: its inode, and its block if it has one.
Undo(m) ==
  AfterFreeInode(IF op.call = "create_directory" THEN AfterFreeBlock(m, op.block) ELSE m,
                 op.inode)

\* Mutant of Fail: the block the parent was to get is not freed.
FailKeepsGrown(m) == op' = NoOp /\ Changes(Undo(mem))

Fail(m) == op' = NoOp /\ Changes(Undo(m))
Succeed == op' = IF op.copy THEN [op EXCEPT !.call = "open", !.pc = "open"] ELSE NoOp

WriteDots ==
  /\ op.pc = "dots"
  /\ \E w \in Outcomes :
       /\ PutContent(op.block, DotsOf(op.inode), w) /\ Wrote(w)
       /\ IF w = "done" THEN op' = [op EXCEPT !.pc = "new_inode"] /\ UNCHANGED <<mem, dirty>>
                        ELSE Fail(mem)
  /\ UNCHANGED <<fsVars, diskCopy, table, session>>

NewInode ==
  IF op.call = "create_file" THEN [type |-> "file", blocks |-> <<>>]
                             ELSE [type |-> "directory", blocks |-> <<op.block>>]

\* Mutant of WriteNewInode: the result of the write is not looked at.
WriteNewInodeUnchecked ==
  /\ op.pc = "new_inode"
  /\ \E w \in Outcomes : PutInode(op.inode, NewInode, w) /\ Wrote(w)
  /\ op' = [op EXCEPT !.pc = "add_entry"]
  /\ UNCHANGED <<mem, dirty, fsVars, diskCopy, content, session>>

WriteNewInode ==
  /\ op.pc = "new_inode"
  /\ \E w \in Outcomes :
       /\ PutInode(op.inode, NewInode, w) /\ Wrote(w)
       /\ IF w = "done" THEN op' = [op EXCEPT !.pc = "add_entry"] /\ UNCHANGED <<mem, dirty>>
                        ELSE Fail(mem)
  /\ UNCHANGED <<fsVars, diskCopy, content, session>>

(***************************************************************************)
(* rfss_add_directory_entry: the first block of the parent with room takes *)
(* the entry; otherwise the parent gets one more block.                    *)
(***************************************************************************)
Parent == table[op.parent]
NewEntry == [name |-> Last(op.path.names), inode |-> op.inode, type |-> NewInode.type]

Roomy(bad) ==
  {k \in DOMAIN Parent.blocks :
     LET b == Parent.blocks[k] IN
     b \notin bad /\ content[b].kind = "entries" /\ Len(content[b].list) < EntriesPerBlock}

\* The last entry is cut to its own size and the new one takes the rest.
WithEntry(list) == Append(list, NewEntry)

AppendEntry ==
  /\ op.pc = "add_entry" /\ Parent.type = "directory"
  /\ \E bad \in Unreadable(op.call) :
       /\ Roomy(bad) # {}
       /\ \E w \in IF bad = {} THEN Outcomes ELSE {"done"} :
            LET b == Parent.blocks[Lowest(Roomy(bad))] IN
            /\ PutContent(b, [content[b] EXCEPT !.list = WithEntry(@)], w)
            /\ faults' = faults + Cardinality(bad) + (IF w = "done" THEN 0 ELSE 1)
            /\ IF w = "done" THEN Succeed /\ UNCHANGED <<mem, dirty>> ELSE Fail(mem)
  /\ UNCHANGED <<fsVars, diskCopy, table, session>>

\* Mutant of HasFreeSlot: off by one.
HasFreeSlotOrNone == Len(Parent.blocks) <= DirectBlocks

HasFreeSlot == Len(Parent.blocks) < DirectBlocks

GrowDirectory ==
  /\ op.pc = "add_entry" /\ Parent.type = "directory"
  /\ \E bad \in Unreadable(op.call) :
       /\ Roomy(bad) = {} /\ HasFreeSlot
       /\ AllocatedBlock(mem) # 0
       /\ op' = [op EXCEPT !.pc = "entry_block", !.grown = AllocatedBlock(mem)]
       /\ Changes(AfterAllocateBlock(mem))
       /\ Reading(bad)
  /\ UNCHANGED <<fsVars, diskVars, session>>

\* Not a directory, or no room in it and none for one more block.
RefuseEntry ==
  /\ op.pc = "add_entry"
  /\ \/ Parent.type # "directory" /\ UNCHANGED faults
     \/ \E bad \in Unreadable(op.call) :
          /\ Parent.type = "directory" /\ Roomy(bad) = {}
          /\ ~HasFreeSlot \/ AllocatedBlock(mem) = 0
          /\ Reading(bad)
  /\ Fail(mem)
  /\ UNCHANGED <<fsVars, diskVars, session>>

WriteEntryBlock ==
  /\ op.pc = "entry_block"
  /\ \E w \in Outcomes :
       /\ PutContent(op.grown, EntryBlock(op.parent, <<NewEntry>>), w) /\ Wrote(w)
       /\ IF w = "done" THEN op' = [op EXCEPT !.pc = "parent_inode"] /\ UNCHANGED <<mem, dirty>>
                        ELSE Fail(AfterFreeBlock(mem, op.grown))
  /\ UNCHANGED <<fsVars, diskCopy, table, session>>

WriteParentInode ==
  /\ op.pc = "parent_inode"
  /\ \E w \in Outcomes :
       /\ PutInode(op.parent, [Parent EXCEPT !.blocks = Append(@, op.grown)], w) /\ Wrote(w)
       /\ IF w = "done" THEN Succeed /\ UNCHANGED <<mem, dirty>>
                        ELSE Fail(AfterFreeBlock(mem, op.grown))
  /\ UNCHANGED <<fsVars, diskCopy, content, session>>

-----------------------------------------------------------------------------
(***************************************************************************)
(* rfss_delete_file and rfss_remove_directory: the blocks and the inode    *)
(* are freed in memory first, then the entry is cleared in the parent.     *)
(***************************************************************************)

\* Mutant of ParentOfOld: always the root.
ParentOfOldIsRoot(path, bad) == RootInode

\* The parent is looked up from the text before the last slash.  With no slash
\* it is "/" whatever the current directory; when the text before the slash is
\* empty (a name in the root) it resolves to the current directory.
ParentOfOld(path, bad) ==
  IF Len(path.names) > 1 THEN Find([path EXCEPT !.names = Front(@)], bad)
  ELSE IF path.absolute THEN cwd.inode
  ELSE RootInode

HasEntries(i) == i # 0 /\ \E b \in Range(table[i].blocks) : LiveEntries(content[b]) # {}

\* The arguments of rm, rmdir and edit a careful user stays away from: names
\* without a directory part elsewhere than in the root, the root, the current
\* directory while it is empty, and a directory in the editor.  He does try to
\* remove directories with something in them, the one he is in and those above
\* it among them.
CarefulAbout(command, path) ==
  LET i == Find(path, {}) IN
  Careful =>
    /\ path.names # <<>>
    /\ command = "rm" => Len(path.names) > 1 \/ cwd.inode = RootInode
    /\ command = "rmdir" /\ ~HasEntries(i) =>
         i # cwd.inode /\ (Len(path.names) > 1 \/ cwd.inode = RootInode)
    /\ command = "edit" => i # 0 /\ table[i].type # "directory"

IsDirectory(i) == table[i].type = "directory"

\* Mutant of IsEmptyDirectory: the entries are not looked at.
IsAnyDirectory(i, bad) == IsDirectory(i)

IsEmptyDirectory(i, bad) ==
  /\ IsDirectory(i)
  /\ \A b \in Range(table[i].blocks) \ bad : LiveEntries(content[b]) = {}

Unlink(path, i, bad) ==
  /\ Changes(AfterFreeInode(FreeAll(mem, table[i].blocks), i))
  /\ op' = IF ParentOfOld(path, bad) = 0 \/ path.names = <<>> THEN NoOp
           ELSE [NoOp EXCEPT !.call = "delete", !.pc = "clear_entry", !.path = path,
                   !.inode = i, !.parent = ParentOfOld(path, bad)]
  /\ Reading(bad)
  /\ UNCHANGED <<fsVars, diskVars, session>>

DeleteFile ==
  /\ Ready("rm")
  /\ \E p \in OldPaths, bad \in Unreadable("delete") :
       LET i == Find(p, bad) IN
       /\ CarefulAbout("rm", p)
       /\ i # 0 /\ ~IsDirectory(i)
       /\ Unlink(p, i, bad)

RemoveDirectory ==
  /\ Ready("rmdir")
  /\ \E p \in OldPaths, bad \in Unreadable("delete") :
       LET i == Find(p, bad) IN
       /\ CarefulAbout("rmdir", p)
       /\ i # 0 /\ IsEmptyDirectory(i, bad)
       /\ Unlink(p, i, bad)

\* The first entry of a block with the name and the inode, if it has one.
Matching(b) ==
  {j \in DOMAIN EntriesIn(content[b]) :
     /\ EntriesIn(content[b])[j].inode = op.inode
     /\ EntriesIn(content[b])[j].name = Last(op.path.names)}

\* One block of the parent after the other (op.position have been scanned); an
\* unreadable block is skipped and the result of the write is not looked at.
ClearEntry ==
  /\ op.pc = "clear_entry"
  /\ \E bad \in Unreadable("delete") :
       LET ks == {k \in (op.position + 1) .. Len(Parent.blocks) :
                    Parent.blocks[k] \notin bad /\ Matching(Parent.blocks[k]) # {}}
           b == Parent.blocks[Lowest(ks)] IN
       \/ /\ ks = {}
          /\ op' = NoOp
          /\ Reading(bad)
          /\ UNCHANGED content
       \/ /\ ks # {} /\ bad = {}
          /\ \E w \in Outcomes :
               /\ PutContent(b, [content[b] EXCEPT !.list[Lowest(Matching(b))].inode = 0], w)
               /\ Wrote(w)
          /\ op' = [op EXCEPT !.position = Lowest(ks)]
  /\ UNCHANGED <<mem, dirty, fsVars, diskCopy, table, session>>

-----------------------------------------------------------------------------
(***************************************************************************)
(* rfss_open_file for writing, which truncates, and rfss_write_file        *)
(***************************************************************************)
\* Mutant of Truncated: the freed blocks stay in the inode.
TruncatedInName(node) == node

Truncated(node) == [node EXCEPT !.blocks = <<>>]

OpenForWriting(path, left) ==
  \E bad \in Unreadable("open") :
    LET i == Find(path, bad) IN
    /\ Reading(bad)
    /\ UNCHANGED <<fsVars, diskVars, session>>
    /\ \/ /\ i # 0
          /\ Changes(FreeAll(mem, table[i].blocks))
          /\ op' = [NoOp EXCEPT !.call = "open", !.pc = "truncated_inode", !.path = path,
                      !.inode = i, !.node = Truncated(table[i]), !.left = left]
       \/ /\ i = 0 /\ op # NoOp
          /\ op' = NoOp /\ UNCHANGED <<mem, dirty>>

\* Leaving the editor saves its buffer with one write call, none if it is empty.
Edit ==
  /\ Ready("edit")
  /\ \E p \in OldPaths, left \in {0, 1} : CarefulAbout("edit", p) /\ OpenForWriting(p, left)

CopyOpens == op.pc = "open" /\ OpenForWriting(op.path, op.left)

\* The result of the inode's write is not looked at.
AfterInode == IF op.left > 0 THEN [op EXCEPT !.call = "write", !.pc = "write"] ELSE NoOp

WriteTruncatedInode ==
  /\ op.pc = "truncated_inode"
  /\ \E w \in Outcomes : PutInode(op.inode, op.node, w) /\ Wrote(w)
  /\ op' = AfterInode
  /\ UNCHANGED <<mem, dirty, fsVars, diskCopy, content, session>>

\* One call of rfss_write_file, for data that lies within one block.
Index == op.position \div ChunksPerBlock + 1

ExtendFile ==
  /\ op.pc = "write" /\ Index <= DirectBlocks /\ Index > Len(op.node.blocks)
  /\ AllocatedBlock(mem) # 0
  /\ op' = [op EXCEPT !.pc = "data", !.node.blocks = Append(@, AllocatedBlock(mem))]
  /\ Changes(AfterAllocateBlock(mem))
  /\ UNCHANGED <<fsVars, diskVars, session, faults>>

RewriteBlock ==
  /\ op.pc = "write" /\ Index <= Len(op.node.blocks)
  /\ op' = [op EXCEPT !.pc = "data"]
  /\ UNCHANGED <<mem, dirty, fsVars, diskVars, session, faults>>

\* Nothing is written: the file has all its blocks, the drive is full, or the
\* block cannot be read.  The inode is written all the same, the command stops.
StopWriting ==
  /\ op.pc = "write"
  /\ \/ /\ Index > DirectBlocks \/ (Index > Len(op.node.blocks) /\ AllocatedBlock(mem) = 0)
        /\ UNCHANGED faults
     \/ /\ Index <= Len(op.node.blocks)
        /\ \E bad \in Unreadable("write") \ {{}} : op.node.blocks[Index] \in bad /\ Reading(bad)
  /\ op' = [op EXCEPT !.pc = "file_inode", !.left = 0]
  /\ UNCHANGED <<mem, dirty, fsVars, diskVars, session>>

WriteData ==
  /\ op.pc = "data"
  /\ \E w \in Outcomes :
       /\ PutContent(op.node.blocks[Index], DataOf(op.inode), w) /\ Wrote(w)
       /\ op' = IF w = "done"
                  THEN [op EXCEPT !.pc = "file_inode", !.position = @ + 1, !.left = @ - 1]
                  ELSE [op EXCEPT !.pc = "file_inode", !.left = 0]
  /\ UNCHANGED <<mem, dirty, fsVars, diskCopy, table, session>>

WriteFileInode ==
  /\ op.pc = "file_inode"
  /\ \E w \in Outcomes : PutInode(op.inode, op.node, w) /\ Wrote(w)
  /\ op' = AfterInode
  /\ UNCHANGED <<mem, dirty, fsVars, diskCopy, content, session>>

-----------------------------------------------------------------------------
(***************************************************************************)
(* cd: the shell builds the new path as text, from the current one, and    *)
(* rfss_change_directory resolves it from the root.                        *)
(***************************************************************************)
NewDirectory(path) ==
  IF path = Up THEN Front(cwd.path)
  ELSE IF path.absolute THEN path.names ELSE cwd.path \o path.names

ChangeDirectory ==
  /\ Ready("cd")
  /\ \E p \in DirPaths, bad \in Unreadable("change_directory") :
       /\ p = Up => cwd.path # <<>>
       /\ LET i == Find([absolute |-> TRUE, names |-> NewDirectory(p)], bad) IN
          /\ i # 0
          /\ IsDirectory(i)
          /\ cwd' = [inode |-> i, path |-> NewDirectory(p)]
       /\ Reading(bad)
  /\ UNCHANGED <<mounted, mem, dirty, snapshot, diskVars, op, session>>

-----------------------------------------------------------------------------
(***************************************************************************)
(* rfss_mount, rfss_unmount, rfss_format, and losing power                 *)
(***************************************************************************)
Mount ==
  /\ ~mounted /\ op = NoOp /\ session < Len(Sessions)
  /\ mounted' = TRUE /\ mem' = diskCopy /\ dirty' = FALSE
  /\ snapshot' = table /\ cwd' = AtRoot
  /\ session' = session + 1
  /\ UNCHANGED <<diskVars, op, faults>>

\* What memory holds is of no consequence once the filesystem is not mounted.
Forget ==
  /\ mounted' = FALSE /\ mem' = Blank /\ dirty' = FALSE
  /\ snapshot' = FreshTable /\ cwd' = AtRoot

UnmountClean ==
  /\ Ready("umount") /\ ~dirty
  /\ Forget
  /\ UNCHANGED <<diskVars, op, session, faults>>

UnmountDirty ==
  /\ Ready("umount") /\ dirty
  /\ op' = [NoOp EXCEPT !.call = "unmount", !.pc = "superblock"]
  /\ UNCHANGED <<mem, dirty, fsVars, diskVars, session, faults>>

\* Nothing asks whether the drive is mounted.
Format ==
  /\ op = NoOp /\ session > 0 /\ "format" \in Sessions[session]
  /\ op' = [NoOp EXCEPT !.call = "format", !.pc = "superblock"]
  /\ UNCHANGED <<mem, dirty, fsVars, diskVars, session, faults>>

Stages == <<"superblock", "block_bitmap", "inode_bitmap", "table">>
StageAfter(pc) == Stages[1 + CHOOSE k \in 1 .. 3 : Stages[k] = pc]

WriteCopy ==
  /\ op.pc \in {"superblock", "block_bitmap", "inode_bitmap"}
  /\ \E w \in Outcomes :
       /\ diskCopy' = IF w = "lost" THEN diskCopy
                      ELSE SavedCopy(diskCopy, IF op.call = "unmount" THEN mem ELSE Formatted,
                                     op.pc)
       /\ Wrote(w)
       /\ op' = IF op.call = "format" /\ w # "done" THEN NoOp
                ELSE [op EXCEPT !.pc = StageAfter(@), !.block = 1]
  /\ UNCHANGED <<mem, dirty, fsVars, table, content, session>>

\* Mutant of TableBlocks: a table that ends in a part of a block loses it.
TableBlocksRoundedDown == 1 .. (InodeCount \div InodesPerBlock)

TableBlocks == 1 .. ((InodeCount + InodesPerBlock - 1) \div InodesPerBlock)
InTableBlock(i, k) == (i - 1) \div InodesPerBlock + 1 = k

\* op.block is the block of the table to write next: from the snapshot, in an
\* unmount, whatever was written to the table since.
WriteTable ==
  /\ op.pc = "table"
  /\ \E w \in Outcomes :
       /\ table' = IF w = "lost" THEN table
                   ELSE [i \in Inodes |->
                           IF ~InTableBlock(i, op.block) THEN table[i]
                           ELSE IF op.call = "unmount" THEN snapshot[i] ELSE FreshTable[i]]
       /\ Wrote(w)
       /\ \/ /\ op.call = "format" /\ w # "done"
             /\ op' = NoOp /\ UNCHANGED <<mem, dirty, fsVars>>
          \/ /\ op.call = "unmount" \/ w = "done"
             /\ op.block + 1 \in TableBlocks
             /\ op' = [op EXCEPT !.block = @ + 1] /\ UNCHANGED <<mem, dirty, fsVars>>
          \/ /\ op.call = "format" /\ w = "done" /\ op.block + 1 \notin TableBlocks
             /\ op' = [op EXCEPT !.pc = "root"] /\ UNCHANGED <<mem, dirty, fsVars>>
          \/ /\ op.call = "unmount" /\ op.block + 1 \notin TableBlocks
             /\ op' = NoOp /\ Forget
  /\ UNCHANGED <<diskCopy, content, session>>

WriteRoot ==
  /\ op.pc = "root"
  /\ \E w \in Outcomes : PutContent(RootBlock, DotsOf(RootInode), w) /\ Wrote(w)
  /\ op' = NoOp
  /\ UNCHANGED <<mem, dirty, fsVars, diskCopy, table, session>>

\* The reboot command and power loss: nothing is unmounted.
PowerCut ==
  /\ mounted \/ op # NoOp
  /\ session > 0 /\ "power_cut" \in Sessions[session]
  /\ Forget
  /\ op' = NoOp
  /\ UNCHANGED <<diskVars, session, faults>>

Next ==
  \/ Touch \/ Mkdir \/ Copy \/ Edit \/ DeleteFile \/ RemoveDirectory \/ ChangeDirectory
  \/ WriteDots \/ WriteNewInode
  \/ AppendEntry \/ GrowDirectory \/ RefuseEntry \/ WriteEntryBlock \/ WriteParentInode
  \/ ClearEntry
  \/ CopyOpens \/ WriteTruncatedInode
  \/ ExtendFile \/ RewriteBlock \/ StopWriting \/ WriteData \/ WriteFileInode
  \/ Mount \/ UnmountClean \/ UnmountDirty \/ Format
  \/ WriteCopy \/ WriteTable \/ WriteRoot \/ PowerCut

Spec == Init /\ [][Next]_vars

-----------------------------------------------------------------------------
(***************************************************************************)
(* Properties                                                              *)
(***************************************************************************)
Tree == Reached(table, content)
Reachable == {node.inode : node \in Tree}

\* The live entries of every reachable directory, as pairs of it and the entry.
ReachableEntries ==
  UNION {{<<i, e>> : e \in UNION {LiveEntries(content[b]) : b \in Range(table[i].blocks)}}
           : i \in {j \in Reachable : table[j].type = "directory"}}

\* The pairs of a reachable inode and a place in its list of blocks.
BlockUses == {x \in Reachable \X (1 .. DirectBlocks) : x[2] <= Len(table[x[1]].blocks)}

\* No two files share anything: every reachable inode has one name (the root
\* none), every block of one belongs to it alone and at one place, and between
\* commands what is in use is marked in use, so that it is not given out again.
NothingShared ==
  /\ \A x, y \in ReachableEntries : x[2].inode = y[2].inode => x = y
  /\ \A x \in ReachableEntries : x[2].inode # RootInode
  /\ \A x, y \in BlockUses : table[x[1]].blocks[x[2]] = table[y[1]].blocks[y[2]] => x = y

InUseIsMarked ==
  mounted /\ op = NoOp =>
    /\ \A i \in Reachable : InodeBit(i) \in mem.bits
    /\ \A x \in BlockUses : table[x[1]].blocks[x[2]] \in mem.bits

SharingExcluded == NothingShared /\ InUseIsMarked

\* No command, not even one that failed half way through, leaves an inode or a
\* block marked that nothing reaches: the drive does not fill up with nothing.
NothingLeaked ==
  mounted /\ op = NoOp =>
    /\ \A i \in Inodes : InodeBit(i) \in mem.bits => i \in Reachable
    /\ \A b \in DataBlocks : b \in mem.bits =>
         \E x \in BlockUses : table[x[1]].blocks[x[2]] = b

\* At every moment, so whenever the power goes, each entry that can be found
\* leads to an inode of the type it says, each directory's first block holds
\* its own dots and its other ones entries of its own, and each block of a file
\* holds data of that file: what refers is written after what it refers to.
WrittenBeforeReferred ==
  /\ \A x \in ReachableEntries : table[x[2].inode].type = x[2].type
  /\ \A x \in BlockUses :
       LET i == x[1]
           c == content[table[i].blocks[x[2]]] IN
       IF table[i].type = "file" THEN c = DataOf(i)
       ELSE IF x[2] = 1 THEN c = DotsOf(i) ELSE c.kind = "entries" /\ c.of = i

\* The current directory exists, and the path in the prompt leads to it, as long
\* as nobody removes it while it is empty, which the code lets him do.  Whatever
\* else is removed leaves it alone: rmdir asks neither for fs->current_dir_inode
\* nor for the path, and only that a directory above it, or it itself, is not
\* empty keeps them from being freed and made into something else.
CurrentDirectoryExists ==
  mounted => /\ table[cwd.inode].type = "directory"
             /\ Walk(table, content, RootInode, cwd.path, {}) = cwd.inode

\* What a user sees of the drive: the names, and how many blocks each file has.
Visible ==
  {[path |-> node.path, type |-> table[node.inode].type,
    size |-> IF table[node.inode].type = "file" THEN Len(table[node.inode].blocks) ELSE 0]
     : node \in Tree}

\* The command in progress, as FileTree sees it: what it does next, and the path
\* it is about.
Doing ==
  CASE op.call \in {"create_file", "create_directory"} -> IF op.copy THEN "copy" ELSE "add"
    [] op.call = "delete" /\ op.position = 0 -> "remove"
    [] op.call = "open" -> "empty"
    [] op.call = "write" -> "fill"
    [] OTHER -> "nothing"

PathsTo(i) == {node.path : node \in {n \in Tree : n.inode = i}}

At ==
  CASE Doing \in {"add", "copy"} -> {Append(p, Last(op.path.names)) : p \in PathsTo(op.parent)}
    [] Doing \in {"remove", "empty", "fill"} -> PathsTo(op.inode)
    [] OTHER -> {}

\* From its beginning to its end a command changes the visible tree at one path
\* only, the one its argument leads to: touch and mkdir by adding it, rm and
\* rmdir by taking it out, each in one of their block writes and no other; edit
\* by emptying the file there and then extending it by one block at a time; cp
\* by adding the file and then the same, on the file it has added.  A command
\* that fails or is cut off has done a first part of that (FileTree).
Files == INSTANCE FileTree WITH tree <- Visible, doing <- Doing, at <- At

FileTreeImplemented == Files!Spec

\* When rm or rmdir of a name is through, the name is not found any more.
RemovedIsGone ==
  [][op.pc = "clear_entry" /\ op'.pc = "none" /\ mounted'
       => Resolve(table', content', cwd.inode, op.path, {}) # op.inode]_vars

\* A format that wrote everything has emptied the drive, whatever was on it and
\* whatever is mounted: the root alone is in the table, and the saved copy marks
\* nothing but it and the reserved blocks.
FormatErases ==
  [][op.pc = "root" /\ faults' = faults
       => /\ \A i \in Inodes \ {RootInode} : table'[i] = NoInode
          /\ Reached(table', content') = {[path |-> <<>>, inode |-> RootInode]}
          /\ diskCopy'.bits \cap DataBlocks = {} /\ CountersAgree(diskCopy')]_vars

\* Unmounting leaves on the drive the tree that was there.
UnmountKeepsTree == [][op.call = "unmount" => Visible' = Visible]_vars
=============================================================================
