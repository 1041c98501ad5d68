--------------------------- MODULE RfssDirectory ---------------------------
(***************************************************************************)
(* What is on an RFSS drive besides the allocator's copy, and how          *)
(* src/fs/rfss.c reads it: the inode table t, the contents c of the blocks *)
(* that hold directories and files, name lookup and path resolution.       *)
(*                                                                         *)
(* A directory is a list of blocks and a block a list of entries.  Names   *)
(* are model values and sizes are left out, so that a block has room for   *)
(* EntriesPerBlock entries (DirBlock has the bytes).  The block that a     *)
(* new directory is given holds only "." and "..": the first of the two    *)
(* records it has 12 bytes, less than every scan accepts, so each scan     *)
(* ends there, nothing in the block is ever found and nothing is added.    *)
(***************************************************************************)
EXTENDS RfssBitmaps, Sequences, SequencesExt

CONSTANTS
  Names,            \* the file names that occur
  DirectBlocks,     \* RFSS_DIRECT_BLOCKS: 12
  EntriesPerBlock   \* entries in one directory block: at most 15

ASSUME DirectoryAssumption ==
  /\ DirectBlocks \in Nat \ {0} /\ EntriesPerBlock \in Nat \ {0}
  /\ ".." \notin Names

RootBlock == Reserved - 1
FileBlocks == {RootBlock} \cup DataBlocks

Types == {"none", "file", "directory"}
InodeRecords == [type : Types, blocks : Seq(FileBlocks)]
NoInode == [type |-> "none", blocks |-> <<>>]

\* An entry that was cleared keeps its place, with inode 0.
EntryRecords == [name : Names, inode : {0} \cup Inodes, type : Types]

\* "zero": never written, or zeroes; "data": a file's; "dots": a new directory's
\* first block; "entries": a directory block made by rfss_add_directory_entry.
Contents == [kind : {"zero", "data", "dots", "entries"},
             of : {0} \cup Inodes, list : Seq(EntryRecords)]

ZeroBlock == [kind |-> "zero", of |-> 0, list |-> <<>>]
DataOf(i) == [kind |-> "data", of |-> i, list |-> <<>>]
DotsOf(i) == [kind |-> "dots", of |-> i, list |-> <<>>]
EntryBlock(i, list) == [kind |-> "entries", of |-> i, list |-> list]

\* Paths as the shell passes them: names between slashes, absolute or not.
PathRecords == [absolute : BOOLEAN, names : Seq(Names)]

-----------------------------------------------------------------------------
\* The entries a scan of a block reaches: none in a file's block or a new
\* directory's first one, where the first record length ends the scan.
EntriesIn(block) == IF block.kind = "entries" THEN block.list ELSE <<>>

LiveEntries(block) ==
  {EntriesIn(block)[k] : k \in {j \in DOMAIN EntriesIn(block) : EntriesIn(block)[j].inode # 0}}

\* The places <<k, j>>, entry j of the directory's block k, that hold a live
\* entry of this name, in blocks that can be read.
PlacesOf(t, c, d, name, bad) ==
  {p \in (1 .. Len(t[d].blocks)) \X (1 .. EntriesPerBlock) :
     LET b == t[d].blocks[p[1]]
         list == EntriesIn(c[b])
     IN b \notin bad /\ p[2] <= Len(list) /\ list[p[2]].name = name /\ list[p[2]].inode # 0}

FirstPlace(places) ==
  CHOOSE p \in places : \A q \in places : p[1] < q[1] \/ (p[1] = q[1] /\ p[2] <= q[2])

\* rfss_find_file_in_directory, with the blocks of bad unreadable: they are
\* skipped, as if they had no entries.
Lookup(t, c, d, name, bad) ==
  LET places == PlacesOf(t, c, d, name, bad)
      p == FirstPlace(places)
  IN IF t[d].type # "directory" \/ places = {}
       THEN 0
       ELSE EntriesIn(c[t[d].blocks[p[1]]])[p[2]].inode

\* rfss_resolve_path from directory d: one lookup after the other.
Walk(t, c, d, names, bad) ==
  LET at[k \in 0 .. Len(names)] ==
        IF k = 0 THEN d
        ELSE IF at[k - 1] = 0 THEN 0 ELSE Lookup(t, c, at[k - 1], names[k], bad)
  IN at[Len(names)]

Resolve(t, c, cwd, path, bad) ==
  Walk(t, c, IF path.absolute THEN RootInode ELSE cwd, path.names, bad)

-----------------------------------------------------------------------------
\* Everything that is reached from the root, as pairs of a path and an inode.
\* Depth is bounded by the number of inodes.
Children(t, c, node) ==
  IF t[node.inode].type # "directory" THEN {}
  ELSE UNION {{[path |-> Append(node.path, e.name), inode |-> e.inode]
                 : e \in LiveEntries(c[b])} : b \in Range(t[node.inode].blocks)}

Reached(t, c) ==
  LET level[n \in 0 .. InodeCount] ==
        IF n = 0 THEN {[path |-> <<>>, inode |-> RootInode]}
        ELSE UNION {Children(t, c, node) : node \in level[n - 1]}
  IN UNION {level[n] : n \in 0 .. InodeCount}
=============================================================================
