----------------------------- MODULE Rfss_proofs -----------------------------
(***************************************************************************)
(* Theorems about the filesystem as the shell drives it, for drives,       *)
(* tables, directories, paths and numbers of sessions of every size.       *)
(***************************************************************************)
EXTENDS Rfss, RfssBitmaps_proofs

-----------------------------------------------------------------------------
(***************************************************************************)
(* What a table and the blocks behind it hold.                             *)
(***************************************************************************)
InodeLists == {n \in InodeRecords : Len(n.blocks) <= DirectBlocks}
BlockLists == {x \in Contents : Len(x.list) <= EntriesPerBlock}
Tables == [Inodes -> InodeLists]
Stores == [FileBlocks -> BlockLists]

LEMMA SizesOfDrive ==
  /\ RootInode \in Inodes /\ 0 \notin Inodes /\ Inodes \subseteq Nat
  /\ RootBlock \in FileBlocks /\ DataBlocks \subseteq FileBlocks
  /\ FileBlocks \subseteq Nat /\ DataBlocks \subseteq Nat
  /\ RootBlock \notin DataBlocks /\ 0 \notin DataBlocks
BY SizesAssumption DEF RootInode, Inodes, RootBlock, FileBlocks, DataBlocks

EntryAt(t, c, d, k, j) == EntriesIn(c[t[d].blocks[k]])[j]

\* The place of directory d in which entry j of block k is live.
Live(t, c, d, k, j) ==
  /\ t[d].type = "directory" /\ k \in DOMAIN t[d].blocks
  /\ j \in DOMAIN EntriesIn(c[t[d].blocks[k]])
  /\ EntryAt(t, c, d, k, j).inode # 0

\* It is in a block that can be read, and has this name.
Shows(t, c, d, k, j, name, bad) ==
  /\ Live(t, c, d, k, j) /\ EntryAt(t, c, d, k, j).name = name
  /\ t[d].blocks[k] \notin bad

LEMMA InodeListIs ==
  ASSUME NEW n \in InodeLists
  PROVE  /\ n.type \in Types /\ n.blocks \in Seq(FileBlocks)
         /\ Len(n.blocks) \in Nat /\ Len(n.blocks) <= DirectBlocks
         /\ DOMAIN n.blocks = 1 .. Len(n.blocks)
         /\ \A k \in DOMAIN n.blocks : n.blocks[k] \in FileBlocks
<1>1. n.type \in Types /\ n.blocks \in Seq(FileBlocks) /\ Len(n.blocks) <= DirectBlocks
  BY DEF InodeLists, InodeRecords
<1> QED
  BY <1>1, LenProperties, ElementOfSeq

LEMMA EntriesInIs ==
  ASSUME NEW x \in BlockLists
  PROVE  /\ EntriesIn(x) \in Seq(EntryRecords)
         /\ Len(EntriesIn(x)) \in Nat /\ Len(EntriesIn(x)) <= EntriesPerBlock
         /\ DOMAIN EntriesIn(x) = 1 .. Len(EntriesIn(x))
         /\ \A j \in DOMAIN EntriesIn(x) : EntriesIn(x)[j] \in EntryRecords
<1>1. x.list \in Seq(EntryRecords) /\ Len(x.list) <= EntriesPerBlock
  BY DEF BlockLists, Contents
<1>2. <<>> \in Seq(EntryRecords) /\ Len(<<>>) = 0
  OBVIOUS
<1>3. EntriesIn(x) \in Seq(EntryRecords) /\ Len(EntriesIn(x)) <= EntriesPerBlock
  BY <1>1, <1>2, DirectoryAssumption DEF EntriesIn
<1> QED
  BY <1>3, LenProperties, ElementOfSeq

LEMMA LiveIs ==
  ASSUME NEW t \in Tables, NEW c \in Stores, NEW d \in Inodes, NEW k, NEW j, Live(t, c, d, k, j)
  PROVE  /\ k \in 1 .. Len(t[d].blocks) /\ j \in 1 .. Len(EntriesIn(c[t[d].blocks[k]]))
         /\ k \in 1 .. DirectBlocks /\ j \in 1 .. EntriesPerBlock /\ k \in Nat /\ j \in Nat
         /\ t[d].blocks[k] \in FileBlocks
         /\ EntryAt(t, c, d, k, j) \in EntryRecords /\ EntryAt(t, c, d, k, j).inode \in Inodes
<1>1. t[d] \in InodeLists
  BY DEF Tables
<1>2. k \in 1 .. Len(t[d].blocks) /\ t[d].blocks[k] \in FileBlocks /\ k \in 1 .. DirectBlocks
  BY <1>1, InodeListIs, DirectoryAssumption DEF Live
<1>3. c[t[d].blocks[k]] \in BlockLists
  BY <1>2 DEF Stores
<1>4. /\ j \in 1 .. Len(EntriesIn(c[t[d].blocks[k]])) /\ j \in 1 .. EntriesPerBlock
      /\ EntryAt(t, c, d, k, j) \in EntryRecords
  BY <1>3, EntriesInIs, DirectoryAssumption DEF Live, EntryAt
<1>5. EntryAt(t, c, d, k, j).inode \in Inodes
  BY <1>4 DEF EntryRecords, Live
<1> QED
  BY <1>2, <1>4, <1>5

-----------------------------------------------------------------------------
(***************************************************************************)
(* Looking a name up.                                                      *)
(***************************************************************************)
LEMMA FirstPlaceIs ==
  ASSUME NEW places \in SUBSET (Nat \X Nat), places # {}
  PROVE  FirstPlace(places) \in places
<1> DEFINE rows == {p[1] : p \in places}
           k == Lowest(rows)
           columns == {p[2] : p \in {q \in places : q[1] = k}}
           j == Lowest(columns)
<1>1. rows \subseteq Nat /\ rows # {}
  OBVIOUS
<1>2. k \in rows /\ \A x \in rows : k <= x
  <2> HIDE DEF rows
  <2> QED
    BY <1>1, LowestIsIn
<1>3. columns \subseteq Nat /\ columns # {}
  BY <1>2
<1>4. j \in columns /\ \A x \in columns : j <= x
  <2> HIDE DEF columns
  <2> QED
    BY <1>3, LowestIsIn
<1>5. PICK p \in places : p[1] = k /\ p[2] = j
  BY <1>4
<1>6. ASSUME NEW q \in places PROVE p[1] < q[1] \/ (p[1] = q[1] /\ p[2] <= q[2])
  <2>1. q[1] \in rows /\ (q[1] = k => q[2] \in columns)
    OBVIOUS
  <2>2. k <= q[1] /\ (q[1] = k => j <= q[2])
    BY <1>2, <1>4, <2>1
  <2>3. p[1] \in Nat /\ q[1] \in Nat
    OBVIOUS
  <2> HIDE DEF k, j
  <2> QED
    BY <1>5, <2>2, <2>3
<1> HIDE DEF k, j
<1>7. \E x \in places : \A q \in places : x[1] < q[1] \/ (x[1] = q[1] /\ x[2] <= q[2])
  BY <1>5, <1>6
<1> QED
  BY <1>7, Zenon DEF FirstPlace

\* What a lookup answers is the inode of an entry of that name; it answers 0
\* only when there is none.
LEMMA LookupIs ==
  ASSUME NEW t \in Tables, NEW c \in Stores, NEW d \in Inodes, NEW name, NEW bad
  PROVE  /\ Lookup(t, c, d, name, bad) # 0 =>
              /\ Lookup(t, c, d, name, bad) \in Inodes
              /\ \E k, j \in Nat : /\ Shows(t, c, d, k, j, name, bad)
                                   /\ EntryAt(t, c, d, k, j).inode = Lookup(t, c, d, name, bad)
         /\ \A k, j : Shows(t, c, d, k, j, name, bad) => Lookup(t, c, d, name, bad) # 0
<1> DEFINE places == PlacesOf(t, c, d, name, bad)
           p == FirstPlace(places)
<1>1. places \in SUBSET (Nat \X Nat)
  <2>1. PICK n, m : n = Len(t[d].blocks) /\ m = EntriesPerBlock
    OBVIOUS
  <2>2. places \subseteq (1 .. n) \X (1 .. m)
    BY <2>1 DEF PlacesOf
  <2>3. 1 .. n \subseteq Nat /\ 1 .. m \subseteq Nat
    OBVIOUS
  <2> HIDE DEF places
  <2> QED
    BY ONLY <2>2, <2>3
<1>2. ASSUME NEW q \in places, t[d].type = "directory"
      PROVE  Shows(t, c, d, q[1], q[2], name, bad) /\ q[1] \in Nat /\ q[2] \in Nat
  <2>1. t[d] \in InodeLists
    BY DEF Tables
  <2>2. q[1] \in 1 .. Len(t[d].blocks) /\ q[1] \in DOMAIN t[d].blocks
    BY <2>1, InodeListIs DEF PlacesOf
  <2>3. c[t[d].blocks[q[1]]] \in BlockLists
    BY <2>1, <2>2, InodeListIs DEF Stores
  <2>4. /\ q[2] \in 1 .. EntriesPerBlock /\ q[2] <= Len(EntriesIn(c[t[d].blocks[q[1]]]))
        /\ t[d].blocks[q[1]] \notin bad
        /\ EntryAt(t, c, d, q[1], q[2]).name = name /\ EntryAt(t, c, d, q[1], q[2]).inode # 0
    BY DEF PlacesOf, EntryAt
  <2>5. q[2] \in DOMAIN EntriesIn(c[t[d].blocks[q[1]]])
    BY <2>3, <2>4, EntriesInIs, DirectoryAssumption
  <2> QED
    BY <1>1, <1>2, <2>2, <2>4, <2>5 DEF Shows, Live
<1>3. CASE t[d].type = "directory" /\ places # {}
  <2>1. p \in places
    BY <1>1, <1>3, FirstPlaceIs
  <2>2. Lookup(t, c, d, name, bad) = EntryAt(t, c, d, p[1], p[2]).inode
    BY <1>3 DEF Lookup, EntryAt
  <2>3. Shows(t, c, d, p[1], p[2], name, bad) /\ p[1] \in Nat /\ p[2] \in Nat
    BY <1>2, <1>3, <2>1
  <2>4. EntryAt(t, c, d, p[1], p[2]).inode \in Inodes
    BY <2>3, LiveIs DEF Shows
  <2>5. EntryAt(t, c, d, p[1], p[2]).inode # 0
    BY <2>4, SizesOfDrive
  <2> HIDE DEF p
  <2> QED
    BY <2>2, <2>3, <2>4, <2>5
<1>4. CASE ~ (t[d].type = "directory" /\ places # {})
  <2>1. Lookup(t, c, d, name, bad) = 0
    BY <1>4 DEF Lookup
  <2>2. ASSUME NEW k, NEW j, Shows(t, c, d, k, j, name, bad) PROVE FALSE
    <3>1. /\ k \in 1 .. Len(t[d].blocks) /\ j \in 1 .. EntriesPerBlock
          /\ j \in 1 .. Len(EntriesIn(c[t[d].blocks[k]]))
      BY <2>2, LiveIs DEF Shows
    <3>2. /\ t[d].blocks[k] \notin bad /\ j <= Len(EntriesIn(c[t[d].blocks[k]]))
          /\ EntriesIn(c[t[d].blocks[k]])[j].name = name
          /\ EntriesIn(c[t[d].blocks[k]])[j].inode # 0
      BY <2>2, <3>1 DEF Shows, Live, EntryAt
    <3>3. <<k, j>> \in places
      BY <3>1, <3>2 DEF PlacesOf
    <3> QED
      BY <1>4, <2>2, <3>3 DEF Shows, Live
  <2> QED
    BY <2>1, <2>2
<1> QED
  BY <1>3, <1>4

\* f is the way from directory d along the names: where each lookup leads.
WayAlong(f, t, c, d, names, bad) ==
  /\ f \in [0 .. Len(names) -> {0} \cup Inodes] /\ f[0] = d
  /\ \A k \in 1 .. Len(names) :
       f[k] = IF f[k - 1] = 0 THEN 0 ELSE Lookup(t, c, f[k - 1], names[k], bad)

LEMMA WalkIs ==
  ASSUME NEW t \in Tables, NEW c \in Stores, NEW d \in {0} \cup Inodes, NEW names,
         Len(names) \in Nat, NEW bad
  PROVE  \E f : /\ WayAlong(f, t, c, d, names, bad)
                /\ Walk(t, c, d, names, bad) = f[Len(names)]
<1> DEFINE T == {0} \cup Inodes
           n == Len(names)
           step == [p \in T \X (1 .. n) |->
                      IF p[1] = 0 THEN 0 ELSE Lookup(t, c, p[1], names[p[2]], bad)]
           Unrolls(f) == f = [k \in 0 .. n |->
                                IF k = 0 THEN d
                                ELSE IF f[k - 1] = 0 THEN 0 ELSE Lookup(t, c, f[k - 1], names[k], bad)]
<1>1. step \in [T \X (1 .. n) -> T]
  BY LookupIs
<1>2. PICK g \in [0 .. n -> T] : Iterates(g, n, d, step)
  <2> HIDE DEF T, n, step
  <2> QED
    BY <1>1, IterationExists DEF T, n
<1>3. Unrolls(g)
  <2>1. \A k \in 1 .. n : k - 1 \in 0 .. n /\ g[k - 1] \in T
    OBVIOUS
  <2>2. \A k \in 1 .. n : step[<<g[k - 1], k>>] =
          IF g[k - 1] = 0 THEN 0 ELSE Lookup(t, c, g[k - 1], names[k], bad)
    BY <2>1
  <2>3. ASSUME NEW k \in 0 .. n
        PROVE  g[k] = IF k = 0 THEN d
                      ELSE IF g[k - 1] = 0 THEN 0 ELSE Lookup(t, c, g[k - 1], names[k], bad)
    <3> HIDE DEF step
    <3>1. g = [m \in 0 .. n |-> IF m = 0 THEN d ELSE step[<<g[m - 1], m>>]]
      BY <1>2 DEF Iterates
    <3>2. g[k] = IF k = 0 THEN d ELSE step[<<g[k - 1], k>>]
      BY <3>1
    <3>3. CASE k # 0
      <4>1. k \in 1 .. n
        BY <3>3
      <4> QED
        BY <2>2, <3>2, <3>3, <4>1
    <3> QED
      BY <3>2, <3>3
  <2>4. g = [k \in 0 .. n |-> g[k]]
    OBVIOUS
  <2> QED
    BY <2>3, <2>4
<1> DEFINE f == CHOOSE at : Unrolls(at)
<1>4. Unrolls(f)
  BY <1>3
<1>5. Walk(t, c, d, names, bad) = f[n]
  BY DEF Walk
<1> HIDE DEF f
<1>6. /\ f[0] = d
      /\ \A k \in 1 .. n :
           f[k] = IF f[k - 1] = 0 THEN 0 ELSE Lookup(t, c, f[k - 1], names[k], bad)
  BY <1>4
<1>7. \A k \in 1 .. n : f[k - 1] \in T => f[k] \in T
  BY <1>6, LookupIs
<1>8. \A k \in 0 .. n : f[k] \in T
  <2> HIDE DEF T, n
  <2> QED
    BY <1>6, <1>7, PassedOn DEF T, n
<1>9. f \in [0 .. n -> T]
  BY <1>4, <1>8
<1> QED
  BY <1>5, <1>6, <1>9 DEF WayAlong

LEMMA WalkType ==
  ASSUME NEW t \in Tables, NEW c \in Stores, NEW d \in {0} \cup Inodes, NEW names,
         Len(names) \in Nat, NEW bad
  PROVE  Walk(t, c, d, names, bad) \in {0} \cup Inodes
BY WalkIs DEF WayAlong

-----------------------------------------------------------------------------
(***************************************************************************)
(* The types.                                                              *)
(***************************************************************************)
Creating == {"dots", "new_inode", "add_entry", "entry_block", "parent_inode"}
Writing == {"truncated_inode", "write", "data", "file_inode"}
Saving == {"superblock", "block_bitmap", "inode_bitmap", "table"}
Ops ==
  [call : {"none", "create_file", "create_directory", "delete", "open", "write",
           "unmount", "format"},
   pc : {"none", "open", "clear_entry", "root"} \cup Creating \cup Writing \cup Saving,
   path : PathRecords, copy : BOOLEAN, parent : {0} \cup Inodes, inode : {0} \cup Inodes,
   block : Nat, grown : {0} \cup DataBlocks, node : InodeLists,
   position : Nat, left : Nat]

\* What a creation has in hand at each of its places.
CreationType(o, t) ==
  o.pc \in Creating =>
    /\ o.call \in {"create_file", "create_directory"}
    /\ o.parent \in Inodes /\ o.inode \in Inodes /\ o.path.names # <<>>
    /\ o.call = "create_directory" => o.block \in DataBlocks
    /\ o.pc = "dots" => o.call = "create_directory"
    /\ o.pc \in {"entry_block", "parent_inode"} =>
         o.grown \in DataBlocks /\ Len(t[o.parent].blocks) < DirectBlocks

\* So many calls of rfss_write_file have filled the last of n blocks, or begun it.
Filled(position, n) ==
  position <= ChunksPerBlock * n /\ ChunksPerBlock * (n - 1) < position
Within(position, n) ==
  ChunksPerBlock * (n - 1) <= position /\ position < ChunksPerBlock * n

WritingType(o) ==
  /\ o.pc \in Writing => o.inode \in Inodes
  /\ o.pc \in {"truncated_inode", "write"} => Filled(o.position, Len(o.node.blocks))
  /\ o.pc = "file_inode" /\ o.left > 0 => Filled(o.position, Len(o.node.blocks))
  /\ o.pc = "data" => Within(o.position, Len(o.node.blocks))
  /\ o.pc \in {"write", "data"} => o.left > 0

ClearingType(o) == o.pc = "clear_entry" => o.parent \in Inodes

OpType ==
  /\ op \in Ops
  /\ CreationType(op, table) /\ WritingType(op) /\ ClearingType(op)

StateType ==
  /\ mounted \in BOOLEAN /\ dirty \in BOOLEAN
  /\ mem \in Copies /\ diskCopy \in Copies
  /\ table \in Tables /\ snapshot \in Tables /\ content \in Stores
  /\ cwd \in [inode : Inodes, path : Seq(Names)]
  /\ session \in 0 .. Len(Sessions) /\ faults \in 0 .. MaxFaults

Typed == StateType /\ OpType

LEMMA NoOpType ==
  NoOp \in Ops /\ NoOp.pc = "none" /\ \A t : CreationType(NoOp, t) /\ WritingType(NoOp) /\ ClearingType(NoOp)
<1>1. NoPath \in PathRecords
  BY DEF NoPath, PathRecords
<1>2. NoInode \in InodeLists
  BY DirectoryAssumption DEF NoInode, InodeLists, InodeRecords, Types
<1>3. NoOp \in Ops /\ NoOp.pc = "none"
  BY <1>1, <1>2 DEF NoOp, Ops
<1> QED
  BY <1>3 DEF CreationType, WritingType, ClearingType, Creating, Writing

\* An operation that is in none of the three.
LEMMA ElsewhereType ==
  ASSUME NEW o \in Ops, o.pc \in {"none", "open", "root"} \cup Saving, NEW t
  PROVE  CreationType(o, t) /\ WritingType(o) /\ ClearingType(o)
BY DEF CreationType, WritingType, ClearingType, Creating, Writing, Saving

LEMMA MadeInode ==
  ASSUME NEW type \in Types, NEW s \in Seq(FileBlocks), Len(s) <= DirectBlocks
  PROVE  [type |-> type, blocks |-> s] \in InodeLists
BY DEF InodeLists, InodeRecords

LEMMA MadeBlock ==
  ASSUME NEW kind \in {"zero", "data", "dots", "entries"}, NEW i \in {0} \cup Inodes,
         NEW s \in Seq(EntryRecords), Len(s) <= EntriesPerBlock
  PROVE  [kind |-> kind, of |-> i, list |-> s] \in BlockLists
BY DEF BlockLists, Contents

LEMMA FreshType ==
  /\ FreshTable \in Tables
  /\ FreshTable[RootInode] = [type |-> "directory", blocks |-> <<RootBlock>>]
  /\ \A i \in Inodes \ {RootInode} : FreshTable[i] = NoInode
<1>1. NoInode \in InodeLists
  BY DirectoryAssumption DEF NoInode, InodeLists, InodeRecords, Types
<1>2. [type |-> "directory", blocks |-> <<RootBlock>>] \in InodeLists
  <2> DEFINE s == <<RootBlock>>
  <2>1. s \in Seq(FileBlocks) /\ Len(s) <= DirectBlocks /\ "directory" \in Types
    BY SizesOfDrive, DirectoryAssumption DEF Types
  <2> HIDE DEF s
  <2>2. [type |-> "directory", blocks |-> s] \in InodeLists
    BY <2>1, MadeInode
  <2> QED
    BY <2>2 DEF s
<1> QED
  BY <1>1, <1>2, SizesOfDrive DEF FreshTable, Tables

LEMMA CopiesType == Formatted \in Copies /\ Blank \in Copies
BY SizesAssumption DEF Formatted, Blank, Copies, Bits, InodeBit, RootInode

LEMMA AtRootType == AtRoot \in [inode : Inodes, path : Seq(Names)]
BY SizesOfDrive DEF AtRoot

LEMMA BlockType ==
  /\ ZeroBlock \in BlockLists
  /\ \A i \in Inodes : DataOf(i) \in BlockLists /\ DotsOf(i) \in BlockLists
<1>1. <<>> \in Seq(EntryRecords) /\ Len(<<>>) <= EntriesPerBlock
  BY DirectoryAssumption
<1> QED
  BY <1>1 DEF ZeroBlock, DataOf, DotsOf, BlockLists, Contents

LEMMA TypeInit == Init => Typed
<1> SUFFICES ASSUME Init PROVE Typed
  OBVIOUS
<1>1. content \in Stores
  BY BlockType, SizesOfDrive DEF Init, Stores
<1>2. 0 \in 0 .. Len(Sessions) /\ 0 \in 0 .. MaxFaults
  BY RfssAssumption, LenProperties
<1>3. StateType
  BY <1>1, <1>2, FreshType, CopiesType, AtRootType DEF Init, StateType
<1>4. OpType
  BY NoOpType DEF Init, OpType
<1> QED
  BY <1>3, <1>4 DEF Typed

LEMMA SameOpType == ASSUME Typed, UNCHANGED <<op, table>> PROVE OpType'
BY DEF Typed, OpType, CreationType, WritingType, ClearingType, Filled, Within

\* The errors are counted within their bound.
LEMMA ReadingType ==
  ASSUME Typed, NEW call, NEW bad \in Unreadable(call)
  PROVE  /\ faults + Cardinality(bad) \in 0 .. MaxFaults
         /\ Cardinality(bad) \in Nat
         /\ bad # {} => faults < MaxFaults /\ <<call, "unreadable">> \in Faults
<1>1. faults \in 0 .. MaxFaults /\ MaxFaults \in Nat
  BY RfssAssumption DEF Typed, StateType
<1>2. CASE bad = {}
  BY <1>1, <1>2, FS_EmptySet
<1>3. CASE bad # {}
  <2>1. PICK b : bad = {b}
    BY <1>3 DEF Unreadable
  <2>2. Cardinality(bad) = 1
    BY <2>1, FS_Singleton
  <2>3. faults < MaxFaults /\ <<call, "unreadable">> \in Faults
    BY <1>3 DEF Unreadable
  <2> QED
    BY <1>1, <2>2, <2>3
<1> QED
  BY <1>2, <1>3

LEMMA WroteType ==
  ASSUME Typed, NEW w \in Outcomes
  PROVE  /\ w # "done" => faults + 1 \in 0 .. MaxFaults /\ <<op.call, w>> \in Faults
         /\ Wrote(w) => faults' \in 0 .. MaxFaults
         /\ w \in {"done", "lost", "late"}
<1>1. faults \in 0 .. MaxFaults /\ MaxFaults \in Nat
  BY RfssAssumption DEF Typed, StateType
<1> QED
  BY <1>1 DEF Outcomes, Wrote

LEMMA PutContentType ==
  ASSUME content \in Stores, NEW b \in FileBlocks, NEW x \in BlockLists, NEW w, PutContent(b, x, w)
  PROVE  content' \in Stores
BY DEF PutContent, Stores

LEMMA PutInodeType ==
  ASSUME table \in Tables, NEW i \in Inodes, NEW n \in InodeLists, NEW w, PutInode(i, n, w)
  PROVE  table' \in Tables
BY DEF PutInode, Tables

LEMMA ChangesType ==
  ASSUME Typed, NEW m \in Copies, Changes(m)
  PROVE  mem' \in Copies /\ dirty' \in BOOLEAN
BY DEF Changes, Typed, StateType

LEMMA UndoType ==
  ASSUME Typed, NEW m \in Copies
  PROVE  Undo(m) \in Copies
BY AllocatorTypes DEF Undo

LEMMA FailType ==
  ASSUME Typed, NEW m \in Copies, Fail(m)
  PROVE  op' = NoOp /\ mem' \in Copies /\ dirty' \in BOOLEAN
BY ChangesType, UndoType DEF Fail

LEMMA PathIs ==
  ASSUME NEW p \in PathRecords
  PROVE  /\ p.names \in Seq(Names) /\ Len(p.names) \in Nat
         /\ p.names # <<>> => /\ Last(p.names) \in Names
                              /\ [p EXCEPT !.names = Front(@)] =
                                   [absolute |-> p.absolute, names |-> Front(p.names)]
                              /\ [p EXCEPT !.names = Front(@)] \in PathRecords
                              /\ Len(p.names) > 0 /\ Len(Front(p.names)) = Len(p.names) - 1
                              /\ \A k \in 1 .. Len(p.names) - 1 : Front(p.names)[k] = p.names[k]
                              /\ Last(p.names) = p.names[Len(p.names)]
<1>1. p.names \in Seq(Names) /\ p.absolute \in BOOLEAN
  BY DEF PathRecords
<1>2. p.names # <<>> =>
        /\ Last(p.names) \in Names /\ Front(p.names) \in Seq(Names)
        /\ Len(p.names) > 0 /\ Len(Front(p.names)) = Len(p.names) - 1
        /\ \A k \in 1 .. Len(p.names) - 1 : Front(p.names)[k] = p.names[k]
        /\ Last(p.names) = p.names[Len(p.names)]
  BY <1>1, FrontIs
<1>3. [p EXCEPT !.names = Front(@)] = [absolute |-> p.absolute, names |-> Front(p.names)]
  BY DEF PathRecords
<1> QED
  BY <1>1, <1>2, <1>3, LenProperties DEF PathRecords

LEMMA FindType ==
  ASSUME Typed, NEW names, Len(names) \in Nat, NEW absolute, NEW bad
  PROVE  Find([absolute |-> absolute, names |-> names], bad) \in {0} \cup Inodes
<1>1. cwd.inode \in Inodes /\ table \in Tables /\ content \in Stores
  BY DEF Typed, StateType
<1> QED
  BY <1>1, WalkType, SizesOfDrive DEF Find, Resolve

LEMMA FindPathType ==
  ASSUME Typed, NEW p \in PathRecords, NEW bad
  PROVE  /\ Find(p, bad) \in {0} \cup Inodes
         /\ p.names # <<>> => Find([p EXCEPT !.names = Front(@)], bad) \in {0} \cup Inodes
<1>1. ASSUME NEW q \in PathRecords PROVE Find(q, bad) \in {0} \cup Inodes
  <2>1. q = [absolute |-> q.absolute, names |-> q.names] /\ Len(q.names) \in Nat
    BY PathIs DEF PathRecords
  <2> QED
    BY <2>1, FindType
<1> QED
  BY <1>1, PathIs

-----------------------------------------------------------------------------
(***************************************************************************)
(* Every step keeps the types: creations.                                  *)
(***************************************************************************)
LEMMA OldPathIs == OldPaths \subseteq PathRecords /\ NewPaths \subseteq PathRecords
BY RfssAssumption

LEMMA CanCreateIs ==
  ASSUME Typed, NEW p \in PathRecords, NEW bad, CanCreate(p, bad)
  PROVE  /\ ParentOfNew(p, bad) \in Inodes /\ p.names # <<>>
         /\ AllocatedInode(mem) \in Inodes
         /\ AllocatedBlock(AfterAllocateInode(mem)) \in {0} \cup DataBlocks
         /\ AfterAllocateInode(mem) \in Copies
         /\ AfterAllocateBlock(AfterAllocateInode(mem)) \in Copies
         /\ AfterFreeInode(AfterAllocateInode(mem), AllocatedInode(mem)) \in Copies
<1>1. mem \in Copies
  BY DEF Typed, StateType
<1>2. AfterAllocateInode(mem) \in Copies
  BY <1>1, AllocatorTypes
<1>3. ParentOfNew(p, bad) \in Inodes
  BY FindPathType DEF CanCreate, ParentOfNew
<1> QED
  BY <1>1, <1>2, <1>3, AllocatedInodeType, AllocatedBlockType, AllocatorTypes DEF CanCreate

LEMMA CreationMade ==
  ASSUME NEW call \in {"create_file", "create_directory"}, NEW p \in PathRecords,
         NEW d \in Inodes, NEW i \in Inodes, NEW copy \in BOOLEAN, NEW left \in Nat,
         NEW b \in {0} \cup DataBlocks, p.names # <<>>,
         call = "create_directory" => b \in DataBlocks,
         NEW o, o = [call |-> call, pc |-> FirstWrite(call), path |-> p, copy |-> copy,
                     parent |-> d, inode |-> i, block |-> b, grown |-> 0,
                     node |-> NoInode, position |-> 0, left |-> left], NEW t
  PROVE  o \in Ops /\ CreationType(o, t) /\ WritingType(o) /\ ClearingType(o)
<1>1. NoInode \in InodeLists
  BY DirectoryAssumption DEF NoInode, InodeLists, InodeRecords, Types
<1>2. b \in Nat
  BY SizesOfDrive
<1>3. o.pc = IF call = "create_file" THEN "new_inode" ELSE "dots"
  BY DEF FirstWrite
<1>4. o \in Ops
  BY <1>1, <1>2 DEF Ops, FirstWrite, Creating
<1>5. CreationType(o, t)
  BY <1>3 DEF CreationType
<1>6. WritingType(o) /\ ClearingType(o)
  BY <1>3 DEF WritingType, ClearingType, Writing
<1> QED
  BY <1>4, <1>5, <1>6

LEMMA CreateFileType ==
  ASSUME Typed, NEW p \in PathRecords, NEW copy \in BOOLEAN, NEW left \in Nat,
         CreateFile(p, copy, left)
  PROVE  Typed'
<1>1. PICK bad \in Unreadable("create_file") :
        /\ CanCreate(p, bad)
        /\ op' = [NoOp EXCEPT !.call = "create_file", !.pc = FirstWrite("create_file"), !.path = p,
                    !.parent = ParentOfNew(p, bad), !.inode = AllocatedInode(mem),
                    !.copy = copy, !.left = left]
        /\ Changes(AfterAllocateInode(mem))
        /\ Reading(bad)
        /\ UNCHANGED <<fsVars, diskVars, session>>
  BY DEF CreateFile
<1> DEFINE d == ParentOfNew(p, bad)
           i == AllocatedInode(mem)
<1>2. op' = [call |-> "create_file", pc |-> FirstWrite("create_file"), path |-> p, copy |-> copy,
             parent |-> d, inode |-> i, block |-> 0, grown |-> 0,
             node |-> NoInode, position |-> 0, left |-> left]
  BY <1>1 DEF NoOp
<1>3. d \in Inodes /\ i \in Inodes /\ p.names # <<>> /\ AfterAllocateInode(mem) \in Copies
  BY <1>1, CanCreateIs
<1> HIDE DEF d, i
<1>4. OpType'
  BY <1>2, <1>3, CreationMade DEF OpType
<1>5. StateType'
  BY <1>1, <1>3, ChangesType, ReadingType DEF Typed, StateType, Reading, fsVars, diskVars
<1> QED
  BY <1>4, <1>5 DEF Typed

LEMMA CreateDirectoryType ==
  ASSUME Typed, NEW p \in PathRecords, CreateDirectory(p)
  PROVE  Typed'
<1> DEFINE m == AfterAllocateInode(mem)
           b == AllocatedBlock(m)
<1>1. PICK bad \in Unreadable("create_directory") :
        /\ CanCreate(p, bad)
        /\ Reading(bad)
        /\ UNCHANGED <<fsVars, diskVars, session>>
        /\ \/ /\ b # 0
              /\ op' = [NoOp EXCEPT !.call = "create_directory",
                          !.pc = FirstWrite("create_directory"), !.path = p,
                          !.parent = ParentOfNew(p, bad), !.inode = AllocatedInode(mem),
                          !.block = b]
              /\ Changes(AfterAllocateBlock(m))
           \/ /\ b = 0
              /\ mem' = AfterFreeInode(m, AllocatedInode(mem)) /\ dirty' = TRUE
              /\ UNCHANGED op
  BY DEF CreateDirectory
<1> DEFINE d == ParentOfNew(p, bad)
           i == AllocatedInode(mem)
<1>2. /\ d \in Inodes /\ i \in Inodes /\ p.names # <<>> /\ b \in {0} \cup DataBlocks
      /\ AfterAllocateBlock(m) \in Copies /\ AfterFreeInode(m, i) \in Copies
  BY <1>1, CanCreateIs
<1> HIDE DEF m, b
<1>3. CASE b # 0 /\ Changes(AfterAllocateBlock(m))
           /\ op' = [NoOp EXCEPT !.call = "create_directory",
                       !.pc = FirstWrite("create_directory"), !.path = p,
                       !.parent = d, !.inode = i, !.block = b]
  <2>1. op' = [call |-> "create_directory", pc |-> FirstWrite("create_directory"), path |-> p,
               copy |-> FALSE, parent |-> d, inode |-> i, block |-> b, grown |-> 0,
               node |-> NoInode, position |-> 0, left |-> 0]
    BY <1>3 DEF NoOp
  <2> HIDE DEF d, i
  <2>2. OpType'
    <3>1. b \in DataBlocks /\ 0 \in Nat /\ FALSE \in BOOLEAN
      BY <1>2, <1>3
    <3>2. op' \in Ops /\ CreationType(op', table') /\ WritingType(op') /\ ClearingType(op')
      BY <1>2, <2>1, <3>1, CreationMade
    <3> QED
      BY <3>2 DEF OpType
  <2>3. StateType'
    BY <1>1, <1>2, <1>3, ChangesType, ReadingType DEF Typed, StateType, Reading, fsVars, diskVars
  <2> QED
    BY <2>2, <2>3 DEF Typed
<1>4. CASE mem' = AfterFreeInode(m, i) /\ dirty' = TRUE /\ UNCHANGED op
  <2> HIDE DEF d, i
  <2>1. OpType'
    BY <1>1, <1>4, SameOpType DEF diskVars
  <2>2. StateType'
    BY <1>1, <1>2, <1>4, ReadingType DEF Typed, StateType, Reading, fsVars, diskVars
  <2> QED
    BY <2>1, <2>2 DEF Typed
<1> QED
  BY <1>1, <1>3, <1>4

LEMMA CopyType == ASSUME Typed, Copy PROVE Typed'
<1>1. PICK from \in OldPaths, to \in OldPaths :
        LET n == Len(table[Find(from, {})].blocks) IN
        /\ Find(from, {}) # 0
        /\ \E left \in IF n = 0 THEN {0}
                       ELSE (ChunksPerBlock * (n - 1) + 1) .. (ChunksPerBlock * n) :
             CreateFile(to, TRUE, left)
  BY DEF Copy
<1> DEFINE n == Len(table[Find(from, {})].blocks)
<1>2. PICK left \in IF n = 0 THEN {0} ELSE (ChunksPerBlock * (n - 1) + 1) .. (ChunksPerBlock * n) :
        CreateFile(to, TRUE, left)
  BY <1>1
<1>3. Find(from, {}) \in Inodes
  BY <1>1, FindPathType, OldPathIs
<1>4. n \in Nat
  BY <1>3, InodeListIs DEF Typed, StateType, Tables
<1> HIDE DEF n
<1>5. left \in Nat
  <2>1. CASE n # 0
    <3>1. n - 1 \in Nat /\ ChunksPerBlock \in Nat
      BY <1>4, <2>1, RfssAssumption
    <3>2. ChunksPerBlock * (n - 1) \in Nat
      BY <3>1
    <3> QED
      BY <1>2, <2>1, <3>2
  <2> QED
    BY <1>2, <2>1
<1> QED
  BY <1>2, <1>5, CreateFileType, OldPathIs

LEMMA StartsType == ASSUME Typed, Touch \/ Mkdir \/ Copy PROVE Typed'
BY CreateFileType, CreateDirectoryType, CopyType, OldPathIs DEF Touch, Mkdir

LEMMA PcChanged ==
  ASSUME NEW o \in Ops, NEW q \in {"none", "open", "clear_entry", "root"} \cup Creating \cup Writing \cup Saving,
         NEW x, x = [o EXCEPT !.pc = q]
  PROVE  /\ x \in Ops /\ x.pc = q /\ x.call = o.call /\ x.path = o.path /\ x.copy = o.copy
         /\ x.parent = o.parent /\ x.inode = o.inode /\ x.block = o.block /\ x.grown = o.grown
         /\ x.node = o.node /\ x.position = o.position /\ x.left = o.left
BY DEF Ops

LEMMA EndedType == ASSUME op' = NoOp PROVE OpType'
BY NoOpType DEF OpType

LEMMA SucceedType ==
  ASSUME Typed, Succeed
  PROVE  /\ OpType' /\ op'.pc \in {"none", "open"}
         /\ op.copy => /\ op'.call = "open" /\ op'.pc = "open" /\ op'.path = op.path
                       /\ op'.left = op.left /\ op'.inode = op.inode
         /\ ~op.copy => op' = NoOp
<1>0. op \in Ops
  BY DEF Typed, OpType
<1>1. CASE op.copy
  <2>1. op' = [op EXCEPT !.call = "open", !.pc = "open"]
    BY <1>1 DEF Succeed
  <2>2. /\ op' \in Ops /\ op'.pc = "open" /\ op'.call = "open" /\ op'.path = op.path
        /\ op'.left = op.left /\ op'.inode = op.inode
    BY <1>0, <2>1 DEF Ops
  <2>3. CreationType(op', table') /\ WritingType(op') /\ ClearingType(op')
    BY <2>2, ElsewhereType
  <2> QED
    BY <1>1, <2>2, <2>3 DEF OpType
<1>2. CASE ~op.copy
  BY <1>2, EndedType, NoOpType DEF Succeed
<1> QED
  BY <1>1, <1>2

LEMMA CreatingIs ==
  ASSUME Typed, op.pc \in Creating
  PROVE  /\ op \in Ops /\ op.path \in PathRecords
         /\ op.parent \in Inodes /\ op.inode \in Inodes
         /\ NewInode \in InodeLists /\ NewInode.type \in Types
         /\ NewEntry \in EntryRecords
         /\ Parent \in InodeLists
<1>1. /\ op \in Ops /\ op.path \in PathRecords /\ op.parent \in Inodes /\ op.inode \in Inodes
      /\ op.call \in {"create_file", "create_directory"} /\ op.path.names # <<>>
      /\ op.call = "create_directory" => op.block \in DataBlocks
  BY DEF Typed, OpType, CreationType, Ops
<1>2. NewInode \in InodeLists
  <2>1. CASE op.call = "create_file"
    <3> DEFINE s == <<>>
    <3>1. s \in Seq(FileBlocks) /\ Len(s) <= DirectBlocks /\ "file" \in Types
      BY DirectoryAssumption DEF Types
    <3>2. NewInode = [type |-> "file", blocks |-> s]
      BY <2>1 DEF NewInode
    <3> HIDE DEF s
    <3> QED
      BY <3>1, <3>2, MadeInode
  <2>2. CASE op.call = "create_directory"
    <3> DEFINE s == <<op.block>>
    <3>0. op.block \in FileBlocks
      BY <1>1, <2>2, SizesOfDrive
    <3>1. s \in Seq(FileBlocks) /\ Len(s) <= DirectBlocks /\ "directory" \in Types
      <4>1. PICK b \in FileBlocks : b = op.block
        BY <3>0
      <4>2. <<b>> \in Seq(FileBlocks) /\ Len(<<b>>) = 1
        OBVIOUS
      <4>3. 1 <= DirectBlocks
        BY DirectoryAssumption
      <4> QED
        BY <4>1, <4>2, <4>3 DEF Types
    <3>2. NewInode = [type |-> "directory", blocks |-> s]
      BY <2>2 DEF NewInode
    <3> HIDE DEF s
    <3> QED
      BY <3>1, <3>2, MadeInode
  <2> QED
    BY <1>1, <2>1, <2>2
<1>3. NewInode.type \in Types /\ NewEntry \in EntryRecords
  BY <1>1, <1>2, PathIs, InodeListIs DEF NewEntry, EntryRecords
<1>4. Parent \in InodeLists
  BY <1>1 DEF Parent, Typed, StateType, Tables
<1> QED
  BY <1>1, <1>2, <1>3, <1>4

LEMMA WriteDotsType == ASSUME Typed, WriteDots PROVE Typed'
<1>1. PICK w \in Outcomes :
        /\ PutContent(op.block, DotsOf(op.inode), w) /\ Wrote(w)
        /\ IF w = "done" THEN op' = [op EXCEPT !.pc = "new_inode"] /\ UNCHANGED <<mem, dirty>>
                         ELSE Fail(mem)
  BY DEF WriteDots
<1>2. /\ op.pc = "dots" /\ op.pc \in Creating
      /\ UNCHANGED <<fsVars, diskCopy, table, session>>
  BY DEF WriteDots, Creating
<1>3. op.block \in FileBlocks /\ op.inode \in Inodes /\ op \in Ops
  BY <1>2, SizesOfDrive DEF Typed, OpType, CreationType
<1>4. content' \in Stores
  BY <1>1, <1>3, PutContentType, BlockType DEF Typed, StateType
<1>5. mem' \in Copies /\ dirty' \in BOOLEAN /\ OpType'
  <2>1. CASE w = "done"
    <3>1. op' = [op EXCEPT !.pc = "new_inode"] /\ UNCHANGED <<mem, dirty>>
      BY <1>1, <2>1
    <3>2. op'.pc = "new_inode" /\ op' \in Ops /\ CreationType(op', table')
      BY <1>2, <1>3, <3>1, PcChanged DEF Typed, OpType, CreationType, Creating
    <3>3. WritingType(op') /\ ClearingType(op')
      BY <3>2 DEF WritingType, ClearingType, Writing
    <3> QED
      BY <3>1, <3>2, <3>3 DEF Typed, StateType, OpType
  <2>2. CASE w # "done"
    BY <1>1, <2>2, FailType, EndedType DEF Typed, StateType
  <2> QED
    BY <2>1, <2>2
<1>6. StateType'
  BY <1>1, <1>2, <1>4, <1>5, WroteType DEF Typed, StateType, fsVars
<1> QED
  BY <1>5, <1>6 DEF Typed

LEMMA WriteNewInodeType == ASSUME Typed, WriteNewInode PROVE Typed'
<1>1. PICK w \in Outcomes :
        /\ PutInode(op.inode, NewInode, w) /\ Wrote(w)
        /\ IF w = "done" THEN op' = [op EXCEPT !.pc = "add_entry"] /\ UNCHANGED <<mem, dirty>>
                         ELSE Fail(mem)
  BY DEF WriteNewInode
<1>2. /\ op.pc = "new_inode" /\ op.pc \in Creating
      /\ UNCHANGED <<fsVars, diskCopy, content, session>>
  BY DEF WriteNewInode, Creating
<1>3. op.inode \in Inodes /\ op \in Ops /\ NewInode \in InodeLists
  BY <1>2, CreatingIs
<1>4. table' \in Tables
  BY <1>1, <1>3, PutInodeType DEF Typed, StateType
<1>5. mem' \in Copies /\ dirty' \in BOOLEAN /\ OpType'
  <2>1. CASE w = "done"
    <3>1. op' = [op EXCEPT !.pc = "add_entry"] /\ UNCHANGED <<mem, dirty>>
      BY <1>1, <2>1
    <3>2. op'.pc = "add_entry" /\ op' \in Ops /\ CreationType(op', table')
      BY <1>2, <1>3, <3>1, PcChanged DEF Typed, OpType, CreationType, Creating
    <3>3. WritingType(op') /\ ClearingType(op')
      BY <3>2 DEF WritingType, ClearingType, Writing
    <3> QED
      BY <3>1, <3>2, <3>3 DEF Typed, StateType, OpType
  <2>2. CASE w # "done"
    BY <1>1, <2>2, FailType, EndedType DEF Typed, StateType
  <2> QED
    BY <2>1, <2>2
<1>6. StateType'
  BY <1>1, <1>2, <1>4, <1>5, WroteType DEF Typed, StateType, fsVars
<1> QED
  BY <1>5, <1>6 DEF Typed

\* The block that rfss_add_directory_entry finds room in.
LEMMA RoomyIs ==
  ASSUME Typed, op.pc \in Creating, NEW bad, Roomy(bad) # {}
  PROVE  LET k == Lowest(Roomy(bad))
             b == Parent.blocks[k] IN
         /\ k \in DOMAIN Parent.blocks /\ k \in Nat /\ b \in FileBlocks
         /\ b \notin bad /\ content[b].kind = "entries"
         /\ Len(content[b].list) < EntriesPerBlock
         /\ content[b] \in BlockLists
<1> DEFINE k == Lowest(Roomy(bad))
<1>1. Parent \in InodeLists
  BY CreatingIs
<1>2. Roomy(bad) \subseteq Nat
  BY <1>1, InodeListIs DEF Roomy
<1>3. k \in Roomy(bad)
  BY <1>2, LowestIsIn
<1> HIDE DEF k
<1>4. k \in DOMAIN Parent.blocks /\ Parent.blocks[k] \in FileBlocks /\ k \in Nat
  BY <1>1, <1>2, <1>3, InodeListIs DEF Roomy
<1> QED
  BY <1>3, <1>4 DEF Roomy, k, Typed, StateType, Stores

LEMMA EntryAdded ==
  ASSUME NEW x \in BlockLists, Len(x.list) < EntriesPerBlock, NEW e \in EntryRecords,
         NEW y, y = [x EXCEPT !.list = Append(@, e)]
  PROVE  /\ y \in BlockLists /\ y.kind = x.kind /\ y.of = x.of /\ y.list = Append(x.list, e)
<1>1. x.list \in Seq(EntryRecords) /\ x = [kind |-> x.kind, of |-> x.of, list |-> x.list]
  BY DEF BlockLists, Contents
<1>2. Append(x.list, e) \in Seq(EntryRecords) /\ Len(Append(x.list, e)) <= EntriesPerBlock
  BY <1>1, DirectoryAssumption
<1> QED
  BY <1>1, <1>2 DEF BlockLists, Contents

LEMMA AppendEntryType == ASSUME Typed, AppendEntry PROVE Typed'
<1>1. PICK bad \in Unreadable(op.call) :
        /\ Roomy(bad) # {}
        /\ \E w \in IF bad = {} THEN Outcomes ELSE {"done"} :
             LET b == Parent.blocks[Lowest(Roomy(bad))] IN
             /\ PutContent(b, [content[b] EXCEPT !.list = WithEntry(@)], w)
             /\ faults' = faults + Cardinality(bad) + (IF w = "done" THEN 0 ELSE 1)
             /\ IF w = "done" THEN Succeed /\ UNCHANGED <<mem, dirty>> ELSE Fail(mem)
  BY DEF AppendEntry
<1> DEFINE b == Parent.blocks[Lowest(Roomy(bad))]
<1>2. PICK w \in IF bad = {} THEN Outcomes ELSE {"done"} :
        /\ PutContent(b, [content[b] EXCEPT !.list = WithEntry(@)], w)
        /\ faults' = faults + Cardinality(bad) + (IF w = "done" THEN 0 ELSE 1)
        /\ IF w = "done" THEN Succeed /\ UNCHANGED <<mem, dirty>> ELSE Fail(mem)
  BY <1>1
<1>3. op.pc \in Creating /\ UNCHANGED <<fsVars, diskCopy, table, session>>
  BY DEF AppendEntry, Creating
<1>4. b \in FileBlocks /\ content[b] \in BlockLists /\ Len(content[b].list) < EntriesPerBlock
  BY <1>1, <1>3, RoomyIs
<1> HIDE DEF b
<1>5. [content[b] EXCEPT !.list = WithEntry(@)] \in BlockLists
  BY <1>3, <1>4, EntryAdded, CreatingIs DEF WithEntry
<1>6. content' \in Stores
  BY <1>2, <1>4, <1>5, PutContentType DEF Typed, StateType
<1>7. mem' \in Copies /\ dirty' \in BOOLEAN /\ OpType'
  BY <1>2, FailType, EndedType, SucceedType DEF Typed, StateType
<1>8. faults' \in 0 .. MaxFaults
  <2>0. faults \in Nat
    BY DEF Typed, StateType
  <2>1. CASE w = "done"
    <3>1. faults + Cardinality(bad) \in 0 .. MaxFaults /\ Cardinality(bad) \in Nat
      BY ReadingType
    <3>2. faults' = faults + Cardinality(bad) + 0
      BY <1>2, <2>1
    <3> QED
      BY <2>0, <3>1, <3>2
  <2>2. CASE w # "done"
    <3>1. bad = {} /\ w \in Outcomes
      BY <2>2
    <3>2. Cardinality(bad) = 0
      BY <3>1, FS_EmptySet
    <3>3. faults + 1 \in 0 .. MaxFaults
      BY <2>2, <3>1, WroteType
    <3>4. faults' = faults + 0 + 1
      BY <1>2, <2>2, <3>2
    <3> QED
      BY <2>0, <3>3, <3>4
  <2> QED
    BY <2>1, <2>2
<1>9. StateType'
  BY <1>3, <1>6, <1>7, <1>8 DEF Typed, StateType, fsVars
<1> QED
  BY <1>7, <1>9 DEF Typed

LEMMA GrowDirectoryType == ASSUME Typed, GrowDirectory PROVE Typed'
<1> DEFINE g == AllocatedBlock(mem)
<1>1. PICK bad \in Unreadable(op.call) :
        /\ HasFreeSlot /\ g # 0
        /\ op' = [op EXCEPT !.pc = "entry_block", !.grown = g]
        /\ Changes(AfterAllocateBlock(mem))
        /\ Reading(bad)
  BY DEF GrowDirectory
<1>2. op.pc \in Creating /\ UNCHANGED <<fsVars, diskVars, session>> /\ op \in Ops /\ mem \in Copies
  BY DEF GrowDirectory, Creating, Typed, StateType, OpType
<1>3. g \in DataBlocks /\ AfterAllocateBlock(mem) \in Copies
  BY <1>1, <1>2, AllocatedBlockType, AllocatorTypes
<1> HIDE DEF g
<1>4. /\ op' \in Ops /\ op'.pc = "entry_block" /\ op'.grown = g /\ op'.call = op.call
      /\ op'.path = op.path /\ op'.parent = op.parent /\ op'.inode = op.inode
      /\ op'.block = op.block
  BY <1>1, <1>2, <1>3 DEF Ops, Creating
<1>5. CreationType(op', table')
  <2>1. Len(table'[op'.parent].blocks) < DirectBlocks
    BY <1>1, <1>2, <1>4 DEF HasFreeSlot, Parent, diskVars
  <2> QED
    BY <1>2, <1>3, <1>4, <2>1 DEF CreationType, Typed, OpType
<1>6. WritingType(op') /\ ClearingType(op')
  BY <1>4 DEF WritingType, ClearingType, Writing
<1>7. StateType'
  BY <1>1, <1>2, <1>3, ChangesType, ReadingType DEF Typed, StateType, Reading, fsVars, diskVars
<1> QED
  BY <1>4, <1>5, <1>6, <1>7 DEF Typed, OpType

LEMMA RefuseEntryType == ASSUME Typed, RefuseEntry PROVE Typed'
<1>1. Fail(mem) /\ UNCHANGED <<fsVars, diskVars, session>>
  BY DEF RefuseEntry
<1>2. OpType' /\ mem' \in Copies /\ dirty' \in BOOLEAN
  BY <1>1, FailType, EndedType DEF Typed, StateType
<1>3. faults' \in 0 .. MaxFaults
  <2>1. CASE UNCHANGED faults
    BY <2>1 DEF Typed, StateType
  <2>2. CASE \E bad \in Unreadable(op.call) : Reading(bad)
    BY <2>2, ReadingType DEF Reading
  <2> QED
    BY <2>1, <2>2 DEF RefuseEntry
<1>4. StateType'
  BY <1>1, <1>2, <1>3 DEF Typed, StateType, fsVars, diskVars
<1> QED
  BY <1>2, <1>4 DEF Typed

LEMMA WriteEntryBlockType == ASSUME Typed, WriteEntryBlock PROVE Typed'
<1> DEFINE x == EntryBlock(op.parent, <<NewEntry>>)
<1>1. PICK w \in Outcomes :
        /\ PutContent(op.grown, x, w) /\ Wrote(w)
        /\ IF w = "done" THEN op' = [op EXCEPT !.pc = "parent_inode"] /\ UNCHANGED <<mem, dirty>>
                         ELSE Fail(AfterFreeBlock(mem, op.grown))
  BY DEF WriteEntryBlock
<1>2. /\ op.pc = "entry_block" /\ op.pc \in Creating
      /\ UNCHANGED <<fsVars, diskCopy, table, session>>
  BY DEF WriteEntryBlock, Creating
<1>3. op.grown \in FileBlocks /\ op.parent \in Inodes /\ op \in Ops /\ NewEntry \in EntryRecords
  BY <1>2, CreatingIs, SizesOfDrive DEF Typed, OpType, CreationType
<1>4. x \in BlockLists
  <2> DEFINE s == <<NewEntry>>
  <2>1. s \in Seq(EntryRecords) /\ Len(s) <= EntriesPerBlock
    BY <1>3, DirectoryAssumption
  <2> HIDE DEF s
  <2>2. EntryBlock(op.parent, s) \in BlockLists
    BY <1>3, <2>1, MadeBlock DEF EntryBlock
  <2> QED
    BY <2>2 DEF s
<1> HIDE DEF x
<1>5. content' \in Stores
  BY <1>1, <1>3, <1>4, PutContentType DEF Typed, StateType
<1>6. mem' \in Copies /\ dirty' \in BOOLEAN /\ OpType'
  <2>1. CASE w = "done"
    <3>1. op' = [op EXCEPT !.pc = "parent_inode"] /\ UNCHANGED <<mem, dirty>>
      BY <1>1, <2>1
    <3>2. /\ op' \in Ops /\ op'.pc = "parent_inode" /\ op'.call = op.call
          /\ op'.path = op.path /\ op'.parent = op.parent /\ op'.inode = op.inode
          /\ op'.block = op.block /\ op'.grown = op.grown
      BY <1>3, <3>1, PcChanged DEF Creating
    <3>4. CreationType(op', table')
      BY <1>2, <3>2 DEF Typed, OpType, CreationType
    <3>3. WritingType(op') /\ ClearingType(op')
      BY <3>2 DEF WritingType, ClearingType, Writing
    <3> QED
      BY <3>1, <3>2, <3>3, <3>4 DEF Typed, StateType, OpType
  <2>2. CASE w # "done"
    <3>1. AfterFreeBlock(mem, op.grown) \in Copies
      BY AllocatorTypes DEF Typed, StateType
    <3> QED
      BY <1>1, <2>2, <3>1, FailType, EndedType
  <2> QED
    BY <2>1, <2>2
<1>7. StateType'
  BY <1>1, <1>2, <1>5, <1>6, WroteType DEF Typed, StateType, fsVars
<1> QED
  BY <1>6, <1>7 DEF Typed

LEMMA GrownParentIs ==
  ASSUME Typed, op.pc = "parent_inode", NEW n, n = [Parent EXCEPT !.blocks = Append(@, op.grown)]
  PROVE  /\ n \in InodeLists /\ n.type = Parent.type
         /\ n.blocks = Append(Parent.blocks, op.grown)
<1>1. op.pc \in Creating /\ op.grown \in FileBlocks /\ Len(Parent.blocks) < DirectBlocks
  BY SizesOfDrive DEF Creating, Typed, OpType, CreationType, Parent
<1>2. Parent \in InodeLists
  BY <1>1, CreatingIs
<1>3. n.type = Parent.type /\ n.blocks = Append(Parent.blocks, op.grown)
      /\ n = [type |-> Parent.type, blocks |-> Append(Parent.blocks, op.grown)]
  BY <1>2 DEF InodeLists, InodeRecords
<1> DEFINE s == Append(Parent.blocks, op.grown)
<1>4. s \in Seq(FileBlocks) /\ Len(s) <= DirectBlocks
  BY <1>1, <1>2, InodeListIs, DirectoryAssumption
<1> HIDE DEF s
<1>5. [type |-> Parent.type, blocks |-> s] \in InodeLists
  BY <1>2, <1>4, InodeListIs, MadeInode
<1> QED
  BY <1>3, <1>5 DEF s

LEMMA WriteParentInodeType == ASSUME Typed, WriteParentInode PROVE Typed'
<1> DEFINE n == [Parent EXCEPT !.blocks = Append(@, op.grown)]
<1>1. PICK w \in Outcomes :
        /\ PutInode(op.parent, n, w) /\ Wrote(w)
        /\ IF w = "done" THEN Succeed /\ UNCHANGED <<mem, dirty>>
                         ELSE Fail(AfterFreeBlock(mem, op.grown))
  BY DEF WriteParentInode
<1>2. /\ op.pc = "parent_inode" /\ op.pc \in Creating
      /\ UNCHANGED <<fsVars, diskCopy, content, session>>
  BY DEF WriteParentInode, Creating
<1>3. n \in InodeLists
  BY <1>2, GrownParentIs
<1>4. op.parent \in Inodes
  BY <1>2, CreatingIs
<1> HIDE DEF n
<1>5. table' \in Tables
  BY <1>1, <1>3, <1>4, PutInodeType DEF Typed, StateType
<1>6. mem' \in Copies /\ dirty' \in BOOLEAN /\ OpType'
  <2>1. CASE w = "done"
    BY <1>1, <2>1, SucceedType DEF Typed, StateType
  <2>2. CASE w # "done"
    <3>1. AfterFreeBlock(mem, op.grown) \in Copies
      BY AllocatorTypes DEF Typed, StateType
    <3> QED
      BY <1>1, <2>2, <3>1, FailType, EndedType
  <2> QED
    BY <2>1, <2>2
<1>7. StateType'
  BY <1>1, <1>2, <1>5, <1>6, WroteType DEF Typed, StateType, fsVars
<1> QED
  BY <1>6, <1>7 DEF Typed

-----------------------------------------------------------------------------
(***************************************************************************)
(* Every step keeps the types: removals.                                   *)
(***************************************************************************)
LEMMA ParentOfOldType ==
  ASSUME Typed, NEW p \in PathRecords, NEW bad
  PROVE  ParentOfOld(p, bad) \in {0} \cup Inodes
<1>1. CASE Len(p.names) > 1
  <2>1. p.names # <<>>
    BY <1>1
  <2> QED
    BY <1>1, <2>1, FindPathType DEF ParentOfOld
<1>2. CASE ~ (Len(p.names) > 1)
  BY <1>2, SizesOfDrive DEF ParentOfOld, Typed, StateType
<1> QED
  BY <1>1, <1>2

LEMMA ClearingMade ==
  ASSUME NEW p \in PathRecords, NEW i \in Inodes, NEW d \in Inodes, NEW o, NEW t,
         o = [call |-> "delete", pc |-> "clear_entry", path |-> p, copy |-> FALSE,
              parent |-> d, inode |-> i, block |-> 0, grown |-> 0,
              node |-> NoInode, position |-> 0, left |-> 0]
  PROVE  o \in Ops /\ CreationType(o, t) /\ WritingType(o) /\ ClearingType(o)
<1>1. NoInode \in InodeLists
  BY DirectoryAssumption DEF NoInode, InodeLists, InodeRecords, Types
<1>2. o \in Ops
  BY <1>1 DEF Ops
<1>3. o.pc = "clear_entry" /\ o.parent = d
  OBVIOUS
<1> QED
  BY <1>2, <1>3 DEF CreationType, WritingType, ClearingType, Creating, Writing

LEMMA UnlinkType ==
  ASSUME Typed, NEW p \in PathRecords, NEW i \in Inodes, NEW call, NEW bad \in Unreadable(call),
         Unlink(p, i, bad)
  PROVE  Typed'
<1> DEFINE m == AfterFreeInode(FreeAll(mem, table[i].blocks), i)
<1>1. Changes(m) /\ Reading(bad) /\ UNCHANGED <<fsVars, diskVars, session>>
  BY DEF Unlink
<1>2. m \in Copies
  <2>1. table[i] \in InodeLists /\ mem \in Copies
    BY DEF Typed, StateType, Tables
  <2>2. FreeAll(mem, table[i].blocks) \in Copies
    BY <2>1, InodeListIs, FreeAllKeeps
  <2> QED
    BY <2>2, AllocatorTypes
<1> HIDE DEF m
<1>3. StateType'
  BY <1>1, <1>2, ChangesType, ReadingType DEF Typed, StateType, Reading, fsVars, diskVars
<1>4. OpType'
  <2>1. CASE ParentOfOld(p, bad) = 0 \/ p.names = <<>>
    BY <2>1, EndedType DEF Unlink
  <2>2. CASE ~ (ParentOfOld(p, bad) = 0 \/ p.names = <<>>)
    <3>1. ParentOfOld(p, bad) \in Inodes
      BY <2>2, ParentOfOldType
    <3>2. op' = [call |-> "delete", pc |-> "clear_entry", path |-> p, copy |-> FALSE,
                 parent |-> ParentOfOld(p, bad), inode |-> i, block |-> 0, grown |-> 0,
                 node |-> NoInode, position |-> 0, left |-> 0]
      BY <2>2 DEF Unlink, NoOp
    <3>3. op' \in Ops /\ CreationType(op', table') /\ WritingType(op') /\ ClearingType(op')
      BY <3>1, <3>2, ClearingMade
    <3> QED
      BY <3>3 DEF OpType
  <2> QED
    BY <2>1, <2>2
<1> QED
  BY <1>3, <1>4 DEF Typed

LEMMA RemovalType == ASSUME Typed, DeleteFile \/ RemoveDirectory PROVE Typed'
<1>1. PICK p \in OldPaths, bad \in Unreadable("delete") :
        Find(p, bad) # 0 /\ Unlink(p, Find(p, bad), bad)
  BY DEF DeleteFile, RemoveDirectory
<1>2. p \in PathRecords
  BY OldPathIs
<1>3. Find(p, bad) \in Inodes
  BY <1>1, <1>2, FindPathType
<1> QED
  BY <1>1, <1>2, <1>3, UnlinkType

\* What rfss_remove_directory_entry changes in the block where it finds the entry.
LEMMA EntryCleared ==
  ASSUME NEW x \in BlockLists, NEW j \in DOMAIN EntriesIn(x),
         NEW y, y = [x EXCEPT !.list[j].inode = 0]
  PROVE  /\ y \in BlockLists /\ x.kind = "entries" /\ y.kind = "entries" /\ y.of = x.of
         /\ DOMAIN EntriesIn(y) = DOMAIN EntriesIn(x)
         /\ EntriesIn(y)[j].inode = 0
         /\ \A k \in DOMAIN EntriesIn(x) : k # j => EntriesIn(y)[k] = EntriesIn(x)[k]
<1>1. x.kind = "entries" /\ EntriesIn(x) = x.list
  BY DEF EntriesIn
<1>2. /\ x.list \in Seq(EntryRecords) /\ Len(x.list) <= EntriesPerBlock
      /\ x = [kind |-> x.kind, of |-> x.of, list |-> x.list]
      /\ x.kind \in {"zero", "data", "dots", "entries"} /\ x.of \in {0} \cup Inodes
  BY DEF BlockLists, Contents
<1>3. j \in 1 .. Len(x.list) /\ x.list[j] \in EntryRecords /\ Len(x.list) \in Nat
  BY <1>1, <1>2, LenProperties, ElementOfSeq
<1> DEFINE e == [x.list[j] EXCEPT !.inode = 0]
           s == [x.list EXCEPT ![j] = e]
<1>4. e \in EntryRecords /\ e.inode = 0
  BY <1>3 DEF EntryRecords
<1> HIDE DEF e
<1>5. s \in Seq(EntryRecords) /\ Len(s) = Len(x.list)
  BY <1>2, <1>3, <1>4, ExceptSeq
<1>6. s[j] = e /\ \A k \in 1 .. Len(x.list) : k # j => s[k] = x.list[k]
  BY <1>2, <1>3
<1>7. y = [x EXCEPT !.list = s]
  BY <1>3 DEF e
<1> HIDE DEF s
<1>8. y = [kind |-> x.kind, of |-> x.of, list |-> s]
  BY <1>2, <1>7
<1>9. y \in BlockLists
  <2>1. Len(s) <= EntriesPerBlock
    BY <1>2, <1>5
  <2>2. x.kind \in {"zero", "data", "dots", "entries"} /\ x.of \in {0} \cup Inodes
    BY <1>2
  <2>3. [kind |-> x.kind, of |-> x.of, list |-> s] \in BlockLists
    BY <1>5, <2>1, <2>2, MadeBlock
  <2> QED
    BY <1>8, <2>3
<1>10. EntriesIn(y) = s
  BY <1>1, <1>8 DEF EntriesIn
<1>11. DOMAIN s = 1 .. Len(x.list) /\ DOMAIN x.list = 1 .. Len(x.list)
  BY <1>2, <1>5, LenProperties
<1> QED
  BY <1>1, <1>4, <1>6, <1>8, <1>9, <1>10, <1>11

LEMMA ClearEntryType == ASSUME Typed, ClearEntry PROVE Typed'
<1>1. op.pc = "clear_entry" /\ UNCHANGED <<mem, dirty, fsVars, diskCopy, table, session>>
  BY DEF ClearEntry
<1>2. op \in Ops /\ op.parent \in Inodes /\ op.position \in Nat
  BY <1>1 DEF Typed, OpType, ClearingType, Ops
<1>3. Parent \in InodeLists
  BY <1>2 DEF Parent, Typed, StateType, Tables
<1>4. PICK bad \in Unreadable("delete") :
        LET ks == {k \in (op.position + 1) .. Len(Parent.blocks) :
                     Parent.blocks[k] \notin bad /\ Matching(Parent.blocks[k]) # {}}
            b == Parent.blocks[Lowest(ks)] IN
        \/ /\ ks = {}
           /\ op' = NoOp
           /\ Reading(bad)
           /\ UNCHANGED content
        \/ /\ ks # {} /\ bad = {}
           /\ \E w \in Outcomes :
                /\ PutContent(b, [content[b] EXCEPT !.list[Lowest(Matching(b))].inode = 0], w)
                /\ Wrote(w)
           /\ op' = [op EXCEPT !.position = Lowest(ks)]
  BY DEF ClearEntry
<1> DEFINE ks == {k \in (op.position + 1) .. Len(Parent.blocks) :
                    Parent.blocks[k] \notin bad /\ Matching(Parent.blocks[k]) # {}}
           p == Lowest(ks)
           b == Parent.blocks[p]
           j == Lowest(Matching(b))
           y == [content[b] EXCEPT !.list[j].inode = 0]
<1>5. CASE op' = NoOp /\ Reading(bad) /\ UNCHANGED content
  <2>1. OpType'
    BY <1>5, EndedType
  <2>2. StateType'
    BY <1>1, <1>5, ReadingType DEF Typed, StateType, Reading, fsVars
  <2> QED
    BY <2>1, <2>2 DEF Typed
<1>6. CASE /\ ks # {} /\ op' = [op EXCEPT !.position = p]
           /\ \E w \in Outcomes : PutContent(b, y, w) /\ Wrote(w)
  <2>1. ks \subseteq Nat
    BY <1>2
  <2>2. p \in ks /\ p \in Nat
    <3> HIDE DEF ks
    <3> QED
      BY <1>6, <2>1, LowestIsIn
  <2>3. p \in DOMAIN Parent.blocks /\ Matching(b) # {}
    <3> HIDE DEF p
    <3>1. p \in 1 .. Len(Parent.blocks) /\ Matching(b) # {}
      BY <1>2, <1>3, <2>2, InodeListIs
    <3> QED
      BY <1>3, <3>1, InodeListIs
  <2> HIDE DEF p
  <2>4. b \in FileBlocks
    BY <1>3, <2>3, InodeListIs
  <2>5. content[b] \in BlockLists
    BY <2>4 DEF Typed, StateType, Stores
  <2> HIDE DEF b
  <2>6. Matching(b) \subseteq DOMAIN EntriesIn(content[b]) /\ Matching(b) \subseteq Nat
    BY <2>5, EntriesInIs DEF Matching
  <2>7. j \in DOMAIN EntriesIn(content[b])
    BY <2>3, <2>6, LowestIsIn
  <2> HIDE DEF j
  <2>8. y \in BlockLists
    BY <2>5, <2>7, EntryCleared
  <2> HIDE DEF y
  <2>9. PICK w \in Outcomes : PutContent(b, y, w) /\ Wrote(w)
    BY <1>6
  <2>10. content' \in Stores
    BY <2>4, <2>8, <2>9, PutContentType DEF Typed, StateType
  <2>11. StateType'
    BY <1>1, <2>9, <2>10, WroteType DEF Typed, StateType, fsVars
  <2>12. op' \in Ops /\ op'.pc = "clear_entry" /\ op'.parent = op.parent
    BY <1>1, <1>2, <1>6, <2>2 DEF Ops
  <2>13. CreationType(op', table') /\ WritingType(op') /\ ClearingType(op')
    BY <1>2, <2>12 DEF CreationType, WritingType, ClearingType, Creating, Writing
  <2> QED
    BY <2>11, <2>12, <2>13 DEF Typed, OpType
<1> QED
  BY <1>4, <1>5, <1>6

-----------------------------------------------------------------------------
(***************************************************************************)
(* Every step keeps the types: writing a file.                             *)
(***************************************************************************)
LEMMA TruncatedIs ==
  ASSUME NEW n \in InodeLists
  PROVE  /\ Truncated(n) \in InodeLists /\ Truncated(n).type = n.type
         /\ Truncated(n).blocks = <<>> /\ Len(Truncated(n).blocks) = 0
<1> DEFINE s == <<>>
<1>1. n.type \in Types /\ s \in Seq(FileBlocks) /\ Len(s) = 0 /\ Len(s) <= DirectBlocks
  BY InodeListIs, DirectoryAssumption
<1>2. Truncated(n) = [type |-> n.type, blocks |-> s]
  BY DEF Truncated, InodeLists, InodeRecords
<1> HIDE DEF s
<1>3. [type |-> n.type, blocks |-> s] \in InodeLists
  BY <1>1, MadeInode
<1>4. Truncated(n) \in InodeLists /\ Truncated(n).type = n.type /\ Truncated(n).blocks = s
  BY <1>2, <1>3
<1> QED
  BY <1>1, <1>4 DEF s

LEMMA OpeningMade ==
  ASSUME NEW p \in PathRecords, NEW i \in Inodes, NEW n \in InodeLists, Len(n.blocks) = 0,
         NEW left \in Nat,
         NEW o, o = [call |-> "open", pc |-> "truncated_inode", path |-> p, copy |-> FALSE,
                     parent |-> 0, inode |-> i, block |-> 0, grown |-> 0,
                     node |-> n, position |-> 0, left |-> left], NEW t
  PROVE  o \in Ops /\ CreationType(o, t) /\ WritingType(o) /\ ClearingType(o)
<1>1. o \in Ops
  BY DEF Ops, Writing
<1>2. o.pc = "truncated_inode" /\ o.inode = i /\ o.position = 0 /\ Len(o.node.blocks) = 0
  OBVIOUS
<1>3. ChunksPerBlock * 0 = 0 /\ ChunksPerBlock * (0 - 1) < 0
  BY RfssAssumption
<1> QED
  BY <1>1, <1>2, <1>3 DEF CreationType, WritingType, ClearingType, Creating, Writing, Filled

LEMMA OpenForWritingType ==
  ASSUME Typed, NEW p \in PathRecords, NEW left \in Nat, OpenForWriting(p, left)
  PROVE  Typed'
<1>1. PICK bad \in Unreadable("open") :
        LET i == Find(p, bad) IN
        /\ Reading(bad)
        /\ UNCHANGED <<fsVars, diskVars, session>>
        /\ \/ /\ i # 0
              /\ Changes(FreeAll(mem, table[i].blocks))
              /\ op' = [NoOp EXCEPT !.call = "open", !.pc = "truncated_inode", !.path = p,
                          !.inode = i, !.node = Truncated(table[i]), !.left = left]
           \/ /\ i = 0 /\ op # NoOp
              /\ op' = NoOp /\ UNCHANGED <<mem, dirty>>
  BY DEF OpenForWriting
<1> DEFINE i == Find(p, bad)
           m == FreeAll(mem, table[i].blocks)
           n == Truncated(table[i])
<1>2. CASE i # 0 /\ Changes(m)
           /\ op' = [NoOp EXCEPT !.call = "open", !.pc = "truncated_inode", !.path = p,
                       !.inode = i, !.node = n, !.left = left]
  <2>1. i \in Inodes
    BY <1>2, FindPathType
  <2>2. op' = [call |-> "open", pc |-> "truncated_inode", path |-> p, copy |-> FALSE,
               parent |-> 0, inode |-> i, block |-> 0, grown |-> 0,
               node |-> n, position |-> 0, left |-> left]
    BY <1>2 DEF NoOp
  <2> HIDE DEF i
  <2>3. table[i] \in InodeLists /\ mem \in Copies
    BY <2>1 DEF Typed, StateType, Tables
  <2>4. m \in Copies
    BY <2>3, InodeListIs, FreeAllKeeps
  <2>5. n \in InodeLists /\ Len(n.blocks) = 0
    BY <2>3, TruncatedIs
  <2> HIDE DEF m, n
  <2>6. op' \in Ops /\ CreationType(op', table') /\ WritingType(op') /\ ClearingType(op')
    BY <2>1, <2>2, <2>5, OpeningMade
  <2>7. StateType'
    BY <1>1, <1>2, <2>4, ChangesType, ReadingType DEF Typed, StateType, Reading, fsVars, diskVars
  <2> QED
    BY <2>6, <2>7 DEF Typed, OpType
<1>3. CASE op' = NoOp /\ UNCHANGED <<mem, dirty>>
  <2>1. OpType'
    BY <1>3, EndedType
  <2>2. StateType'
    BY <1>1, <1>3, ReadingType DEF Typed, StateType, Reading, fsVars, diskVars
  <2> QED
    BY <2>1, <2>2 DEF Typed
<1> QED
  BY <1>1, <1>2, <1>3

LEMMA OpeningType == ASSUME Typed, Edit \/ CopyOpens PROVE Typed'
<1>1. CASE Edit
  <2>1. PICK p \in OldPaths, left \in {0, 1} : OpenForWriting(p, left)
    BY <1>1 DEF Edit
  <2>2. p \in PathRecords /\ left \in Nat
    BY OldPathIs
  <2> QED
    BY <2>1, <2>2, OpenForWritingType
<1>2. CASE CopyOpens
  <2>1. op.path \in PathRecords /\ op.left \in Nat
    BY DEF Typed, OpType, Ops
  <2> QED
    BY <1>2, <2>1, OpenForWritingType DEF CopyOpens
<1> QED
  BY <1>1, <1>2

\* What rfss_open_file and rfss_write_file go on with once the inode is written.
LEMMA AfterInodeType ==
  ASSUME Typed, op.pc \in {"truncated_inode", "file_inode"}, op' = AfterInode
  PROVE  OpType'
<1>1. /\ op \in Ops /\ op.left \in Nat /\ op.inode \in Inodes
      /\ op.left > 0 => Filled(op.position, Len(op.node.blocks))
  BY DEF Typed, OpType, WritingType, Ops, Writing
<1>2. CASE op.left > 0
  <2>1. op' = [op EXCEPT !.call = "write", !.pc = "write"]
    BY <1>2 DEF AfterInode
  <2>2. /\ op' \in Ops /\ op'.pc = "write" /\ op'.inode = op.inode /\ op'.position = op.position
        /\ op'.left = op.left /\ op'.node = op.node
    BY <1>1, <2>1 DEF Ops, Writing
  <2>3. CreationType(op', table') /\ WritingType(op') /\ ClearingType(op')
    BY <1>1, <1>2, <2>2 DEF CreationType, WritingType, ClearingType, Creating
  <2> QED
    BY <2>2, <2>3 DEF OpType
<1>3. CASE ~ (op.left > 0)
  BY <1>3, EndedType DEF AfterInode
<1> QED
  BY <1>2, <1>3

LEMMA WriteInodeType == ASSUME Typed, WriteTruncatedInode \/ WriteFileInode PROVE Typed'
<1>1. PICK w \in Outcomes : PutInode(op.inode, op.node, w) /\ Wrote(w)
  BY DEF WriteTruncatedInode, WriteFileInode
<1>2. /\ op.pc \in {"truncated_inode", "file_inode"} /\ op' = AfterInode
      /\ UNCHANGED <<mem, dirty, fsVars, diskCopy, content, session>>
  BY DEF WriteTruncatedInode, WriteFileInode
<1>3. op.inode \in Inodes /\ op.node \in InodeLists
  BY <1>2 DEF Typed, OpType, WritingType, Ops, Writing
<1>4. table' \in Tables
  BY <1>1, <1>3, PutInodeType DEF Typed, StateType
<1>5. StateType'
  BY <1>1, <1>2, <1>4, WroteType DEF Typed, StateType, fsVars
<1> QED
  BY <1>2, <1>5, AfterInodeType DEF Typed

\* Where a write goes: always just past the last block, or into the last one.
LEMMA IndexIs ==
  ASSUME Typed, op.pc \in {"write", "data"}
  PROVE  /\ Len(op.node.blocks) \in Nat /\ Index \in Nat \ {0}
         /\ op.pc = "data" => Index = Len(op.node.blocks)
         /\ op.pc = "write" =>
              \/ /\ Index = Len(op.node.blocks) + 1
                 /\ op.position = ChunksPerBlock * Len(op.node.blocks)
              \/ /\ Index = Len(op.node.blocks)
                 /\ Within(op.position, Len(op.node.blocks))
<1> DEFINE n == Len(op.node.blocks)
           q == op.position \div ChunksPerBlock
<1>1. n \in Nat /\ op.position \in Nat /\ ChunksPerBlock \in Nat \ {0}
  BY InodeListIs, RfssAssumption DEF Typed, OpType, Ops
<1>2. q \in Nat /\ Index = q + 1
  BY <1>1, QuotientBounds DEF Index
<1>3. ASSUME Within(op.position, n) PROVE Index = n
  <2>1. n # 0
    BY <1>1, <1>3 DEF Within
  <2>2. n - 1 \in Nat /\ (n - 1) + 1 = n
    BY <1>1, <2>1
  <2>3. ChunksPerBlock * (n - 1) <= op.position /\ op.position < ChunksPerBlock * ((n - 1) + 1)
    BY <1>3, <2>2 DEF Within
  <2> HIDE DEF n, q
  <2>4. q = n - 1
    BY <1>1, <2>2, <2>3, QuotientIs DEF q
  <2> QED
    BY <1>1, <1>2, <2>4
<1>4. ASSUME op.position = ChunksPerBlock * n PROVE Index = n + 1
  <2> HIDE DEF n, q
  <2>1. ChunksPerBlock * n <= op.position /\ op.position < ChunksPerBlock * (n + 1)
    BY <1>1, <1>4
  <2>2. q = n
    BY <1>1, <2>1, QuotientIs DEF q
  <2> QED
    BY <1>2, <2>2
<1>5. CASE op.pc = "data"
  BY <1>1, <1>2, <1>3, <1>5 DEF Typed, OpType, WritingType
<1>6. CASE op.pc = "write"
  <2>1. Filled(op.position, n)
    BY <1>6 DEF Typed, OpType, WritingType
  <2>2. ChunksPerBlock * n \in Nat /\ ChunksPerBlock * (n - 1) \in Int
    BY <1>1
  <2>3. op.position = ChunksPerBlock * n \/ Within(op.position, n)
    <3> HIDE DEF n
    <3> QED
      BY <1>1, <2>1, <2>2 DEF Filled, Within
  <2> QED
    BY <1>1, <1>2, <1>3, <1>4, <1>6, <2>3
<1> QED
  BY <1>5, <1>6

\* The operation at the block where the data goes.
LEMMA AtDataType ==
  ASSUME Typed, op.pc = "write", NEW n \in InodeLists, Within(op.position, Len(n.blocks)),
         NEW o, o = [op EXCEPT !.pc = "data", !.node = n], NEW t
  PROVE  /\ o \in Ops /\ CreationType(o, t) /\ WritingType(o) /\ ClearingType(o)
         /\ o.pc = "data" /\ o.node = n /\ o.inode = op.inode
<1>1. op \in Ops /\ op.inode \in Inodes /\ op.left > 0
  BY DEF Typed, OpType, WritingType, Writing
<1>2. /\ o \in Ops /\ o.pc = "data" /\ o.node = n /\ o.inode = op.inode
      /\ o.position = op.position /\ o.left = op.left
  BY <1>1 DEF Ops, Writing
<1> QED
  BY <1>1, <1>2 DEF CreationType, WritingType, ClearingType, Creating

LEMMA ExtendedIs ==
  ASSUME Typed, op.pc = "write", Index <= DirectBlocks, Index > Len(op.node.blocks),
         NEW b \in FileBlocks, NEW n, n = [op.node EXCEPT !.blocks = Append(@, b)]
  PROVE  /\ n \in InodeLists /\ n.type = op.node.type /\ n.blocks = Append(op.node.blocks, b)
         /\ Len(n.blocks) = Len(op.node.blocks) + 1 /\ Within(op.position, Len(n.blocks))
<1> DEFINE s == Append(op.node.blocks, b)
<1>1. op.node \in InodeLists
  BY DEF Typed, OpType, Ops
<1>2. op.node.type \in Types /\ op.node.blocks \in Seq(FileBlocks) /\ Len(op.node.blocks) \in Nat
  BY <1>1, InodeListIs
<1>3. Len(op.node.blocks) + 1 <= DirectBlocks /\ op.position = ChunksPerBlock * Len(op.node.blocks)
  BY <1>2, IndexIs
<1>4. s \in Seq(FileBlocks) /\ Len(s) = Len(op.node.blocks) + 1 /\ Len(s) <= DirectBlocks
  BY <1>2, <1>3
<1>5. n = [type |-> op.node.type, blocks |-> s]
  BY <1>1 DEF InodeLists, InodeRecords
<1> HIDE DEF s
<1>6. [type |-> op.node.type, blocks |-> s] \in InodeLists
  BY <1>2, <1>4, MadeInode
<1>7. n \in InodeLists /\ n.type = op.node.type /\ n.blocks = s
  <2>1. n \in InodeLists
    BY <1>5, <1>6
  <2>2. n.type = op.node.type /\ n.blocks = s
    <3> DEFINE type == op.node.type
    <3>1. n = [type |-> type, blocks |-> s]
      BY <1>5
    <3> HIDE DEF type
    <3>2. n.type = type /\ n.blocks = s
      BY <3>1
    <3> QED
      BY <3>2 DEF type
  <2> QED
    BY <2>1, <2>2
<1>8. Within(op.position, Len(op.node.blocks) + 1)
  <2> DEFINE k == Len(op.node.blocks)
  <2>1. k \in Nat /\ op.position = ChunksPerBlock * k /\ ChunksPerBlock \in Nat \ {0}
    BY <1>2, <1>3, RfssAssumption
  <2> HIDE DEF k
  <2>2. ChunksPerBlock * ((k + 1) - 1) <= op.position /\ op.position < ChunksPerBlock * (k + 1)
    BY <2>1
  <2> QED
    BY <2>2 DEF k, Within
<1> QED
  BY <1>4, <1>7, <1>8 DEF s

LEMMA ExtendFileType == ASSUME Typed, ExtendFile PROVE Typed'
<1> DEFINE b == AllocatedBlock(mem)
           n == [op.node EXCEPT !.blocks = Append(@, b)]
<1>1. /\ op.pc = "write" /\ Index <= DirectBlocks /\ Index > Len(op.node.blocks) /\ b # 0
      /\ op' = [op EXCEPT !.pc = "data", !.node.blocks = Append(@, b)]
      /\ Changes(AfterAllocateBlock(mem))
      /\ UNCHANGED <<fsVars, diskVars, session, faults>>
  BY DEF ExtendFile
<1>2. mem \in Copies /\ op \in Ops
  BY DEF Typed, StateType, OpType
<1>3. b \in FileBlocks /\ AfterAllocateBlock(mem) \in Copies
  BY <1>1, <1>2, AllocatedBlockType, AllocatorTypes, SizesOfDrive
<1>4. op' = [op EXCEPT !.pc = "data", !.node = n]
  BY <1>1, <1>2 DEF Ops
<1> HIDE DEF b
<1>5. n \in InodeLists /\ Within(op.position, Len(n.blocks))
  BY <1>1, <1>3, ExtendedIs
<1> HIDE DEF n
<1>6. op' \in Ops /\ CreationType(op', table') /\ WritingType(op') /\ ClearingType(op')
  BY <1>1, <1>4, <1>5, AtDataType
<1>7. StateType'
  BY <1>1, <1>3, ChangesType DEF Typed, StateType, fsVars, diskVars
<1> QED
  BY <1>6, <1>7 DEF Typed, OpType

LEMMA RewriteBlockType == ASSUME Typed, RewriteBlock PROVE Typed'
<1>1. /\ op.pc = "write" /\ Index <= Len(op.node.blocks)
      /\ op' = [op EXCEPT !.pc = "data"]
      /\ UNCHANGED <<mem, dirty, fsVars, diskVars, session, faults>>
  BY DEF RewriteBlock
<1>2. op.node \in InodeLists /\ op \in Ops
  BY DEF Typed, OpType, Ops
<1>3. Within(op.position, Len(op.node.blocks))
  BY <1>1, IndexIs
<1>4. op' = [op EXCEPT !.pc = "data", !.node = op.node]
  BY <1>1, <1>2 DEF Ops
<1>5. op' \in Ops /\ CreationType(op', table') /\ WritingType(op') /\ ClearingType(op')
  BY <1>1, <1>2, <1>3, <1>4, AtDataType
<1>6. StateType'
  BY <1>1 DEF Typed, StateType, fsVars, diskVars
<1> QED
  BY <1>5, <1>6 DEF Typed, OpType

\* A write that stops goes on to the inode, and to nothing after it.
LEMMA StoppedType ==
  ASSUME Typed, op.pc \in {"write", "data"},
         NEW o, o = [op EXCEPT !.pc = "file_inode", !.left = 0], NEW t
  PROVE  /\ o \in Ops /\ CreationType(o, t) /\ WritingType(o) /\ ClearingType(o)
         /\ o.pc = "file_inode" /\ o.left = 0 /\ o.inode = op.inode /\ o.node = op.node
<1>1. op \in Ops /\ op.inode \in Inodes
  BY DEF Typed, OpType, WritingType, Writing
<1>2. /\ o \in Ops /\ o.pc = "file_inode" /\ o.left = 0 /\ o.inode = op.inode
      /\ o.node = op.node
  BY <1>1 DEF Ops, Writing
<1> QED
  BY <1>1, <1>2 DEF CreationType, WritingType, ClearingType, Creating

LEMMA StopWritingType == ASSUME Typed, StopWriting PROVE Typed'
<1>1. /\ op.pc = "write" /\ op' = [op EXCEPT !.pc = "file_inode", !.left = 0]
      /\ UNCHANGED <<mem, dirty, fsVars, diskVars, session>>
  BY DEF StopWriting
<1>2. faults' \in 0 .. MaxFaults
  <2>1. CASE UNCHANGED faults
    BY <2>1 DEF Typed, StateType
  <2>2. CASE \E bad \in Unreadable("write") : Reading(bad)
    BY <2>2, ReadingType DEF Reading
  <2> QED
    BY <2>1, <2>2 DEF StopWriting
<1>3. op' \in Ops /\ CreationType(op', table') /\ WritingType(op') /\ ClearingType(op')
  BY <1>1, StoppedType
<1>4. StateType'
  BY <1>1, <1>2 DEF Typed, StateType, fsVars, diskVars
<1> QED
  BY <1>3, <1>4 DEF Typed, OpType

LEMMA WriteDataType == ASSUME Typed, WriteData PROVE Typed'
<1> DEFINE b == op.node.blocks[Index]
<1>1. PICK w \in Outcomes :
        /\ PutContent(b, DataOf(op.inode), w) /\ Wrote(w)
        /\ op' = IF w = "done"
                   THEN [op EXCEPT !.pc = "file_inode", !.position = @ + 1, !.left = @ - 1]
                   ELSE [op EXCEPT !.pc = "file_inode", !.left = 0]
  BY DEF WriteData
<1>2. op.pc = "data" /\ UNCHANGED <<mem, dirty, fsVars, diskCopy, table, session>>
  BY DEF WriteData
<1>3. /\ op \in Ops /\ op.inode \in Inodes /\ op.left \in Nat /\ op.left > 0
      /\ op.node \in InodeLists /\ op.position \in Nat
      /\ Within(op.position, Len(op.node.blocks))
  BY <1>2 DEF Typed, OpType, WritingType, Writing, Ops
<1>4. b \in FileBlocks
  BY <1>2, <1>3, IndexIs, InodeListIs
<1> HIDE DEF b
<1>5. content' \in Stores
  BY <1>1, <1>3, <1>4, PutContentType, BlockType DEF Typed, StateType
<1>6. StateType'
  BY <1>1, <1>2, <1>5, WroteType DEF Typed, StateType, fsVars
<1>7. OpType'
  <2>1. CASE w = "done"
    <3>1. op' = [op EXCEPT !.pc = "file_inode", !.position = @ + 1, !.left = @ - 1]
      BY <1>1, <2>1
    <3>2. op.left - 1 \in Nat /\ op.position + 1 \in Nat
      BY <1>3
    <3>3. /\ op' \in Ops /\ op'.pc = "file_inode" /\ op'.inode = op.inode
          /\ op'.position = op.position + 1 /\ op'.node = op.node
      BY <1>3, <3>1, <3>2 DEF Ops, Writing
    <3>4. Filled(op.position + 1, Len(op.node.blocks))
      <4> DEFINE n == Len(op.node.blocks)
      <4>1. n \in Nat /\ ChunksPerBlock \in Nat
        BY <1>3, InodeListIs, RfssAssumption
      <4> HIDE DEF n
      <4>2. ChunksPerBlock * n \in Int /\ ChunksPerBlock * (n - 1) \in Int
        BY <4>1
      <4>3. ChunksPerBlock * (n - 1) <= op.position /\ op.position < ChunksPerBlock * n
        BY <1>3 DEF Within, n
      <4>4. op.position + 1 <= ChunksPerBlock * n /\ ChunksPerBlock * (n - 1) < op.position + 1
        BY <1>3, <4>2, <4>3
      <4> QED
        BY <4>4 DEF Filled, n
    <3>5. CreationType(op', table') /\ WritingType(op') /\ ClearingType(op')
      BY <1>3, <3>3, <3>4 DEF CreationType, WritingType, ClearingType, Creating
    <3> QED
      BY <3>3, <3>5 DEF OpType
  <2>2. CASE w # "done"
    <3>1. op' \in Ops /\ CreationType(op', table') /\ WritingType(op') /\ ClearingType(op')
      BY <1>1, <1>2, <2>2, StoppedType
    <3> QED
      BY <3>1 DEF OpType
  <2> QED
    BY <2>1, <2>2
<1> QED
  BY <1>6, <1>7 DEF Typed

-----------------------------------------------------------------------------
(***************************************************************************)
(* Every step keeps the types: cd, mounting, saving, formatting.           *)
(***************************************************************************)
LEMMA NewDirectoryType ==
  ASSUME Typed, NEW p \in DirPaths, p = Up => cwd.path # <<>>
  PROVE  NewDirectory(p) \in Seq(Names) /\ Len(NewDirectory(p)) \in Nat
<1>1. cwd.path \in Seq(Names)
  BY DEF Typed, StateType
<1>2. CASE p = Up
  <2>1. cwd.path # <<>>
    BY <1>2
  <2>2. Front(cwd.path) \in Seq(Names)
    BY <1>1, <2>1 DEF Front
  <2> QED
    BY <1>2, <2>2, LenProperties DEF NewDirectory
<1>3. CASE p # Up
  <2>1. p.names \in Seq(Names)
    BY <1>3, RfssAssumption DEF PathRecords
  <2>2. cwd.path \o p.names \in Seq(Names)
    BY <1>1, <2>1
  <2> QED
    BY <1>3, <2>1, <2>2, LenProperties DEF NewDirectory
<1> QED
  BY <1>2, <1>3

LEMMA ChangeDirectoryType == ASSUME Typed, ChangeDirectory PROVE Typed'
<1>1. PICK p \in DirPaths, bad \in Unreadable("change_directory") :
        /\ p = Up => cwd.path # <<>>
        /\ LET i == Find([absolute |-> TRUE, names |-> NewDirectory(p)], bad) IN
           /\ i # 0
           /\ IsDirectory(i)
           /\ cwd' = [inode |-> i, path |-> NewDirectory(p)]
        /\ Reading(bad)
  BY DEF ChangeDirectory
<1>2. UNCHANGED <<mounted, mem, dirty, snapshot, diskVars, op, session>>
  BY DEF ChangeDirectory
<1> DEFINE i == Find([absolute |-> TRUE, names |-> NewDirectory(p)], bad)
<1>3. NewDirectory(p) \in Seq(Names) /\ Len(NewDirectory(p)) \in Nat
  BY <1>1, NewDirectoryType
<1>4. i \in {0} \cup Inodes
  BY <1>3, FindType
<1>5. cwd' \in [inode : Inodes, path : Seq(Names)]
  <2> HIDE DEF i
  <2> QED
    BY <1>1, <1>3, <1>4 DEF i
<1>6. StateType'
  BY <1>1, <1>2, <1>5, ReadingType DEF Typed, StateType, Reading, diskVars
<1> QED
  BY <1>2, <1>6, SameOpType DEF Typed, diskVars

LEMMA MountType == ASSUME Typed, Mount PROVE Typed'
<1>1. session + 1 \in 0 .. Len(Sessions) /\ FALSE \in BOOLEAN /\ TRUE \in BOOLEAN
  BY RfssAssumption, LenProperties DEF Mount, Typed, StateType
<1>2. StateType'
  BY <1>1, AtRootType DEF Mount, Typed, StateType, diskVars
<1> QED
  BY <1>2, SameOpType DEF Mount, diskVars, Typed

LEMMA ForgetType ==
  ASSUME Typed, Forget, UNCHANGED <<diskVars, session, faults>> \/
         (table' \in Tables /\ faults' \in 0 .. MaxFaults /\ UNCHANGED <<diskCopy, content, session>>)
  PROVE  StateType'
BY AtRootType, FreshType, CopiesType DEF Forget, Typed, StateType, diskVars

LEMMA StageMade ==
  ASSUME NEW call \in {"unmount", "format"},
         NEW o, o = [call |-> call, pc |-> "superblock", path |-> NoPath, copy |-> FALSE,
                     parent |-> 0, inode |-> 0, block |-> 0, grown |-> 0,
                     node |-> NoInode, position |-> 0, left |-> 0], NEW t
  PROVE  o \in Ops /\ CreationType(o, t) /\ WritingType(o) /\ ClearingType(o)
<1>1. NoInode \in InodeLists /\ NoPath \in PathRecords
  BY DirectoryAssumption DEF NoInode, InodeLists, InodeRecords, Types, NoPath, PathRecords
<1>2. o \in Ops
  BY <1>1 DEF Ops, Saving
<1>3. o.pc = "superblock"
  OBVIOUS
<1> QED
  BY <1>2, <1>3, ElsewhereType DEF Saving

LEMMA SavingStartsType == ASSUME Typed, UnmountDirty \/ Format PROVE Typed'
<1>1. PICK call \in {"unmount", "format"} :
        op' = [NoOp EXCEPT !.call = call, !.pc = "superblock"]
  BY DEF UnmountDirty, Format
<1>2. op' = [call |-> call, pc |-> "superblock", path |-> NoPath, copy |-> FALSE,
             parent |-> 0, inode |-> 0, block |-> 0, grown |-> 0,
             node |-> NoInode, position |-> 0, left |-> 0]
  BY <1>1 DEF NoOp
<1>3. op' \in Ops /\ CreationType(op', table') /\ WritingType(op') /\ ClearingType(op')
  BY <1>2, StageMade
<1>4. StateType'
  BY DEF UnmountDirty, Format, Typed, StateType, fsVars, diskVars
<1> QED
  BY <1>3, <1>4 DEF Typed, OpType

LEMMA StageAfterIs ==
  /\ StageAfter("superblock") = "block_bitmap"
  /\ StageAfter("block_bitmap") = "inode_bitmap"
  /\ StageAfter("inode_bitmap") = "table"
<1>1. /\ Stages[1] = "superblock" /\ Stages[2] = "block_bitmap"
      /\ Stages[3] = "inode_bitmap" /\ Stages[4] = "table"
  BY DEF Stages
<1>2. 1 .. 3 = {1, 2, 3}
  OBVIOUS
<1>3. ASSUME NEW pc, NEW n \in 1 .. 3, Stages[n] = pc PROVE StageAfter(pc) = Stages[1 + n]
  <2> DEFINE m == CHOOSE k \in 1 .. 3 : Stages[k] = pc
  <2>1. m \in 1 .. 3 /\ Stages[m] = pc
    BY <1>3
  <2>2. StageAfter(pc) = Stages[1 + m]
    BY DEF StageAfter
  <2> HIDE DEF m
  <2>3. m = n
    BY <1>1, <1>2, <1>3, <2>1
  <2> QED
    BY <2>2, <2>3
<1>4. /\ StageAfter("superblock") = Stages[1 + 1]
      /\ StageAfter("block_bitmap") = Stages[1 + 2]
      /\ StageAfter("inode_bitmap") = Stages[1 + 3]
  BY <1>1, <1>3
<1> QED
  BY <1>1, <1>4

LEMMA WriteCopyType == ASSUME Typed, WriteCopy PROVE Typed'
<1> DEFINE image == IF op.call = "unmount" THEN mem ELSE Formatted
<1>1. PICK w \in Outcomes :
        /\ diskCopy' = IF w = "lost" THEN diskCopy ELSE SavedCopy(diskCopy, image, op.pc)
        /\ Wrote(w)
        /\ op' = IF op.call = "format" /\ w # "done" THEN NoOp
                 ELSE [op EXCEPT !.pc = StageAfter(@), !.block = 1]
  BY DEF WriteCopy
<1>2. /\ op.pc \in {"superblock", "block_bitmap", "inode_bitmap"}
      /\ UNCHANGED <<mem, dirty, fsVars, table, content, session>>
  BY DEF WriteCopy
<1>3. image \in Copies /\ diskCopy \in Copies
  BY CopiesType DEF Typed, StateType
<1> HIDE DEF image
<1>4. diskCopy' \in Copies
  BY <1>1, <1>3, SavedCopyType
<1>5. StateType'
  BY <1>1, <1>2, <1>4, WroteType DEF Typed, StateType, fsVars
<1>6. OpType'
  <2>1. CASE op.call = "format" /\ w # "done"
    BY <1>1, <2>1, EndedType
  <2>2. CASE ~ (op.call = "format" /\ w # "done")
    <3>1. op' = [op EXCEPT !.pc = StageAfter(op.pc), !.block = 1] /\ op \in Ops
      BY <1>1, <2>2 DEF Typed, OpType
    <3>2. StageAfter(op.pc) \in Saving
      BY <1>2, StageAfterIs DEF Saving
    <3>3. op' \in Ops /\ op'.pc \in Saving
      BY <3>1, <3>2 DEF Ops
    <3> QED
      BY <3>3, ElsewhereType DEF OpType
  <2> QED
    BY <2>1, <2>2
<1> QED
  BY <1>5, <1>6 DEF Typed

LEMMA WriteTableType == ASSUME Typed, WriteTable PROVE Typed'
<1>1. PICK w \in Outcomes :
        /\ table' = IF w = "lost" THEN table
                    ELSE [i \in Inodes |->
                            IF ~InTableBlock(i, op.block) THEN table[i]
                            ELSE IF op.call = "unmount" THEN snapshot[i] ELSE FreshTable[i]]
        /\ Wrote(w)
        /\ \/ op' = NoOp /\ UNCHANGED <<mem, dirty, fsVars>>
           \/ op' = [op EXCEPT !.block = @ + 1] /\ UNCHANGED <<mem, dirty, fsVars>>
           \/ op' = [op EXCEPT !.pc = "root"] /\ UNCHANGED <<mem, dirty, fsVars>>
           \/ op' = NoOp /\ Forget
  BY DEF WriteTable
<1>2. op.pc = "table" /\ UNCHANGED <<diskCopy, content, session>> /\ op \in Ops
  BY DEF WriteTable, Typed, OpType
<1>3. table' \in Tables
  BY <1>1, FreshType DEF Typed, StateType, Tables
<1>4. faults' \in 0 .. MaxFaults
  BY <1>1, WroteType
<1>5. ASSUME UNCHANGED <<mem, dirty, fsVars>> PROVE StateType'
  BY <1>2, <1>3, <1>4, <1>5 DEF Typed, StateType, fsVars
<1>6. ASSUME Forget PROVE StateType'
  BY <1>2, <1>3, <1>4, <1>6, ForgetType
<1>7. OpType'
  <2>1. CASE op' = NoOp
    BY <2>1, EndedType
  <2>2. CASE op' = [op EXCEPT !.block = @ + 1] \/ op' = [op EXCEPT !.pc = "root"]
    <3>1. op.block + 1 \in Nat
      BY <1>2 DEF Ops
    <3>2. op' \in Ops /\ op'.pc \in {"root", "table"}
      BY <1>2, <2>2, <3>1 DEF Ops
    <3> QED
      BY <3>2, ElsewhereType DEF OpType, Saving
  <2> QED
    BY <1>1, <2>1, <2>2
<1> QED
  BY <1>1, <1>5, <1>6, <1>7 DEF Typed

LEMMA WriteRootType == ASSUME Typed, WriteRoot PROVE Typed'
<1>1. PICK w \in Outcomes : PutContent(RootBlock, DotsOf(RootInode), w) /\ Wrote(w)
  BY DEF WriteRoot
<1>2. op' = NoOp /\ UNCHANGED <<mem, dirty, fsVars, diskCopy, table, session>>
  BY DEF WriteRoot
<1>3. content' \in Stores
  BY <1>1, PutContentType, BlockType, SizesOfDrive DEF Typed, StateType
<1>4. StateType'
  BY <1>1, <1>2, <1>3, WroteType DEF Typed, StateType, fsVars
<1> QED
  BY <1>2, <1>4, EndedType DEF Typed

LEMMA ForgettingType == ASSUME Typed, UnmountClean \/ PowerCut PROVE Typed'
<1>1. Forget /\ UNCHANGED <<diskVars, session, faults>>
  BY DEF UnmountClean, PowerCut
<1>2. StateType'
  BY <1>1, ForgetType
<1>3. OpType'
  BY EndedType, SameOpType DEF UnmountClean, PowerCut, diskVars
<1> QED
  BY <1>2, <1>3 DEF Typed

LEMMA TypeNext == Typed /\ [Next]_vars => Typed'
<1> SUFFICES ASSUME Typed, [Next]_vars PROVE Typed'
  OBVIOUS
<1>1. CASE Touch \/ Mkdir \/ Copy
  BY <1>1, StartsType
<1>2. CASE \/ WriteDots \/ WriteNewInode \/ AppendEntry \/ GrowDirectory \/ RefuseEntry
           \/ WriteEntryBlock \/ WriteParentInode
  BY <1>2, WriteDotsType, WriteNewInodeType, AppendEntryType, GrowDirectoryType, RefuseEntryType,
     WriteEntryBlockType, WriteParentInodeType
<1>3. CASE DeleteFile \/ RemoveDirectory \/ ClearEntry
  BY <1>3, RemovalType, ClearEntryType
<1>4. CASE \/ Edit \/ CopyOpens \/ WriteTruncatedInode \/ ExtendFile \/ RewriteBlock
           \/ StopWriting \/ WriteData \/ WriteFileInode
  BY <1>4, OpeningType, WriteInodeType, ExtendFileType, RewriteBlockType, StopWritingType,
     WriteDataType
<1>5. CASE ChangeDirectory \/ Mount \/ UnmountClean \/ PowerCut \/ UnmountDirty \/ Format
  BY <1>5, ChangeDirectoryType, MountType, ForgettingType, SavingStartsType
<1>6. CASE WriteCopy \/ WriteTable \/ WriteRoot
  BY <1>6, WriteCopyType, WriteTableType, WriteRootType
<1>7. CASE UNCHANGED vars
  <2>1. StateType'
    BY <1>7 DEF vars, Typed, StateType
  <2>2. OpType'
    BY <1>7, SameOpType DEF vars
  <2> QED
    BY <2>1, <2>2 DEF Typed
<1> QED
  BY <1>1, <1>2, <1>3, <1>4, <1>5, <1>6, <1>7 DEF Next

LEMMA TypedMeansTypeOK == Typed => TypeOK
<1> SUFFICES ASSUME Typed PROVE TypeOK
  OBVIOUS
<1>1. ASSUME NEW i \in Inodes, NEW t \in {table, snapshot}
      PROVE  /\ t[i].type \in Types /\ Range(t[i].blocks) \subseteq FileBlocks
             /\ Len(t[i].blocks) <= DirectBlocks
  <2>1. t[i] \in InodeLists
    BY DEF Typed, StateType, Tables
  <2> QED
    BY <2>1, InodeListIs DEF Range
<1>2. ASSUME NEW b \in FileBlocks
      PROVE  /\ content[b].kind \in {"zero", "data", "dots", "entries"}
             /\ content[b].of \in {0} \cup Inodes
             /\ Range(content[b].list) \subseteq EntryRecords
             /\ Len(content[b].list) <= EntriesPerBlock
  <2>1. content[b] \in BlockLists
    BY DEF Typed, StateType, Stores
  <2>2. content[b].list \in Seq(EntryRecords)
    BY <2>1 DEF BlockLists, Contents
  <2>3. Range(content[b].list) \subseteq EntryRecords
    BY <2>2, ElementOfSeq, LenProperties DEF Range
  <2> QED
    BY <2>1, <2>3 DEF BlockLists, Contents
<1>3. cwd.inode \in Inodes /\ cwd.path \in Seq(Names)
  BY DEF Typed, StateType
<1>4. Range(cwd.path) \subseteq Names
  BY <1>3, ElementOfSeq, LenProperties DEF Range
<1>5. /\ op.inode \in {0} \cup Inodes /\ op.parent \in {0} \cup Inodes
      /\ op.block \in Nat /\ op.grown \in {0} \cup DataBlocks
  BY DEF Typed, OpType, Ops
<1> QED
  BY <1>1, <1>2, <1>3, <1>4, <1>5 DEF Typed, StateType, TypeOK

\* Whatever commands are given and whatever goes wrong with the drive, no inode
\* has more blocks than it has places for, no directory block more entries than
\* fit, every number the tables hold is one of the drive's, and a write goes to
\* the end of the file or into its last block, never past a hole.
THEOREM TypeCorrect == Spec => []TypeOK
<1>1. Spec => []Typed
  BY TypeInit, TypeNext, PTL DEF Spec
<1> QED
  BY <1>1, TypedMeansTypeOK, PTL

-----------------------------------------------------------------------------
(***************************************************************************)
(* What is reached from the root.                                          *)
(***************************************************************************)
Nodes == [path : Seq(Names), inode : Inodes]
RootNode == [path |-> <<>>, inode |-> RootInode]

LEMMA ChildrenAre ==
  ASSUME NEW t \in Tables, NEW c \in Stores, NEW node \in Nodes
  PROVE  /\ Children(t, c, node) \subseteq Nodes
         /\ \A x \in Children(t, c, node) :
              \E k, j : /\ Live(t, c, node.inode, k, j)
                        /\ EntryAt(t, c, node.inode, k, j).inode = x.inode
<1>1. SUFFICES ASSUME NEW x \in Children(t, c, node)
               PROVE  /\ x \in Nodes
                      /\ \E k, j : /\ Live(t, c, node.inode, k, j)
                                   /\ EntryAt(t, c, node.inode, k, j).inode = x.inode
  OBVIOUS
<1> DEFINE d == node.inode
<1>2. d \in Inodes /\ node.path \in Seq(Names) /\ t[d] \in InodeLists
  BY DEF Nodes, Tables
<1>3. t[d].type = "directory"
  BY <1>1 DEF Children
<1>4. PICK b \in Range(t[d].blocks) : \E e \in LiveEntries(c[b]) :
        x = [path |-> Append(node.path, e.name), inode |-> e.inode]
  BY <1>1, <1>3 DEF Children
<1>5. PICK k \in DOMAIN t[d].blocks : b = t[d].blocks[k]
  BY <1>4 DEF Range
<1>10. PICK e \in LiveEntries(c[b]) : x = [path |-> Append(node.path, e.name), inode |-> e.inode]
  BY <1>4
<1>6. PICK j \in DOMAIN EntriesIn(c[b]) : e = EntriesIn(c[b])[j] /\ e.inode # 0
  BY <1>10 DEF LiveEntries
<1>7. Live(t, c, d, k, j) /\ EntryAt(t, c, d, k, j) = e
  BY <1>3, <1>5, <1>6 DEF Live, EntryAt
<1>8. e \in EntryRecords /\ e.inode \in Inodes
  BY <1>2, <1>7, LiveIs
<1>9. x \in Nodes
  <2>1. e.name \in Names
    BY <1>8 DEF EntryRecords
  <2>2. Append(node.path, e.name) \in Seq(Names)
    BY <1>2, <2>1
  <2> QED
    BY <1>8, <1>10, <2>2 DEF Nodes
<1> QED
  BY <1>7, <1>9, <1>10

\* The levels of the tree, the root's first.
LevelsOf(level, t, c) ==
  /\ level[0] = {RootNode}
  /\ \A n \in 1 .. InodeCount : level[n] = UNION {Children(t, c, node) : node \in level[n - 1]}

LEMMA ReachedIs ==
  ASSUME NEW t \in Tables, NEW c \in Stores
  PROVE  \E level : /\ LevelsOf(level, t, c)
                    /\ \A n \in 0 .. InodeCount : level[n] \subseteq Nodes
                    /\ Reached(t, c) = UNION {level[n] : n \in 0 .. InodeCount}
<1> DEFINE T == SUBSET Nodes
           n == InodeCount
           step == [p \in T \X (1 .. n) |-> UNION {Children(t, c, node) : node \in p[1]}]
           Unrolls(f) == f = [k \in 0 .. n |->
                                IF k = 0 THEN {[path |-> <<>>, inode |-> RootInode]}
                                ELSE UNION {Children(t, c, node) : node \in f[k - 1]}]
<1>0. n \in Nat
  BY SizesAssumption
<1>1. {RootNode} \in T
  BY SizesOfDrive DEF RootNode, Nodes
<1>2. step \in [T \X (1 .. n) -> T]
  <2>1. ASSUME NEW S \in T PROVE UNION {Children(t, c, node) : node \in S} \in T
    BY ChildrenAre
  <2> HIDE DEF T, n
  <2> QED
    BY <2>1
<1>3. PICK g \in [0 .. n -> T] : Iterates(g, n, {RootNode}, step)
  <2> HIDE DEF T, n, step
  <2> QED
    BY <1>0, <1>1, <1>2, IterationExists
<1>4. Unrolls(g)
  <2>1. \A k \in 1 .. n : k - 1 \in 0 .. n /\ g[k - 1] \in T
    BY <1>0
  <2>2. \A k \in 1 .. n : step[<<g[k - 1], k>>] = UNION {Children(t, c, node) : node \in g[k - 1]}
    BY <2>1
  <2>3. ASSUME NEW k \in 0 .. n
        PROVE  g[k] = IF k = 0 THEN {[path |-> <<>>, inode |-> RootInode]}
                      ELSE UNION {Children(t, c, node) : node \in g[k - 1]}
    <3> HIDE DEF step
    <3>1. g = [m \in 0 .. n |-> IF m = 0 THEN {RootNode} ELSE step[<<g[m - 1], m>>]]
      BY <1>3 DEF Iterates
    <3>2. g[k] = IF k = 0 THEN {RootNode} ELSE step[<<g[k - 1], k>>]
      BY <3>1
    <3>3. CASE k # 0
      <4>1. k \in 1 .. n
        BY <1>0, <3>3
      <4> QED
        BY <2>2, <3>2, <3>3, <4>1
    <3> QED
      BY <3>2, <3>3 DEF RootNode
  <2>4. g = [k \in 0 .. n |-> g[k]]
    OBVIOUS
  <2> QED
    BY <2>3, <2>4
<1> DEFINE f == CHOOSE level : Unrolls(level)
<1>5. Unrolls(f)
  BY <1>4
<1>6. Reached(t, c) = UNION {f[k] : k \in 0 .. n}
  BY DEF Reached
<1> HIDE DEF f
<1>7. LevelsOf(f, t, c)
  <2>1. ASSUME NEW k \in 0 .. n
        PROVE  f[k] = IF k = 0 THEN {RootNode} ELSE UNION {Children(t, c, node) : node \in f[k - 1]}
    BY <1>5 DEF RootNode
  <2>2. 0 \in 0 .. n /\ \A k \in 1 .. n : k \in 0 .. n /\ k # 0
    BY <1>0
  <2>3. f[0] = {RootNode}
    BY <2>1, <2>2
  <2>4. ASSUME NEW k \in 1 .. n PROVE f[k] = UNION {Children(t, c, node) : node \in f[k - 1]}
    BY <2>1, <2>2
  <2> HIDE DEF n
  <2> QED
    BY <2>3, <2>4 DEF LevelsOf, n
<1>8. \A k \in 1 .. n : f[k - 1] \in T => f[k] \in T
  BY <1>7, ChildrenAre DEF LevelsOf
<1>9. \A k \in 0 .. n : f[k] \in T
  <2>1. f[0] \in T
    BY <1>1, <1>7 DEF LevelsOf
  <2> HIDE DEF T, n
  <2> QED
    BY <1>0, <1>8, <2>1, PassedOn
<1> QED
  BY <1>6, <1>7, <1>9

\* Whatever holds of the root and is passed on from directory to entry holds of
\* all that is reached.
LEMMA ReachedByInduction ==
  ASSUME NEW t \in Tables, NEW c \in Stores, NEW S, RootInode \in S,
         \A d \in S \cap Inodes : \A k, j : Live(t, c, d, k, j) => EntryAt(t, c, d, k, j).inode \in S
  PROVE  \A node \in Reached(t, c) : node \in Nodes /\ node.inode \in S
<1>1. PICK level : /\ LevelsOf(level, t, c)
                   /\ \A n \in 0 .. InodeCount : level[n] \subseteq Nodes
                   /\ Reached(t, c) = UNION {level[n] : n \in 0 .. InodeCount}
  BY ReachedIs
<1> DEFINE T == SUBSET {node \in Nodes : node.inode \in S}
<1>2. level[0] \in T
  BY <1>1, SizesOfDrive DEF LevelsOf, RootNode, Nodes
<1>3. ASSUME NEW n \in 1 .. InodeCount, level[n - 1] \in T PROVE level[n] \in T
  <2>1. ASSUME NEW node \in level[n - 1], NEW x \in Children(t, c, node)
        PROVE  x \in Nodes /\ x.inode \in S
    <3>1. node \in Nodes /\ node.inode \in S \cap Inodes
      BY <1>3, <2>1 DEF Nodes
    <3> QED
      BY <2>1, <3>1, ChildrenAre
  <2>2. level[n] = UNION {Children(t, c, node) : node \in level[n - 1]}
    BY <1>1 DEF LevelsOf
  <2> QED
    BY <2>1, <2>2
<1>4. \A n \in 0 .. InodeCount : level[n] \in T
  <2> HIDE DEF T
  <2> QED
    BY <1>2, <1>3, SizesAssumption, PassedOn
<1> QED
  BY <1>1, <1>4

-----------------------------------------------------------------------------
(***************************************************************************)
(* A format that wrote everything.                                         *)
(***************************************************************************)
LEMMA NothingInFreshTable ==
  ASSUME NEW c \in Stores, c[RootBlock] = DotsOf(RootInode)
  PROVE  Reached(FreshTable, c) = {RootNode}
<1> DEFINE t == FreshTable
<1>1. t \in Tables /\ t[RootInode] = [type |-> "directory", blocks |-> <<RootBlock>>]
  BY FreshType
<1> HIDE DEF t
<1>2. Children(t, c, RootNode) = {}
  <2>1. ASSUME NEW x \in Children(t, c, RootNode) PROVE FALSE
    <3>1. RootNode \in Nodes /\ RootNode.inode = RootInode
      BY SizesOfDrive DEF RootNode, Nodes
    <3>2. PICK k, j : Live(t, c, RootInode, k, j)
      BY <1>1, <2>1, <3>1, ChildrenAre
    <3>3. k \in 1 .. Len(t[RootInode].blocks) /\ j \in DOMAIN EntriesIn(c[t[RootInode].blocks[k]])
          /\ j \in 1 .. Len(EntriesIn(c[t[RootInode].blocks[k]]))
      BY <1>1, <3>2, LiveIs, SizesOfDrive DEF Live
    <3>4. t[RootInode].blocks = <<RootBlock>> /\ Len(t[RootInode].blocks) = 1
      BY <1>1
    <3>5. k = 1
      BY <3>3, <3>4
    <3>6. t[RootInode].blocks[k] = RootBlock
      BY <3>4, <3>5
    <3>7. EntriesIn(DotsOf(RootInode)) = <<>> /\ Len(<<>>) = 0
      BY DEF EntriesIn, DotsOf
    <3> QED
      BY <3>3, <3>6, <3>7
  <2> QED
    BY <2>1
<1>3. PICK level : /\ LevelsOf(level, t, c)
                   /\ Reached(t, c) = UNION {level[n] : n \in 0 .. InodeCount}
  BY <1>1, ReachedIs
<1> DEFINE T == SUBSET {RootNode}
<1>4. level[0] \in T
  BY <1>3 DEF LevelsOf
<1>5. ASSUME NEW n \in 1 .. InodeCount, level[n - 1] \in T PROVE level[n] \in T
  <2>1. \A node \in level[n - 1] : Children(t, c, node) = {}
    BY <1>2, <1>5
  <2>2. level[n] = UNION {Children(t, c, node) : node \in level[n - 1]}
    BY <1>3 DEF LevelsOf
  <2> QED
    BY <2>1, <2>2
<1>6. \A n \in 0 .. InodeCount : level[n] \in T
  <2> HIDE DEF T
  <2> QED
    BY <1>4, <1>5, SizesAssumption, PassedOn
<1>7. 0 \in 0 .. InodeCount /\ level[0] = {RootNode}
  BY <1>3, SizesAssumption DEF LevelsOf
<1> QED
  BY <1>3, <1>6, <1>7 DEF t

\* The parts of the drive a format has written, at each of its places; and what
\* makes the root's block a block without entries, before it is written again.
RootBlockKept ==
  /\ content[RootBlock] = DotsOf(RootInode)
  /\ op.pc \in Writing => \A k \in DOMAIN op.node.blocks : op.node.blocks[k] \in DataBlocks

Formatting ==
  /\ op.pc \in Saving => op.call \in {"unmount", "format"}
  /\ op.pc = "root" => op.call = "format"
  /\ op.call = "format" => op.pc \in Saving \cup {"root"}
  /\ op.pc = "table" => /\ op.block \in TableBlocks
  /\ op.call = "format" /\ op.pc \in {"block_bitmap", "inode_bitmap"} =>
       /\ diskCopy.freeBlocks = Formatted.freeBlocks /\ diskCopy.freeInodes = Formatted.freeInodes
       /\ op.pc = "inode_bitmap" => diskCopy.bits \cap BlockBits = Formatted.bits \cap BlockBits
  /\ op.call = "format" /\ op.pc \in {"table", "root"} => diskCopy = Formatted
  /\ op.call = "format" /\ op.pc = "table" =>
       \A i \in Inodes : (i - 1) \div InodesPerBlock + 1 < op.block => table[i] = FreshTable[i]
  /\ op.pc = "root" => table = FreshTable

FormatInv == RootBlockKept /\ Formatting

LEMMA FormatInit == Init => FormatInv
<1> SUFFICES ASSUME Init PROVE FormatInv
  OBVIOUS
<1>1. content[RootBlock] = DotsOf(RootInode)
  BY SizesOfDrive DEF Init
<1>2. op.pc = "none" /\ op.call = "none"
  BY DEF Init, NoOp
<1> QED
  BY <1>1, <1>2 DEF FormatInv, RootBlockKept, Formatting, Saving, Writing

\* Blocks are given out of the data blocks, and where an entry can be there are
\* entries: the root's block is written by a format alone.
LEMMA RootBlockUnwritten ==
  ASSUME Typed, FormatInv, NEW b, NEW x, NEW w, PutContent(b, x, w),
         b \in DataBlocks \/ content[b].kind = "entries" \/ x = DotsOf(RootInode)
  PROVE  content'[RootBlock] = DotsOf(RootInode)
<1>1. content[RootBlock] = DotsOf(RootInode) /\ content[RootBlock].kind = "dots"
  BY DEF FormatInv, RootBlockKept, DotsOf
<1>2. RootBlock \in DOMAIN content /\ RootBlock \notin DataBlocks
  BY SizesOfDrive DEF Typed, StateType, Stores
<1> QED
  BY <1>1, <1>2 DEF PutContent

LEMMA NotFormatting ==
  ASSUME op'.call # "format", op'.pc \notin Saving \cup {"root"}
  PROVE  Formatting'
BY DEF Formatting, Saving

LEMMA NotFormattingNow ==
  ASSUME Typed, FormatInv, op.pc \notin Saving \cup {"root"}
  PROVE  op.call # "format" /\ op \in Ops
BY DEF FormatInv, Formatting, Typed, OpType

LEMMA NoOpFormats ==
  ASSUME op' = NoOp, content'[RootBlock] = DotsOf(RootInode)
  PROVE  FormatInv'
<1>1. op'.call # "format" /\ op'.pc \notin Saving \cup {"root"} /\ op'.pc \notin Writing
  BY DEF NoOp, Saving, Writing
<1> QED
  BY <1>1, NotFormatting DEF FormatInv, RootBlockKept

LEMMA FormatStarts ==
  ASSUME Typed, FormatInv, Touch \/ Mkdir \/ Copy
  PROVE  FormatInv'
<1>1. content' = content
  BY DEF Touch, Mkdir, Copy, CreateFile, CreateDirectory, diskVars
<1>2. (op'.call \in {"create_file", "create_directory"} /\ op'.pc \in {"new_inode", "dots"}) \/ op' = NoOp
  <2>1. ASSUME NEW p, NEW copy, NEW left, CreateFile(p, copy, left)
        PROVE  op'.call = "create_file" /\ op'.pc = "new_inode"
    BY <2>1 DEF CreateFile, FirstWrite, NoOp
  <2>2. ASSUME NEW p, CreateDirectory(p), op = NoOp
        PROVE  (op'.call = "create_directory" /\ op'.pc = "dots") \/ op' = NoOp
    BY <2>2 DEF CreateDirectory, FirstWrite, NoOp
  <2>3. op = NoOp
    BY DEF Touch, Mkdir, Copy, Ready
  <2>4. CASE Touch
    BY <2>1, <2>4 DEF Touch
  <2>5. CASE Mkdir
    BY <2>2, <2>3, <2>5 DEF Mkdir
  <2>6. CASE Copy
    <3>1. \E p, left : CreateFile(p, TRUE, left)
      BY <2>6 DEF Copy
    <3> QED
      BY <2>1, <3>1
  <2> QED
    BY <2>4, <2>5, <2>6
<1>3. content'[RootBlock] = DotsOf(RootInode)
  BY <1>1 DEF FormatInv, RootBlockKept
<1>4. CASE op' = NoOp
  BY <1>3, <1>4, NoOpFormats
<1>5. CASE op'.call \in {"create_file", "create_directory"} /\ op'.pc \in {"new_inode", "dots"}
  <2>1. op'.pc \notin Writing /\ op'.pc \notin Saving \cup {"root"} /\ op'.call # "format"
    BY <1>5 DEF Writing, Saving
  <2> QED
    BY <1>3, <2>1, NotFormatting DEF FormatInv, RootBlockKept
<1> QED
  BY <1>2, <1>4, <1>5

LEMMA FormatCreates ==
  ASSUME Typed, FormatInv,
         \/ WriteDots \/ WriteNewInode \/ AppendEntry \/ GrowDirectory \/ RefuseEntry
         \/ WriteEntryBlock \/ WriteParentInode
  PROVE  FormatInv'
<1>1. op.pc \in Creating /\ op \in Ops
  BY DEF WriteDots, WriteNewInode, AppendEntry, GrowDirectory, RefuseEntry, WriteEntryBlock,
         WriteParentInode, Creating, Typed, OpType
<1>2. op.call \in {"create_file", "create_directory"}
  BY <1>1 DEF Typed, OpType, CreationType
<1>3. \/ op' = NoOp
      \/ op' = [op EXCEPT !.call = "open", !.pc = "open"]
      \/ op' = [op EXCEPT !.pc = "new_inode"] \/ op' = [op EXCEPT !.pc = "add_entry"]
      \/ op' = [op EXCEPT !.pc = "parent_inode"]
      \/ op' = [op EXCEPT !.pc = "entry_block", !.grown = AllocatedBlock(mem)]
  <2>1. CASE WriteDots
    BY <2>1 DEF WriteDots, Fail
  <2>2. CASE WriteNewInode
    BY <2>2 DEF WriteNewInode, Fail
  <2>3. CASE AppendEntry
    BY <2>3 DEF AppendEntry, Fail, Succeed
  <2>4. CASE GrowDirectory
    BY <2>4 DEF GrowDirectory
  <2>5. CASE RefuseEntry
    BY <2>5 DEF RefuseEntry, Fail
  <2>6. CASE WriteEntryBlock
    BY <2>6 DEF WriteEntryBlock, Fail
  <2>7. CASE WriteParentInode
    BY <2>7 DEF WriteParentInode, Fail, Succeed
  <2> QED
    BY <2>1, <2>2, <2>3, <2>4, <2>5, <2>6, <2>7
<1>4. /\ op'.call \in {"none", "open", "create_file", "create_directory"}
      /\ op'.pc \in {"none", "open"} \cup Creating
  <2>1. CASE op' = NoOp
    BY <2>1 DEF NoOp
  <2>2. CASE op' = [op EXCEPT !.call = "open", !.pc = "open"]
    BY <1>1, <2>2 DEF Ops
  <2>3. CASE \E pc \in {"new_inode", "add_entry", "parent_inode"} : op' = [op EXCEPT !.pc = pc]
    <3>1. op'.call = op.call /\ op'.pc \in {"new_inode", "add_entry", "parent_inode"}
      BY <1>1, <2>3 DEF Ops
    <3> QED
      BY <1>2, <3>1 DEF Creating
  <2>4. CASE op' = [op EXCEPT !.pc = "entry_block", !.grown = AllocatedBlock(mem)]
    <3>1. op'.call = op.call /\ op'.pc = "entry_block"
      BY <1>1, <2>4 DEF Ops
    <3> QED
      BY <1>2, <3>1 DEF Creating
  <2> QED
    BY <1>3, <2>1, <2>2, <2>3, <2>4
<1>5. content'[RootBlock] = DotsOf(RootInode)
  <2>1. CASE WriteDots
    <3>1. PICK w \in Outcomes : PutContent(op.block, DotsOf(op.inode), w)
      BY <2>1 DEF WriteDots
    <3>2. op.block \in DataBlocks
      BY <2>1 DEF WriteDots, Creating, Typed, OpType, CreationType
    <3> QED
      BY <3>1, <3>2, RootBlockUnwritten
  <2>2. CASE WriteEntryBlock
    <3>1. PICK w \in Outcomes : PutContent(op.grown, EntryBlock(op.parent, <<NewEntry>>), w)
      BY <2>2 DEF WriteEntryBlock
    <3>2. op.grown \in DataBlocks
      BY <2>2 DEF WriteEntryBlock, Creating, Typed, OpType, CreationType
    <3> QED
      BY <3>1, <3>2, RootBlockUnwritten
  <2>3. CASE AppendEntry
    <3>1. PICK bad : Roomy(bad) # {} /\ \E b, x, w : b = Parent.blocks[Lowest(Roomy(bad))] /\ PutContent(b, x, w)
      BY <2>3 DEF AppendEntry
    <3>2. PICK b, x, w : b = Parent.blocks[Lowest(Roomy(bad))] /\ PutContent(b, x, w)
      BY <3>1
    <3>3. content[b].kind = "entries"
      BY <1>1, <3>1, <3>2, RoomyIs
    <3> QED
      BY <3>2, <3>3, RootBlockUnwritten
  <2>4. CASE WriteNewInode \/ GrowDirectory \/ RefuseEntry \/ WriteParentInode
    <3>1. content' = content
      BY <2>4 DEF WriteNewInode, GrowDirectory, RefuseEntry, WriteParentInode, diskVars
    <3> QED
      BY <3>1 DEF FormatInv, RootBlockKept
  <2> QED
    BY <2>1, <2>2, <2>3, <2>4
<1>6. op'.pc \notin Writing /\ op'.pc \notin Saving \cup {"root"} /\ op'.call # "format"
  BY <1>4 DEF Writing, Saving, Creating
<1> QED
  BY <1>5, <1>6, NotFormatting DEF FormatInv, RootBlockKept

LEMMA FormatRemoves ==
  ASSUME Typed, FormatInv, DeleteFile \/ RemoveDirectory \/ ClearEntry
  PROVE  FormatInv'
<1>1. CASE DeleteFile \/ RemoveDirectory
  <2>1. PICK p, i, bad : Unlink(p, i, bad)
    BY <1>1 DEF DeleteFile, RemoveDirectory
  <2>2. content'[RootBlock] = DotsOf(RootInode)
    BY <2>1 DEF Unlink, diskVars, FormatInv, RootBlockKept
  <2>3. op' = NoOp \/ (op'.call = "delete" /\ op'.pc = "clear_entry")
    BY <2>1 DEF Unlink, NoOp
  <2>4. CASE op'.call = "delete" /\ op'.pc = "clear_entry"
    <3>1. op'.pc \notin Writing /\ op'.pc \notin Saving \cup {"root"} /\ op'.call # "format"
      BY <2>4 DEF Writing, Saving
    <3> QED
      BY <2>2, <3>1, NotFormatting DEF FormatInv, RootBlockKept
  <2> QED
    BY <2>2, <2>3, <2>4, NoOpFormats
<1>2. CASE ClearEntry
  <2>0. op.pc = "clear_entry" /\ op.call # "format" /\ op \in Ops
    BY <1>2, NotFormattingNow DEF ClearEntry, Saving
  <2>1. \/ op' = NoOp /\ UNCHANGED content
        \/ /\ \E position : op' = [op EXCEPT !.position = position]
           /\ \E b, x, w : Matching(b) # {} /\ PutContent(b, x, w)
    <3>1. PICK bad \in Unreadable("delete") :
            LET ks == {k \in (op.position + 1) .. Len(Parent.blocks) :
                         Parent.blocks[k] \notin bad /\ Matching(Parent.blocks[k]) # {}}
                b == Parent.blocks[Lowest(ks)] IN
            \/ op' = NoOp /\ UNCHANGED content
            \/ /\ ks # {}
               /\ \E w \in Outcomes :
                    PutContent(b, [content[b] EXCEPT !.list[Lowest(Matching(b))].inode = 0], w)
               /\ op' = [op EXCEPT !.position = Lowest(ks)]
      BY <1>2 DEF ClearEntry
    <3> DEFINE ks == {k \in (op.position + 1) .. Len(Parent.blocks) :
                        Parent.blocks[k] \notin bad /\ Matching(Parent.blocks[k]) # {}}
               b == Parent.blocks[Lowest(ks)]
               y == [content[b] EXCEPT !.list[Lowest(Matching(b))].inode = 0]
    <3>2. ks \subseteq Nat
      BY <2>0 DEF Ops
    <3>3. ks # {} => Lowest(ks) \in ks
      <4> HIDE DEF ks
      <4> QED
        BY <3>2, LowestIsIn
    <3>4. ks # {} => Matching(b) # {}
      BY <3>3
    <3> HIDE DEF ks, b, y
    <3> QED
      BY <3>1, <3>4 DEF ks, b, y
  <2>2. CASE op' = NoOp /\ UNCHANGED content
    BY <2>2, NoOpFormats DEF FormatInv, RootBlockKept
  <2>3. CASE /\ \E position : op' = [op EXCEPT !.position = position]
             /\ \E b, x, w : Matching(b) # {} /\ PutContent(b, x, w)
    <3>1. PICK b, x, w : Matching(b) # {} /\ PutContent(b, x, w)
      BY <2>3
    <3>2. content[b].kind = "entries"
      <4>1. SUFFICES ASSUME content[b].kind # "entries" PROVE FALSE
        OBVIOUS
      <4>2. EntriesIn(content[b]) = <<>>
        BY <4>1 DEF EntriesIn
      <4> QED
        BY <3>1, <4>2 DEF Matching
    <3>3. content'[RootBlock] = DotsOf(RootInode)
      BY <3>1, <3>2, RootBlockUnwritten
    <3>4. op'.pc = "clear_entry" /\ op'.call = op.call
      BY <2>0, <2>3 DEF Ops
    <3>5. op'.pc \notin Writing /\ op'.pc \notin Saving \cup {"root"} /\ op'.call # "format"
      BY <2>0, <3>4 DEF Writing, Saving
    <3> QED
      BY <3>3, <3>5, NotFormatting DEF FormatInv, RootBlockKept
  <2> QED
    BY <2>1, <2>2, <2>3
<1> QED
  BY <1>1, <1>2

LEMMA FormatOpens ==
  ASSUME Typed, FormatInv, NEW p \in PathRecords, NEW left \in Nat, OpenForWriting(p, left)
  PROVE  FormatInv'
<1>1. content'[RootBlock] = DotsOf(RootInode)
  BY DEF OpenForWriting, diskVars, FormatInv, RootBlockKept
<1>2. CASE op' = NoOp
  BY <1>1, <1>2, NoOpFormats
<1>3. CASE op' # NoOp
  <2>1. PICK i : /\ i # 0 /\ i \in {0} \cup Inodes
                 /\ op' = [NoOp EXCEPT !.call = "open", !.pc = "truncated_inode", !.path = p,
                             !.inode = i, !.node = Truncated(table[i]), !.left = left]
    BY <1>3, FindPathType DEF OpenForWriting
  <2>2. op'.call = "open" /\ op'.pc = "truncated_inode" /\ op'.node = Truncated(table[i])
    BY <2>1 DEF NoOp
  <2>3. table[i] \in InodeLists
    BY <2>1 DEF Typed, StateType, Tables
  <2>4. op'.node.blocks = <<>>
    BY <2>2, <2>3, TruncatedIs
  <2>5. \A k \in DOMAIN op'.node.blocks : op'.node.blocks[k] \in DataBlocks
    BY <2>4
  <2>6. op'.pc \notin Saving \cup {"root"} /\ op'.call # "format"
    BY <2>2 DEF Saving
  <2> QED
    BY <1>1, <2>5, <2>6, NotFormatting DEF FormatInv, RootBlockKept
<1> QED
  BY <1>2, <1>3

LEMMA FormatWrites ==
  ASSUME Typed, FormatInv,
         \/ Edit \/ CopyOpens \/ WriteTruncatedInode \/ ExtendFile \/ RewriteBlock
         \/ StopWriting \/ WriteData \/ WriteFileInode
  PROVE  FormatInv'
<1>1. CASE Edit \/ CopyOpens
  <2>1. PICK p \in PathRecords, left \in Nat : OpenForWriting(p, left)
    BY <1>1, OldPathIs DEF Edit, CopyOpens, Typed, OpType, Ops
  <2> QED
    BY <2>1, FormatOpens
<1>2. CASE \/ WriteTruncatedInode \/ ExtendFile \/ RewriteBlock
           \/ StopWriting \/ WriteData \/ WriteFileInode
  <2>1. op.pc \in Writing
    BY <1>2 DEF WriteTruncatedInode, ExtendFile, RewriteBlock, StopWriting, WriteData,
                WriteFileInode, Writing
  <2>2. op.call # "format" /\ op \in Ops
    BY <2>1, NotFormattingNow DEF Writing, Saving
  <2>3. /\ op.node \in InodeLists
        /\ \A k \in DOMAIN op.node.blocks : op.node.blocks[k] \in DataBlocks
    BY <2>1, <2>2 DEF FormatInv, RootBlockKept, Ops
  <2>4. content'[RootBlock] = DotsOf(RootInode)
    <3>1. CASE WriteData
      <4>1. PICK w \in Outcomes : PutContent(op.node.blocks[Index], DataOf(op.inode), w)
        BY <3>1 DEF WriteData
      <4>2. op.pc = "data"
        BY <3>1 DEF WriteData
      <4>3. Index \in DOMAIN op.node.blocks
        BY <2>3, <4>2, IndexIs, InodeListIs
      <4> QED
        BY <2>3, <4>1, <4>3, RootBlockUnwritten
    <3>2. CASE WriteTruncatedInode \/ ExtendFile \/ RewriteBlock \/ StopWriting \/ WriteFileInode
      <4>1. content' = content
        BY <3>2 DEF WriteTruncatedInode, ExtendFile, RewriteBlock, StopWriting, WriteFileInode,
                    diskVars
      <4> QED
        BY <4>1 DEF FormatInv, RootBlockKept
    <3> QED
      BY <1>2, <3>1, <3>2
  <2>5. CASE ExtendFile
    <3> DEFINE b == AllocatedBlock(mem)
               n == [op.node EXCEPT !.blocks = Append(@, b)]
    <3>1. /\ op.pc = "write" /\ Index <= DirectBlocks /\ Index > Len(op.node.blocks) /\ b # 0
          /\ op' = [op EXCEPT !.pc = "data", !.node.blocks = Append(@, b)]
      BY <2>5 DEF ExtendFile
    <3>2. op'.pc = "data" /\ op'.call = op.call /\ op'.node = n
      BY <2>2, <3>1 DEF Ops
    <3>3. b \in DataBlocks
      BY <3>1, AllocatedBlockType DEF Typed, StateType
    <3> HIDE DEF b
    <3>4. n.blocks = Append(op.node.blocks, b)
      BY <3>1, <3>3, SizesOfDrive, ExtendedIs
    <3>5. \A k \in DOMAIN n.blocks : n.blocks[k] \in DataBlocks
      <4>1. op.node.blocks \in Seq(FileBlocks)
        BY <2>3, InodeListIs
      <4> HIDE DEF n
      <4> QED
        BY <2>3, <3>3, <3>4, <4>1
    <3>6. op'.pc \notin Saving \cup {"root"} /\ op'.call # "format"
      BY <2>2, <3>2 DEF Saving
    <3> HIDE DEF n
    <3> QED
      BY <2>4, <3>2, <3>5, <3>6, NotFormatting DEF FormatInv, RootBlockKept
  <2>6. CASE WriteTruncatedInode \/ RewriteBlock \/ StopWriting \/ WriteData \/ WriteFileInode
    <3>1. op' = NoOp \/ (op'.call \in {op.call, "write"} /\ op'.pc \in Writing /\ op'.node = op.node)
      <4>1. CASE WriteTruncatedInode \/ WriteFileInode
        BY <2>2, <4>1 DEF WriteTruncatedInode, WriteFileInode, AfterInode, Ops, Writing
      <4>2. CASE RewriteBlock
        BY <2>2, <4>2 DEF RewriteBlock, Ops, Writing
      <4>3. CASE StopWriting
        BY <2>2, <4>3 DEF StopWriting, Ops, Writing
      <4>4. CASE WriteData
        BY <2>2, <4>4 DEF WriteData, Ops, Writing
      <4> QED
        BY <2>6, <4>1, <4>2, <4>3, <4>4
    <3>2. CASE op' = NoOp
      BY <2>4, <3>2, NoOpFormats
    <3>3. CASE op'.call \in {op.call, "write"} /\ op'.pc \in Writing /\ op'.node = op.node
      <4>1. op'.pc \notin Saving \cup {"root"} /\ op'.call # "format"
        BY <2>2, <3>3 DEF Saving, Writing
      <4> QED
        BY <2>3, <2>4, <3>3, <4>1, NotFormatting DEF FormatInv, RootBlockKept
    <3> QED
      BY <3>1, <3>2, <3>3
  <2> QED
    BY <1>2, <2>5, <2>6
<1> QED
  BY <1>1, <1>2

\* The last block of the table that a format writes is the last one there is.
\* Which block of the table holds an inode: the root is in the first.
LEMMA TablePlace ==
  /\ \A i \in Inodes : (i - 1) \div InodesPerBlock \in Nat
  /\ (RootInode - 1) \div InodesPerBlock = 0
<1>1. \A i \in Inodes : i - 1 \in Nat
  BY DEF Inodes
<1>2. InodesPerBlock \in Nat \ {0} /\ InodesPerBlock * 0 <= 0 /\ 0 < InodesPerBlock * (0 + 1)
      /\ RootInode - 1 = 0
  BY RfssAssumption DEF RootInode
<1> QED
  BY <1>1, <1>2, QuotientBounds, QuotientIs

LEMMA TableBlocksAre ==
  /\ 1 \in TableBlocks
  /\ \A b \in TableBlocks : b \in Nat /\ (b + 1 \notin TableBlocks =>
       \A i \in Inodes : (i - 1) \div InodesPerBlock + 1 <= b)
<1> DEFINE last == (InodeCount + InodesPerBlock - 1) \div InodesPerBlock
<1>1. TableBlocks = 1 .. last
  BY DEF TableBlocks
<1>2. last \in Nat /\ last >= 1 /\ \A k \in 0 .. InodeCount - 1 : k \div InodesPerBlock + 1 <= last
  BY RfssAssumption, SizesAssumption, QuotientRoundedUp
<1>3. \A i \in Inodes : i - 1 \in 0 .. InodeCount - 1
  BY SizesAssumption DEF Inodes
<1> HIDE DEF last
<1>4. \A b \in TableBlocks : b \in Nat /\ (b + 1 \notin TableBlocks => b = last)
  BY <1>1, <1>2
<1> QED
  BY <1>1, <1>2, <1>3, <1>4

LEMMA FormatSavesCopy == ASSUME Typed, FormatInv, WriteCopy PROVE FormatInv'
<1> DEFINE image == IF op.call = "unmount" THEN mem ELSE Formatted
<1>1. PICK w \in Outcomes :
        /\ diskCopy' = IF w = "lost" THEN diskCopy ELSE SavedCopy(diskCopy, image, op.pc)
        /\ op' = IF op.call = "format" /\ w # "done" THEN NoOp
                 ELSE [op EXCEPT !.pc = StageAfter(@), !.block = 1]
  BY DEF WriteCopy
<1>2. /\ op.pc \in {"superblock", "block_bitmap", "inode_bitmap"} /\ content' = content
      /\ op.call \in {"unmount", "format"} /\ op \in Ops
  BY DEF WriteCopy, FormatInv, Formatting, Saving, Typed, OpType
<1>3. content'[RootBlock] = DotsOf(RootInode)
  BY <1>2 DEF FormatInv, RootBlockKept
<1>4. CASE op.call = "format" /\ w # "done"
  BY <1>1, <1>3, <1>4, NoOpFormats
<1>5. CASE ~ (op.call = "format" /\ w # "done")
  <2>1. op' = [op EXCEPT !.pc = StageAfter(op.pc), !.block = 1]
    BY <1>1, <1>5
  <2>2. StageAfter(op.pc) \in {"block_bitmap", "inode_bitmap", "table"}
    BY <1>2, StageAfterIs
  <2>3. op'.pc = StageAfter(op.pc) /\ op'.call = op.call /\ op'.block = 1
    BY <1>2, <2>1 DEF Ops
  <2>4. op'.pc \notin Writing /\ op'.pc # "root" /\ op'.pc \in Saving /\ op'.pc # "superblock"
    BY <2>2, <2>3 DEF Writing, Saving
  <2>5. 1 \in TableBlocks /\ \A i \in Inodes : ~ ((i - 1) \div InodesPerBlock + 1 < 1)
    BY TablePlace, TableBlocksAre
  <2>6. ASSUME op.call = "format"
        PROVE  /\ diskCopy' \in Copies
               /\ diskCopy'.freeBlocks = Formatted.freeBlocks /\ diskCopy'.freeInodes = Formatted.freeInodes
               /\ op'.pc = "inode_bitmap" => diskCopy'.bits \cap BlockBits = Formatted.bits \cap BlockBits
               /\ op'.pc = "table" => diskCopy' = Formatted
    <3>1. diskCopy' = SavedCopy(diskCopy, Formatted, op.pc) /\ diskCopy \in Copies /\ Formatted \in Copies
      BY <1>1, <1>5, <2>6, CopiesType DEF Typed, StateType
    <3>2. diskCopy' \in Copies
      BY <3>1, SavedCopyType
    <3>3. CASE op.pc = "superblock"
      BY <2>3, <3>1, <3>2, <3>3, SavedStages, StageAfterIs
    <3>4. CASE op.pc = "block_bitmap"
      BY <2>3, <2>6, <3>1, <3>2, <3>4, SavedStages, StageAfterIs DEF FormatInv, Formatting
    <3>5. CASE op.pc = "inode_bitmap"
      <4>1. SavedCopy(diskCopy, Formatted, "inode_bitmap") = Formatted
        BY <2>6, <3>1, <3>5, SavedStages DEF FormatInv, Formatting
      <4> QED
        BY <2>3, <3>1, <3>2, <3>5, <4>1, StageAfterIs
    <3> QED
      BY <1>2, <3>3, <3>4, <3>5
  <2>7. Formatting'
    BY <1>2, <2>3, <2>4, <2>5, <2>6 DEF Formatting
  <2> QED
    BY <1>3, <2>4, <2>7 DEF FormatInv, RootBlockKept
<1> QED
  BY <1>4, <1>5

LEMMA FormatSavesTable == ASSUME Typed, FormatInv, WriteTable PROVE FormatInv'
<1>1. PICK w \in Outcomes :
        /\ table' = IF w = "lost" THEN table
                    ELSE [i \in Inodes |->
                            IF ~InTableBlock(i, op.block) THEN table[i]
                            ELSE IF op.call = "unmount" THEN snapshot[i] ELSE FreshTable[i]]
        /\ \/ op' = NoOp
           \/ /\ op.call = "unmount" \/ w = "done"
              /\ op.block + 1 \in TableBlocks
              /\ op' = [op EXCEPT !.block = @ + 1]
           \/ /\ op.call = "format" /\ w = "done" /\ op.block + 1 \notin TableBlocks
              /\ op' = [op EXCEPT !.pc = "root"]
  BY DEF WriteTable
<1>2. /\ op.pc = "table" /\ content' = content /\ diskCopy' = diskCopy
      /\ op.call \in {"unmount", "format"} /\ op \in Ops /\ op.block \in TableBlocks
  BY DEF WriteTable, FormatInv, Formatting, Saving, Typed, OpType
<1>3. content'[RootBlock] = DotsOf(RootInode)
  BY <1>2 DEF FormatInv, RootBlockKept
<1>4. ASSUME op.call = "format", w = "done", NEW i \in Inodes,
             (i - 1) \div InodesPerBlock + 1 < op.block + 1
      PROVE  table'[i] = FreshTable[i]
  <2>1. table'[i] = IF ~InTableBlock(i, op.block) THEN table[i] ELSE FreshTable[i]
    BY <1>1, <1>4
  <2> DEFINE q == (i - 1) \div InodesPerBlock + 1
  <2>2. q \in Nat /\ op.block \in Nat
    BY <1>2, TablePlace, TableBlocksAre
  <2>3. InTableBlock(i, op.block) <=> q = op.block
    BY DEF InTableBlock
  <2>4. q < op.block => table[i] = FreshTable[i]
    BY <1>2, <1>4 DEF FormatInv, Formatting
  <2>5. q < op.block + 1
    BY <1>4
  <2> HIDE DEF q
  <2> QED
    BY <2>1, <2>2, <2>3, <2>4, <2>5
<1>5. CASE op' = NoOp
  BY <1>3, <1>5, NoOpFormats
<1>6. CASE /\ op.call = "unmount" \/ w = "done"
           /\ op.block + 1 \in TableBlocks
           /\ op' = [op EXCEPT !.block = @ + 1]
  <2>1. op'.pc = "table" /\ op'.call = op.call /\ op'.block = op.block + 1
    BY <1>2, <1>6 DEF Ops
  <2>2. op.call = "format" => diskCopy' = Formatted
    BY <1>2 DEF FormatInv, Formatting
  <2>3. Formatting'
    BY <1>2, <1>4, <1>6, <2>1, <2>2 DEF Formatting, Saving
  <2> QED
    BY <1>3, <2>1, <2>3 DEF FormatInv, RootBlockKept, Writing
<1>7. CASE /\ op.call = "format" /\ w = "done" /\ op.block + 1 \notin TableBlocks
           /\ op' = [op EXCEPT !.pc = "root"]
  <2>1. op'.pc = "root" /\ op'.call = op.call
    BY <1>2, <1>7 DEF Ops
  <2>2. diskCopy' = Formatted
    BY <1>2, <1>7 DEF FormatInv, Formatting
  <2>3. table' = FreshTable
    <3>1. ASSUME NEW i \in Inodes PROVE table'[i] = FreshTable[i]
      <4> DEFINE q == (i - 1) \div InodesPerBlock + 1
      <4>1. q <= op.block /\ op.block \in Nat
        BY <1>2, <1>7, TableBlocksAre
      <4>2. q \in Nat
        BY TablePlace
      <4>3. q < op.block + 1
        <5> HIDE DEF q
        <5> QED
          BY <4>1, <4>2
      <4> QED
        BY <1>4, <1>7, <4>3
    <3>2. table' = [i \in Inodes |-> table'[i]] /\ FreshTable = [i \in Inodes |-> FreshTable[i]]
      BY <1>1, <1>7 DEF FreshTable
    <3> QED
      BY <3>1, <3>2
  <2>4. Formatting'
    BY <1>7, <2>1, <2>2, <2>3 DEF Formatting, Saving
  <2> QED
    BY <1>3, <2>1, <2>4 DEF FormatInv, RootBlockKept, Writing
<1> QED
  BY <1>1, <1>5, <1>6, <1>7

LEMMA FormatElse ==
  ASSUME Typed, FormatInv,
         \/ ChangeDirectory \/ Mount \/ UnmountClean \/ UnmountDirty \/ Format \/ WriteRoot
         \/ PowerCut
  PROVE  FormatInv'
<1>1. content'[RootBlock] = DotsOf(RootInode)
  <2>1. CASE WriteRoot
    <3>1. PICK w \in Outcomes : PutContent(RootBlock, DotsOf(RootInode), w)
      BY <2>1 DEF WriteRoot
    <3> QED
      BY <3>1, RootBlockUnwritten
  <2>2. CASE ChangeDirectory \/ Mount \/ UnmountClean \/ UnmountDirty \/ Format \/ PowerCut
    <3>1. content' = content
      BY <2>2 DEF ChangeDirectory, Mount, UnmountClean, UnmountDirty, Format, PowerCut, diskVars
    <3> QED
      BY <3>1 DEF FormatInv, RootBlockKept
  <2> QED
    BY <2>1, <2>2
<1>2. CASE op' = NoOp
  BY <1>1, <1>2, NoOpFormats
<1>3. CASE UnmountDirty \/ Format
  <2>1. op'.pc = "superblock" /\ op'.call \in {"unmount", "format"}
    BY <1>3 DEF UnmountDirty, Format, NoOp
  <2>2. Formatting'
    BY <2>1 DEF Formatting, Saving
  <2> QED
    BY <1>1, <2>1, <2>2 DEF FormatInv, RootBlockKept, Writing
<1>4. CASE ChangeDirectory \/ Mount \/ UnmountClean \/ WriteRoot \/ PowerCut
  BY <1>2, <1>4 DEF ChangeDirectory, Mount, UnmountClean, WriteRoot, PowerCut, Ready
<1> QED
  BY <1>3, <1>4

LEMMA FormatNext == Typed /\ FormatInv /\ [Next]_vars => FormatInv'
<1> SUFFICES ASSUME Typed, FormatInv, [Next]_vars PROVE FormatInv'
  OBVIOUS
<1>1. CASE Touch \/ Mkdir \/ Copy
  BY <1>1, FormatStarts
<1>2. CASE \/ WriteDots \/ WriteNewInode \/ AppendEntry \/ GrowDirectory \/ RefuseEntry
           \/ WriteEntryBlock \/ WriteParentInode
  BY <1>2, FormatCreates
<1>3. CASE DeleteFile \/ RemoveDirectory \/ ClearEntry
  BY <1>3, FormatRemoves
<1>4. CASE \/ Edit \/ CopyOpens \/ WriteTruncatedInode \/ ExtendFile \/ RewriteBlock
           \/ StopWriting \/ WriteData \/ WriteFileInode
  BY <1>4, FormatWrites
<1>5. CASE \/ ChangeDirectory \/ Mount \/ UnmountClean \/ UnmountDirty \/ Format \/ WriteRoot
           \/ PowerCut
  BY <1>5, FormatElse
<1>6. CASE WriteCopy \/ WriteTable
  BY <1>6, FormatSavesCopy, FormatSavesTable
<1>7. CASE UNCHANGED vars
  BY <1>7 DEF vars, FormatInv, RootBlockKept, Formatting
<1> QED
  BY <1>1, <1>2, <1>3, <1>4, <1>5, <1>6, <1>7 DEF Next

\* A format that is not cut short and whose writes all arrive empties the drive,
\* whatever was on it and whatever is mounted; a drive whose blocks have bits of
\* their own is all the bitmaps must be large enough for.
THEOREM FormatErasesHolds ==
  ASSUME TotalBlocks <= BitmapBits
  PROVE  Spec => FormatErases
<1>1. ASSUME Typed, FormatInv, [Next]_vars, op.pc = "root", faults' = faults, vars' # vars
      PROVE  /\ \A i \in Inodes \ {RootInode} : table'[i] = NoInode
             /\ Reached(table', content') = {[path |-> <<>>, inode |-> RootInode]}
             /\ diskCopy'.bits \cap DataBlocks = {} /\ CountersAgree(diskCopy')
  <2>1. WriteRoot \/ PowerCut
    <3>1. op # NoOp
      BY <1>1 DEF NoOp
    <3>2. CASE \/ Touch \/ Mkdir \/ Copy \/ Edit \/ DeleteFile \/ RemoveDirectory
               \/ ChangeDirectory \/ Mount \/ UnmountClean \/ UnmountDirty \/ Format
      BY <3>1, <3>2 DEF Touch, Mkdir, Copy, Edit, DeleteFile, RemoveDirectory, ChangeDirectory,
         Mount, UnmountClean, UnmountDirty, Format, Ready
    <3>3. CASE \/ WriteDots \/ WriteNewInode \/ AppendEntry \/ GrowDirectory \/ RefuseEntry
               \/ WriteEntryBlock \/ WriteParentInode \/ ClearEntry
      BY <1>1, <3>3 DEF WriteDots, WriteNewInode, AppendEntry, GrowDirectory, RefuseEntry,
         WriteEntryBlock, WriteParentInode, ClearEntry
    <3>4. CASE \/ CopyOpens \/ WriteTruncatedInode \/ ExtendFile \/ RewriteBlock
               \/ StopWriting \/ WriteData \/ WriteFileInode \/ WriteCopy \/ WriteTable
      BY <1>1, <3>4 DEF CopyOpens, WriteTruncatedInode, ExtendFile, RewriteBlock, StopWriting,
         WriteData, WriteFileInode, WriteCopy, WriteTable
    <3> QED
      BY <1>1, <3>2, <3>3, <3>4 DEF Next
  <2>2. table' = FreshTable /\ diskCopy' = Formatted
    BY <1>1, <2>1 DEF WriteRoot, PowerCut, diskVars, FormatInv, Formatting
  <2>3. content' \in Stores /\ content'[RootBlock] = DotsOf(RootInode)
    BY <1>1, TypeNext, FormatNext DEF Typed, StateType, FormatInv, RootBlockKept
  <2>4. Formatted.bits \cap DataBlocks = {}
    BY SizesAssumption DEF Formatted, DataBlocks, InodeBit, RootInode
  <2> QED
    BY <2>2, <2>3, <2>4, FreshType, NothingInFreshTable, FormattedAgrees DEF RootNode
<1>2. Typed /\ FormatInv /\ [Next]_vars =>
        [op.pc = "root" /\ faults' = faults
           => /\ \A i \in Inodes \ {RootInode} : table'[i] = NoInode
              /\ Reached(table', content') = {[path |-> <<>>, inode |-> RootInode]}
              /\ diskCopy'.bits \cap DataBlocks = {} /\ CountersAgree(diskCopy')]_vars
  BY <1>1
<1>3. Init => Typed /\ FormatInv
  BY TypeInit, FormatInit
<1>4. Typed /\ FormatInv /\ [Next]_vars => (Typed /\ FormatInv)'
  BY TypeNext, FormatNext
<1> QED
  BY <1>2, <1>3, <1>4, PTL DEF Spec, FormatErases

-----------------------------------------------------------------------------
(***************************************************************************)
(* A whole tree: the inodes L of table t, with contents c.                 *)
(***************************************************************************)
\* b is block k of inode i.
Has(t, i, k, b) == k \in DOMAIN t[i].blocks /\ t[i].blocks[k] = b

Kinds(t, L) ==
  /\ L \subseteq Inodes /\ RootInode \in L
  /\ t[RootInode].type = "directory" /\ Has(t, RootInode, 1, RootBlock)
  /\ \A i \in L : /\ t[i].type \in {"file", "directory"}
                  /\ t[i].type = "directory" => \E b : Has(t, i, 1, b)

BlocksApart(t, L) ==
  \A i, j \in L : \A k, m, b : Has(t, i, k, b) /\ Has(t, j, m, b) => i = j /\ k = m

RightContent(type, i, k, block) ==
  IF type = "file" THEN block = DataOf(i)
  ELSE IF k = 1 THEN block = DotsOf(i) ELSE block.kind = "entries" /\ block.of = i

ContentsRight(t, c, L) ==
  \A i \in L : \A k, b : Has(t, i, k, b) => RightContent(t[i].type, i, k, c[b])

EntriesLead(t, c, L) ==
  \A d \in L : \A k, j : Live(t, c, d, k, j) =>
    /\ EntryAt(t, c, d, k, j).inode \in L \ {RootInode}
    /\ t[EntryAt(t, c, d, k, j).inode].type = EntryAt(t, c, d, k, j).type

EntriesApart(t, c, L) ==
  \A d, f \in L : \A k, j, m, n :
    Live(t, c, d, k, j) /\ Live(t, c, f, m, n) =>
      /\ EntryAt(t, c, d, k, j).inode = EntryAt(t, c, f, m, n).inode => d = f /\ k = m /\ j = n
      /\ d = f /\ EntryAt(t, c, d, k, j).name = EntryAt(t, c, f, m, n).name => k = m /\ j = n

Whole(t, c, L) ==
  /\ Kinds(t, L) /\ BlocksApart(t, L) /\ ContentsRight(t, c, L)
  /\ EntriesLead(t, c, L) /\ EntriesApart(t, c, L)

\* Entries that were there before, of the inodes that stay.
LEMMA EntriesKept ==
  ASSUME NEW t, NEW c, NEW L, NEW t2, NEW c2, NEW M \in SUBSET L,
         EntriesLead(t, c, L), EntriesApart(t, c, L),
         \A d \in M : \A k, j : Live(t2, c2, d, k, j) =>
           /\ Live(t, c, d, k, j) /\ EntryAt(t2, c2, d, k, j) = EntryAt(t, c, d, k, j)
           /\ EntryAt(t, c, d, k, j).inode \in M,
         \A i \in M : t2[i].type = t[i].type
  PROVE  EntriesLead(t2, c2, M) /\ EntriesApart(t2, c2, M)
<1>1. EntriesLead(t2, c2, M)
  BY DEF EntriesLead
<1>2. EntriesApart(t2, c2, M)
  <2>1. SUFFICES ASSUME NEW d \in M, NEW f \in M, NEW k, NEW j, NEW m, NEW n,
                        Live(t2, c2, d, k, j), Live(t2, c2, f, m, n)
                 PROVE  /\ EntryAt(t2, c2, d, k, j).inode = EntryAt(t2, c2, f, m, n).inode
                             => d = f /\ k = m /\ j = n
                        /\ d = f /\ EntryAt(t2, c2, d, k, j).name = EntryAt(t2, c2, f, m, n).name
                             => k = m /\ j = n
    BY DEF EntriesApart
  <2>2. /\ Live(t, c, d, k, j) /\ EntryAt(t2, c2, d, k, j) = EntryAt(t, c, d, k, j)
        /\ Live(t, c, f, m, n) /\ EntryAt(t2, c2, f, m, n) = EntryAt(t, c, f, m, n)
        /\ d \in L /\ f \in L
    BY <2>1
  <2> QED
    BY <2>2 DEF EntriesApart
<1> QED
  BY <1>1, <1>2

\* One entry more, at one place of directory p, for an inode i that had none.
GrownBy(t, c, t2, c2, L, i, p, a, b, e) ==
  \A d \in L \cup {i} : \A k, j : Live(t2, c2, d, k, j) =>
    \/ d \in L /\ Live(t, c, d, k, j) /\ EntryAt(t2, c2, d, k, j) = EntryAt(t, c, d, k, j)
    \/ d = p /\ k = a /\ j = b /\ EntryAt(t2, c2, d, k, j) = e

LEMMA EntriesGrown ==
  ASSUME NEW t, NEW c, NEW L, NEW t2, NEW c2, NEW p, NEW i, NEW a, NEW b, NEW e,
         EntriesLead(t, c, L), EntriesApart(t, c, L), RootInode \in L, i \notin L,
         GrownBy(t, c, t2, c2, L, i, p, a, b, e),
         \A k, j : Live(t, c, p, k, j) => EntryAt(t, c, p, k, j).name # e.name,
         e.inode = i, t2[i].type = e.type,
         \A x \in L : t2[x].type = t[x].type
  PROVE  EntriesLead(t2, c2, L \cup {i}) /\ EntriesApart(t2, c2, L \cup {i})
<1>1. EntriesLead(t2, c2, L \cup {i})
  <2>1. SUFFICES ASSUME NEW d \in L \cup {i}, NEW k, NEW j, Live(t2, c2, d, k, j)
                 PROVE  /\ EntryAt(t2, c2, d, k, j).inode \in (L \cup {i}) \ {RootInode}
                        /\ t2[EntryAt(t2, c2, d, k, j).inode].type = EntryAt(t2, c2, d, k, j).type
    BY DEF EntriesLead
  <2>2. CASE /\ d \in L /\ Live(t, c, d, k, j)
             /\ EntryAt(t2, c2, d, k, j) = EntryAt(t, c, d, k, j)
    BY <2>2 DEF EntriesLead
  <2>3. CASE EntryAt(t2, c2, d, k, j) = e
    BY <2>3
  <2> QED
    BY <2>1, <2>2, <2>3 DEF GrownBy
<1>2. EntriesApart(t2, c2, L \cup {i})
  <2>1. SUFFICES ASSUME NEW d \in L \cup {i}, NEW f \in L \cup {i}, NEW k, NEW j, NEW m, NEW n,
                        Live(t2, c2, d, k, j), Live(t2, c2, f, m, n)
                 PROVE  /\ EntryAt(t2, c2, d, k, j).inode = EntryAt(t2, c2, f, m, n).inode
                             => d = f /\ k = m /\ j = n
                        /\ d = f /\ EntryAt(t2, c2, d, k, j).name = EntryAt(t2, c2, f, m, n).name
                             => k = m /\ j = n
    BY DEF EntriesApart
  <2> DEFINE Old(d1, k1, j1) == /\ d1 \in L /\ Live(t, c, d1, k1, j1)
                                /\ EntryAt(t2, c2, d1, k1, j1) = EntryAt(t, c, d1, k1, j1)
             New(d1, k1, j1) == d1 = p /\ k1 = a /\ j1 = b /\ EntryAt(t2, c2, d1, k1, j1) = e
  <2>2. (Old(d, k, j) \/ New(d, k, j)) /\ (Old(f, m, n) \/ New(f, m, n))
    BY <2>1 DEF GrownBy
  <2>3. ASSUME NEW d1, NEW k1, NEW j1, Old(d1, k1, j1)
        PROVE  /\ EntryAt(t2, c2, d1, k1, j1).inode # i
               /\ d1 = p => EntryAt(t2, c2, d1, k1, j1).name # e.name
    BY <2>3 DEF EntriesLead
  <2>4. CASE Old(d, k, j) /\ Old(f, m, n)
    BY <2>4 DEF EntriesApart
  <2>5. CASE Old(d, k, j) /\ New(f, m, n)
    BY <2>3, <2>5
  <2>6. CASE New(d, k, j) /\ Old(f, m, n)
    BY <2>3, <2>6
  <2>7. CASE New(d, k, j) /\ New(f, m, n)
    BY <2>7
  <2> QED
    BY <2>2, <2>4, <2>5, <2>6, <2>7
<1> QED
  BY <1>1, <1>2

\* What a directory shows depends on its inode and on its blocks alone.
LEMMA LiveSame ==
  ASSUME NEW t, NEW c, NEW t2, NEW c2, NEW d, t2[d] = t[d],
         \A k, b : Has(t, d, k, b) => c2[b] = c[b]
  PROVE  \A k, j : /\ Live(t2, c2, d, k, j) <=> Live(t, c, d, k, j)
                   /\ Live(t, c, d, k, j) => EntryAt(t2, c2, d, k, j) = EntryAt(t, c, d, k, j)
<1>1. SUFFICES ASSUME NEW k, NEW j
               PROVE  /\ Live(t2, c2, d, k, j) <=> Live(t, c, d, k, j)
                      /\ Live(t, c, d, k, j) => EntryAt(t2, c2, d, k, j) = EntryAt(t, c, d, k, j)
  OBVIOUS
<1>2. k \in DOMAIN t[d].blocks => c2[t[d].blocks[k]] = c[t[d].blocks[k]]
  BY DEF Has
<1> QED
  BY <1>2 DEF Live, EntryAt

\* What is written outside the tree leaves it as it was.
LEMMA WholeSame ==
  ASSUME NEW t, NEW c, NEW L, Whole(t, c, L), NEW t2, NEW c2,
         \A i \in L : t2[i] = t[i],
         \A i \in L : \A k, b : Has(t, i, k, b) => c2[b] = c[b]
  PROVE  Whole(t2, c2, L)
<1>1. \A i \in L : \A k, b : Has(t2, i, k, b) <=> Has(t, i, k, b)
  BY DEF Has
<1>2. Kinds(t2, L)
  BY <1>1 DEF Whole, Kinds
<1>3. BlocksApart(t2, L)
  BY <1>1 DEF Whole, BlocksApart
<1>4. ContentsRight(t2, c2, L)
  BY <1>1 DEF Whole, ContentsRight
<1>5. ASSUME NEW d \in L, NEW k, NEW j, Live(t2, c2, d, k, j)
      PROVE  /\ Live(t, c, d, k, j) /\ EntryAt(t2, c2, d, k, j) = EntryAt(t, c, d, k, j)
             /\ EntryAt(t, c, d, k, j).inode \in L
  <2>1. t2[d] = t[d] /\ \A k1, b : Has(t, d, k1, b) => c2[b] = c[b]
    OBVIOUS
  <2>2. Live(t, c, d, k, j) /\ EntryAt(t2, c2, d, k, j) = EntryAt(t, c, d, k, j)
    BY <1>5, <2>1, LiveSame
  <2> QED
    BY <2>2 DEF Whole, EntriesLead
<1>6. L \in SUBSET L /\ \A i \in L : t2[i].type = t[i].type
  OBVIOUS
<1>7. EntriesLead(t2, c2, L) /\ EntriesApart(t2, c2, L)
  BY <1>5, <1>6, EntriesKept DEF Whole
<1> QED
  BY <1>2, <1>3, <1>4, <1>7 DEF Whole

\* A file's list of blocks is replaced by one of blocks that hold its data.
LEMMA WholeFile ==
  ASSUME NEW t, NEW c, NEW L, Whole(t, c, L), NEW i \in L, t[i].type = "file",
         NEW t2, \A x \in L \ {i} : t2[x] = t[x], t2[i].type = "file",
         \A k, b : Has(t2, i, k, b) =>
           /\ c[b] = DataOf(i)
           /\ \A m : Has(t2, i, m, b) => k = m
           /\ \A x \in L \ {i} : \A m : ~Has(t, x, m, b)
  PROVE  Whole(t2, c, L)
<1>1. \A x \in L \ {i} : \A k, b : Has(t2, x, k, b) <=> Has(t, x, k, b)
  BY DEF Has
<1>2. i # RootInode
  BY DEF Whole, Kinds
<1>3. Kinds(t2, L)
  <2>1. L \subseteq Inodes /\ RootInode \in L \ {i}
    BY <1>2 DEF Whole, Kinds
  <2>2. t2[RootInode].type = "directory" /\ Has(t2, RootInode, 1, RootBlock)
    BY <1>1, <2>1 DEF Whole, Kinds
  <2>3. ASSUME NEW x \in L
        PROVE  /\ t2[x].type \in {"file", "directory"}
               /\ t2[x].type = "directory" => \E b : Has(t2, x, 1, b)
    BY <1>1 DEF Whole, Kinds
  <2> QED
    BY <2>1, <2>2, <2>3 DEF Kinds
<1>4. BlocksApart(t2, L)
  <2>1. SUFFICES ASSUME NEW x \in L, NEW y \in L, NEW k, NEW m, NEW b,
                        Has(t2, x, k, b), Has(t2, y, m, b)
                 PROVE  x = y /\ k = m
    BY DEF BlocksApart
  <2>2. CASE x = i \/ y = i
    BY <1>1, <2>1, <2>2
  <2>3. CASE x # i /\ y # i
    BY <1>1, <2>1, <2>3 DEF Whole, BlocksApart
  <2> QED
    BY <2>2, <2>3
<1>5. ContentsRight(t2, c, L)
  BY <1>1 DEF Whole, ContentsRight, RightContent
<1>6. ASSUME NEW d \in L, NEW k, NEW j, Live(t2, c, d, k, j)
      PROVE  /\ Live(t, c, d, k, j) /\ EntryAt(t2, c, d, k, j) = EntryAt(t, c, d, k, j)
             /\ EntryAt(t, c, d, k, j).inode \in L
  <2>1. d # i
    BY <1>6 DEF Live
  <2>2. Live(t, c, d, k, j) /\ EntryAt(t2, c, d, k, j) = EntryAt(t, c, d, k, j)
    BY <1>6, <2>1 DEF Live, EntryAt
  <2> QED
    BY <2>2 DEF Whole, EntriesLead
<1>7. L \in SUBSET L /\ \A x \in L : t2[x].type = t[x].type
  OBVIOUS
<1>8. EntriesLead(t2, c, L) /\ EntriesApart(t2, c, L)
  BY <1>6, <1>7, EntriesKept DEF Whole
<1> QED
  BY <1>3, <1>4, <1>5, <1>8 DEF Whole

\* Inode i, which nothing leads to yet, is as a creation has made it.
NewlyMade(t, c, i, L) ==
  /\ i \in Inodes \ L /\ t[i].type \in {"file", "directory"}
  /\ t[i].type = "directory" => \E b : Has(t, i, 1, b)
  /\ \A k, b : Has(t, i, k, b) =>
       /\ t[i].type = "directory" /\ k = 1 /\ c[b] = DotsOf(i)
       /\ \A x \in L : \A m : ~Has(t, x, m, b)

LEMMA NewlyMadeBelongs ==
  ASSUME NEW t, NEW c, NEW L, Kinds(t, L), BlocksApart(t, L), ContentsRight(t, c, L),
         NEW i, NewlyMade(t, c, i, L)
  PROVE  /\ Kinds(t, L \cup {i}) /\ BlocksApart(t, L \cup {i}) /\ ContentsRight(t, c, L \cup {i})
<1>1. Kinds(t, L \cup {i})
  BY DEF NewlyMade, Kinds
<1>2. BlocksApart(t, L \cup {i})
  <2>1. SUFFICES ASSUME NEW x \in L \cup {i}, NEW y \in L \cup {i}, NEW k, NEW m, NEW b,
                        Has(t, x, k, b), Has(t, y, m, b)
                 PROVE  x = y /\ k = m
    BY DEF BlocksApart
  <2>2. CASE x \in L /\ y \in L
    BY <2>1, <2>2 DEF BlocksApart
  <2>3. CASE ~ (x \in L /\ y \in L)
    BY <2>1, <2>3 DEF NewlyMade
  <2> QED
    BY <2>2, <2>3
<1>3. ContentsRight(t, c, L \cup {i})
  <2>1. SUFFICES ASSUME NEW x \in L \cup {i}, NEW k, NEW b, Has(t, x, k, b)
                 PROVE  RightContent(t[x].type, x, k, c[b])
    BY DEF ContentsRight
  <2>2. CASE x \in L
    BY <2>1, <2>2 DEF ContentsRight
  <2>3. CASE x = i
    BY <2>1, <2>3 DEF NewlyMade, RightContent
  <2> QED
    BY <2>2, <2>3
<1> QED
  BY <1>1, <1>2, <1>3

LEMMA NewlyMadeIsEmpty ==
  ASSUME NEW t, NEW c, NEW L, NEW i, NewlyMade(t, c, i, L)
  PROVE  \A k, j : ~Live(t, c, i, k, j)
<1>1. SUFFICES ASSUME NEW k, NEW j, Live(t, c, i, k, j) PROVE FALSE
  OBVIOUS
<1>2. c[t[i].blocks[k]] = DotsOf(i)
  BY <1>1 DEF NewlyMade, Live, Has
<1>3. EntriesIn(DotsOf(i)) = <<>>
  BY DEF EntriesIn, DotsOf
<1> QED
  BY <1>1, <1>2, <1>3 DEF Live

\* An entry for a newly made inode, behind the last of a block of directory p.
LEMMA WholeAppended ==
  ASSUME NEW t, NEW c, NEW L, Whole(t, c, L), NEW i, NewlyMade(t, c, i, L),
         NEW p \in L, NEW a, NEW b0, Has(t, p, a, b0), c[b0] \in BlockLists, c[b0].kind = "entries",
         NEW e, e.inode = i, t[i].type = e.type,
         \A k, j : Live(t, c, p, k, j) => EntryAt(t, c, p, k, j).name # e.name,
         NEW c2, c2[b0].kind = "entries", c2[b0].of = c[b0].of, c2[b0].list = Append(c[b0].list, e),
         \A x \in L \cup {i} : \A k, b : Has(t, x, k, b) /\ b # b0 => c2[b] = c[b]
  PROVE  Whole(t, c2, L \cup {i})
<1>1. Kinds(t, L \cup {i}) /\ BlocksApart(t, L \cup {i}) /\ ContentsRight(t, c, L \cup {i})
  BY NewlyMadeBelongs DEF Whole
<1>2. ContentsRight(t, c2, L \cup {i})
  <2>1. SUFFICES ASSUME NEW x \in L \cup {i}, NEW k, NEW b, Has(t, x, k, b)
                 PROVE  RightContent(t[x].type, x, k, c2[b])
    BY DEF ContentsRight
  <2>2. RightContent(t[x].type, x, k, c[b])
    BY <1>1, <2>1 DEF ContentsRight
  <2>3. CASE b = b0
    BY <2>2, <2>3 DEF RightContent, DataOf, DotsOf
  <2> QED
    BY <2>1, <2>2, <2>3
<1>3. \A k, j : ~Live(t, c2, i, k, j)
  <2>1. ASSUME NEW k, NEW b, Has(t, i, k, b)
        PROVE  c2[b] = DotsOf(i)
    <3>1. c[b] = DotsOf(i)
      BY <2>1 DEF NewlyMade
    <3>2. b # b0
      BY <3>1 DEF DotsOf
    <3> QED
      BY <2>1, <3>1, <3>2
  <2>2. NewlyMade(t, c2, i, L)
    BY <2>1 DEF NewlyMade
  <2> QED
    BY <2>2, NewlyMadeIsEmpty
<1> DEFINE n == Len(c[b0].list)
<1>4. n \in Nat /\ c[b0].list \in Seq(EntryRecords) /\ DOMAIN c[b0].list = 1 .. n
  BY DEF BlockLists, Contents
<1>5. /\ DOMAIN Append(c[b0].list, e) = 1 .. n + 1
      /\ \A j \in 1 .. n : Append(c[b0].list, e)[j] = c[b0].list[j]
      /\ Append(c[b0].list, e)[n + 1] = e
  BY <1>4
<1>6. EntriesIn(c[b0]) = c[b0].list /\ EntriesIn(c2[b0]) = Append(c[b0].list, e)
  BY DEF EntriesIn
<1>7. ASSUME NEW d \in L \cup {i}, NEW k, NEW j, Live(t, c2, d, k, j)
      PROVE  \/ /\ d \in L /\ Live(t, c, d, k, j)
                /\ EntryAt(t, c2, d, k, j) = EntryAt(t, c, d, k, j)
             \/ d = p /\ k = a /\ j = n + 1 /\ EntryAt(t, c2, d, k, j) = e
  <2>1. d \in L
    BY <1>3, <1>7
  <2> DEFINE bb == t[d].blocks[k]
  <2>2. Has(t, d, k, bb)
    BY <1>7 DEF Live, Has
  <2>3. CASE bb # b0
    <3>1. c2[bb] = c[bb]
      BY <2>2, <2>3
    <3> QED
      BY <1>7, <2>1, <3>1 DEF Live, EntryAt
  <2>4. CASE bb = b0
    <3>1. d = p /\ k = a
      BY <2>1, <2>2, <2>4 DEF Whole, BlocksApart
    <3>2. j \in 1 .. n + 1 /\ EntryAt(t, c2, d, k, j) = Append(c[b0].list, e)[j]
      BY <1>5, <1>6, <1>7, <2>4 DEF Live, EntryAt
    <3>3. CASE j \in 1 .. n
      <4>1. EntryAt(t, c, d, k, j) = c[b0].list[j]
        BY <1>6, <2>4 DEF EntryAt
      <4>2. EntryAt(t, c2, d, k, j) = EntryAt(t, c, d, k, j)
        BY <1>5, <3>2, <3>3, <4>1
      <4> QED
        BY <1>4, <1>6, <1>7, <2>1, <2>4, <3>3, <4>2 DEF Live
    <3>4. CASE j = n + 1
      BY <1>5, <3>1, <3>2, <3>4
    <3> QED
      BY <1>4, <3>2, <3>3, <3>4
  <2> QED
    BY <2>3, <2>4
<1>8. i \notin L /\ RootInode \in L /\ EntriesLead(t, c, L) /\ EntriesApart(t, c, L)
  BY DEF Whole, Kinds, NewlyMade
<1>9. GrownBy(t, c, t, c2, L, i, p, a, n + 1, e)
  BY <1>7 DEF GrownBy
<1> HIDE DEF n
<1>10. EntriesLead(t, c2, L \cup {i}) /\ EntriesApart(t, c2, L \cup {i})
  BY <1>8, <1>9, EntriesGrown
<1> QED
  BY <1>1, <1>2, <1>10 DEF Whole

\* An entry for a newly made inode, in one more block g of directory p.
FirstEntry(p, e) == EntryBlock(p, <<e>>)
GetsBlock(t, t2, p, g) ==
  t2[p].type = t[p].type /\ t2[p].blocks = Append(t[p].blocks, g)

LEMMA WholeExtended ==
  ASSUME NEW t, NEW c, NEW L, Whole(t, c, L), NEW i, NewlyMade(t, c, i, L),
         NEW p \in L, t[p] \in InodeLists, t[p].type = "directory", NEW g,
         \A x \in L \cup {i} : \A m : ~Has(t, x, m, g),
         NEW e, e.inode = i, t[i].type = e.type, c[g] = FirstEntry(p, e),
         \A k, j : Live(t, c, p, k, j) => EntryAt(t, c, p, k, j).name # e.name,
         NEW t2, GetsBlock(t, t2, p, g),
         \A x \in (L \cup {i}) \ {p} : t2[x] = t[x]
  PROVE  Whole(t2, c, L \cup {i})
<1>1. Kinds(t, L \cup {i}) /\ BlocksApart(t, L \cup {i}) /\ ContentsRight(t, c, L \cup {i})
  BY NewlyMadeBelongs DEF Whole
<1> DEFINE n == Len(t[p].blocks)
           M == L \cup {i}
<1>2. n \in Nat /\ t[p].blocks \in Seq(FileBlocks) /\ DOMAIN t[p].blocks = 1 .. n
  BY InodeListIs
<1>3. /\ DOMAIN t2[p].blocks = 1 .. n + 1
      /\ \A k \in 1 .. n : t2[p].blocks[k] = t[p].blocks[k]
      /\ t2[p].blocks[n + 1] = g
  BY <1>2 DEF GetsBlock
<1>4. n >= 1
  <2>1. PICK b : Has(t, p, 1, b)
    BY DEF Whole, Kinds
  <2> QED
    BY <1>2, <2>1 DEF Has
<1>5. \A x \in M : \A k, b : Has(t2, x, k, b) <=> Has(t, x, k, b) \/ (x = p /\ k = n + 1 /\ b = g)
  <2>1. SUFFICES ASSUME NEW x \in M, NEW k, NEW b
                 PROVE  Has(t2, x, k, b) <=> Has(t, x, k, b) \/ (x = p /\ k = n + 1 /\ b = g)
    OBVIOUS
  <2>2. CASE x # p
    BY <2>2 DEF Has
  <2>3. CASE x = p
    <3>1. k \in 1 .. n + 1 <=> k \in 1 .. n \/ k = n + 1
      BY <1>2
    <3> QED
      BY <1>2, <1>3, <2>3, <3>1 DEF Has
  <2> QED
    BY <2>2, <2>3
<1>6. \A x \in M : t2[x].type = t[x].type
  BY DEF GetsBlock
<1>7. Kinds(t2, M)
  <2>1. M \subseteq Inodes /\ RootInode \in M
    BY <1>1 DEF Kinds
  <2>2. t2[RootInode].type = "directory" /\ Has(t2, RootInode, 1, RootBlock)
    BY <1>1, <1>5, <1>6, <2>1 DEF Kinds
  <2>3. ASSUME NEW x \in M
        PROVE  /\ t2[x].type \in {"file", "directory"}
               /\ t2[x].type = "directory" => \E b : Has(t2, x, 1, b)
    BY <1>1, <1>5, <1>6 DEF Kinds
  <2> QED
    BY <2>1, <2>2, <2>3 DEF Kinds
<1>8. BlocksApart(t2, M)
  <2>1. SUFFICES ASSUME NEW x \in M, NEW y \in M, NEW k, NEW m, NEW b,
                        Has(t2, x, k, b), Has(t2, y, m, b)
                 PROVE  x = y /\ k = m
    BY DEF BlocksApart
  <2>2. CASE b = g
    <3>1. ~Has(t, x, k, b) /\ ~Has(t, y, m, b)
      BY <2>2
    <3> QED
      BY <1>5, <2>1, <3>1
  <2>3. CASE b # g
    BY <1>1, <1>5, <2>1, <2>3 DEF BlocksApart
  <2> QED
    BY <2>2, <2>3
<1>9. ContentsRight(t2, c, M)
  <2>1. SUFFICES ASSUME NEW x \in M, NEW k, NEW b, Has(t2, x, k, b)
                 PROVE  RightContent(t2[x].type, x, k, c[b])
    BY DEF ContentsRight
  <2>2. CASE Has(t, x, k, b)
    BY <1>1, <1>6, <2>2 DEF ContentsRight
  <2>3. CASE x = p /\ k = n + 1 /\ b = g
    <3>1. k # 1
      BY <1>2, <1>4, <2>3
    <3> QED
      BY <1>6, <2>3, <3>1 DEF RightContent, FirstEntry, EntryBlock
  <2> QED
    BY <1>5, <2>1, <2>2, <2>3
<1>10. ASSUME NEW d \in M, NEW k, NEW j, Live(t2, c, d, k, j)
       PROVE  \/ /\ d \in L /\ Live(t, c, d, k, j)
                 /\ EntryAt(t2, c, d, k, j) = EntryAt(t, c, d, k, j)
              \/ d = p /\ k = n + 1 /\ j = 1 /\ EntryAt(t2, c, d, k, j) = e
  <2>1. Has(t2, d, k, t2[d].blocks[k])
    BY <1>10 DEF Live, Has
  <2>2. CASE Has(t, d, k, t2[d].blocks[k])
    <3>1. Live(t, c, d, k, j) /\ EntryAt(t2, c, d, k, j) = EntryAt(t, c, d, k, j)
      BY <1>6, <1>10, <2>2 DEF Has, Live, EntryAt
    <3>2. d # i
      BY <3>1, NewlyMadeIsEmpty
    <3> QED
      BY <3>1, <3>2
  <2>3. CASE d = p /\ k = n + 1 /\ t2[d].blocks[k] = g
    <3>1. EntriesIn(c[g]) = <<e>>
      BY DEF EntriesIn, FirstEntry, EntryBlock
    <3>2. j = 1 /\ EntryAt(t2, c, d, k, j) = e
      BY <1>10, <2>3, <3>1 DEF Live, EntryAt
    <3> QED
      BY <2>3, <3>2
  <2> QED
    BY <1>5, <2>1, <2>2, <2>3
<1>11. i \notin L /\ RootInode \in L /\ EntriesLead(t, c, L) /\ EntriesApart(t, c, L)
       /\ (\A x \in L : t2[x].type = t[x].type) /\ t2[i].type = e.type
  BY <1>6 DEF Whole, Kinds, NewlyMade
<1>12. GrownBy(t, c, t2, c, L, i, p, n + 1, 1, e)
  BY <1>10 DEF GrownBy
<1> HIDE DEF n
<1>13. EntriesLead(t2, c, L \cup {i}) /\ EntriesApart(t2, c, L \cup {i})
  BY <1>11, <1>12, EntriesGrown
<1> QED
  BY <1>7, <1>8, <1>9, <1>13 DEF Whole

\* The one entry of inode i is cleared, which has none itself: i is gone.
EntryIsCleared(x, y, j0) ==
  /\ x.kind = "entries" /\ y.kind = "entries" /\ y.of = x.of
  /\ DOMAIN EntriesIn(y) = DOMAIN EntriesIn(x)
  /\ EntriesIn(y)[j0].inode = 0
  /\ \A j \in DOMAIN EntriesIn(x) : j # j0 => EntriesIn(y)[j] = EntriesIn(x)[j]
NoEntries(t, c, i) == \A k, j : ~Live(t, c, i, k, j)

LEMMA WholeCleared ==
  ASSUME NEW t, NEW c, NEW L, Whole(t, c, L), NEW p \in L, NEW a, NEW b0, NEW j0,
         Has(t, p, a, b0), Live(t, c, p, a, j0),
         NEW i, EntryAt(t, c, p, a, j0).inode = i, NoEntries(t, c, i),
         NEW c2, EntryIsCleared(c[b0], c2[b0], j0), \A b : b # b0 => c2[b] = c[b]
  PROVE  Whole(t, c2, L \ {i}) /\ p \in L \ {i} /\ i # RootInode
<1>1. i \in L \ {RootInode} /\ p # i
  BY DEF Whole, EntriesLead, NoEntries
<1>2. Kinds(t, L \ {i}) /\ BlocksApart(t, L \ {i})
  BY <1>1 DEF Whole, Kinds, BlocksApart
<1>3. ContentsRight(t, c2, L \ {i})
  <2>1. SUFFICES ASSUME NEW x \in L, NEW k, NEW b, Has(t, x, k, b)
                 PROVE  RightContent(t[x].type, x, k, c2[b])
    BY DEF ContentsRight
  <2>2. RightContent(t[x].type, x, k, c[b])
    BY <2>1 DEF Whole, ContentsRight
  <2>3. CASE b = b0
    BY <2>2, <2>3 DEF RightContent, DataOf, DotsOf, EntryIsCleared
  <2>4. CASE b # b0
    <3>1. c2[b] = c[b]
      BY <2>1, <2>4
    <3> QED
      BY <2>2, <3>1
  <2> QED
    BY <2>3, <2>4
<1>4. ASSUME NEW d \in L \ {i}, NEW k, NEW j, Live(t, c2, d, k, j)
      PROVE  /\ Live(t, c, d, k, j) /\ EntryAt(t, c2, d, k, j) = EntryAt(t, c, d, k, j)
             /\ EntryAt(t, c, d, k, j).inode \in L \ {i}
  <2> DEFINE bb == t[d].blocks[k]
  <2>1. Has(t, d, k, bb)
    BY <1>4 DEF Live, Has
  <2>2. bb = b0 => d = p /\ k = a
    BY <2>1 DEF Whole, BlocksApart
  <2>3. Live(t, c, d, k, j) /\ EntryAt(t, c2, d, k, j) = EntryAt(t, c, d, k, j)
    <3>1. CASE bb = b0
      <4>1. j \in DOMAIN EntriesIn(c[b0]) /\ j # j0
        BY <1>4, <3>1 DEF Live, EntryAt, EntryIsCleared
      <4>2. EntriesIn(c2[bb])[j] = EntriesIn(c[bb])[j]
        BY <3>1, <4>1 DEF EntryIsCleared
      <4> QED
        BY <1>4, <3>1, <4>1, <4>2 DEF Live, EntryAt
    <3>2. CASE bb # b0
      <4>1. c2[bb] = c[bb]
        BY <2>1, <3>2
      <4> QED
        BY <1>4, <4>1 DEF Live, EntryAt
    <3> QED
      BY <3>1, <3>2
  <2>4. EntryAt(t, c, d, k, j).inode # i
    <3>1. SUFFICES ASSUME EntryAt(t, c, d, k, j).inode = i PROVE FALSE
      OBVIOUS
    <3>2. d = p /\ k = a /\ j = j0
      BY <2>3, <3>1 DEF Whole, EntriesApart
    <3>3. bb = b0
      BY <3>2 DEF Has
    <3> QED
      BY <1>4, <3>2, <3>3 DEF Live, EntryAt, EntryIsCleared
  <2> QED
    BY <2>3, <2>4 DEF Whole, EntriesLead
<1>5. L \ {i} \in SUBSET L /\ (\A x \in L \ {i} : t[x].type = t[x].type)
      /\ EntriesLead(t, c, L) /\ EntriesApart(t, c, L)
  BY DEF Whole
<1>6. EntriesLead(t, c2, L \ {i}) /\ EntriesApart(t, c2, L \ {i})
  BY <1>4, <1>5, EntriesKept
<1> QED
  BY <1>1, <1>2, <1>3, <1>6 DEF Whole

\* The root alone, as a format leaves it.
LEMMA WholeFresh ==
  ASSUME NEW t, NEW c, t[RootInode] = FreshTable[RootInode], c[RootBlock] = DotsOf(RootInode)
  PROVE  Whole(t, c, {RootInode})
<1>1. t[RootInode] = [type |-> "directory", blocks |-> <<RootBlock>>] /\ RootInode \in Inodes
  BY FreshType, SizesOfDrive
<1>2. \A k, b : Has(t, RootInode, k, b) <=> k = 1 /\ b = RootBlock
  BY <1>1 DEF Has
<1>3. Kinds(t, {RootInode})
  BY <1>1, <1>2 DEF Kinds
<1>4. BlocksApart(t, {RootInode})
  BY <1>2 DEF BlocksApart
<1>5. ContentsRight(t, c, {RootInode})
  BY <1>1, <1>2 DEF ContentsRight, RightContent
<1>6. \A k, j : ~Live(t, c, RootInode, k, j)
  <2>1. SUFFICES ASSUME NEW k, NEW j, Live(t, c, RootInode, k, j) PROVE FALSE
    OBVIOUS
  <2>2. c[t[RootInode].blocks[k]] = DotsOf(RootInode)
    BY <1>1, <2>1 DEF Live
  <2>3. EntriesIn(DotsOf(RootInode)) = <<>>
    BY DEF EntriesIn, DotsOf
  <2> QED
    BY <2>1, <2>2, <2>3 DEF Live
<1>7. EntriesLead(t, c, {RootInode}) /\ EntriesApart(t, c, {RootInode})
  BY <1>6 DEF EntriesLead, EntriesApart
<1> QED
  BY <1>3, <1>4, <1>5, <1>7 DEF Whole

LEMMA FreshIsRoot ==
  ASSUME NEW c, NEW L, Whole(FreshTable, c, L)
  PROVE  L = {RootInode}
<1>1. L \subseteq Inodes /\ RootInode \in L /\ \A i \in L : FreshTable[i].type # "none"
  BY DEF Whole, Kinds
<1>2. \A i \in Inodes \ {RootInode} : FreshTable[i].type = "none"
  BY FreshType DEF NoInode
<1> QED
  BY <1>1, <1>2

-----------------------------------------------------------------------------
(***************************************************************************)
(* Looking names up in a whole tree.                                       *)
(***************************************************************************)

\* A name has one entry in a directory, so that a lookup finds that one.
LEMMA LookupInTree ==
  ASSUME NEW t \in Tables, NEW c \in Stores, NEW L, Whole(t, c, L), NEW d \in L, NEW name, NEW bad
  PROVE  /\ Lookup(t, c, d, name, bad) \in {0} \cup (L \ {RootInode})
         /\ \A k, j : Shows(t, c, d, k, j, name, bad) =>
              Lookup(t, c, d, name, bad) = EntryAt(t, c, d, k, j).inode
         /\ Lookup(t, c, d, name, bad) # 0 =>
              \E k, j : /\ Shows(t, c, d, k, j, name, bad)
                        /\ EntryAt(t, c, d, k, j).inode = Lookup(t, c, d, name, bad)
<1>1. d \in Inodes
  BY DEF Whole, Kinds
<1>2. Lookup(t, c, d, name, bad) # 0 =>
        \E k, j : /\ Shows(t, c, d, k, j, name, bad)
                  /\ EntryAt(t, c, d, k, j).inode = Lookup(t, c, d, name, bad)
  BY <1>1, LookupIs
<1>3. Lookup(t, c, d, name, bad) \in {0} \cup (L \ {RootInode})
  BY <1>2 DEF Shows, Whole, EntriesLead
<1>4. ASSUME NEW k, NEW j, Shows(t, c, d, k, j, name, bad)
      PROVE  Lookup(t, c, d, name, bad) = EntryAt(t, c, d, k, j).inode
  <2>1. Lookup(t, c, d, name, bad) # 0
    BY <1>1, <1>4, LookupIs
  <2>2. PICK k1, j1 : /\ Shows(t, c, d, k1, j1, name, bad)
                      /\ EntryAt(t, c, d, k1, j1).inode = Lookup(t, c, d, name, bad)
    BY <1>2, <2>1
  <2>3. k = k1 /\ j = j1
    BY <1>4, <2>2 DEF Shows, Whole, EntriesApart
  <2> QED
    BY <2>2, <2>3
<1> QED
  BY <1>2, <1>3, <1>4

\* Every lookup that succeeds, and does not lead to inode i, leads to the same inode
\* after a change; from i no lookup leads anywhere.
SameLookups(t, c, bad, t2, c2, bad2, L, i) ==
  /\ \A d \in L : \A name : Lookup(t, c, d, name, bad) \notin {0, i} =>
       Lookup(t2, c2, d, name, bad2) = Lookup(t, c, d, name, bad)
  /\ i \in L => \A name : Lookup(t, c, i, name, bad) = 0

\* A path stays in the tree, and leads to where it led.
LEMMA WalkInTree ==
  ASSUME NEW t \in Tables, NEW c \in Stores, NEW L, Whole(t, c, L), NEW d \in L,
         NEW names, Len(names) \in Nat, NEW bad
  PROVE  Walk(t, c, d, names, bad) \in {0} \cup L
<1>1. d \in {0} \cup Inodes
  BY DEF Whole, Kinds
<1>2. PICK f : /\ WayAlong(f, t, c, d, names, bad)
               /\ Walk(t, c, d, names, bad) = f[Len(names)]
  BY <1>1, WalkIs
<1> DEFINE S == {0} \cup L
           n == Len(names)
<1>3. \A k \in 1 .. n : f[k - 1] \in S => f[k] \in S
  BY <1>2, LookupInTree DEF WayAlong
<1>4. f[0] \in S
  BY <1>2 DEF WayAlong
<1>5. \A k \in 0 .. n : f[k] \in S
  <2> HIDE DEF S, n
  <2> QED
    BY <1>3, <1>4, PassedOn DEF n
<1> QED
  BY <1>2, <1>5

LEMMA WalkKept ==
  ASSUME NEW t \in Tables, NEW c \in Stores, NEW L, Whole(t, c, L), NEW d \in L,
         NEW t2 \in Tables, NEW c2 \in Stores, NEW bad, NEW bad2, NEW i,
         SameLookups(t, c, bad, t2, c2, bad2, L, i), NEW names, Len(names) \in Nat,
         Walk(t, c, d, names, bad) \notin {0, i}
  PROVE  Walk(t2, c2, d, names, bad2) = Walk(t, c, d, names, bad)
<1>1. d \in {0} \cup Inodes
  BY DEF Whole, Kinds
<1>2. PICK f : /\ WayAlong(f, t, c, d, names, bad)
               /\ Walk(t, c, d, names, bad) = f[Len(names)]
  BY <1>1, WalkIs
<1>3. PICK g : /\ WayAlong(g, t2, c2, d, names, bad2)
               /\ Walk(t2, c2, d, names, bad2) = g[Len(names)]
  BY <1>1, WalkIs
<1> DEFINE n == Len(names)
           S == {k \in Nat : k <= n => f[k] \in {0} \cup L /\ (f[k] \notin {0, i} => g[k] = f[k])}
<1>4. 0 \in S
  BY <1>2, <1>3 DEF WayAlong
<1>5. ASSUME NEW k \in Nat, k \in S PROVE k + 1 \in S
  <2>1. SUFFICES ASSUME k + 1 <= n
                 PROVE  /\ f[k + 1] \in {0} \cup L
                        /\ f[k + 1] \notin {0, i} => g[k + 1] = f[k + 1]
    OBVIOUS
  <2>2. /\ k + 1 \in 1 .. n /\ (k + 1) - 1 = k
        /\ f[k] \in {0} \cup L /\ (f[k] \notin {0, i} => g[k] = f[k])
    BY <1>5, <2>1
  <2>3. /\ f[k + 1] = IF f[k] = 0 THEN 0 ELSE Lookup(t, c, f[k], names[k + 1], bad)
        /\ g[k + 1] = IF g[k] = 0 THEN 0 ELSE Lookup(t2, c2, g[k], names[k + 1], bad2)
    BY <1>2, <1>3, <2>2 DEF WayAlong
  <2>4. f[k + 1] \in {0} \cup L
    BY <2>2, <2>3, LookupInTree
  <2>5. f[k + 1] # 0 => f[k] \in L /\ f[k] # 0 /\ f[k] # i
    BY <2>2, <2>3 DEF SameLookups
  <2>6. f[k + 1] \notin {0, i} => g[k + 1] = f[k + 1]
    BY <2>2, <2>3, <2>5 DEF SameLookups
  <2> QED
    BY <2>4, <2>6
<1> HIDE DEF S
<1>6. n \in S
  BY <1>4, <1>5, NumbersByInduction
<1> QED
  BY <1>2, <1>3, <1>6 DEF S

\* What a block that cannot be read does to a path: nothing, or it is not found.
LEMMA WalkUnread ==
  ASSUME NEW t \in Tables, NEW c \in Stores, NEW L, Whole(t, c, L), NEW d \in L,
         NEW names, Len(names) \in Nat, NEW bad
  PROVE  Walk(t, c, d, names, bad) # 0 =>
           Walk(t, c, d, names, {}) = Walk(t, c, d, names, bad)
<1>1. 0 \notin L
  BY SizesOfDrive DEF Whole, Kinds
<1>2. ASSUME NEW x \in L, NEW name, Lookup(t, c, x, name, bad) # 0
      PROVE  Lookup(t, c, x, name, {}) = Lookup(t, c, x, name, bad)
  <2>1. PICK k, j : /\ Shows(t, c, x, k, j, name, bad)
                    /\ EntryAt(t, c, x, k, j).inode = Lookup(t, c, x, name, bad)
    BY <1>2, LookupInTree
  <2>2. Shows(t, c, x, k, j, name, {})
    BY <2>1 DEF Shows
  <2> QED
    BY <2>1, <2>2, LookupInTree
<1>3. SameLookups(t, c, bad, t, c, {}, L, 0)
  BY <1>1, <1>2 DEF SameLookups
<1> QED
  BY <1>3, WalkKept

\* The entries that do not lead to i stay where they are; those of i, if i is
\* in the tree, do not matter, for there are none.
EntriesStay(t, c, t2, c2, L, i) ==
  /\ \A d \in L : \A k, j : Live(t, c, d, k, j) /\ EntryAt(t, c, d, k, j).inode # i =>
       /\ Live(t2, c2, d, k, j)
       /\ EntryAt(t2, c2, d, k, j) = EntryAt(t, c, d, k, j)
  /\ i \in L => \A k, j : ~Live(t, c, i, k, j)

LEMMA LookupsStay ==
  ASSUME NEW t \in Tables, NEW c \in Stores, NEW L, Whole(t, c, L),
         NEW t2 \in Tables, NEW c2 \in Stores, NEW M, Whole(t2, c2, M), NEW i, L \ {i} \subseteq M,
         EntriesStay(t, c, t2, c2, L, i)
  PROVE  SameLookups(t, c, {}, t2, c2, {}, L, i)
<1>1. ASSUME NEW d \in L, NEW name, Lookup(t, c, d, name, {}) \notin {0, i}
      PROVE  Lookup(t2, c2, d, name, {}) = Lookup(t, c, d, name, {})
  <2>1. PICK k, j : /\ Shows(t, c, d, k, j, name, {})
                    /\ EntryAt(t, c, d, k, j).inode = Lookup(t, c, d, name, {})
    BY <1>1, LookupInTree
  <2>2. d # i
    BY <2>1 DEF Shows, EntriesStay
  <2>3. Shows(t2, c2, d, k, j, name, {}) /\ EntryAt(t2, c2, d, k, j) = EntryAt(t, c, d, k, j)
    BY <1>1, <2>1 DEF Shows, EntriesStay
  <2>4. d \in M
    BY <2>2
  <2> QED
    BY <2>1, <2>3, <2>4, LookupInTree
<1>2. ASSUME i \in L, NEW name PROVE Lookup(t, c, i, name, {}) = 0
  BY <1>2, LookupInTree DEF Shows, EntriesStay
<1> QED
  BY <1>1, <1>2 DEF SameLookups

LEMMA WalkByLast ==
  ASSUME NEW t \in Tables, NEW c \in Stores, NEW d \in Inodes, NEW names \in Seq(Names),
         names # <<>>, NEW bad
  PROVE  LET x == Walk(t, c, d, Front(names), bad) IN
           /\ x # 0 => Walk(t, c, d, names, bad) = Lookup(t, c, x, Last(names), bad)
           /\ x = 0 => Walk(t, c, d, names, bad) = 0
<1> DEFINE n == Len(names)
<1>1. /\ n \in Nat /\ n >= 1 /\ Len(Front(names)) = n - 1 /\ n - 1 \in Nat
      /\ \A k \in 1 .. n - 1 : Front(names)[k] = names[k]
      /\ Last(names) = names[n]
      /\ d \in {0} \cup Inodes /\ Len(Front(names)) \in Nat /\ Len(names) \in Nat
  BY FrontIs
<1>2. PICK f : WayAlong(f, t, c, d, names, bad) /\ Walk(t, c, d, names, bad) = f[n]
  BY <1>1, WalkIs
<1>3. PICK g : /\ WayAlong(g, t, c, d, Front(names), bad)
               /\ Walk(t, c, d, Front(names), bad) = g[n - 1]
  BY <1>1, WalkIs
<1> DEFINE S == {k \in Nat : k <= n - 1 => g[k] = f[k]}
<1>4. 0 \in S
  BY <1>2, <1>3 DEF WayAlong
<1>5. ASSUME NEW k \in Nat, k \in S PROVE k + 1 \in S
  <2>1. SUFFICES ASSUME k + 1 <= n - 1 PROVE g[k + 1] = f[k + 1]
    OBVIOUS
  <2>2. k + 1 \in 1 .. n /\ k + 1 \in 1 .. Len(Front(names)) /\ (k + 1) - 1 = k /\ g[k] = f[k]
        /\ Front(names)[k + 1] = names[k + 1]
    BY <1>1, <1>5, <2>1
  <2>3. /\ f[k + 1] = IF f[k] = 0 THEN 0 ELSE Lookup(t, c, f[k], names[k + 1], bad)
        /\ g[k + 1] = IF g[k] = 0 THEN 0 ELSE Lookup(t, c, g[k], names[k + 1], bad)
    BY <1>2, <1>3, <2>2 DEF WayAlong
  <2> QED
    BY <2>2, <2>3
<1> HIDE DEF S
<1>6. n - 1 \in S
  BY <1>1, <1>4, <1>5, NumbersByInduction
<1>7. g[n - 1] = f[n - 1]
  BY <1>1, <1>6 DEF S
<1>8. f[n] = IF f[n - 1] = 0 THEN 0 ELSE Lookup(t, c, f[n - 1], names[n], bad)
  BY <1>1, <1>2 DEF WayAlong
<1> QED
  BY <1>1, <1>2, <1>3, <1>7, <1>8

LEMMA WalkNowhere ==
  ASSUME NEW t \in Tables, NEW c \in Stores, NEW d \in Inodes, NEW names, Len(names) = 0, NEW bad
  PROVE  Walk(t, c, d, names, bad) = d
<1>1. d \in {0} \cup Inodes /\ Len(names) \in Nat
  OBVIOUS
<1>2. PICK f : WayAlong(f, t, c, d, names, bad) /\ Walk(t, c, d, names, bad) = f[Len(names)]
  BY <1>1, WalkIs
<1> QED
  BY <1>2 DEF WayAlong

-----------------------------------------------------------------------------
(***************************************************************************)
(* What keeps the tree whole.  The bitmaps of a session can be trusted as  *)
(* long as no earlier session was cut off.                                 *)
(***************************************************************************)
Trusted(s) == \A r \in DOMAIN Sessions : r < s => "power_cut" \notin Sessions[r]

\* The conditions: the arguments a careful user gives, a bit for every block,
\* disk errors that the code answers, no format below the root, and only
\* removals in a session whose bitmaps are out of date.
Guarded ==
  /\ Careful /\ TotalBlocks <= BitmapBits
  /\ Faults \subseteq HandledFaults \cup FormatFaults
  /\ \A s \in DOMAIN Sessions :
       /\ "format" \in Sessions[s] => DirPaths = {}
       /\ Trusted(s) \/ Sessions[s] \subseteq {"rm", "rmdir", "cd", "format", "power_cut"}

MarkedInode(m, t, i) == InodeBit(i) \in m.bits /\ \A k, b : Has(t, i, k, b) => b \in m.bits

\* The inode that a removal or a truncation has freed but not yet written.
Unmarked(o) == IF o.pc = "clear_entry" \/ o.pc \in Writing THEN {o.inode} ELSE {}

Marks(L) ==
  mounted /\ Trusted(session) =>
    /\ \A i \in L \ Unmarked(op) : MarkedInode(mem, table, i)
    /\ snapshot = FreshTable
    /\ ~dirty => table = FreshTable

RootMarked(m) == RootBlock \in m.bits /\ InodeBit(RootInode) \in m.bits

Where(L) ==
  /\ mounted /\ op.call # "unmount" => cwd.inode \in L /\ table[cwd.inode].type = "directory"
  /\ ~mounted \/ DirPaths = {} => cwd = AtRoot

Between ==
  /\ RootMarked(diskCopy)
  /\ ~mounted /\ Trusted(session + 1) => table = FreshTable
  /\ mounted => session > 0

\* A block that is marked and that no inode of the tree has.
Spare(b, L) == b \in DataBlocks /\ b \in mem.bits /\ \A i \in L : \A k : ~Has(table, i, k, b)

CreatingOK(L) ==
  op.pc \in Creating =>
    /\ mounted /\ Trusted(session) /\ dirty
    /\ op.call \in {"create_file", "create_directory"}
    /\ op.inode \in Inodes \ L /\ InodeBit(op.inode) \in mem.bits
    /\ op.parent \in L
    /\ \A k, j : Live(table, content, op.parent, k, j) =>
         EntryAt(table, content, op.parent, k, j).name # Last(op.path.names)
    /\ op.copy => op.call = "create_file" /\ ParentOfNew(op.path, {}) = op.parent
    /\ op.call = "create_directory" => Spare(op.block, L)
    /\ op.call = "create_directory" /\ op.pc # "dots" => content[op.block] = DotsOf(op.inode)
    /\ op.pc \in {"add_entry", "entry_block", "parent_inode"} => table[op.inode] = NewInode
    /\ op.pc \in {"entry_block", "parent_inode"} =>
         /\ Spare(op.grown, L) /\ table[op.parent].type = "directory"
         /\ op.call = "create_directory" => op.grown # op.block
    /\ op.pc = "parent_inode" => content[op.grown] = EntryBlock(op.parent, <<NewEntry>>)

OpenOK(L) ==
  op.pc = "open" =>
    /\ mounted /\ Trusted(session) /\ op.call = "open"
    /\ op.inode \in L /\ Find(op.path, {}) = op.inode /\ table[op.inode].type = "file"

WritingOK(L) ==
  op.pc \in Writing =>
    /\ mounted /\ Trusted(session)
    /\ op.call \in {"open", "write"}
    /\ op.inode \in L /\ table[op.inode].type = "file" /\ op.node.type = "file"
    /\ InodeBit(op.inode) \in mem.bits
    /\ \A k \in DOMAIN op.node.blocks :
         /\ op.node.blocks[k] \in mem.bits
         /\ \A m \in DOMAIN op.node.blocks : op.node.blocks[k] = op.node.blocks[m] => k = m
         /\ \A i \in L \ {op.inode} : \A m : ~Has(table, i, m, op.node.blocks[k])
         /\ content[op.node.blocks[k]] = DataOf(op.inode) \/ (op.pc = "data" /\ k = Index)

ClearingOK(L) ==
  op.pc = "clear_entry" =>
    /\ mounted /\ op.call = "delete"
    /\ op.inode \in Inodes \ {cwd.inode} /\ op.parent \in L
    /\ op.position = 0 =>
         /\ op.inode \in L
         /\ \E k, j : /\ Live(table, content, op.parent, k, j)
                      /\ EntryAt(table, content, op.parent, k, j).inode = op.inode
                      /\ EntryAt(table, content, op.parent, k, j).name = Last(op.path.names)
         /\ \A k, j : ~Live(table, content, op.inode, k, j)
    /\ op.position # 0 => op.inode \notin L

\* The drive is unmounted in one session or another.
Unmounts == \E s \in DOMAIN Sessions : "umount" \in Sessions[s]

SavingOK ==
  /\ op.call = "format" => DirPaths = {}
  /\ op.call = "unmount" =>
       /\ mounted /\ Trusted(session) /\ op.pc \in Saving /\ Unmounts
       /\ op.pc = "table" =>
            \A i \in Inodes : (i - 1) \div InodesPerBlock + 1 < op.block => table[i] = FreshTable[i]

OpOK(L) == CreatingOK(L) /\ OpenOK(L) /\ WritingOK(L) /\ ClearingOK(L) /\ SavingOK

TreeInv(L) == Whole(table, content, L) /\ Marks(L) /\ Where(L) /\ Between /\ OpOK(L)

LEMMA NoOpOK ==
  ASSUME op' = NoOp, NEW L
  PROVE  OpOK(L)' /\ Unmarked(op') = {}
<1>1. op'.pc = "none" /\ op'.call = "none"
  BY DEF NoOp
<1> QED
  BY <1>1 DEF OpOK, CreatingOK, OpenOK, WritingOK, ClearingOK, SavingOK, Unmarked, Creating, Writing

\* The work in memory before a write: the drive is as it was.
LEMMA InMemory ==
  ASSUME NEW L, TreeInv(L), UNCHANGED <<fsVars, diskVars, session>>,
         op.call # "unmount", OpOK(L)',
         mounted /\ Trusted(session) =>
           /\ \A i \in L \ Unmarked(op') : MarkedInode(mem', table, i)
           /\ ~dirty' => ~dirty
  PROVE  TreeInv(L)'
<1>1. Whole(table', content', L)
  BY DEF TreeInv, diskVars
<1>2. Marks(L)'
  BY DEF TreeInv, Marks, diskVars, fsVars
<1>3. Where(L)'
  BY DEF TreeInv, Where, diskVars, fsVars
<1>4. Between'
  BY DEF TreeInv, Between, diskVars, fsVars
<1> QED
  BY <1>1, <1>2, <1>3, <1>4 DEF TreeInv

\* A command starts on a mounted drive; one that gives out blocks or inodes, or
\* saves the bitmaps, in a session in which they can be trusted.
LEMMA ReadyIs ==
  ASSUME Guarded, Typed, NEW L, TreeInv(L), NEW command, Ready(command)
  PROVE  /\ mounted /\ op = NoOp /\ session \in DOMAIN Sessions /\ command \in Sessions[session]
         /\ op.pc = "none" /\ op.call = "none" /\ Unmarked(op) = {}
         /\ command \in {"touch", "mkdir", "cp", "edit", "umount"} => Trusted(session)
         /\ cwd.inode \in L /\ table[cwd.inode].type = "directory" /\ RootInode \in L
<1>1. mounted /\ op = NoOp /\ command \in Sessions[session] /\ session > 0
  BY DEF Ready, TreeInv, Between
<1>2. session \in DOMAIN Sessions
  BY <1>1, RfssAssumption DEF Typed, StateType
<1>3. op.pc = "none" /\ op.call = "none" /\ Unmarked(op) = {}
  BY <1>1 DEF NoOp, Unmarked, Writing
<1>4. cwd.inode \in L /\ table[cwd.inode].type = "directory" /\ RootInode \in L
  BY <1>1, <1>3 DEF TreeInv, Where, Whole, Kinds
<1> QED
  BY <1>1, <1>2, <1>3, <1>4 DEF Guarded

LEMMA OutcomesAre ==
  ASSUME Guarded
  PROVE  /\ op.call \in {"create_file", "create_directory"} => Outcomes \subseteq {"done", "lost"}
         /\ op.call \in {"delete", "open", "write", "unmount"} => Outcomes = {"done"}
         /\ \A call \in {"create_file", "create_directory", "delete"} : Unreadable(call) = {{}}
<1>1. \A call : <<call, "late">> \in Faults => call = "format"
  BY DEF Guarded, HandledFaults, FormatFaults
<1>2. \A call : <<call, "lost">> \in Faults => call \in {"create_file", "create_directory", "format"}
  BY DEF Guarded, HandledFaults, FormatFaults
<1>3. \A call : <<call, "unreadable">> \in Faults => call \in {"open", "write", "change_directory"}
  BY DEF Guarded, HandledFaults, FormatFaults
<1>4. op.call \in {"create_file", "create_directory"} => Outcomes \subseteq {"done", "lost"}
  BY <1>1 DEF Outcomes
<1>5. op.call \in {"delete", "open", "write", "unmount"} => Outcomes = {"done"}
  BY <1>1, <1>2 DEF Outcomes
<1>6. \A call \in {"create_file", "create_directory", "delete"} : Unreadable(call) = {{}}
  BY <1>3 DEF Unreadable
<1> QED
  BY <1>4, <1>5, <1>6

\* What is found is in the tree.
LEMMA FindInTree ==
  ASSUME Typed, NEW L, TreeInv(L), mounted, op.call # "unmount", NEW names, Len(names) \in Nat,
         NEW absolute, NEW bad
  PROVE  /\ Find([absolute |-> absolute, names |-> names], bad) \in {0} \cup L
         /\ Find([absolute |-> absolute, names |-> names], bad) # 0 =>
              Find([absolute |-> absolute, names |-> names], {}) =
                Find([absolute |-> absolute, names |-> names], bad)
<1> DEFINE d == IF absolute THEN RootInode ELSE cwd.inode
<1>1. d \in L /\ Whole(table, content, L) /\ table \in Tables /\ content \in Stores
  BY DEF TreeInv, Where, Whole, Kinds, Typed, StateType
<1>2. \A b : Find([absolute |-> absolute, names |-> names], b) = Walk(table, content, d, names, b)
  BY DEF Find, Resolve
<1> HIDE DEF d
<1>3. Walk(table, content, d, names, bad) \in {0} \cup L
  BY <1>1, WalkInTree
<1>4. Walk(table, content, d, names, bad) # 0 =>
        Walk(table, content, d, names, {}) = Walk(table, content, d, names, bad)
  BY <1>1, WalkUnread
<1> QED
  BY <1>2, <1>3, <1>4

\* On a drive whose blocks have bits of their own no inode's bit is a block's.
LEMMA BitsApart ==
  ASSUME Guarded
  PROVE  /\ \A b \in FileBlocks, i \in Inodes : b # InodeBit(i)
         /\ \A i, j \in Inodes : InodeBit(i) = InodeBit(j) => i = j
BY SizesAssumption DEF Guarded, FileBlocks, RootBlock, DataBlocks, Inodes, InodeBit

LEMMA HasIs ==
  ASSUME NEW t \in Tables, NEW i \in Inodes, NEW k, NEW b, Has(t, i, k, b)
  PROVE  b \in FileBlocks /\ k \in 1 .. Len(t[i].blocks) /\ k \in Nat
BY InodeListIs DEF Tables, Has

\* More bits: what was marked is marked.
LEMMA MarkedStill ==
  ASSUME NEW m, NEW m2, NEW t, NEW i, MarkedInode(m, t, i), m.bits \subseteq m2.bits
  PROVE  MarkedInode(m2, t, i)
BY DEF MarkedInode

-----------------------------------------------------------------------------
(***************************************************************************)
(* Creations.                                                              *)
(***************************************************************************)
LEMMA CreationStarts ==
  ASSUME Guarded, Typed, NEW L, TreeInv(L), NEW command \in {"touch", "mkdir", "cp"}, Ready(command),
         NEW p \in PathRecords, CanCreate(p, {})
  PROVE  /\ ParentOfNew(p, {}) \in L /\ p.names # <<>>
         /\ AllocatedInode(mem) \in Inodes \ L /\ AllocatedInode(mem) # 0
         /\ \A k, j : Live(table, content, ParentOfNew(p, {}), k, j) =>
              EntryAt(table, content, ParentOfNew(p, {}), k, j).name # Last(p.names)
         /\ \A i \in L : MarkedInode(mem, table, i)
<1>1. mounted /\ op.call = "none" /\ Unmarked(op) = {} /\ Trusted(session)
  BY ReadyIs
<1>2. mem \in Copies /\ table \in Tables /\ content \in Stores
  BY DEF Typed, StateType
<1>3. \A i \in L : MarkedInode(mem, table, i)
  BY <1>1 DEF TreeInv, Marks
<1>4. AllocatedInode(mem) \in Inodes \ L /\ AllocatedInode(mem) # 0
  BY <1>2, <1>3, GivesInode DEF CanCreate, MarkedInode
<1>5. p.names # <<>> /\ ParentOfNew(p, {}) # 0
  BY DEF CanCreate
<1>6. ParentOfNew(p, {}) \in L
  <2>1. [p EXCEPT !.names = Front(@)] = [absolute |-> p.absolute, names |-> Front(p.names)]
        /\ Len(Front(p.names)) \in Nat
    BY <1>5, PathIs, LenProperties DEF PathRecords
  <2>2. Find([absolute |-> p.absolute, names |-> Front(p.names)], {}) \in {0} \cup L
    BY <1>1, <2>1, FindInTree
  <2> QED
    BY <1>5, <2>1, <2>2 DEF ParentOfNew
<1>7. \A k, j : Live(table, content, ParentOfNew(p, {}), k, j) =>
        EntryAt(table, content, ParentOfNew(p, {}), k, j).name # Last(p.names)
  <2> DEFINE d == ParentOfNew(p, {})
  <2>1. Lookup(table, content, d, Last(p.names), {}) = 0 /\ d \in Inodes
    BY <1>6 DEF CanCreate, TreeInv, Whole, Kinds
  <2> HIDE DEF d
  <2>2. \A k, j : ~Shows(table, content, d, k, j, Last(p.names), {})
    BY <1>2, <2>1, LookupIs
  <2> QED
    BY <2>2 DEF Shows, d
<1> QED
  BY <1>3, <1>4, <1>5, <1>6, <1>7

LEMMA TreeCreatesFile ==
  ASSUME Guarded, Typed, NEW L, TreeInv(L), NEW command \in {"touch", "cp"}, Ready(command),
         NEW p \in PathRecords, NEW copy \in BOOLEAN, NEW left \in Nat, CreateFile(p, copy, left)
  PROVE  TreeInv(L)'
<1>1. /\ CanCreate(p, {})
      /\ op' = [NoOp EXCEPT !.call = "create_file", !.pc = FirstWrite("create_file"), !.path = p,
                  !.parent = ParentOfNew(p, {}), !.inode = AllocatedInode(mem),
                  !.copy = copy, !.left = left]
      /\ Changes(AfterAllocateInode(mem))
      /\ UNCHANGED <<fsVars, diskVars, session>>
  BY OutcomesAre DEF CreateFile
<1> DEFINE d == ParentOfNew(p, {})
           i == AllocatedInode(mem)
<1>2. op' = [call |-> "create_file", pc |-> "new_inode", path |-> p, copy |-> copy,
             parent |-> d, inode |-> i, block |-> 0, grown |-> 0,
             node |-> NoInode, position |-> 0, left |-> left]
  BY <1>1 DEF NoOp, FirstWrite
<1>3. mounted /\ Trusted(session) /\ op.call = "none" /\ mem \in Copies
  BY ReadyIs DEF Typed, StateType
<1>4. /\ d \in L /\ i \in Inodes \ L /\ \A x \in L : MarkedInode(mem, table, x)
      /\ \A k, j : Live(table, content, d, k, j) =>
           EntryAt(table, content, d, k, j).name # Last(p.names)
  BY <1>1, CreationStarts
<1>5. mem'.bits = mem.bits \cup {InodeBit(i)} /\ dirty' = TRUE
  BY <1>1, <1>3, CreationStarts, GivesInode DEF Changes
<1>6. ParentOfNew(op.path, {})' = d
  <2>1. op'.path = p
    BY <1>2
  <2> QED
    BY <1>1, <2>1 DEF ParentOfNew, Find, fsVars, diskVars
<1> HIDE DEF d, i
<1>7. /\ op'.call = "create_file" /\ op'.pc = "new_inode" /\ op'.path = p
      /\ op'.parent = d /\ op'.inode = i
  BY <1>2
<1>8. CreatingOK(L)'
  <2>1. table' = table /\ content' = content /\ mounted' = mounted /\ session' = session
    BY <1>1 DEF fsVars, diskVars
  <2> QED
    BY <1>3, <1>4, <1>5, <1>6, <1>7, <2>1 DEF CreatingOK
<1>9. OpOK(L)'
  BY <1>7, <1>8 DEF OpOK, OpenOK, WritingOK, ClearingOK, SavingOK, Writing
<1>10. \A x \in L : MarkedInode(mem', table, x)
  BY <1>4, <1>5, MarkedStill
<1> QED
  BY <1>1, <1>3, <1>5, <1>9, <1>10, InMemory

LEMMA TreeCreatesDirectory ==
  ASSUME Guarded, Typed, NEW L, TreeInv(L), Ready("mkdir"),
         NEW p \in PathRecords, CreateDirectory(p)
  PROVE  TreeInv(L)'
<1> DEFINE m == AfterAllocateInode(mem)
           b == AllocatedBlock(m)
           d == ParentOfNew(p, {})
           i == AllocatedInode(mem)
<1>1. /\ CanCreate(p, {})
      /\ UNCHANGED <<fsVars, diskVars, session>>
      /\ \/ /\ b # 0
            /\ op' = [NoOp EXCEPT !.call = "create_directory",
                        !.pc = FirstWrite("create_directory"), !.path = p,
                        !.parent = d, !.inode = i, !.block = b]
            /\ Changes(AfterAllocateBlock(m))
         \/ /\ b = 0
            /\ mem' = AfterFreeInode(m, i) /\ dirty' = TRUE
            /\ UNCHANGED op
  BY OutcomesAre DEF CreateDirectory
<1>2. mounted /\ Trusted(session) /\ op = NoOp /\ op.call = "none" /\ mem \in Copies
  BY ReadyIs DEF Typed, StateType
<1>3. /\ d \in L /\ i \in Inodes \ L /\ i # 0 /\ \A x \in L : MarkedInode(mem, table, x)
      /\ \A k, j : Live(table, content, d, k, j) =>
           EntryAt(table, content, d, k, j).name # Last(p.names)
  BY <1>1, CreationStarts
<1>4. m \in Copies /\ m.bits = mem.bits \cup {InodeBit(i)} /\ InodeBit(i) \notin mem.bits
  BY <1>2, <1>3, GivesInode
<1> HIDE DEF m, d, i
<1>5. CASE /\ b # 0
           /\ op' = [NoOp EXCEPT !.call = "create_directory",
                       !.pc = FirstWrite("create_directory"), !.path = p,
                       !.parent = d, !.inode = i, !.block = b]
           /\ Changes(AfterAllocateBlock(m))
  <2>1. op' = [call |-> "create_directory", pc |-> "dots", path |-> p, copy |-> FALSE,
               parent |-> d, inode |-> i, block |-> b, grown |-> 0,
               node |-> NoInode, position |-> 0, left |-> 0]
    BY <1>5 DEF NoOp, FirstWrite
  <2>2. b \in DataBlocks /\ b \notin m.bits /\ AfterAllocateBlock(m).bits = m.bits \cup {b}
    BY <1>4, <1>5, GivesBlock
  <2> HIDE DEF b
  <2>3. /\ op'.call = "create_directory" /\ op'.pc = "dots" /\ op'.path = p
        /\ op'.parent = d /\ op'.inode = i /\ op'.block = b /\ op'.copy = FALSE
    BY <2>1
  <2>4. mem'.bits = mem.bits \cup {InodeBit(i), b} /\ dirty' = TRUE
    <3>1. AfterAllocateBlock(m) # mem
      BY <1>4, <2>2
    <3> QED
      BY <1>4, <1>5, <2>2, <3>1 DEF Changes
  <2>5. \A x \in L : \A k : ~Has(table, x, k, b)
    BY <1>3, <1>4, <2>2 DEF MarkedInode
  <2>6. CreatingOK(L)'
    <3>1. table' = table /\ content' = content /\ mounted' = mounted /\ session' = session
      BY <1>1 DEF fsVars, diskVars
    <3>2. Spare(op.block, L)'
      BY <2>2, <2>3, <2>4, <2>5, <3>1 DEF Spare
    <3> QED
      BY <1>2, <1>3, <2>3, <2>4, <3>1, <3>2 DEF CreatingOK
  <2>7. OpOK(L)'
    BY <2>3, <2>6 DEF OpOK, OpenOK, WritingOK, ClearingOK, SavingOK, Writing
  <2>8. \A x \in L : MarkedInode(mem', table, x)
    BY <1>3, <2>4, MarkedStill
  <2> QED
    BY <1>1, <1>2, <2>4, <2>7, <2>8, InMemory
<1>6. CASE mem' = AfterFreeInode(m, i) /\ dirty' = TRUE /\ UNCHANGED op
  <2>1. mem'.bits = mem.bits
    <3>1. AfterFreeInode(m, i).bits = m.bits \ {InodeBit(i)}
      BY <1>3, <1>4, TakesBack
    <3> QED
      BY <1>4, <1>6, <3>1
  <2>2. \A x \in L : MarkedInode(mem', table, x)
    BY <1>3, <2>1, MarkedStill
  <2>3. OpOK(L)'
    BY <1>2, <1>6, NoOpOK
  <2> QED
    BY <1>1, <1>2, <1>6, <2>2, <2>3, InMemory
<1> QED
  BY <1>1, <1>5, <1>6

LEMMA TreeCreates ==
  ASSUME Guarded, Typed, NEW L, TreeInv(L), Touch \/ Mkdir \/ Copy
  PROVE  TreeInv(L)'
<1>1. CASE Touch
  <2>1. FALSE \in BOOLEAN /\ 0 \in Nat /\ "touch" \in {"touch", "cp"}
    OBVIOUS
  <2> QED
    BY <1>1, <2>1, OldPathIs, TreeCreatesFile DEF Touch
<1>2. CASE Mkdir
  BY <1>2, OldPathIs, TreeCreatesDirectory DEF Mkdir
<1>3. CASE Copy
  <2>1. PICK from \in OldPaths, to \in OldPaths :
          LET n == Len(table[Find(from, {})].blocks) IN
          /\ Find(from, {}) # 0
          /\ \E left \in IF n = 0 THEN {0}
                         ELSE (ChunksPerBlock * (n - 1) + 1) .. (ChunksPerBlock * n) :
               CreateFile(to, TRUE, left)
    BY <1>3 DEF Copy
  <2> DEFINE n == Len(table[Find(from, {})].blocks)
  <2>2. PICK left \in IF n = 0 THEN {0} ELSE (ChunksPerBlock * (n - 1) + 1) .. (ChunksPerBlock * n) :
          CreateFile(to, TRUE, left)
    BY <2>1
  <2>3. Find(from, {}) \in Inodes
    BY <2>1, FindPathType, OldPathIs
  <2>4. n \in Nat
    BY <2>3, InodeListIs DEF Typed, StateType, Tables
  <2>5. left \in Nat
    <3> HIDE DEF n
    <3>1. n # 0 => n - 1 \in Nat
      BY <2>4
    <3>2. \A m \in Nat : ChunksPerBlock * m \in Nat
      BY RfssAssumption
    <3> QED
      BY <2>2, <2>4, <3>1, <3>2
  <2>6. TRUE \in BOOLEAN /\ to \in PathRecords /\ Ready("cp") /\ "cp" \in {"touch", "cp"}
    BY <1>3, OldPathIs DEF Copy
  <2> QED
    BY <2>2, <2>5, <2>6, TreeCreatesFile
<1> QED
  BY <1>1, <1>2, <1>3

\* A write outside the tree, in a creation that goes on.
LEMMA OutsideTree ==
  ASSUME NEW L, TreeInv(L), \A x \in L : table'[x] = table[x],
         \A x \in L : \A k, b : Has(table, x, k, b) => content'[b] = content[b]
  PROVE  /\ Whole(table', content', L)
         /\ \A d \in L : \A k, j :
              /\ Live(table', content', d, k, j) <=> Live(table, content, d, k, j)
              /\ Live(table, content, d, k, j) =>
                   EntryAt(table', content', d, k, j) = EntryAt(table, content, d, k, j)
<1>1. Whole(table', content', L)
  BY WholeSame DEF TreeInv
<1>2. ASSUME NEW d \in L
      PROVE  \A k, j : /\ Live(table', content', d, k, j) <=> Live(table, content, d, k, j)
                       /\ Live(table, content, d, k, j) =>
                            EntryAt(table', content', d, k, j) = EntryAt(table, content, d, k, j)
  <2>1. table'[d] = table[d] /\ \A k, b : Has(table, d, k, b) => content'[b] = content[b]
    OBVIOUS
  <2> QED
    BY <2>1, LiveSame
<1> QED
  BY <1>1, <1>2

\* What was found is found again when no entry has gone.
LEMMA FindKept ==
  ASSUME Typed, Typed', NEW L, TreeInv(L), mounted, op.call # "unmount", cwd' = cwd,
         NEW M, Whole(table', content', M), L \subseteq M,
         \A d \in L : \A k, j : Live(table, content, d, k, j) =>
           /\ Live(table', content', d, k, j)
           /\ EntryAt(table', content', d, k, j) = EntryAt(table, content, d, k, j),
         NEW names, Len(names) \in Nat, NEW absolute,
         Find([absolute |-> absolute, names |-> names], {}) # 0
  PROVE  Find([absolute |-> absolute, names |-> names], {})' =
           Find([absolute |-> absolute, names |-> names], {})
<1> DEFINE d == IF absolute THEN RootInode ELSE cwd.inode
<1>1. d \in L /\ Whole(table, content, L) /\ 0 \notin L
      /\ table \in Tables /\ content \in Stores /\ table' \in Tables /\ content' \in Stores
  BY SizesOfDrive DEF TreeInv, Where, Whole, Kinds, Typed, StateType
<1>2. /\ Find([absolute |-> absolute, names |-> names], {}) = Walk(table, content, d, names, {})
      /\ Find([absolute |-> absolute, names |-> names], {})' = Walk(table', content', d, names, {})
  BY DEF Find, Resolve
<1> HIDE DEF d
<1>3. EntriesStay(table, content, table', content', L, 0)
  BY <1>1 DEF EntriesStay
<1>4. SameLookups(table, content, {}, table', content', {}, L, 0)
  <2>1. L \ {0} \subseteq M
    OBVIOUS
  <2> QED
    BY <1>1, <1>3, <2>1, LookupsStay
<1> QED
  BY <1>1, <1>2, <1>4, WalkKept

\* A step that changes neither the inodes of the tree nor their blocks.
LEMMA TreeUntouched ==
  ASSUME NEW L, TreeInv(L), mounted, op.call # "unmount", UNCHANGED <<fsVars, diskCopy, session>>,
         \A x \in L : table'[x] = table[x],
         \A x \in L : \A k, b : Has(table, x, k, b) => content'[b] = content[b],
         dirty', Trusted(session) => \A x \in L \ Unmarked(op') : MarkedInode(mem', table, x),
         OpOK(L)'
  PROVE  TreeInv(L)'
<1>0. mounted' /\ session' = session /\ snapshot' = snapshot /\ cwd' = cwd /\ diskCopy' = diskCopy
  BY DEF fsVars
<1>1. Whole(table', content', L)
  BY OutsideTree
<1>2. Marks(L)'
  <2>1. \A x \in L : MarkedInode(mem', table, x) => MarkedInode(mem', table', x)
    BY DEF MarkedInode, Has
  <2>2. ASSUME Trusted(session)
        PROVE  (\A x \in L \ Unmarked(op') : MarkedInode(mem', table', x)) /\ snapshot = FreshTable
    BY <2>1, <2>2 DEF TreeInv, Marks
  <2> QED
    BY <1>0, <2>2 DEF Marks
<1>3. Where(L)'
  BY <1>0 DEF TreeInv, Where
<1>4. Between'
  BY <1>0 DEF TreeInv, Between
<1> QED
  BY <1>1, <1>2, <1>3, <1>4 DEF TreeInv

\* What a creation has in hand.
LEMMA InHand ==
  ASSUME NEW L, TreeInv(L), op.pc \in Creating
  PROVE  /\ mounted /\ Trusted(session) /\ dirty
         /\ op.call \in {"create_file", "create_directory"} /\ op.call # "unmount"
         /\ op.inode \in Inodes \ L /\ InodeBit(op.inode) \in mem.bits
         /\ op.parent \in L
         /\ \A k, j : Live(table, content, op.parent, k, j) =>
              EntryAt(table, content, op.parent, k, j).name # Last(op.path.names)
         /\ op.copy => op.call = "create_file" /\ ParentOfNew(op.path, {}) = op.parent
         /\ op.call = "create_directory" => Spare(op.block, L)
         /\ op.call = "create_directory" /\ op.pc # "dots" => content[op.block] = DotsOf(op.inode)
         /\ op.pc \in {"add_entry", "entry_block", "parent_inode"} => table[op.inode] = NewInode
         /\ op.pc \in {"entry_block", "parent_inode"} =>
              /\ Spare(op.grown, L) /\ table[op.parent].type = "directory"
              /\ op.call = "create_directory" => op.grown # op.block
         /\ op.pc = "parent_inode" => content[op.grown] = EntryBlock(op.parent, <<NewEntry>>)
         /\ \A x \in L : MarkedInode(mem, table, x)
<1>1. CreatingOK(L) /\ Marks(L)
  BY DEF TreeInv, OpOK
<1>2. mounted /\ Trusted(session)
  BY <1>1 DEF CreatingOK
<1>3. Unmarked(op) = {}
  BY DEF Unmarked, Creating, Writing
<1>4. \A x \in L : MarkedInode(mem, table, x)
  BY <1>1, <1>2, <1>3 DEF Marks
<1> QED
  BY <1>1, <1>4 DEF CreatingOK

\* A creation that fails gives back what nothing of the tree has.
LEMMA TreeGivesBack ==
  ASSUME Guarded, Typed, NEW L, TreeInv(L), op.pc \in Creating,
         NEW m, m = mem \/ (op.pc \in {"entry_block", "parent_inode"} /\ m = AfterFreeBlock(mem, op.grown)),
         Fail(m), UNCHANGED <<fsVars, diskCopy, session>>,
         \A x \in L : table'[x] = table[x],
         \A x \in L : \A k, b : Has(table, x, k, b) => content'[b] = content[b]
  PROVE  TreeInv(L)'
<1>1. mem \in Copies /\ table \in Tables /\ L \subseteq Inodes
  BY DEF Typed, StateType, TreeInv, Whole, Kinds
<1>2. /\ mounted /\ Trusted(session) /\ dirty /\ op.call # "unmount"
      /\ op.inode \in Inodes \ L
      /\ op.call = "create_directory" => Spare(op.block, L)
      /\ op.pc \in {"entry_block", "parent_inode"} => Spare(op.grown, L)
      /\ \A x \in L : MarkedInode(mem, table, x)
  BY InHand
<1>3. op' = NoOp /\ mem' = Undo(m) /\ dirty'
  BY <1>2 DEF Fail, Changes
<1> DEFINE Free == {b \in DataBlocks : \A x \in L : \A k : ~Has(table, x, k, b)}
           Kept(c) == c \in Copies /\ \A b \in mem.bits : b \notin Free /\ b # InodeBit(op.inode) => b \in c.bits
<1>4. ASSUME NEW c, Kept(c), NEW b \in Free PROVE Kept(AfterFreeBlock(c, b))
  BY <1>4, FreeBlockKeeps
<1>5. Kept(m)
  <2>1. CASE m = mem
    BY <1>1, <2>1
  <2>2. CASE op.pc \in {"entry_block", "parent_inode"} /\ m = AfterFreeBlock(mem, op.grown)
    <3>1. op.grown \in Free /\ Kept(mem)
      BY <1>1, <1>2, <2>2 DEF Spare
    <3> HIDE DEF Kept, Free
    <3> QED
      BY <1>4, <2>2, <3>1
  <2> QED
    BY <2>1, <2>2
<1>6. Kept(Undo(m))
  <2> DEFINE c == IF op.call = "create_directory" THEN AfterFreeBlock(m, op.block) ELSE m
  <2>1. op.call = "create_directory" => op.block \in Free
    BY <1>2 DEF Spare
  <2>2. Kept(c)
    <3> HIDE DEF Kept, Free
    <3> QED
      BY <1>4, <1>5, <2>1
  <2>3. Undo(m) = AfterFreeInode(c, op.inode)
    BY DEF Undo
  <2> HIDE DEF c
  <2>4. AfterFreeInode(c, op.inode) \in Copies /\ AfterFreeInode(c, op.inode).bits = c.bits \ {InodeBit(op.inode)}
    BY <1>2, <2>2, TakesBack
  <2> QED
    BY <2>2, <2>3, <2>4
<1>7. \A x \in L : MarkedInode(mem', table, x)
  <2>1. SUFFICES ASSUME NEW x \in L
                 PROVE  InodeBit(x) \in mem'.bits /\ \A k, b : Has(table, x, k, b) => b \in mem'.bits
    BY DEF MarkedInode
  <2>2. x \in Inodes /\ x # op.inode /\ MarkedInode(mem, table, x)
    BY <1>1, <1>2
  <2>3. InodeBit(x) \notin Free /\ InodeBit(x) # InodeBit(op.inode)
    <3>1. Free \subseteq FileBlocks
      BY SizesOfDrive
    <3> HIDE DEF Free
    <3> QED
      BY <1>2, <2>2, <3>1, BitsApart
  <2>4. InodeBit(x) \in mem'.bits
    BY <1>3, <1>6, <2>2, <2>3 DEF MarkedInode
  <2>5. ASSUME NEW k, NEW b, Has(table, x, k, b) PROVE b \in mem'.bits
    <3>1. b \in FileBlocks
      BY <1>1, <2>2, <2>5, HasIs
    <3>2. b \notin Free /\ b # InodeBit(op.inode)
      BY <1>2, <2>5, <3>1, BitsApart
    <3>3. b \in mem.bits
      BY <2>2, <2>5 DEF MarkedInode
    <3> QED
      BY <1>3, <1>6, <3>2, <3>3
  <2> QED
    BY <2>4, <2>5
<1>8. OpOK(L)'
  BY <1>3, NoOpOK
<1> QED
  BY <1>2, <1>3, <1>7, <1>8, TreeUntouched

\* A creation that goes on to its next write.
LEMMA CreationGoesOn ==
  ASSUME Guarded, Typed, Typed', NEW L, TreeInv(L), op.pc \in Creating,
         NEW q \in {"new_inode", "add_entry", "parent_inode"}, op' = [op EXCEPT !.pc = q],
         UNCHANGED <<mem, dirty, fsVars, diskCopy, session>>,
         \A x \in L : table'[x] = table[x],
         \A x \in L : \A k, b : Has(table, x, k, b) => content'[b] = content[b],
         op.call = "create_directory" => content'[op.block] = DotsOf(op.inode),
         q # "new_inode" => table'[op.inode] = NewInode,
         q = "parent_inode" => /\ op.pc = "entry_block"
                               /\ content'[op.grown] = EntryBlock(op.parent, <<NewEntry>>)
  PROVE  TreeInv(L)'
<1>1. op \in Ops /\ q \in Creating
  BY DEF Typed, OpType, Creating
<1>2. /\ op'.pc = q /\ op'.call = op.call /\ op'.path = op.path /\ op'.copy = op.copy
      /\ op'.parent = op.parent /\ op'.inode = op.inode /\ op'.block = op.block
      /\ op'.grown = op.grown
  BY <1>1, PcChanged
<1>3. /\ mounted /\ Trusted(session) /\ dirty /\ op.call # "unmount"
      /\ op.call \in {"create_file", "create_directory"}
      /\ op.inode \in Inodes \ L /\ InodeBit(op.inode) \in mem.bits
      /\ op.parent \in L
      /\ op.call = "create_directory" => Spare(op.block, L)
      /\ \A x \in L : MarkedInode(mem, table, x)
  BY InHand
<1>4. mounted' = mounted /\ session' = session /\ cwd' = cwd /\ mem' = mem /\ dirty' = dirty
  BY DEF fsVars
<1>5. /\ Whole(table', content', L)
      /\ \A d \in L : \A k, j :
           /\ Live(table', content', d, k, j) <=> Live(table, content, d, k, j)
           /\ Live(table, content, d, k, j) =>
                EntryAt(table', content', d, k, j) = EntryAt(table, content, d, k, j)
  BY OutsideTree
<1>6. \A k, j : Live(table', content', op.parent, k, j) =>
        EntryAt(table', content', op.parent, k, j).name # Last(op.path.names)
  BY <1>3, <1>5, InHand
<1>7. ASSUME NEW b, Spare(b, L)
      PROVE  b \in DataBlocks /\ b \in mem.bits /\ \A x \in L : \A k : ~Has(table', x, k, b)
  BY <1>7 DEF Spare, Has
<1>8. op.copy => op.call = "create_file" /\ ParentOfNew(op.path, {})' = op.parent
  <2>1. SUFFICES ASSUME op.copy PROVE ParentOfNew(op.path, {})' = op.parent
    BY InHand
  <2>2. ParentOfNew(op.path, {}) = op.parent /\ op.path \in PathRecords /\ op.path.names # <<>>
    BY <1>1, <2>1, InHand DEF Ops, Typed, OpType, CreationType
  <2>3. /\ [op.path EXCEPT !.names = Front(@)] = [absolute |-> op.path.absolute, names |-> Front(op.path.names)]
        /\ Len(Front(op.path.names)) \in Nat
    BY <2>2, PathIs, FrontIs
  <2>4. Find([absolute |-> op.path.absolute, names |-> Front(op.path.names)], {}) = op.parent
        /\ op.parent # 0
    BY <1>3, <2>2, <2>3, SizesOfDrive DEF ParentOfNew, TreeInv, Whole, Kinds
  <2>5. L \subseteq L /\ \A d \in L : \A k, j : Live(table, content, d, k, j) =>
           /\ Live(table', content', d, k, j)
           /\ EntryAt(table', content', d, k, j) = EntryAt(table, content, d, k, j)
    BY <1>5
  <2>6. Find([absolute |-> op.path.absolute, names |-> Front(op.path.names)], {})' = op.parent
    BY <1>3, <1>4, <1>5, <2>3, <2>4, <2>5, FindKept
  <2>7. [op.path EXCEPT !.names = Front(@)]' = [absolute |-> op.path.absolute, names |-> Front(op.path.names)]
    BY <1>2, <2>3
  <2> QED
    BY <1>2, <2>6, <2>7 DEF ParentOfNew
<1>9. op'.call = "create_directory" => Spare(op.block, L)'
  BY <1>2, <1>3, <1>4, <1>7 DEF Spare
<1>10. NewInode' = NewInode /\ NewEntry' = NewEntry
  BY <1>2 DEF NewInode, NewEntry
<1>11. op'.pc = "parent_inode" =>
         /\ Spare(op.grown, L)' /\ table'[op.parent].type = "directory"
         /\ op.call = "create_directory" => op.grown # op.block
  <2>1. SUFFICES ASSUME q = "parent_inode"
                 PROVE  /\ Spare(op.grown, L)' /\ table'[op.parent].type = "directory"
                        /\ op.call = "create_directory" => op.grown # op.block
    BY <1>2
  <2>2. Spare(op.grown, L) /\ table[op.parent].type = "directory"
        /\ (op.call = "create_directory" => op.grown # op.block)
    BY <2>1, InHand
  <2> QED
    BY <1>2, <1>3, <1>4, <1>7, <2>2 DEF Spare
<1>12. CreatingOK(L)'
  BY <1>2, <1>3, <1>4, <1>6, <1>8, <1>9, <1>10, <1>11 DEF CreatingOK
<1>13. OpOK(L)' /\ Unmarked(op') = {}
  BY <1>1, <1>2, <1>3, <1>12 DEF OpOK, OpenOK, WritingOK, ClearingOK, SavingOK, Writing, Creating, Unmarked
<1> QED
  BY <1>3, <1>4, <1>13, TreeUntouched

\* What is written into a block that the tree has not, or into an inode outside it.
LEMMA PutOutside ==
  ASSUME Typed, NEW L, Kinds(table, L)
  PROVE  /\ \A b, c, w : PutContent(b, c, w) /\ (\A x \in L : \A k : ~Has(table, x, k, b)) =>
              \A x \in L : \A k, a : Has(table, x, k, a) => content'[a] = content[a]
         /\ \A b \in FileBlocks : \A c, w : PutContent(b, c, w) /\ w # "lost" => content'[b] = c
         /\ \A b, c, w, a : PutContent(b, c, w) /\ a # b => content'[a] = content[a]
         /\ \A i, n, w : PutInode(i, n, w) /\ i \notin L => \A x \in L : table'[x] = table[x]
         /\ \A i \in Inodes : \A n, w : PutInode(i, n, w) /\ w # "lost" => table'[i] = n
         /\ \A i, n, w, j : PutInode(i, n, w) /\ j # i => table'[j] = table[j]
<1>1. DOMAIN content = FileBlocks /\ DOMAIN table = Inodes
  BY DEF Typed, StateType, Stores, Tables
<1>2. \A b, c, w, a : PutContent(b, c, w) /\ a # b => content'[a] = content[a]
  BY DEF PutContent
<1>3. \A b \in FileBlocks : \A c, w : PutContent(b, c, w) /\ w # "lost" => content'[b] = c
  BY <1>1 DEF PutContent
<1>4. \A i, n, w, j : PutInode(i, n, w) /\ j # i => table'[j] = table[j]
  BY DEF PutInode
<1>5. \A i \in Inodes : \A n, w : PutInode(i, n, w) /\ w # "lost" => table'[i] = n
  BY <1>1 DEF PutInode
<1>6. ASSUME NEW b, NEW c, NEW w, PutContent(b, c, w), \A x \in L : \A k : ~Has(table, x, k, b),
             NEW x \in L, NEW k, NEW a, Has(table, x, k, a)
      PROVE  content'[a] = content[a]
  <2>1. a # b
    BY <1>6
  <2> QED
    BY <1>2, <1>6, <2>1
<1>7. ASSUME NEW i, NEW n, NEW w, PutInode(i, n, w), i \notin L, NEW x \in L
      PROVE  table'[x] = table[x]
  <2>1. x # i
    BY <1>7
  <2> QED
    BY <1>4, <1>7, <2>1
<1> QED
  BY <1>2, <1>3, <1>4, <1>5, <1>6, <1>7

LEMMA TreeDots ==
  ASSUME Guarded, Typed, Typed', NEW L, TreeInv(L), WriteDots
  PROVE  TreeInv(L)'
<1>1. PICK w \in Outcomes :
        /\ PutContent(op.block, DotsOf(op.inode), w) /\ Wrote(w)
        /\ IF w = "done" THEN op' = [op EXCEPT !.pc = "new_inode"] /\ UNCHANGED <<mem, dirty>>
                         ELSE Fail(mem)
  BY DEF WriteDots
<1>2. op.pc = "dots" /\ op.pc \in Creating /\ UNCHANGED <<fsVars, diskCopy, table, session>>
  BY DEF WriteDots, Creating
<1>3. op.call = "create_directory" /\ Spare(op.block, L) /\ op.block \in FileBlocks
  <2>1. op.call = "create_directory"
    BY <1>2 DEF Typed, OpType, CreationType
  <2> QED
    BY <1>2, <2>1, InHand, SizesOfDrive DEF Spare
<1>4. Kinds(table, L)
  BY DEF TreeInv, Whole
<1>5. \A x \in L : table'[x] = table[x]
  BY <1>2
<1>6. \A x \in L : \A k, b : Has(table, x, k, b) => content'[b] = content[b]
  BY <1>1, <1>3, <1>4, PutOutside DEF Spare
<1>7. CASE w = "done"
  <2>1. content'[op.block] = DotsOf(op.inode)
    BY <1>1, <1>3, <1>4, <1>7, PutOutside
  <2>2. op' = [op EXCEPT !.pc = "new_inode"] /\ UNCHANGED <<mem, dirty, fsVars, diskCopy, session>>
    BY <1>1, <1>2, <1>7
  <2>3. "new_inode" \in {"new_inode", "add_entry", "parent_inode"}
    OBVIOUS
  <2> QED
    BY <1>2, <1>5, <1>6, <2>1, <2>2, <2>3, CreationGoesOn
<1>8. CASE w # "done"
  BY <1>1, <1>2, <1>5, <1>6, <1>8, TreeGivesBack
<1> QED
  BY <1>7, <1>8

LEMMA TreeNewInode ==
  ASSUME Guarded, Typed, Typed', NEW L, TreeInv(L), WriteNewInode
  PROVE  TreeInv(L)'
<1>1. PICK w \in Outcomes :
        /\ PutInode(op.inode, NewInode, w) /\ Wrote(w)
        /\ IF w = "done" THEN op' = [op EXCEPT !.pc = "add_entry"] /\ UNCHANGED <<mem, dirty>>
                         ELSE Fail(mem)
  BY DEF WriteNewInode
<1>2. op.pc = "new_inode" /\ op.pc \in Creating /\ UNCHANGED <<fsVars, diskCopy, content, session>>
  BY DEF WriteNewInode, Creating
<1>3. op.inode \in Inodes /\ op.inode \notin L
  BY <1>2, InHand
<1>4. Kinds(table, L)
  BY DEF TreeInv, Whole
<1>5. \A x \in L : table'[x] = table[x]
  BY <1>1, <1>3, <1>4, PutOutside
<1>6. \A x \in L : \A k, b : Has(table, x, k, b) => content'[b] = content[b]
  BY <1>2
<1>7. CASE w = "done"
  <2>1. table'[op.inode] = NewInode
    BY <1>1, <1>3, <1>4, <1>7, PutOutside
  <2>2. op' = [op EXCEPT !.pc = "add_entry"] /\ UNCHANGED <<mem, dirty, fsVars, diskCopy, session>>
    BY <1>1, <1>2, <1>7
  <2>3. "add_entry" \in {"new_inode", "add_entry", "parent_inode"}
    OBVIOUS
  <2>4. op.call = "create_directory" => content'[op.block] = DotsOf(op.inode)
    BY <1>2, InHand
  <2> QED
    BY <1>2, <1>5, <1>6, <2>1, <2>2, <2>3, <2>4, CreationGoesOn
<1>8. CASE w # "done"
  BY <1>1, <1>2, <1>5, <1>6, <1>8, TreeGivesBack
<1> QED
  BY <1>7, <1>8

LEMMA TreeEntryBlock ==
  ASSUME Guarded, Typed, Typed', NEW L, TreeInv(L), WriteEntryBlock
  PROVE  TreeInv(L)'
<1> DEFINE x == EntryBlock(op.parent, <<NewEntry>>)
<1>1. PICK w \in Outcomes :
        /\ PutContent(op.grown, x, w) /\ Wrote(w)
        /\ IF w = "done" THEN op' = [op EXCEPT !.pc = "parent_inode"] /\ UNCHANGED <<mem, dirty>>
                         ELSE Fail(AfterFreeBlock(mem, op.grown))
  BY DEF WriteEntryBlock
<1> HIDE DEF x
<1>2. op.pc = "entry_block" /\ op.pc \in Creating /\ UNCHANGED <<fsVars, diskCopy, table, session>>
  BY DEF WriteEntryBlock, Creating
<1>3. Spare(op.grown, L) /\ op.grown \in FileBlocks
      /\ (op.call = "create_directory" => op.grown # op.block)
  BY <1>2, InHand, SizesOfDrive DEF Spare
<1>4. Kinds(table, L)
  BY DEF TreeInv, Whole
<1>5. \A i \in L : table'[i] = table[i]
  BY <1>2
<1>6. \A i \in L : \A k, b : Has(table, i, k, b) => content'[b] = content[b]
  BY <1>1, <1>3, <1>4, PutOutside DEF Spare
<1>7. CASE w = "done"
  <2>1. content'[op.grown] = EntryBlock(op.parent, <<NewEntry>>)
    BY <1>1, <1>3, <1>4, <1>7, PutOutside DEF x
  <2>2. op' = [op EXCEPT !.pc = "parent_inode"] /\ UNCHANGED <<mem, dirty, fsVars, diskCopy, session>>
    BY <1>1, <1>2, <1>7
  <2>3. "parent_inode" \in {"new_inode", "add_entry", "parent_inode"}
    OBVIOUS
  <2>4. op.call = "create_directory" => content'[op.block] = DotsOf(op.inode)
    <3>1. op.call = "create_directory" => content'[op.block] = content[op.block]
      BY <1>1, <1>3 DEF PutContent
    <3> QED
      BY <1>2, <3>1, InHand
  <2>5. table'[op.inode] = NewInode
    BY <1>2, InHand
  <2> QED
    BY <1>2, <1>5, <1>6, <2>1, <2>2, <2>3, <2>4, <2>5, CreationGoesOn
<1>8. CASE w # "done"
  <2>1. Fail(AfterFreeBlock(mem, op.grown)) /\ op.pc \in {"entry_block", "parent_inode"}
    BY <1>1, <1>2, <1>8
  <2> QED
    BY <1>2, <1>5, <1>6, <2>1, TreeGivesBack
<1> QED
  BY <1>7, <1>8

LEMMA TreeRefuses ==
  ASSUME Guarded, Typed, NEW L, TreeInv(L), RefuseEntry
  PROVE  TreeInv(L)'
<1>1. op.pc \in Creating /\ Fail(mem) /\ UNCHANGED <<fsVars, diskVars, session>>
  BY DEF RefuseEntry, Creating
<1>2. UNCHANGED <<fsVars, diskCopy, session>> /\ table' = table /\ content' = content
  BY <1>1 DEF diskVars
<1> QED
  BY <1>1, <1>2, TreeGivesBack

LEMMA TreeGrows ==
  ASSUME Guarded, Typed, NEW L, TreeInv(L), GrowDirectory
  PROVE  TreeInv(L)'
<1> DEFINE g == AllocatedBlock(mem)
<1>1. /\ g # 0 /\ op' = [op EXCEPT !.pc = "entry_block", !.grown = g]
      /\ Changes(AfterAllocateBlock(mem))
      /\ UNCHANGED <<fsVars, diskVars, session>>
      /\ op.pc = "add_entry" /\ Parent.type = "directory"
  BY DEF GrowDirectory
<1>2. mem \in Copies /\ op \in Ops /\ op.pc \in Creating /\ table \in Tables /\ L \subseteq Inodes
  BY <1>1 DEF Typed, StateType, OpType, Creating, TreeInv, Whole, Kinds
<1>3. g \in DataBlocks /\ g \notin mem.bits
      /\ AfterAllocateBlock(mem).bits = mem.bits \cup {g}
  BY <1>1, <1>2, GivesBlock
<1>4. mem'.bits = mem.bits \cup {g}
  BY <1>1, <1>3 DEF Changes
<1> HIDE DEF g
<1>5. /\ op'.pc = "entry_block" /\ op'.grown = g /\ op'.call = op.call /\ op'.copy = op.copy
      /\ op'.path = op.path /\ op'.parent = op.parent /\ op'.inode = op.inode
      /\ op'.block = op.block
  BY <1>1, <1>2, <1>3 DEF Ops, Creating
<1>6. /\ mounted /\ Trusted(session) /\ dirty /\ op.call # "unmount"
      /\ op.call \in {"create_file", "create_directory"}
      /\ op.inode \in Inodes \ L /\ InodeBit(op.inode) \in mem.bits
      /\ op.parent \in L
      /\ op.call = "create_directory" => Spare(op.block, L)
      /\ \A x \in L : MarkedInode(mem, table, x)
  BY <1>2, InHand
<1>7. /\ table' = table /\ content' = content /\ mounted' = mounted /\ session' = session
      /\ cwd' = cwd /\ dirty'
  BY <1>1, <1>6 DEF fsVars, diskVars, Changes
<1>8. ParentOfNew(op.path, {})' = ParentOfNew(op.path, {})
  BY <1>5, <1>7 DEF ParentOfNew, Find
<1>9. op.call = "create_directory" => Spare(op.block, L)' /\ g # op.block
  BY <1>3, <1>4, <1>5, <1>6, <1>7 DEF Spare
<1>10. Spare(op.grown, L)' /\ table'[op.parent].type = "directory"
  BY <1>1, <1>3, <1>4, <1>5, <1>6, <1>7 DEF Spare, Parent, MarkedInode
<1>11. NewInode' = NewInode
  BY <1>5 DEF NewInode
<1>12. CreatingOK(L)'
  <2>1. /\ \A k, j : Live(table, content, op.parent, k, j) =>
             EntryAt(table, content, op.parent, k, j).name # Last(op.path.names)
        /\ op.copy => op.call = "create_file" /\ ParentOfNew(op.path, {}) = op.parent
        /\ op.call = "create_directory" => content[op.block] = DotsOf(op.inode)
        /\ table[op.inode] = NewInode
    BY <1>1, <1>2, InHand
  <2> QED
    BY <1>4, <1>5, <1>6, <1>7, <1>8, <1>9, <1>10, <1>11, <2>1 DEF CreatingOK
<1>13. OpOK(L)' /\ Unmarked(op') = {}
  BY <1>5, <1>6, <1>12 DEF OpOK, OpenOK, WritingOK, ClearingOK, SavingOK, Writing, Unmarked
<1>14. \A x \in L : MarkedInode(mem', table, x)
  BY <1>4, <1>6, MarkedStill
<1> QED
  BY <1>1, <1>6, <1>7, <1>13, <1>14, InMemory

\* A creation is through: the inode belongs to the tree; cp finds it again.
LEMMA CreationSucceeds ==
  ASSUME Guarded, Typed, Typed', NEW L, TreeInv(L), op.pc \in {"add_entry", "parent_inode"}, Succeed,
         UNCHANGED <<mem, dirty, fsVars, diskCopy, session>>,
         NEW M, M = L \cup {op.inode}, Whole(table', content', M),
         \A d \in L : \A k, j : Live(table, content, d, k, j) =>
           /\ Live(table', content', d, k, j)
           /\ EntryAt(table', content', d, k, j) = EntryAt(table, content, d, k, j),
         \A x \in L : table'[x].type = table[x].type, table'[op.inode] = NewInode,
         \E k, j : Live(table', content', op.parent, k, j) /\ EntryAt(table', content', op.parent, k, j) = NewEntry,
         \A x \in M : MarkedInode(mem, table', x)
  PROVE  TreeInv(M)'
<1>1. op.pc \in Creating
  BY DEF Creating
<1>2. /\ mounted /\ Trusted(session) /\ dirty /\ op.call # "unmount"
      /\ op.inode \in Inodes \ L /\ op.parent \in L
      /\ op.copy => op.call = "create_file" /\ ParentOfNew(op.path, {}) = op.parent
  BY <1>1, InHand
<1>3. mounted' = mounted /\ session' = session /\ cwd' = cwd /\ mem' = mem /\ dirty' = dirty
      /\ snapshot' = snapshot /\ diskCopy' = diskCopy
  BY DEF fsVars
<1>4. /\ op'.pc \in {"none", "open"}
      /\ op.copy => /\ op'.call = "open" /\ op'.pc = "open" /\ op'.path = op.path
                    /\ op'.inode = op.inode
      /\ ~op.copy => op' = NoOp
  BY SucceedType
<1>5. Marks(M)'
  <2>1. Unmarked(op') = {}
    BY <1>4 DEF Unmarked, Writing
  <2>2. snapshot = FreshTable
    BY <1>2 DEF TreeInv, Marks
  <2> QED
    BY <1>2, <1>3, <2>1, <2>2 DEF Marks
<1>6. Where(M)'
  BY <1>2, <1>3 DEF TreeInv, Where
<1>7. Between'
  BY <1>2, <1>3 DEF TreeInv, Between
<1>8. OpOK(M)'
  <2>1. CASE ~op.copy
    BY <1>4, <2>1, NoOpOK
  <2>2. CASE op.copy
    <3>1. op.path \in PathRecords /\ op.path.names # <<>> /\ op.path.names \in Seq(Names)
      BY <1>1, PathIs DEF Typed, OpType, CreationType, Ops
    <3> DEFINE a == op.path.absolute
               names == op.path.names
               d == IF a THEN RootInode ELSE cwd.inode
    <3>2. /\ [op.path EXCEPT !.names = Front(@)] = [absolute |-> a, names |-> Front(names)]
          /\ Len(Front(names)) \in Nat
      BY <3>1, PathIs, FrontIs
    <3>3. Find([absolute |-> a, names |-> Front(names)], {}) = op.parent /\ op.parent # 0
      BY <1>2, <2>2, <3>2, SizesOfDrive DEF ParentOfNew, TreeInv, Whole, Kinds
    <3>4. L \subseteq M
      OBVIOUS
    <3> HIDE DEF a, names
    <3>5. Find([absolute |-> a, names |-> Front(names)], {})' =
            Find([absolute |-> a, names |-> Front(names)], {})
      <4>1. \A aa, nn : Len(nn) \in Nat /\ Find([absolute |-> aa, names |-> nn], {}) # 0 =>
              Find([absolute |-> aa, names |-> nn], {})' = Find([absolute |-> aa, names |-> nn], {})
        BY <1>2, <1>3, <3>4, FindKept
      <4>2. a' = a /\ names' = names
        BY <1>4, <2>2 DEF a, names
      <4> QED
        BY <3>2, <3>3, <4>1, <4>2
    <3>6. Walk(table', content', d, Front(names), {}) = op.parent
      <4>1. a' = a /\ names' = names
        BY <1>4, <2>2 DEF a, names
      <4> QED
        BY <1>3, <3>3, <3>5, <4>1 DEF Find, Resolve
    <3>7. Find(op.path, {})' = Walk(table', content', d, names, {})
      BY <1>3, <1>4, <2>2 DEF Find, Resolve, a, names
    <3>8. d \in Inodes /\ names \in Seq(Names) /\ names # <<>> /\ table' \in Tables /\ content' \in Stores
      BY <3>1, SizesOfDrive DEF Typed, StateType, names
    <3> HIDE DEF d
    <3>9. Walk(table', content', d, names, {}) = Lookup(table', content', op.parent, Last(names), {})
      BY <3>3, <3>6, <3>8, WalkByLast
    <3>10. Lookup(table', content', op.parent, Last(names), {}) = op.inode
      <4>1. PICK k, j : Live(table', content', op.parent, k, j)
                        /\ EntryAt(table', content', op.parent, k, j) = NewEntry
        OBVIOUS
      <4>2. Shows(table', content', op.parent, k, j, Last(names), {})
        BY <4>1 DEF Shows, NewEntry, names
      <4>3. op.parent \in M
        BY <1>2
      <4>4. NewEntry.inode = op.inode
        BY DEF NewEntry
      <4>5. Whole(table', content', M)
        OBVIOUS
      <4>6. Lookup(table', content', op.parent, Last(names), {}) = EntryAt(table', content', op.parent, k, j).inode
        BY <3>8, <4>2, <4>3, <4>5, LookupInTree
      <4> QED
        BY <4>1, <4>4, <4>6
    <3>11. Find(op.path, {})' = op.inode
      BY <3>7, <3>9, <3>10
    <3>12. table'[op.inode].type = "file"
      BY <1>2, <2>2 DEF NewInode
    <3>13. OpenOK(M)'
      BY <1>2, <1>3, <1>4, <2>2, <3>11, <3>12 DEF OpenOK
    <3> QED
      BY <1>4, <2>2, <3>13 DEF OpOK, CreatingOK, WritingOK, ClearingOK, SavingOK, Creating, Writing
  <2> QED
    BY <2>1, <2>2
<1> QED
  BY <1>5, <1>6, <1>7, <1>8 DEF TreeInv

LEMMA NewlyMadeInHand ==
  ASSUME Typed, NEW L, TreeInv(L), op.pc \in {"add_entry", "parent_inode"}
  PROVE  /\ NewlyMade(table, content, op.inode, L)
         /\ table[op.inode].type = NewInode.type
         /\ MarkedInode(mem, table, op.inode)
         /\ NewEntry.inode = op.inode /\ NewEntry.type = NewInode.type
         /\ NewEntry.name = Last(op.path.names)
<1>1. op.pc \in Creating
  BY DEF Creating
<1>2. /\ op.inode \in Inodes \ L /\ InodeBit(op.inode) \in mem.bits
      /\ table[op.inode] = NewInode
      /\ op.call \in {"create_file", "create_directory"}
      /\ op.call = "create_directory" => Spare(op.block, L) /\ content[op.block] = DotsOf(op.inode)
  BY <1>1, InHand
<1>3. CASE op.call = "create_file"
  <2>1. table[op.inode].type = "file" /\ table[op.inode].blocks = <<>>
    BY <1>2, <1>3 DEF NewInode
  <2>2. \A k, b : ~Has(table, op.inode, k, b)
    BY <2>1 DEF Has
  <2> QED
    BY <1>2, <2>1, <2>2 DEF NewlyMade, MarkedInode, NewEntry
<1>4. CASE op.call = "create_directory"
  <2>1. table[op.inode].type = "directory" /\ table[op.inode].blocks = <<op.block>>
    BY <1>2, <1>4 DEF NewInode
  <2>2. \A k, b : Has(table, op.inode, k, b) <=> k = 1 /\ b = op.block
    BY <2>1 DEF Has
  <2> QED
    BY <1>2, <1>4, <2>1, <2>2 DEF NewlyMade, MarkedInode, NewEntry, Spare
<1> QED
  BY <1>2, <1>3, <1>4

\* The entry is made, with which the new inode comes into the tree; or the
\* creation gives back what it had taken, and the drive is as it was.
EntryMade(L, M) ==
  /\ M = L \cup {op.inode} /\ Succeed /\ mem' = mem
  /\ \E k, j : /\ Live(table', content', op.parent, k, j)
               /\ EntryAt(table', content', op.parent, k, j) = NewEntry
  /\ table'[op.inode] = NewInode
  /\ \A x \in L : /\ table'[x].type = table[x].type
                  /\ x # op.parent => table'[x] = table[x]
                  /\ \A k, b : Has(table, x, k, b) => Has(table', x, k, b)
  /\ op.pc = "parent_inode" => \E k : Has(table', op.parent, k, op.grown)
EntryLost(L, M) ==
  /\ M = L /\ UNCHANGED <<table, content>>
  /\ Fail(IF op.pc = "parent_inode" THEN AfterFreeBlock(mem, op.grown) ELSE mem)

LEMMA TreeAppends ==
  ASSUME Guarded, Typed, Typed', NEW L, TreeInv(L), AppendEntry
  PROVE  \E M : TreeInv(M)' /\ M \in {L, L \cup {op.inode}}
                /\ EntriesStay(table, content, table', content', L, 0)
                /\ (EntryMade(L, M) \/ EntryLost(L, M))
<1>1. op.pc = "add_entry" /\ op.pc \in Creating /\ Parent.type = "directory"
      /\ UNCHANGED <<fsVars, diskCopy, table, session>>
  BY DEF AppendEntry, Creating
<1>2. op.call \in {"create_file", "create_directory"} /\ op.parent \in L /\ op.inode \in Inodes \ L
      /\ \A x \in L : MarkedInode(mem, table, x)
  BY <1>1, InHand
<1> DEFINE a == Lowest(Roomy({}))
           b == Parent.blocks[a]
<1>3. PICK w \in Outcomes :
        /\ Roomy({}) # {}
        /\ PutContent(b, [content[b] EXCEPT !.list = WithEntry(@)], w)
        /\ IF w = "done" THEN Succeed /\ UNCHANGED <<mem, dirty>> ELSE Fail(mem)
  <2>1. Unreadable(op.call) = {{}}
    BY <1>2, OutcomesAre
  <2> QED
    BY <2>1 DEF AppendEntry
<1>4. /\ a \in DOMAIN Parent.blocks /\ b \in FileBlocks /\ content[b].kind = "entries"
      /\ Len(content[b].list) < EntriesPerBlock /\ content[b] \in BlockLists
  BY <1>1, <1>3, RoomyIs
<1>5. Has(table, op.parent, a, b)
  BY <1>4 DEF Has, Parent
<1> HIDE DEF a, b
<1>6. Whole(table, content, L) /\ Kinds(table, L)
  BY DEF TreeInv, Whole
<1>7. CASE w = "done"
  <2> DEFINE y == [content[b] EXCEPT !.list = WithEntry(@)]
             n == Len(content[b].list)
  <2>1. NewEntry \in EntryRecords
    BY <1>1, CreatingIs
  <2>2. y.kind = content[b].kind /\ y.of = content[b].of /\ y.list = Append(content[b].list, NewEntry)
    BY <1>4, <2>1, EntryAdded DEF WithEntry
  <2>3. content'[b] = y
    BY <1>3, <1>4, <1>6, <1>7, PutOutside
  <2>4. \A c : c # b => content'[c] = content[c]
    BY <1>3 DEF PutContent
  <2> HIDE DEF y
  <2>5. content'[b].kind = "entries" /\ content'[b].of = content[b].of
        /\ content'[b].list = Append(content[b].list, NewEntry)
    BY <1>4, <2>2, <2>3
  <2>6. /\ NewlyMade(table, content, op.inode, L) /\ MarkedInode(mem, table, op.inode)
        /\ NewEntry.inode = op.inode /\ table[op.inode].type = NewEntry.type
        /\ NewEntry.name = Last(op.path.names) /\ table[op.inode] = NewInode
    BY <1>1, NewlyMadeInHand, InHand
  <2>7. \A k, j : Live(table, content, op.parent, k, j) =>
          EntryAt(table, content, op.parent, k, j).name # NewEntry.name
    BY <1>1, <2>6, InHand
  <2>8. Whole(table, content', L \cup {op.inode})
    <3>1. \A x \in L \cup {op.inode} : \A k, c : Has(table, x, k, c) /\ c # b => content'[c] = content[c]
      BY <2>4
    <3>2. op.parent \in L /\ Whole(table, content, L) /\ NewlyMade(table, content, op.inode, L)
          /\ Has(table, op.parent, a, b)
      BY <1>2, <1>5, <1>6, <2>6
    <3>3. content[b] \in BlockLists /\ content[b].kind = "entries"
          /\ NewEntry.inode = op.inode /\ table[op.inode].type = NewEntry.type
      BY <1>4, <2>6
    <3> QED
      BY <2>5, <2>7, <3>1, <3>2, <3>3, WholeAppended
  <2>9. /\ n \in Nat /\ EntriesIn(content[b]) = content[b].list
        /\ EntriesIn(content'[b]) = Append(content[b].list, NewEntry)
        /\ DOMAIN content[b].list = 1 .. n
        /\ DOMAIN Append(content[b].list, NewEntry) = 1 .. n + 1
        /\ Append(content[b].list, NewEntry)[n + 1] = NewEntry
        /\ \A j \in 1 .. n : Append(content[b].list, NewEntry)[j] = content[b].list[j]
    <3>1. content[b].list \in Seq(EntryRecords)
      BY <1>4 DEF BlockLists, Contents
    <3> QED
      BY <1>4, <2>5, <3>1 DEF EntriesIn
  <2> HIDE DEF n
  <2>10. ASSUME NEW d \in L, NEW k, NEW j, Live(table, content, d, k, j)
         PROVE  /\ Live(table, content', d, k, j)
                /\ EntryAt(table, content', d, k, j) = EntryAt(table, content, d, k, j)
    <3>1. CASE table[d].blocks[k] # b
      BY <2>4, <2>10, <3>1 DEF Live, EntryAt
    <3>2. CASE table[d].blocks[k] = b
      <4>1. j \in 1 .. n
        BY <2>9, <2>10, <3>2 DEF Live
      <4>2. EntriesIn(content'[b])[j] = EntriesIn(content[b])[j] /\ j \in DOMAIN EntriesIn(content'[b])
        BY <2>9, <4>1
      <4> QED
        BY <2>10, <3>2, <4>2 DEF Live, EntryAt
    <3> QED
      BY <3>1, <3>2
  <2>11. Live(table, content', op.parent, a, n + 1)
         /\ EntryAt(table, content', op.parent, a, n + 1) = NewEntry
    <3>1. table[op.parent].blocks[a] = b /\ a \in DOMAIN table[op.parent].blocks
          /\ table[op.parent].type = "directory"
      BY <1>1, <1>5 DEF Has, Parent
    <3>2. NewEntry.inode # 0
      BY <1>2, <2>6, SizesOfDrive
    <3> QED
      BY <2>9, <3>1, <3>2 DEF Live, EntryAt
  <2>12. \A x \in L \cup {op.inode} : MarkedInode(mem, table, x)
    BY <1>2, <2>6
  <2>13. table' = table /\ Succeed /\ UNCHANGED <<mem, dirty, fsVars, diskCopy, session>>
    BY <1>1, <1>3, <1>7
  <2>14. PICK M : M = L \cup {op.inode}
    OBVIOUS
  <2>15. Whole(table', content', M) /\ \A x \in M : MarkedInode(mem, table', x)
    BY <2>8, <2>12, <2>13, <2>14
  <2>16. /\ \A d \in L : \A k, j : Live(table, content, d, k, j) =>
              /\ Live(table', content', d, k, j)
              /\ EntryAt(table', content', d, k, j) = EntryAt(table, content, d, k, j)
         /\ \A x \in L : table'[x].type = table[x].type
         /\ table'[op.inode] = NewInode
    BY <2>6, <2>10, <2>13
  <2>17. \E k, j : Live(table', content', op.parent, k, j) /\ EntryAt(table', content', op.parent, k, j) = NewEntry
    BY <2>11, <2>13
  <2>18. op.pc \in {"add_entry", "parent_inode"}
    BY <1>1
  <2>19. TreeInv(M)'
    BY <2>13, <2>14, <2>15, <2>16, <2>17, <2>18, CreationSucceeds
  <2>20. EntriesStay(table, content, table', content', L, 0)
    BY <1>6, <2>16, SizesOfDrive DEF EntriesStay, Kinds
  <2>21. /\ \A x \in L : table'[x] = table[x] /\ \A k, c : Has(table, x, k, c) => Has(table', x, k, c)
         /\ op.pc # "parent_inode"
    BY <1>1, <2>13
  <2>22. EntryMade(L, M)
    BY <2>13, <2>14, <2>16, <2>17, <2>21 DEF EntryMade
  <2> QED
    BY <2>14, <2>19, <2>20, <2>22
<1>8. CASE w # "done"
  <2>1. w = "lost"
    BY <1>2, <1>8, OutcomesAre
  <2>2. content' = content
    BY <1>3, <2>1 DEF PutContent
  <2>3. Fail(mem) /\ \A x \in L : table'[x] = table[x]
    BY <1>1, <1>3, <1>8
  <2>4. \A x \in L : \A k, c : Has(table, x, k, c) => content'[c] = content[c]
    BY <2>2
  <2>5. TreeInv(L)'
    BY <1>1, <2>3, <2>4, TreeGivesBack
  <2>6. EntriesStay(table, content, table', content', L, 0)
    BY <1>1, <1>6, <2>2, SizesOfDrive DEF EntriesStay, Kinds
  <2>7. EntryLost(L, L)
    BY <1>1, <2>2, <2>3 DEF EntryLost
  <2> QED
    BY <2>5, <2>6, <2>7
<1> QED
  BY <1>7, <1>8

LEMMA TreeExtends ==
  ASSUME Guarded, Typed, Typed', NEW L, TreeInv(L), WriteParentInode
  PROVE  \E M : TreeInv(M)' /\ M \in {L, L \cup {op.inode}}
                /\ EntriesStay(table, content, table', content', L, 0)
                /\ (EntryMade(L, M) \/ EntryLost(L, M))
<1> DEFINE y == [Parent EXCEPT !.blocks = Append(@, op.grown)]
           n == Len(table[op.parent].blocks)
<1>1. PICK w \in Outcomes :
        /\ PutInode(op.parent, y, w)
        /\ IF w = "done" THEN Succeed /\ UNCHANGED <<mem, dirty>>
                         ELSE Fail(AfterFreeBlock(mem, op.grown))
  BY DEF WriteParentInode
<1>2. op.pc = "parent_inode" /\ op.pc \in Creating /\ UNCHANGED <<fsVars, diskCopy, content, session>>
  BY DEF WriteParentInode, Creating
<1>3. /\ op.call \in {"create_file", "create_directory"} /\ op.parent \in L /\ op.inode \in Inodes \ L
      /\ \A x \in L : MarkedInode(mem, table, x)
      /\ Spare(op.grown, L) /\ table[op.parent].type = "directory"
      /\ op.call = "create_directory" => op.grown # op.block
      /\ content[op.grown] = EntryBlock(op.parent, <<NewEntry>>)
      /\ table[op.inode] = NewInode
  BY <1>2, InHand
<1>4. Whole(table, content, L) /\ Kinds(table, L) /\ op.parent \in Inodes
  BY <1>3 DEF TreeInv, Whole, Kinds
<1>5. y.type = table[op.parent].type /\ y.blocks = Append(table[op.parent].blocks, op.grown)
  BY <1>2, GrownParentIs DEF Parent
<1> HIDE DEF y
<1>6. CASE w = "done"
  <2>1. table'[op.parent] = y
    BY <1>1, <1>4, <1>6, PutOutside
  <2>2. \A x : x # op.parent => table'[x] = table[x]
    BY <1>1 DEF PutInode
  <2>3. /\ NewlyMade(table, content, op.inode, L) /\ MarkedInode(mem, table, op.inode)
        /\ NewEntry.inode = op.inode /\ table[op.inode].type = NewEntry.type
        /\ NewEntry.name = Last(op.path.names)
    BY <1>2, NewlyMadeInHand
  <2>4. \A k, j : Live(table, content, op.parent, k, j) =>
          EntryAt(table, content, op.parent, k, j).name # NewEntry.name
    BY <1>2, <2>3, InHand
  <2>5. table[op.parent] \in InodeLists
    BY <1>4 DEF Typed, StateType, Tables
  <2>6. Whole(table', content, L \cup {op.inode})
    <3>1. \A x \in L \cup {op.inode} : \A m : ~Has(table, x, m, op.grown)
      <4>1. \A m : ~Has(table, op.inode, m, op.grown)
        BY <1>3 DEF Has, NewInode
      <4> QED
        BY <1>3, <4>1 DEF Spare
    <3>2. \A x \in (L \cup {op.inode}) \ {op.parent} : table'[x] = table[x]
      BY <2>2
    <3>3. GetsBlock(table, table', op.parent, op.grown)
      BY <1>5, <2>1 DEF GetsBlock
    <3>4. /\ op.parent \in L /\ NewlyMade(table, content, op.inode, L)
          /\ table[op.parent].type = "directory"
          /\ NewEntry.inode = op.inode /\ table[op.inode].type = NewEntry.type
          /\ content[op.grown] = FirstEntry(op.parent, NewEntry)
      BY <1>3, <2>3 DEF FirstEntry
    <3> QED
      BY <1>4, <2>4, <2>5, <3>1, <3>2, <3>3, <3>4, WholeExtended
  <2>7. /\ n \in Nat /\ DOMAIN table[op.parent].blocks = 1 .. n
        /\ DOMAIN table'[op.parent].blocks = 1 .. n + 1
        /\ table'[op.parent].blocks[n + 1] = op.grown
        /\ \A k \in 1 .. n : table'[op.parent].blocks[k] = table[op.parent].blocks[k]
        /\ table'[op.parent].type = "directory"
    <3>1. table[op.parent].blocks \in Seq(FileBlocks)
      BY <2>5, InodeListIs
    <3> QED
      BY <1>3, <1>5, <2>1, <3>1
  <2> HIDE DEF n
  <2>8. ASSUME NEW d \in L, NEW k, NEW j, Live(table, content, d, k, j)
        PROVE  /\ Live(table', content, d, k, j)
               /\ EntryAt(table', content, d, k, j) = EntryAt(table, content, d, k, j)
    <3>1. CASE d # op.parent
      BY <2>2, <2>8, <3>1 DEF Live, EntryAt
    <3>2. CASE d = op.parent
      <4>1. k \in 1 .. n /\ k \in 1 .. n + 1 /\ table'[d].blocks[k] = table[d].blocks[k]
        BY <2>7, <2>8, <3>2 DEF Live
      <4> QED
        BY <2>7, <2>8, <3>2, <4>1 DEF Live, EntryAt
    <3> QED
      BY <3>1, <3>2
  <2>9. Live(table', content, op.parent, n + 1, 1)
        /\ EntryAt(table', content, op.parent, n + 1, 1) = NewEntry
    <3>1. n + 1 \in 1 .. n + 1
      BY <2>7
    <3>2. EntriesIn(content[op.grown]) = <<NewEntry>>
      BY <1>3 DEF EntriesIn, EntryBlock
    <3>3. NewEntry.inode # 0
      BY <1>3, <2>3, SizesOfDrive
    <3> QED
      BY <2>7, <3>1, <3>2, <3>3 DEF Live, EntryAt
  <2>10. ASSUME NEW x \in L \cup {op.inode} PROVE MarkedInode(mem, table', x)
    <3>1. MarkedInode(mem, table, x)
      BY <1>3, <2>3
    <3>2. CASE x # op.parent
      BY <2>2, <3>1, <3>2 DEF MarkedInode, Has
    <3>3. CASE x = op.parent
      <4>1. ASSUME NEW k, NEW b, Has(table', x, k, b) PROVE b \in mem.bits
        <5>1. k \in 1 .. n \/ k = n + 1
          BY <2>7, <3>3, <4>1 DEF Has
        <5>2. CASE k \in 1 .. n
          <6>1. Has(table, x, k, b)
            BY <2>7, <3>3, <4>1, <5>2 DEF Has
          <6> QED
            BY <3>1, <6>1 DEF MarkedInode
        <5>3. CASE k = n + 1
          BY <1>3, <2>7, <3>3, <4>1, <5>3 DEF Has, Spare
        <5> QED
          BY <5>1, <5>2, <5>3
      <4> QED
        BY <3>1, <4>1 DEF MarkedInode
    <3> QED
      BY <3>2, <3>3
  <2>11. Succeed /\ UNCHANGED <<mem, dirty, fsVars, diskCopy, session>> /\ content' = content
    BY <1>1, <1>2, <1>6
  <2>12. PICK M : M = L \cup {op.inode}
    OBVIOUS
  <2>13. Whole(table', content', M) /\ \A x \in M : MarkedInode(mem, table', x)
    BY <2>6, <2>10, <2>11, <2>12
  <2>14. /\ \A d \in L : \A k, j : Live(table, content, d, k, j) =>
              /\ Live(table', content', d, k, j)
              /\ EntryAt(table', content', d, k, j) = EntryAt(table, content, d, k, j)
    BY <2>8, <2>11
  <2>15. (\A x \in L : table'[x].type = table[x].type) /\ table'[op.inode] = NewInode
    BY <1>3, <2>2, <2>7
  <2>16. \E k, j : Live(table', content', op.parent, k, j) /\ EntryAt(table', content', op.parent, k, j) = NewEntry
    BY <2>9, <2>11
  <2>17. op.pc \in {"add_entry", "parent_inode"}
    BY <1>2
  <2>18. TreeInv(M)'
    BY <2>11, <2>12, <2>13, <2>14, <2>15, <2>16, <2>17, CreationSucceeds
  <2>19. EntriesStay(table, content, table', content', L, 0)
    BY <1>4, <2>14, SizesOfDrive DEF EntriesStay, Kinds
  <2>20. /\ \A x \in L : x # op.parent => table'[x] = table[x]
         /\ \A k, b : Has(table, op.parent, k, b) => Has(table', op.parent, k, b)
         /\ Has(table', op.parent, n + 1, op.grown)
    BY <2>2, <2>7 DEF Has
  <2>21. \A x \in L : \A k, b : Has(table, x, k, b) => Has(table', x, k, b)
    BY <2>20 DEF Has
  <2>22. EntryMade(L, M)
    BY <2>11, <2>12, <2>15, <2>16, <2>20, <2>21 DEF EntryMade
  <2> QED
    BY <2>12, <2>18, <2>19, <2>22
<1>7. CASE w # "done"
  <2>1. w = "lost"
    BY <1>3, <1>7, OutcomesAre
  <2>2. table' = table
    BY <1>1, <2>1 DEF PutInode
  <2>3. Fail(AfterFreeBlock(mem, op.grown)) /\ op.pc \in {"entry_block", "parent_inode"}
        /\ \A x \in L : table'[x] = table[x]
    BY <1>1, <1>2, <1>7, <2>2
  <2>4. \A x \in L : \A k, c : Has(table, x, k, c) => content'[c] = content[c]
    BY <1>2
  <2>5. TreeInv(L)'
    BY <1>2, <2>3, <2>4, TreeGivesBack
  <2>6. EntriesStay(table, content, table', content', L, 0)
    BY <1>2, <1>4, <2>2, SizesOfDrive DEF EntriesStay, Kinds
  <2>7. EntryLost(L, L)
    BY <1>2, <2>2, <2>3 DEF EntryLost
  <2> QED
    BY <2>5, <2>6, <2>7
<1> QED
  BY <1>6, <1>7

-----------------------------------------------------------------------------
(***************************************************************************)
(* Removals.                                                               *)
(***************************************************************************)

\* With the arguments of a careful user the parent is where the name was found.
LEMMA ParentIsRight ==
  ASSUME Guarded, Typed, NEW L, TreeInv(L), mounted, op.call # "unmount",
         NEW p \in PathRecords, NEW command \in {"rm", "rmdir"}, CarefulAbout(command, p),
         NEW i, i = Find(p, {}), i # 0, command = "rmdir" => ~HasEntries(i)
  PROVE  /\ ParentOfOld(p, {}) \in L /\ ParentOfOld(p, {}) # 0 /\ p.names # <<>>
         /\ i \in L /\ i # RootInode
         /\ \E k, j : /\ Live(table, content, ParentOfOld(p, {}), k, j)
                      /\ EntryAt(table, content, ParentOfOld(p, {}), k, j).inode = i
                      /\ EntryAt(table, content, ParentOfOld(p, {}), k, j).name = Last(p.names)
<1> DEFINE d == IF p.absolute THEN RootInode ELSE cwd.inode
           x == Walk(table, content, d, Front(p.names), {})
<1>1. /\ d \in L /\ RootInode \in L /\ Whole(table, content, L) /\ L \subseteq Inodes
      /\ table \in Tables /\ content \in Stores
  BY DEF TreeInv, Where, Whole, Kinds, Typed, StateType
<1>2. p.names # <<>> /\ (Len(p.names) > 1 \/ cwd.inode = RootInode)
  BY DEF Guarded, CarefulAbout
<1>3. /\ p.names \in Seq(Names) /\ Len(p.names) \in Nat /\ Len(p.names) > 0
      /\ Len(Front(p.names)) = Len(p.names) - 1 /\ Len(Front(p.names)) \in Nat
      /\ [p EXCEPT !.names = Front(@)] = [absolute |-> p.absolute, names |-> Front(p.names)]
  BY <1>2, PathIs
<1>4. i = Walk(table, content, d, p.names, {})
  BY DEF Find, Resolve
<1>5. ParentOfOld(p, {}) = x
  <2>1. CASE Len(p.names) > 1
    BY <1>3, <2>1 DEF ParentOfOld, Find, Resolve
  <2>2. CASE Len(p.names) = 1
    <3>1. Len(Front(p.names)) = 0
      BY <1>3, <2>2
    <3>2. d = RootInode /\ d \in Inodes
      BY <1>1, <1>2, <2>2
    <3>3. x = d
      <4> HIDE DEF d
      <4> QED
        BY <1>1, <3>1, <3>2, WalkNowhere
    <3>4. ParentOfOld(p, {}) = RootInode
      BY <1>2, <2>2 DEF ParentOfOld
    <3> QED
      BY <3>2, <3>3, <3>4
  <2>3. Len(p.names) = 1 \/ Len(p.names) > 1
    <3>1. \A n \in Nat : n > 0 => n = 1 \/ n > 1
      OBVIOUS
    <3> QED
      BY <1>3, <3>1
  <2> QED
    BY <2>1, <2>2, <2>3
<1> HIDE DEF d
<1>6. d \in Inodes
  BY <1>1
<1>7. x # 0 /\ i = Lookup(table, content, x, Last(p.names), {})
  BY <1>1, <1>2, <1>3, <1>4, <1>6, WalkByLast
<1>8. x \in L
  BY <1>1, <1>3, <1>7, WalkInTree
<1> HIDE DEF x
<1>9. /\ i \in L \ {RootInode}
      /\ \E k, j : Shows(table, content, x, k, j, Last(p.names), {}) /\ EntryAt(table, content, x, k, j).inode = i
  <2>1. Lookup(table, content, x, Last(p.names), {}) \in {0} \cup (L \ {RootInode})
    BY <1>1, <1>8, LookupInTree
  <2>2. \E k, j : /\ Shows(table, content, x, k, j, Last(p.names), {})
                  /\ EntryAt(table, content, x, k, j).inode = Lookup(table, content, x, Last(p.names), {})
    BY <1>1, <1>7, <1>8, LookupInTree
  <2> QED
    BY <1>7, <2>1, <2>2
<1> QED
  BY <1>2, <1>5, <1>7, <1>8, <1>9 DEF Shows

\* Freeing a file or an empty directory leaves the rest of the tree marked.
LEMMA FreeingKeeps ==
  ASSUME Guarded, Typed, NEW L, Whole(table, content, L), NEW i \in L,
         NEW x \in L \ {i}, MarkedInode(mem, table, x), NEW m \in Copies, m = FreeAll(mem, table[i].blocks)
  PROVE  /\ MarkedInode(m, table, x)
         /\ MarkedInode(AfterFreeInode(m, i), table, x)
         /\ InodeBit(i) \in mem.bits => InodeBit(i) \in m.bits
<1>1. mem \in Copies /\ table \in Tables /\ i \in Inodes /\ x \in Inodes /\ table[i] \in InodeLists
  BY DEF Typed, StateType, Whole, Kinds, Tables
<1>2. /\ Len(table[i].blocks) \in Nat /\ DOMAIN table[i].blocks = 1 .. Len(table[i].blocks)
      /\ \A k \in DOMAIN table[i].blocks : table[i].blocks[k] \in FileBlocks
  BY <1>1, InodeListIs
<1>3. \A b \in mem.bits : (\A k \in DOMAIN table[i].blocks : table[i].blocks[k] # b) => b \in m.bits
  BY <1>1, <1>2, FreeAllKeeps
<1>4. \A y \in Inodes : InodeBit(y) \in mem.bits => InodeBit(y) \in m.bits
  BY <1>2, <1>3, BitsApart
<1>5. ASSUME NEW k, NEW b, Has(table, x, k, b) PROVE b \in m.bits /\ b # InodeBit(i)
  <2>1. b \in mem.bits /\ b \in FileBlocks
    BY <1>1, <1>5, HasIs DEF MarkedInode
  <2>2. \A n \in DOMAIN table[i].blocks : table[i].blocks[n] # b
    BY <1>5 DEF Has, Whole, BlocksApart
  <2> QED
    BY <1>1, <1>3, <2>1, <2>2, BitsApart
<1>6. InodeBit(x) \in m.bits /\ InodeBit(x) # InodeBit(i)
  BY <1>1, <1>4, BitsApart DEF MarkedInode
<1>7. AfterFreeInode(m, i).bits = m.bits \ {InodeBit(i)}
  BY <1>1, TakesBack
<1> QED
  BY <1>1, <1>4, <1>5, <1>6, <1>7 DEF MarkedInode

LEMMA TreeUnlinks ==
  ASSUME Guarded, Typed, NEW L, TreeInv(L), NEW command \in {"rm", "rmdir"}, Ready(command),
         NEW p \in PathRecords, CarefulAbout(command, p), NEW i, i = Find(p, {}), i # 0,
         command = "rmdir" => ~HasEntries(i),
         i # cwd.inode, \A k, j : ~Live(table, content, i, k, j), Unlink(p, i, {})
  PROVE  TreeInv(L)'
<1> DEFINE d == ParentOfOld(p, {})
           m == FreeAll(mem, table[i].blocks)
<1>1. mounted /\ op = NoOp /\ op.pc = "none" /\ op.call = "none" /\ Unmarked(op) = {}
  BY ReadyIs
<1>2. /\ d \in L /\ d # 0 /\ p.names # <<>> /\ i \in L
      /\ \E k, j : /\ Live(table, content, d, k, j)
                   /\ EntryAt(table, content, d, k, j).inode = i
                   /\ EntryAt(table, content, d, k, j).name = Last(p.names)
  BY <1>1, ParentIsRight
<1>3. Changes(AfterFreeInode(m, i)) /\ UNCHANGED <<fsVars, diskVars, session>>
  BY DEF Unlink
<1>4. op' = [NoOp EXCEPT !.call = "delete", !.pc = "clear_entry", !.path = p, !.inode = i, !.parent = d]
  BY <1>2 DEF Unlink
<1>5. op' = [call |-> "delete", pc |-> "clear_entry", path |-> p, copy |-> FALSE,
             parent |-> d, inode |-> i, block |-> 0, grown |-> 0,
             node |-> NoInode, position |-> 0, left |-> 0]
  BY <1>4 DEF NoOp
<1> HIDE DEF d
<1>6. /\ op'.call = "delete" /\ op'.pc = "clear_entry" /\ op'.path = p /\ op'.parent = d
      /\ op'.inode = i /\ op'.position = 0
  BY <1>5
<1>7. /\ table' = table /\ content' = content /\ mounted' = mounted /\ session' = session /\ cwd' = cwd
  BY <1>3 DEF fsVars, diskVars
<1>8. Whole(table, content, L) /\ L \subseteq Inodes /\ i \in Inodes
  BY <1>2 DEF TreeInv, Whole, Kinds
<1>9. m \in Copies
  <2>1. Len(table[i].blocks) \in Nat /\ DOMAIN table[i].blocks = 1 .. Len(table[i].blocks) /\ mem \in Copies
    BY <1>8, InodeListIs DEF Typed, StateType, Tables
  <2> QED
    BY <2>1, FreeAllKeeps
<1> HIDE DEF m
<1>10. ASSUME Trusted(session), NEW x \in L \ {i} PROVE MarkedInode(mem', table, x)
  <2>1. MarkedInode(mem, table, x)
    BY <1>1, <1>10 DEF TreeInv, Marks
  <2>2. MarkedInode(AfterFreeInode(m, i), table, x)
    BY <1>2, <1>8, <1>9, <1>10, <2>1, FreeingKeeps DEF m
  <2> QED
    BY <1>3, <2>2 DEF Changes
<1>11. ClearingOK(L)'
  BY <1>1, <1>2, <1>6, <1>7, <1>8 DEF ClearingOK
<1>12. OpOK(L)'
  BY <1>6, <1>11 DEF OpOK, CreatingOK, OpenOK, WritingOK, SavingOK, Creating, Writing
<1>13. Unmarked(op') = {i}
  BY <1>6 DEF Unmarked
<1>14. ~dirty' => ~dirty
  BY <1>3 DEF Changes
<1> QED
  BY <1>1, <1>3, <1>10, <1>12, <1>13, <1>14, InMemory

LEMMA TreeRemoves ==
  ASSUME Guarded, Typed, NEW L, TreeInv(L), DeleteFile \/ RemoveDirectory
  PROVE  TreeInv(L)'
<1>1. Unreadable("delete") = {{}}
  BY OutcomesAre
<1>2. CASE DeleteFile
  <2>1. PICK p \in OldPaths :
          /\ CarefulAbout("rm", p) /\ Find(p, {}) # 0 /\ ~IsDirectory(Find(p, {}))
          /\ Unlink(p, Find(p, {}), {})
    BY <1>1, <1>2 DEF DeleteFile
  <2>2. PICK i : i = Find(p, {})
    OBVIOUS
  <2>3. Ready("rm") /\ "rm" \in {"rm", "rmdir"} /\ p \in PathRecords
    BY <1>2, OldPathIs DEF DeleteFile
  <2>4. i # cwd.inode /\ ("rm" = "rmdir" => ~HasEntries(i))
    BY <2>1, <2>2, <2>3, ReadyIs DEF IsDirectory
  <2>5. \A k, j : ~Live(table, content, i, k, j)
    BY <2>1, <2>2 DEF IsDirectory, Live
  <2> QED
    BY <2>1, <2>2, <2>3, <2>4, <2>5, TreeUnlinks
<1>3. CASE RemoveDirectory
  <2>1. PICK p \in OldPaths :
          /\ CarefulAbout("rmdir", p) /\ Find(p, {}) # 0 /\ IsEmptyDirectory(Find(p, {}), {})
          /\ Unlink(p, Find(p, {}), {})
    BY <1>1, <1>3 DEF RemoveDirectory
  <2>2. PICK i : i = Find(p, {})
    OBVIOUS
  <2>3. Ready("rmdir") /\ "rmdir" \in {"rm", "rmdir"} /\ p \in PathRecords
    BY <1>3, OldPathIs DEF RemoveDirectory
  <2>4. ~HasEntries(i) /\ i # cwd.inode
    <3>1. ~HasEntries(i)
      BY <2>1, <2>2 DEF HasEntries, IsEmptyDirectory
    <3> QED
      BY <2>1, <2>2, <3>1 DEF CarefulAbout, Guarded
  <2>5. \A k, j : ~Live(table, content, i, k, j)
    <3>1. SUFFICES ASSUME NEW k, NEW j, Live(table, content, i, k, j) PROVE FALSE
      OBVIOUS
    <3> DEFINE b == table[i].blocks[k]
    <3>2. b \in Range(table[i].blocks) /\ LiveEntries(content[b]) = {}
      BY <2>1, <2>2, <3>1 DEF IsEmptyDirectory, Live, Range
    <3>3. EntriesIn(content[b])[j] \in LiveEntries(content[b])
      BY <3>1 DEF Live, EntryAt, LiveEntries
    <3> QED
      BY <3>2, <3>3
  <2> QED
    BY <2>1, <2>2, <2>3, <2>4, <2>5, TreeUnlinks
<1> QED
  BY <1>2, <1>3

LEMMA MatchingIs ==
  ASSUME Typed, op.inode \in Inodes, NEW b \in FileBlocks, Matching(b) # {}
  PROVE  LET j == Lowest(Matching(b)) IN
           /\ j \in DOMAIN EntriesIn(content[b]) /\ content[b] \in BlockLists
           /\ EntriesIn(content[b])[j].inode = op.inode /\ EntriesIn(content[b])[j].inode # 0
           /\ EntriesIn(content[b])[j].name = Last(op.path.names)
<1> DEFINE j == Lowest(Matching(b))
<1>1. content[b] \in BlockLists
  BY DEF Typed, StateType, Stores
<1>2. Matching(b) \subseteq Nat
  BY <1>1, EntriesInIs DEF Matching
<1>3. j \in Matching(b)
  BY <1>2, LowestIsIn
<1> HIDE DEF j
<1> QED
  BY <1>1, <1>3, SizesOfDrive DEF Matching, j

\* The entry is cleared, and with it the inode it led to is out of the tree.
EntryGone(L, M) ==
  /\ op.inode \in L \ {RootInode} /\ M = L \ {op.inode}
  /\ op'.pc = "clear_entry" /\ op'.inode = op.inode
  /\ NoEntries(table, content, op.inode)
  /\ EntriesStay(table, content, table', content', L, op.inode)

\* The entry is found in the first pass and cleared; the second finds no other.
LEMMA TreeClears ==
  ASSUME Guarded, Typed, Typed', NEW L, TreeInv(L), ClearEntry
  PROVE  \E M : /\ TreeInv(M)' /\ M \in {L, L \ {op.inode}}
                /\ op'.pc = "none" => M = L /\ op.inode \notin M
                /\ content' # content => EntriesStay(table, content, table', content', L, op.inode)
                /\ (EntryGone(L, M) \/ (M = L /\ op' = NoOp /\ content' = content))
<1>1. op.pc = "clear_entry" /\ UNCHANGED <<mem, dirty, fsVars, diskCopy, table, session>>
  BY DEF ClearEntry
<1>2. /\ mounted /\ op.call = "delete"
      /\ op.inode \in Inodes \ {cwd.inode} /\ op.parent \in L
      /\ op.position = 0 =>
           /\ op.inode \in L
           /\ \E k, j : /\ Live(table, content, op.parent, k, j)
                        /\ EntryAt(table, content, op.parent, k, j).inode = op.inode
                        /\ EntryAt(table, content, op.parent, k, j).name = Last(op.path.names)
           /\ \A k, j : ~Live(table, content, op.inode, k, j)
      /\ op.position # 0 => op.inode \notin L
  BY <1>1 DEF TreeInv, OpOK, ClearingOK
<1> DEFINE ks == {k \in (op.position + 1) .. Len(Parent.blocks) : Matching(Parent.blocks[k]) # {}}
           a == Lowest(ks)
           b == Parent.blocks[a]
           j == Lowest(Matching(b))
           y == [content[b] EXCEPT !.list[j].inode = 0]
<1>3. \/ ks = {} /\ op' = NoOp /\ UNCHANGED content
      \/ ks # {} /\ PutContent(b, y, "done") /\ op' = [op EXCEPT !.position = a]
  <2>1. Unreadable("delete") = {{}} /\ Outcomes = {"done"}
    BY <1>2, OutcomesAre
  <2>2. ks = {k \in (op.position + 1) .. Len(Parent.blocks) :
                Parent.blocks[k] \notin {} /\ Matching(Parent.blocks[k]) # {}}
    OBVIOUS
  <2> QED
    BY <2>1, <2>2 DEF ClearEntry
<1>4. /\ Whole(table, content, L) /\ op \in Ops /\ op.position \in Nat /\ op.parent \in Inodes
      /\ table \in Tables /\ content \in Stores /\ Parent \in InodeLists /\ Parent = table[op.parent]
  BY <1>2 DEF TreeInv, Whole, Kinds, Typed, StateType, OpType, Ops, Parent, Tables
<1>5. /\ Len(Parent.blocks) \in Nat /\ DOMAIN Parent.blocks = 1 .. Len(Parent.blocks)
      /\ \A k \in DOMAIN Parent.blocks : Parent.blocks[k] \in FileBlocks
  BY <1>4, InodeListIs
<1>6. /\ mounted' = mounted /\ session' = session /\ cwd' = cwd /\ snapshot' = snapshot
      /\ mem' = mem /\ dirty' = dirty /\ table' = table /\ diskCopy' = diskCopy
  BY <1>1 DEF fsVars
<1>7. Unmarked(op) = {op.inode}
  BY <1>1 DEF Unmarked
<1>8. CASE ks = {} /\ op' = NoOp /\ UNCHANGED content
  <2>1. op.position # 0
    <3>1. SUFFICES ASSUME op.position = 0 PROVE FALSE
      OBVIOUS
    <3>2. PICK k, n : /\ Live(table, content, op.parent, k, n)
                      /\ EntryAt(table, content, op.parent, k, n).inode = op.inode
                      /\ EntryAt(table, content, op.parent, k, n).name = Last(op.path.names)
      BY <1>2, <3>1
    <3>3. k \in 1 .. Len(Parent.blocks) /\ k \in (op.position + 1) .. Len(Parent.blocks)
      BY <1>4, <1>5, <3>1, <3>2 DEF Live
    <3>4. n \in Matching(Parent.blocks[k])
      BY <1>4, <3>2 DEF Live, EntryAt, Matching
    <3> QED
      BY <1>8, <3>3, <3>4
  <2>2. op.inode \notin L
    BY <1>2, <2>1
  <2>3. OpOK(L)' /\ Unmarked(op') = {}
    BY <1>8, NoOpOK
  <2>4. \A x \in L : Trusted(session) => MarkedInode(mem', table, x)
    BY <1>2, <1>6, <1>7, <2>2 DEF TreeInv, Marks
  <2>5. UNCHANGED <<fsVars, diskVars, session>> /\ op.call # "unmount"
    BY <1>1, <1>2, <1>8 DEF diskVars
  <2>6. TreeInv(L)'
    BY <1>6, <2>3, <2>4, <2>5, InMemory
  <2> QED
    BY <1>8, <2>2, <2>6
<1>9. CASE ks # {} /\ PutContent(b, y, "done") /\ op' = [op EXCEPT !.position = a]
  <2>1. ks \subseteq Nat
    BY <1>4
  <2>2. a \in ks
    <3> HIDE DEF ks
    <3> QED
      BY <1>9, <2>1, LowestIsIn
  <2> HIDE DEF a
  <2>3. a \in (op.position + 1) .. Len(Parent.blocks) /\ Matching(b) # {} /\ a \in DOMAIN Parent.blocks
        /\ b \in FileBlocks /\ a # 0 /\ a \in Nat
    BY <1>4, <1>5, <2>2
  <2> HIDE DEF ks, b
  <2>4. /\ j \in DOMAIN EntriesIn(content[b]) /\ content[b] \in BlockLists
        /\ EntriesIn(content[b])[j].inode = op.inode /\ EntriesIn(content[b])[j].inode # 0
        /\ EntriesIn(content[b])[j].name = Last(op.path.names)
    BY <1>2, <2>3, MatchingIs
  <2> HIDE DEF j
  <2>5. /\ content[b].kind = "entries" /\ y.kind = "entries" /\ y.of = content[b].of
        /\ DOMAIN EntriesIn(y) = DOMAIN EntriesIn(content[b])
        /\ EntriesIn(y)[j].inode = 0
        /\ \A k \in DOMAIN EntriesIn(content[b]) : k # j => EntriesIn(y)[k] = EntriesIn(content[b])[k]
    BY <2>4, EntryCleared
  <2> HIDE DEF y
  <2>6. table[op.parent].type = "directory"
    <3>1. table[op.parent].type \in {"file", "directory"}
      BY <1>2, <1>4 DEF Whole, Kinds
    <3>2. table[op.parent].type # "file"
      <4>1. SUFFICES ASSUME table[op.parent].type = "file" PROVE FALSE
        OBVIOUS
      <4>2. content[b] = DataOf(op.parent)
        BY <1>2, <1>4, <2>3, <4>1 DEF Whole, ContentsRight, RightContent, Has, b
      <4> QED
        BY <2>5, <4>2 DEF DataOf
    <3> QED
      BY <3>1, <3>2
  <2>7. Has(table, op.parent, a, b) /\ Live(table, content, op.parent, a, j)
        /\ EntryAt(table, content, op.parent, a, j).inode = op.inode
    BY <1>4, <2>3, <2>4, <2>6 DEF Has, Live, EntryAt, b
  <2>8. op.inode \in L /\ op.position = 0
    <3>1. op.inode \in L
      BY <1>2, <1>4, <2>7 DEF Whole, EntriesLead
    <3> QED
      BY <1>2, <3>1
  <2>9. content'[b] = y /\ \A c : c # b => content'[c] = content[c]
    BY <1>4, <1>9, <2>3 DEF PutContent, Stores
  <2>10. Whole(table, content', L \ {op.inode}) /\ op.parent \in L \ {op.inode} /\ op.inode # RootInode
    <3>1. NoEntries(table, content, op.inode)
      BY <1>2, <2>8 DEF NoEntries
    <3>2. EntryIsCleared(content[b], content'[b], j)
      BY <2>5, <2>9 DEF EntryIsCleared
    <3>3. op.parent \in L /\ Whole(table, content, L) /\ \A c : c # b => content'[c] = content[c]
      BY <1>2, <1>4, <2>9
    <3> QED
      BY <2>7, <3>1, <3>2, <3>3, WholeCleared
  <2>11. /\ op'.pc = "clear_entry" /\ op'.call = "delete" /\ op'.inode = op.inode
         /\ op'.parent = op.parent /\ op'.position = a
    BY <1>1, <1>2, <1>4, <1>9 DEF Ops
  <2>12. PICK M : M = L \ {op.inode}
    OBVIOUS
  <2>13. Whole(table', content', M)
    BY <1>6, <2>10, <2>12
  <2>14. Marks(M)'
    <3>1. \A x \in M : Trusted(session) => MarkedInode(mem', table', x)
      BY <1>2, <1>6, <1>7, <2>12 DEF TreeInv, Marks
    <3> QED
      BY <1>2, <1>6, <3>1 DEF TreeInv, Marks
  <2>15. Where(M)'
    BY <1>2, <1>6, <2>11, <2>12 DEF TreeInv, Where
  <2>16. Between'
    BY <1>2, <1>6 DEF TreeInv, Between
  <2>17. ClearingOK(M)'
    BY <1>2, <1>6, <2>3, <2>10, <2>11, <2>12 DEF ClearingOK
  <2>18. OpOK(M)'
    BY <2>11, <2>17 DEF OpOK, CreatingOK, OpenOK, WritingOK, SavingOK, Creating, Writing
  <2>19. TreeInv(M)'
    BY <2>13, <2>14, <2>15, <2>16, <2>18 DEF TreeInv
  <2>20. ASSUME NEW d \in L, NEW k, NEW n, Live(table, content, d, k, n),
                EntryAt(table, content, d, k, n).inode # op.inode
         PROVE  /\ Live(table, content', d, k, n)
                /\ EntryAt(table, content', d, k, n) = EntryAt(table, content, d, k, n)
    <3>1. CASE table[d].blocks[k] # b
      BY <2>9, <2>20, <3>1 DEF Live, EntryAt
    <3>2. CASE table[d].blocks[k] = b
      <4>1. n \in DOMAIN EntriesIn(content[b]) /\ n # j
        BY <2>4, <2>20, <3>2 DEF Live, EntryAt
      <4>2. EntriesIn(content'[b])[n] = EntriesIn(content[b])[n] /\ n \in DOMAIN EntriesIn(content'[b])
        BY <2>5, <2>9, <4>1
      <4> QED
        BY <2>20, <3>2, <4>2 DEF Live, EntryAt
    <3> QED
      BY <3>1, <3>2
  <2>21. EntriesStay(table, content, table', content', L, op.inode)
    BY <1>2, <1>6, <2>8, <2>20 DEF EntriesStay
  <2>22. EntryGone(L, M)
    BY <1>2, <2>8, <2>10, <2>11, <2>12, <2>21 DEF EntryGone, NoEntries
  <2> QED
    BY <2>11, <2>12, <2>19, <2>21, <2>22
<1> QED
  BY <1>3, <1>8, <1>9

-----------------------------------------------------------------------------
(***************************************************************************)
(* Opening a file for writing, and writing it.                             *)
(***************************************************************************)

\* As long as the tree has a file the copy in memory is not what was read.
LEMMA FileIsDirty ==
  ASSUME NEW L, TreeInv(L), mounted, Trusted(session), NEW i \in L, table[i].type = "file"
  PROVE  dirty
<1>1. i \in Inodes
  BY DEF TreeInv, Whole, Kinds
<1>2. FreshTable[i].type # "file"
  BY <1>1, FreshType DEF NoInode
<1> QED
  BY <1>2 DEF TreeInv, Marks

\* The operation with which a file is emptied.
Opening(p, i, left) ==
  [NoOp EXCEPT !.call = "open", !.pc = "truncated_inode", !.path = p,
     !.inode = i, !.node = Truncated(table[i]), !.left = left]

LEMMA TreeOpensFile ==
  ASSUME Guarded, Typed, NEW L, TreeInv(L), mounted, Trusted(session), op.call # "unmount",
         Unmarked(op) = {}, NEW p, NEW left, NEW i \in L, table[i].type = "file",
         UNCHANGED <<fsVars, diskVars, session>>, Changes(FreeAll(mem, table[i].blocks)),
         op' = Opening(p, i, left)
  PROVE  TreeInv(L)'
<1> DEFINE m == FreeAll(mem, table[i].blocks)
           n == Truncated(table[i])
<1>1. Whole(table, content, L) /\ L \subseteq Inodes /\ i \in Inodes /\ table[i] \in InodeLists
  BY DEF TreeInv, Whole, Kinds, Typed, StateType, Tables
<1>2. RootInode \in L \ {i}
  BY DEF TreeInv, Whole, Kinds
<1>3. \A x \in L : MarkedInode(mem, table, x)
  BY DEF TreeInv, Marks
<1>4. m \in Copies
  <2>1. Len(table[i].blocks) \in Nat /\ DOMAIN table[i].blocks = 1 .. Len(table[i].blocks) /\ mem \in Copies
    BY <1>1, InodeListIs DEF Typed, StateType
  <2> QED
    BY <2>1, FreeAllKeeps
<1>5. n.type = "file" /\ n.blocks = <<>>
  BY <1>1, TruncatedIs
<1>6. mem' = m /\ (~dirty' => ~dirty)
  BY DEF Changes
<1>7. op' = [call |-> "open", pc |-> "truncated_inode", path |-> p, copy |-> FALSE,
             parent |-> 0, inode |-> i, block |-> 0, grown |-> 0,
             node |-> n, position |-> 0, left |-> left]
  BY DEF Opening, NoOp
<1> HIDE DEF m, n
<1>8. op'.call = "open" /\ op'.pc = "truncated_inode" /\ op'.inode = i /\ op'.node = n
  BY <1>7
<1>9. \A x \in L \ {i} : MarkedInode(m, table, x)
  BY <1>1, <1>3, <1>4, FreeingKeeps DEF m
<1>10. InodeBit(i) \in m.bits
  <2>1. InodeBit(i) \in mem.bits /\ MarkedInode(mem, table, RootInode)
    BY <1>2, <1>3 DEF MarkedInode
  <2> QED
    BY <1>1, <1>2, <1>4, <2>1, FreeingKeeps DEF m
<1>11. Unmarked(op') = {i}
  BY <1>8 DEF Unmarked, Writing
<1>12. /\ table' = table /\ content' = content /\ mounted' = mounted /\ session' = session
  BY DEF fsVars, diskVars
<1>13. WritingOK(L)'
  BY <1>5, <1>6, <1>8, <1>10, <1>12 DEF WritingOK
<1>14. OpOK(L)'
  BY <1>8, <1>13 DEF OpOK, CreatingOK, OpenOK, ClearingOK, SavingOK, Creating, Writing
<1>15. /\ \A x \in L \ Unmarked(op') : MarkedInode(mem', table, x)
       /\ ~dirty' => ~dirty
  BY <1>6, <1>9, <1>11
<1> QED
  BY <1>14, <1>15, InMemory

LEMMA TreeOpensPath ==
  ASSUME Guarded, Typed, NEW L, TreeInv(L), mounted, Trusted(session), op.call # "unmount",
         Unmarked(op) = {}, NEW p \in PathRecords, NEW left,
         Find(p, {}) # 0 => table[Find(p, {})].type # "directory", OpenForWriting(p, left)
  PROVE  TreeInv(L)'
<1>1. PICK bad \in Unreadable("open") :
        /\ UNCHANGED <<fsVars, diskVars, session>>
        /\ \/ /\ Find(p, bad) # 0
              /\ Changes(FreeAll(mem, table[Find(p, bad)].blocks))
              /\ op' = Opening(p, Find(p, bad), left)
           \/ op' = NoOp /\ UNCHANGED <<mem, dirty>>
  BY DEF OpenForWriting, Opening
<1>2. p = [absolute |-> p.absolute, names |-> p.names] /\ Len(p.names) \in Nat
  BY DEF PathRecords
<1>3. Find(p, bad) \in {0} \cup L /\ (Find(p, bad) # 0 => Find(p, {}) = Find(p, bad))
  BY <1>2, FindInTree
<1>4. PICK i : i = Find(p, bad)
  OBVIOUS
<1>5. CASE /\ i # 0
           /\ Changes(FreeAll(mem, table[i].blocks))
           /\ op' = Opening(p, i, left)
  <2>1. i \in L /\ table[i].type # "directory"
    BY <1>3, <1>4, <1>5
  <2>2. table[i].type = "file"
    BY <2>1 DEF TreeInv, Whole, Kinds
  <2> QED
    BY <1>1, <1>5, <2>1, <2>2, TreeOpensFile
<1>6. CASE op' = NoOp /\ UNCHANGED <<mem, dirty>>
  <2>1. OpOK(L)' /\ Unmarked(op') = {}
    BY <1>6, NoOpOK
  <2>2. mounted /\ Trusted(session) =>
          (\A x \in L \ Unmarked(op') : MarkedInode(mem', table, x)) /\ (~dirty' => ~dirty)
    BY <1>6, <2>1 DEF TreeInv, Marks
  <2> QED
    BY <1>1, <2>1, <2>2, InMemory
<1> QED
  BY <1>1, <1>4, <1>5, <1>6

LEMMA TreeOpens ==
  ASSUME Guarded, Typed, NEW L, TreeInv(L), Edit \/ CopyOpens
  PROVE  TreeInv(L)'
<1>1. CASE Edit
  <2>1. PICK p \in OldPaths, left \in {0, 1} : CarefulAbout("edit", p) /\ OpenForWriting(p, left)
    BY <1>1 DEF Edit
  <2>2. Ready("edit") /\ p \in PathRecords /\ table[Find(p, {})].type # "directory"
    BY <1>1, <2>1, OldPathIs DEF Edit, CarefulAbout, Guarded
  <2>3. mounted /\ Trusted(session) /\ op.call # "unmount" /\ Unmarked(op) = {}
    BY <2>2, ReadyIs
  <2> QED
    BY <2>1, <2>2, <2>3, TreeOpensPath
<1>2. CASE CopyOpens
  <2>1. op.pc = "open" /\ OpenForWriting(op.path, op.left)
    BY <1>2 DEF CopyOpens
  <2>2. /\ mounted /\ Trusted(session) /\ op.call = "open"
        /\ table[Find(op.path, {})].type = "file"
    BY <2>1 DEF TreeInv, OpOK, OpenOK
  <2>3. Unmarked(op) = {} /\ op.path \in PathRecords
    BY <2>1 DEF Unmarked, Writing, Typed, OpType, Ops
  <2>4. PICK p : p = op.path
    OBVIOUS
  <2>5. PICK left : left = op.left
    OBVIOUS
  <2> QED
    BY <2>1, <2>2, <2>3, <2>4, <2>5, TreeOpensPath
<1> QED
  BY <1>1, <1>2

\* What a write of a file has in hand.
LEMMA FileInHand ==
  ASSUME Typed, NEW L, TreeInv(L), op.pc \in Writing
  PROVE  /\ mounted /\ Trusted(session) /\ dirty
         /\ op.call \in {"open", "write"} /\ op.call # "unmount"
         /\ op.inode \in L /\ op.inode \in Inodes
         /\ table[op.inode].type = "file" /\ op.node.type = "file"
         /\ op.node \in InodeLists /\ op \in Ops
         /\ InodeBit(op.inode) \in mem.bits
         /\ Unmarked(op) = {op.inode}
         /\ \A x \in L \ {op.inode} : MarkedInode(mem, table, x)
         /\ \A k \in DOMAIN op.node.blocks :
              /\ op.node.blocks[k] \in mem.bits
              /\ \A m \in DOMAIN op.node.blocks : op.node.blocks[k] = op.node.blocks[m] => k = m
              /\ \A i \in L \ {op.inode} : \A m : ~Has(table, i, m, op.node.blocks[k])
              /\ content[op.node.blocks[k]] = DataOf(op.inode) \/ (op.pc = "data" /\ k = Index)
<1>1. WritingOK(L)
  BY DEF TreeInv, OpOK
<1>2. mounted /\ Trusted(session) /\ op.inode \in L /\ table[op.inode].type = "file"
  BY <1>1 DEF WritingOK
<1>3. dirty
  BY <1>2, FileIsDirty
<1>4. Unmarked(op) = {op.inode}
  BY DEF Unmarked
<1>5. \A x \in L \ {op.inode} : MarkedInode(mem, table, x)
  BY <1>2, <1>4 DEF TreeInv, Marks
<1>6. op.inode \in Inodes /\ op.node \in InodeLists /\ op \in Ops
  BY <1>2 DEF TreeInv, Whole, Kinds, Typed, OpType, Ops
<1> QED
  BY <1>1, <1>3, <1>4, <1>5, <1>6 DEF WritingOK

\* The list of blocks goes to the drive: the file is the one the write has made.
LEMMA TreeWritesInode ==
  ASSUME Guarded, Typed, NEW L, TreeInv(L), WriteTruncatedInode \/ WriteFileInode
  PROVE  TreeInv(L)'
<1>1. op.pc \in {"truncated_inode", "file_inode"} /\ op.pc \in Writing
      /\ op' = AfterInode /\ UNCHANGED <<mem, dirty, fsVars, diskCopy, content, session>>
  BY DEF WriteTruncatedInode, WriteFileInode, Writing
<1>2. PICK w \in Outcomes : PutInode(op.inode, op.node, w)
  BY DEF WriteTruncatedInode, WriteFileInode
<1>3. /\ mounted /\ Trusted(session) /\ dirty /\ op.call \in {"open", "write"}
      /\ op.inode \in L /\ op.inode \in Inodes /\ table[op.inode].type = "file" /\ op.node.type = "file"
      /\ op \in Ops /\ InodeBit(op.inode) \in mem.bits
      /\ \A x \in L \ {op.inode} : MarkedInode(mem, table, x)
      /\ \A k \in DOMAIN op.node.blocks :
           /\ op.node.blocks[k] \in mem.bits
           /\ \A m \in DOMAIN op.node.blocks : op.node.blocks[k] = op.node.blocks[m] => k = m
           /\ \A i \in L \ {op.inode} : \A m : ~Has(table, i, m, op.node.blocks[k])
           /\ content[op.node.blocks[k]] = DataOf(op.inode)
  BY <1>1, FileInHand
<1>4. w = "done"
  BY <1>2, <1>3, OutcomesAre
<1>5. table'[op.inode] = op.node /\ \A x : x # op.inode => table'[x] = table[x]
  <2>1. table \in Tables
    BY DEF Typed, StateType
  <2> QED
    BY <1>2, <1>3, <1>4, <2>1 DEF PutInode, Tables
<1>6. Whole(table, content, L)
  BY DEF TreeInv
<1>7. /\ mounted' = mounted /\ session' = session /\ snapshot' = snapshot /\ cwd' = cwd
      /\ mem' = mem /\ dirty' = dirty /\ content' = content /\ diskCopy' = diskCopy
  BY <1>1 DEF fsVars
<1>8. Whole(table', content', L)
  <2>1. \A k, b : Has(table', op.inode, k, b) =>
          /\ content[b] = DataOf(op.inode)
          /\ \A m : Has(table', op.inode, m, b) => k = m
          /\ \A x \in L \ {op.inode} : \A m : ~Has(table, x, m, b)
    BY <1>3, <1>5 DEF Has
  <2>2. table'[op.inode].type = "file" /\ \A x \in L \ {op.inode} : table'[x] = table[x]
    BY <1>3, <1>5
  <2>3. Whole(table', content, L)
    BY <1>3, <1>6, <2>1, <2>2, WholeFile
  <2> QED
    BY <1>7, <2>3
<1>9. \A x \in L : MarkedInode(mem', table', x)
  <2>1. SUFFICES ASSUME NEW x \in L PROVE MarkedInode(mem', table', x)
    OBVIOUS
  <2>2. CASE x = op.inode
    BY <1>3, <1>5, <1>7, <2>2 DEF MarkedInode, Has
  <2>3. CASE x # op.inode
    <3>1. MarkedInode(mem, table, x)
      BY <1>3, <2>3
    <3> QED
      BY <1>5, <1>7, <2>3, <3>1 DEF MarkedInode, Has
  <2> QED
    BY <2>2, <2>3
<1>10. Marks(L)'
  BY <1>3, <1>7, <1>9 DEF TreeInv, Marks
<1>11. Where(L)'
  <2>1. cwd.inode \in L /\ table[cwd.inode].type = "directory"
    BY <1>3 DEF TreeInv, Where
  <2>2. table'[cwd.inode].type = "directory"
    BY <1>3, <1>5, <2>1
  <2> QED
    BY <1>3, <1>7, <2>1, <2>2 DEF TreeInv, Where
<1>12. Between'
  BY <1>3, <1>7 DEF TreeInv, Between
<1>13. OpOK(L)'
  <2>1. CASE op.left > 0
    <3>1. op' = [op EXCEPT !.call = "write", !.pc = "write"]
      BY <1>1, <2>1 DEF AfterInode
    <3>2. op'.call = "write" /\ op'.pc = "write" /\ op'.inode = op.inode /\ op'.node = op.node
      BY <1>3, <3>1 DEF Ops
    <3>3. \A i \in L \ {op.inode} : \A m, b : Has(table', i, m, b) <=> Has(table, i, m, b)
      BY <1>5 DEF Has
    <3>4. WritingOK(L)'
      BY <1>3, <1>5, <1>7, <3>2, <3>3 DEF WritingOK
    <3> QED
      BY <3>2, <3>4 DEF OpOK, CreatingOK, OpenOK, ClearingOK, SavingOK, Creating
  <2>2. CASE ~ (op.left > 0)
    <3>1. op' = NoOp
      BY <1>1, <2>2 DEF AfterInode
    <3> QED
      BY <3>1, NoOpOK
  <2> QED
    BY <2>1, <2>2
<1> QED
  BY <1>8, <1>10, <1>11, <1>12, <1>13 DEF TreeInv

LEMMA TreeExtendsFile ==
  ASSUME Guarded, Typed, NEW L, TreeInv(L), ExtendFile
  PROVE  TreeInv(L)'
<1> DEFINE b == AllocatedBlock(mem)
           n == [op.node EXCEPT !.blocks = Append(@, b)]
           s == op.node.blocks
<1>1. /\ op.pc = "write" /\ op.pc \in Writing /\ Index <= DirectBlocks /\ Index > Len(s) /\ b # 0
      /\ op' = [op EXCEPT !.pc = "data", !.node.blocks = Append(@, b)]
      /\ Changes(AfterAllocateBlock(mem)) /\ UNCHANGED <<fsVars, diskVars, session>>
  BY DEF ExtendFile, Writing
<1>2. /\ mounted /\ Trusted(session) /\ dirty /\ op.call \in {"open", "write"}
      /\ op.inode \in L /\ op.inode \in Inodes /\ table[op.inode].type = "file" /\ op.node.type = "file"
      /\ op \in Ops /\ op.node \in InodeLists /\ InodeBit(op.inode) \in mem.bits
      /\ Unmarked(op) = {op.inode}
      /\ \A x \in L \ {op.inode} : MarkedInode(mem, table, x)
      /\ \A k \in DOMAIN s :
           /\ s[k] \in mem.bits
           /\ \A m \in DOMAIN s : s[k] = s[m] => k = m
           /\ \A i \in L \ {op.inode} : \A m : ~Has(table, i, m, s[k])
           /\ content[s[k]] = DataOf(op.inode)
  BY <1>1, FileInHand
<1>3. /\ b \in DataBlocks /\ b \in FileBlocks /\ b \notin mem.bits
      /\ mem' = AfterAllocateBlock(mem) /\ mem'.bits = mem.bits \cup {b} /\ (~dirty' => ~dirty)
  BY <1>1, GivesBlock, SizesOfDrive DEF Changes, Typed, StateType
<1>4. op' = [op EXCEPT !.pc = "data", !.node = n]
  BY <1>1, <1>2 DEF Ops
<1>5. /\ op'.pc = "data" /\ op'.node = n /\ op'.inode = op.inode /\ op'.call = op.call
      /\ op'.position = op.position
  BY <1>2, <1>4 DEF Ops
<1> HIDE DEF b
<1>6. n.type = op.node.type /\ n.blocks = Append(s, b)
  BY <1>1, <1>3, ExtendedIs
<1>7. Index = Len(s) + 1 /\ Len(s) \in Nat /\ Index' = Len(s) + 1
  BY <1>1, <1>5, IndexIs DEF Index
<1>8. s \in Seq(FileBlocks) /\ DOMAIN s = 1 .. Len(s)
  BY <1>2, InodeListIs
<1> HIDE DEF n, s
<1>9. /\ DOMAIN n.blocks = 1 .. Len(s) + 1 /\ n.blocks[Len(s) + 1] = b
      /\ \A k \in 1 .. Len(s) : n.blocks[k] = s[k]
  BY <1>6, <1>7, <1>8
<1>10. \A i \in L \ {op.inode} : \A m : ~Has(table, i, m, b)
  BY <1>2, <1>3 DEF MarkedInode
<1>11. table' = table /\ content' = content /\ mounted' = mounted /\ session' = session
  BY <1>1 DEF fsVars, diskVars
<1>12. ASSUME NEW k \in DOMAIN n.blocks
       PROVE  /\ n.blocks[k] \in mem'.bits
              /\ \A m \in DOMAIN n.blocks : n.blocks[k] = n.blocks[m] => k = m
              /\ \A i \in L \ {op.inode} : \A m : ~Has(table, i, m, n.blocks[k])
              /\ content[n.blocks[k]] = DataOf(op.inode) \/ k = Len(s) + 1
  <2>1. \A m \in 1 .. Len(s) + 1 : m \in 1 .. Len(s) \/ m = Len(s) + 1
    BY <1>7
  <2>2. \A m \in 1 .. Len(s) : n.blocks[m] # b
    BY <1>2, <1>3, <1>8, <1>9
  <2>3. CASE k = Len(s) + 1
    BY <1>3, <1>9, <1>10, <2>1, <2>2, <2>3
  <2>4. CASE k \in 1 .. Len(s)
    BY <1>2, <1>3, <1>8, <1>9, <2>1, <2>2, <2>4
  <2> QED
    BY <1>9, <2>1, <2>3, <2>4
<1>13. WritingOK(L)'
  <2>1. InodeBit(op.inode) \in mem'.bits /\ n.type = "file"
    BY <1>2, <1>3, <1>6
  <2> QED
    BY <1>2, <1>5, <1>7, <1>11, <1>12, <2>1 DEF WritingOK
<1>14. OpOK(L)'
  BY <1>2, <1>5, <1>13 DEF OpOK, CreatingOK, OpenOK, ClearingOK, SavingOK, Creating
<1>15. \A x \in L \ Unmarked(op') : MarkedInode(mem', table, x)
  <2>1. Unmarked(op') = {op.inode}
    BY <1>5 DEF Unmarked, Writing
  <2>2. mem.bits \subseteq mem'.bits
    BY <1>3
  <2> QED
    BY <1>2, <2>1, <2>2, MarkedStill
<1>16. op.call # "unmount" /\ (~dirty' => ~dirty)
  BY <1>2, <1>3
<1> QED
  BY <1>1, <1>14, <1>15, <1>16, InMemory

LEMMA TreeGoesOnWriting ==
  ASSUME Guarded, Typed, NEW L, TreeInv(L), RewriteBlock \/ StopWriting
  PROVE  TreeInv(L)'
<1>1. /\ op.pc = "write" /\ op.pc \in Writing
      /\ UNCHANGED <<mem, dirty, fsVars, diskVars, session>>
      /\ op' = [op EXCEPT !.pc = "data"] \/ op' = [op EXCEPT !.pc = "file_inode", !.left = 0]
  BY DEF RewriteBlock, StopWriting, Writing
<1>2. /\ mounted /\ Trusted(session) /\ op.call \in {"open", "write"}
      /\ op.inode \in L /\ table[op.inode].type = "file" /\ op.node.type = "file"
      /\ op \in Ops /\ InodeBit(op.inode) \in mem.bits
      /\ Unmarked(op) = {op.inode}
      /\ \A x \in L \ {op.inode} : MarkedInode(mem, table, x)
      /\ \A k \in DOMAIN op.node.blocks :
           /\ op.node.blocks[k] \in mem.bits
           /\ \A m \in DOMAIN op.node.blocks : op.node.blocks[k] = op.node.blocks[m] => k = m
           /\ \A i \in L \ {op.inode} : \A m : ~Has(table, i, m, op.node.blocks[k])
           /\ content[op.node.blocks[k]] = DataOf(op.inode)
  BY <1>1, FileInHand
<1>3. /\ op'.pc \in {"data", "file_inode"} /\ op'.call = op.call
      /\ op'.inode = op.inode /\ op'.node = op.node
  BY <1>1, <1>2 DEF Ops
<1>4. /\ mem' = mem /\ dirty' = dirty /\ table' = table /\ content' = content
      /\ mounted' = mounted /\ session' = session
  BY <1>1 DEF fsVars, diskVars
<1>5. WritingOK(L)'
  BY <1>2, <1>3, <1>4 DEF WritingOK
<1>6. OpOK(L)'
  BY <1>2, <1>3, <1>5 DEF OpOK, CreatingOK, OpenOK, ClearingOK, SavingOK, Creating
<1>7. Unmarked(op') = {op.inode}
  BY <1>3 DEF Unmarked, Writing
<1>8. \A x \in L \ Unmarked(op') : MarkedInode(mem', table, x)
  BY <1>2, <1>4, <1>7
<1> QED
  BY <1>1, <1>2, <1>4, <1>6, <1>8, InMemory

LEMMA TreeWritesData ==
  ASSUME Guarded, Typed, NEW L, TreeInv(L), WriteData
  PROVE  TreeInv(L)'
<1> DEFINE b == op.node.blocks[Index]
           s == op.node.blocks
<1>1. PICK w \in Outcomes :
        /\ PutContent(b, DataOf(op.inode), w)
        /\ op' = IF w = "done"
                   THEN [op EXCEPT !.pc = "file_inode", !.position = @ + 1, !.left = @ - 1]
                   ELSE [op EXCEPT !.pc = "file_inode", !.left = 0]
  BY DEF WriteData
<1>2. op.pc = "data" /\ op.pc \in Writing /\ UNCHANGED <<mem, dirty, fsVars, diskCopy, table, session>>
  BY DEF WriteData, Writing
<1>3. /\ mounted /\ Trusted(session) /\ dirty /\ op.call \in {"open", "write"}
      /\ op.inode \in L /\ table[op.inode].type = "file" /\ op.node.type = "file"
      /\ op \in Ops /\ op.node \in InodeLists /\ InodeBit(op.inode) \in mem.bits
      /\ Unmarked(op) = {op.inode}
      /\ \A x \in L \ {op.inode} : MarkedInode(mem, table, x)
      /\ \A k \in DOMAIN s :
           /\ s[k] \in mem.bits
           /\ \A m \in DOMAIN s : s[k] = s[m] => k = m
           /\ \A i \in L \ {op.inode} : \A m : ~Has(table, i, m, s[k])
           /\ content[s[k]] = DataOf(op.inode) \/ k = Index
  BY <1>2, FileInHand
<1>4. w = "done"
  BY <1>1, <1>3, OutcomesAre
<1>5. Index \in DOMAIN s /\ b \in FileBlocks
  BY <1>2, <1>3, IndexIs, InodeListIs
<1>6. op' = [op EXCEPT !.pc = "file_inode", !.position = @ + 1, !.left = @ - 1]
  BY <1>1, <1>4
<1>7. /\ op'.pc = "file_inode" /\ op'.call = op.call /\ op'.inode = op.inode /\ op'.node = op.node
  BY <1>3, <1>6 DEF Ops
<1>8. content'[b] = DataOf(op.inode) /\ \A c : c # b => content'[c] = content[c]
  <2>1. content \in Stores
    BY DEF Typed, StateType
  <2> HIDE DEF b
  <2> QED
    BY <1>1, <1>4, <1>5, <2>1 DEF PutContent, Stores
<1>9. \A k \in DOMAIN s : content'[s[k]] = DataOf(op.inode)
  BY <1>3, <1>8
<1>10. \A x \in L : \A k, c : Has(table, x, k, c) => content'[c] = content[c]
  <2>1. SUFFICES ASSUME NEW x \in L, NEW k, Has(table, x, k, b) PROVE content'[b] = content[b]
    BY <1>8
  <2>2. x = op.inode
    BY <1>3, <1>5, <2>1
  <2>3. content[b] = DataOf(op.inode)
    BY <1>3, <2>1, <2>2 DEF TreeInv, Whole, ContentsRight, RightContent
  <2> QED
    BY <1>8, <2>3
<1>11. /\ mem' = mem /\ dirty' = dirty /\ table' = table /\ mounted' = mounted /\ session' = session
  BY <1>2 DEF fsVars
<1>12. WritingOK(L)'
  BY <1>3, <1>7, <1>9, <1>11 DEF WritingOK
<1>13. OpOK(L)'
  BY <1>3, <1>7, <1>12 DEF OpOK, CreatingOK, OpenOK, ClearingOK, SavingOK, Creating
<1>14. Unmarked(op') = {op.inode}
  BY <1>7 DEF Unmarked, Writing
<1>15. \A x \in L \ Unmarked(op') : MarkedInode(mem', table, x)
  BY <1>3, <1>11, <1>14
<1>16. mounted /\ op.call # "unmount" /\ dirty' /\ UNCHANGED <<fsVars, diskCopy, session>>
       /\ \A x \in L : table'[x] = table[x]
  BY <1>2, <1>3, <1>11
<1> QED
  BY <1>10, <1>13, <1>15, <1>16, TreeUntouched

-----------------------------------------------------------------------------
(***************************************************************************)
(* cd, mounting, saving, formatting, losing power.                         *)
(***************************************************************************)
LEMMA TreeChangesDirectory ==
  ASSUME Guarded, Typed, NEW L, TreeInv(L), ChangeDirectory
  PROVE  TreeInv(L)'
<1>1. PICK p \in DirPaths, bad \in Unreadable("change_directory") :
        /\ p = Up => cwd.path # <<>>
        /\ LET i == Find([absolute |-> TRUE, names |-> NewDirectory(p)], bad) IN
           /\ i # 0
           /\ IsDirectory(i)
           /\ cwd' = [inode |-> i, path |-> NewDirectory(p)]
  BY DEF ChangeDirectory
<1>2. Ready("cd") /\ UNCHANGED <<mounted, mem, dirty, snapshot, diskVars, op, session>>
  BY DEF ChangeDirectory
<1>3. mounted /\ op = NoOp /\ op.call # "unmount"
  BY <1>2, ReadyIs
<1>4. Len(NewDirectory(p)) \in Nat
  BY <1>1, NewDirectoryType
<1> DEFINE i == Find([absolute |-> TRUE, names |-> NewDirectory(p)], bad)
<1>5. i \in {0} \cup L
  BY <1>3, <1>4, FindInTree
<1>6. i \in L /\ table[i].type = "directory" /\ cwd'.inode = i
  <2> HIDE DEF i
  <2> QED
    BY <1>1, <1>5 DEF i, IsDirectory
<1> HIDE DEF i
<1>7. /\ mounted' = mounted /\ mem' = mem /\ dirty' = dirty /\ snapshot' = snapshot /\ op' = op
      /\ session' = session /\ table' = table /\ content' = content /\ diskCopy' = diskCopy
  BY <1>2 DEF diskVars
<1>8. Whole(table', content', L) /\ Marks(L)' /\ Between'
  BY <1>7 DEF TreeInv, Marks, Between
<1>9. Where(L)'
  BY <1>1, <1>3, <1>6, <1>7 DEF Where
<1>10. OpOK(L)'
  BY <1>3, <1>7, NoOpOK
<1> QED
  BY <1>8, <1>9, <1>10 DEF TreeInv

\* The root and its block are marked wherever the tree is.
LEMMA RootIsMarked ==
  ASSUME NEW L, TreeInv(L), mounted, Trusted(session), RootInode \notin Unmarked(op)
  PROVE  RootMarked(mem)
<1>1. RootInode \in L \ Unmarked(op) /\ Has(table, RootInode, 1, RootBlock)
  BY DEF TreeInv, Whole, Kinds
<1>2. MarkedInode(mem, table, RootInode)
  BY <1>1 DEF TreeInv, Marks
<1> QED
  BY <1>1, <1>2 DEF MarkedInode, RootMarked

LEMMA TreeMounts ==
  ASSUME Guarded, Typed, NEW L, TreeInv(L), Mount
  PROVE  TreeInv(L)'
<1>1. /\ ~mounted /\ op = NoOp /\ mounted' = TRUE /\ mem' = diskCopy /\ dirty' = FALSE
      /\ snapshot' = table /\ cwd' = AtRoot /\ session' = session + 1 /\ op' = op
      /\ table' = table /\ content' = content /\ diskCopy' = diskCopy
  BY DEF Mount, diskVars
<1>2. Whole(table, content, L) /\ RootInode \in L /\ table[RootInode].type = "directory"
  BY DEF TreeInv, Whole, Kinds
<1>3. OpOK(L)' /\ Unmarked(op') = {}
  BY <1>1, NoOpOK
<1>4. Marks(L)'
  <2>1. SUFFICES ASSUME Trusted(session + 1)
                 PROVE  (\A i \in L : MarkedInode(diskCopy, table, i)) /\ table = FreshTable
    BY <1>1, <1>3 DEF Marks
  <2>2. table = FreshTable
    BY <1>1, <2>1 DEF TreeInv, Between
  <2>3. L = {RootInode}
    BY <1>2, <2>2, FreshIsRoot
  <2>4. \A k, b : Has(table, RootInode, k, b) => b = RootBlock
    BY <2>2, FreshType DEF Has
  <2>5. MarkedInode(diskCopy, table, RootInode)
    BY <2>4 DEF TreeInv, Between, RootMarked, MarkedInode
  <2> QED
    BY <2>2, <2>3, <2>5
<1>5. Where(L)'
  BY <1>1, <1>2 DEF Where, AtRoot
<1>6. Between'
  <2>1. session + 1 > 0
    BY DEF Typed, StateType
  <2> QED
    BY <1>1, <2>1 DEF TreeInv, Between
<1> QED
  BY <1>1, <1>2, <1>3, <1>4, <1>5, <1>6 DEF TreeInv

LEMMA TreeForgets ==
  ASSUME Guarded, Typed, NEW L, TreeInv(L), UnmountClean \/ PowerCut
  PROVE  TreeInv(L)'
<1>1. /\ ~mounted' /\ cwd' = AtRoot /\ session' = session
      /\ table' = table /\ content' = content /\ diskCopy' = diskCopy
  BY DEF UnmountClean, PowerCut, Forget, diskVars
<1>2. op' = NoOp
  BY ReadyIs DEF UnmountClean, PowerCut
<1>3. Trusted(session + 1) => table = FreshTable
  <2>1. CASE UnmountClean
    <3>1. mounted /\ Trusted(session) /\ ~dirty
      BY <2>1, ReadyIs DEF UnmountClean
    <3> QED
      BY <3>1 DEF TreeInv, Marks
  <2>2. CASE PowerCut
    <3>1. session \in DOMAIN Sessions /\ session < session + 1
      BY <2>2, RfssAssumption DEF PowerCut, Typed, StateType
    <3> QED
      BY <2>2, <3>1 DEF PowerCut, Trusted
  <2> QED
    BY <2>1, <2>2
<1>4. OpOK(L)'
  BY <1>2, NoOpOK
<1>5. Whole(table', content', L) /\ Marks(L)' /\ Where(L)' /\ Between'
  BY <1>1, <1>3 DEF TreeInv, Marks, Where, Between
<1> QED
  BY <1>4, <1>5 DEF TreeInv

LEMMA TreeSavingStarts ==
  ASSUME Guarded, Typed, NEW L, TreeInv(L), UnmountDirty \/ Format
  PROVE  TreeInv(L)'
<1>1. op = NoOp /\ UNCHANGED <<mem, dirty, fsVars, diskVars, session>>
  BY DEF UnmountDirty, Format, Ready
<1>2. PICK call \in {"unmount", "format"} :
        /\ op' = [NoOp EXCEPT !.call = call, !.pc = "superblock"]
        /\ call = "unmount" => UnmountDirty
        /\ call = "format" => Format
  BY DEF UnmountDirty, Format
<1>3. op'.call = call /\ op'.pc = "superblock"
  BY <1>2 DEF NoOp
<1>4. call = "unmount" => mounted /\ Trusted(session) /\ Unmounts
  BY <1>2, ReadyIs DEF UnmountDirty, Unmounts
<1>5. op.call # "unmount" /\ Unmarked(op) = {} /\ Unmarked(op') = {}
  BY <1>1, <1>3 DEF NoOp, Unmarked, Writing
<1>6. /\ mounted' = mounted /\ session' = session /\ mem' = mem /\ dirty' = dirty /\ table' = table
  BY <1>1 DEF fsVars, diskVars
<1>0. call = "format" => DirPaths = {}
  <2>1. SUFFICES ASSUME call = "format" PROVE DirPaths = {}
    OBVIOUS
  <2>2. session > 0 /\ "format" \in Sessions[session]
    BY <1>2, <2>1 DEF Format
  <2>3. session \in DOMAIN Sessions
    BY <2>2, RfssAssumption DEF Typed, StateType
  <2> QED
    BY <2>2, <2>3 DEF Guarded
<1>7. OpOK(L)'
  BY <1>0, <1>3, <1>4, <1>6 DEF OpOK, CreatingOK, OpenOK, WritingOK, ClearingOK, SavingOK, Creating,
                          Writing, Saving
<1>8. mounted /\ Trusted(session) =>
        (\A i \in L \ Unmarked(op') : MarkedInode(mem', table, i)) /\ (~dirty' => ~dirty)
  BY <1>5, <1>6 DEF TreeInv, Marks
<1> QED
  BY <1>1, <1>5, <1>7, <1>8, InMemory

\* What a save or a format writes to the drive keeps the root marked.
LEMMA TreeSavesCopy ==
  ASSUME Guarded, Typed, FormatInv, NEW L, TreeInv(L), WriteCopy
  PROVE  TreeInv(L)'
<1> DEFINE image == IF op.call = "unmount" THEN mem ELSE Formatted
<1>1. PICK w \in Outcomes :
        /\ diskCopy' = IF w = "lost" THEN diskCopy ELSE SavedCopy(diskCopy, image, op.pc)
        /\ op' = IF op.call = "format" /\ w # "done" THEN NoOp
                 ELSE [op EXCEPT !.pc = StageAfter(@), !.block = 1]
  BY DEF WriteCopy
<1>2. /\ op.pc \in {"superblock", "block_bitmap", "inode_bitmap"} /\ op.pc \in Saving
      /\ UNCHANGED <<mem, dirty, fsVars, table, content, session>>
      /\ op.call \in {"unmount", "format"} /\ op \in Ops
  BY DEF WriteCopy, FormatInv, Formatting, Saving, Typed, OpType
<1>3. op.call = "unmount" => mounted /\ Trusted(session) /\ Unmounts
  BY DEF TreeInv, OpOK, SavingOK
<1>4. Unmarked(op) = {}
  BY <1>2 DEF Unmarked, Writing
<1>5. RootMarked(image)
  <2>1. CASE op.call = "unmount"
    BY <1>3, <1>4, <2>1, RootIsMarked
  <2>2. CASE op.call # "unmount"
    <3>1. RootBlock \in 0 .. (Reserved - 1)
      BY SizesAssumption DEF RootBlock
    <3> QED
      BY <2>2, <3>1 DEF RootMarked, Formatted
  <2> QED
    BY <2>1, <2>2
<1>6. image \in Copies /\ diskCopy \in Copies /\ RootMarked(diskCopy)
  BY CopiesType DEF Typed, StateType, TreeInv, Between
<1> HIDE DEF image
<1>7. RootMarked(diskCopy')
  <2>1. CASE w = "lost"
    BY <1>1, <1>6, <2>1
  <2>2. CASE w # "lost"
    <3>1. diskCopy' = SavedCopy(diskCopy, image, op.pc)
      BY <1>1, <2>2
    <3>2. CASE op.pc = "superblock"
      BY <1>6, <3>1, <3>2 DEF SavedCopy, RootMarked, Copies
    <3>3. CASE op.pc = "block_bitmap"
      <4>1. SavedCopy(diskCopy, image, "block_bitmap") =
              [diskCopy EXCEPT !.bits = (@ \ BlockBits) \cup (image.bits \cap BlockBits)]
        BY DEF SavedCopy
      <4> QED
        BY <1>5, <1>6, <3>1, <3>3, <4>1 DEF RootMarked, Copies
    <3>4. CASE op.pc = "inode_bitmap"
      <4>1. SavedCopy(diskCopy, image, "inode_bitmap") =
              [diskCopy EXCEPT !.bits = (@ \ InodeBits) \cup (image.bits \cap InodeBits)]
        BY DEF SavedCopy
      <4> QED
        BY <1>5, <1>6, <3>1, <3>4, <4>1 DEF RootMarked, Copies
    <3> QED
      BY <1>2, <3>2, <3>3, <3>4
  <2> QED
    BY <2>1, <2>2
<1>8. \/ op' = NoOp /\ op.call = "format"
      \/ op' = [op EXCEPT !.pc = StageAfter(op.pc), !.block = 1]
  BY <1>1
<1>9. /\ mounted' = mounted /\ session' = session /\ mem' = mem /\ dirty' = dirty /\ table' = table
      /\ content' = content /\ cwd' = cwd /\ snapshot' = snapshot
  BY <1>2 DEF fsVars
<1>10. Whole(table', content', L) /\ Between'
  BY <1>7, <1>9 DEF TreeInv, Between
<1>11. CASE op' = NoOp /\ op.call = "format"
  <2>1. OpOK(L)' /\ Unmarked(op') = {}
    BY <1>11, NoOpOK
  <2>2. Marks(L)' /\ Where(L)'
    BY <1>4, <1>9, <1>11, <2>1 DEF TreeInv, Marks, Where
  <2> QED
    BY <1>10, <2>1, <2>2 DEF TreeInv
<1>12. CASE op' = [op EXCEPT !.pc = StageAfter(op.pc), !.block = 1]
  <2>1. /\ op'.pc \in {"block_bitmap", "inode_bitmap", "table"} /\ op'.pc \in Saving
        /\ op'.call = op.call /\ op'.block = 1
    BY <1>2, <1>12, StageAfterIs DEF Ops, Saving
  <2>2. \A i \in Inodes : ~ ((i - 1) \div InodesPerBlock + 1 < 1)
    BY TablePlace
  <2>3. SavingOK'
    <3>1. op.call = "format" => DirPaths = {}
      BY DEF TreeInv, OpOK, SavingOK
    <3> QED
      BY <1>3, <1>9, <2>1, <2>2, <3>1 DEF SavingOK
  <2>4. OpOK(L)'
    BY <2>1, <2>3 DEF OpOK, CreatingOK, OpenOK, WritingOK, ClearingOK, Creating, Writing
  <2>5. Unmarked(op') = {}
    BY <2>1 DEF Unmarked, Writing
  <2>6. Marks(L)' /\ Where(L)'
    BY <1>4, <1>9, <2>1, <2>5 DEF TreeInv, Marks, Where
  <2> QED
    BY <1>10, <2>4, <2>6 DEF TreeInv
<1> QED
  BY <1>8, <1>11, <1>12

\* Blocks of the table are written as they are in a fresh table, the root's
\* first: from then on the tree is the root.
LEMMA TreeSavesTable ==
  ASSUME Guarded, Typed, Typed', FormatInv, NEW L, TreeInv(L), WriteTable
  PROVE  \E M : TreeInv(M)'
<1> DEFINE q(i) == (i - 1) \div InodesPerBlock + 1
<1>1. PICK w \in Outcomes :
        /\ table' = IF w = "lost" THEN table
                    ELSE [i \in Inodes |->
                            IF ~InTableBlock(i, op.block) THEN table[i]
                            ELSE IF op.call = "unmount" THEN snapshot[i] ELSE FreshTable[i]]
        /\ \/ /\ op.call = "format" /\ w # "done"
              /\ op' = NoOp /\ UNCHANGED <<mem, dirty, fsVars>>
           \/ /\ op.call = "unmount" \/ w = "done"
              /\ op.block + 1 \in TableBlocks
              /\ op' = [op EXCEPT !.block = @ + 1] /\ UNCHANGED <<mem, dirty, fsVars>>
           \/ /\ op.call = "format" /\ w = "done" /\ op.block + 1 \notin TableBlocks
              /\ op' = [op EXCEPT !.pc = "root"] /\ UNCHANGED <<mem, dirty, fsVars>>
           \/ /\ op.call = "unmount" /\ op.block + 1 \notin TableBlocks
              /\ op' = NoOp /\ Forget
  BY DEF WriteTable
<1>2. /\ op.pc = "table" /\ op \in Ops /\ content' = content /\ diskCopy' = diskCopy /\ session' = session
      /\ op.call \in {"unmount", "format"} /\ op.block \in TableBlocks
  BY DEF WriteTable, FormatInv, Formatting, Saving, Typed, OpType
<1>3. Unmarked(op) = {}
  BY <1>2 DEF Unmarked, Writing
<1>4. op.call = "unmount" => mounted /\ Trusted(session) /\ Unmounts /\ snapshot = FreshTable
  BY DEF TreeInv, OpOK, SavingOK, Marks
<1>5. op.call = "format" => DirPaths = {}
  BY DEF TreeInv, OpOK, SavingOK
<1>6. RootMarked(diskCopy) /\ (mounted => session > 0) /\ (~mounted \/ DirPaths = {} => cwd = AtRoot)
  BY DEF TreeInv, Between, Where
<1>7. CASE w = "lost"
  <2>1. op.call = "format" /\ table' = table /\ op' = NoOp /\ UNCHANGED <<mem, dirty, fsVars>>
    <3>1. op.call # "unmount"
      BY <1>7, OutcomesAre
    <3> QED
      BY <1>1, <1>2, <1>7, <3>1
  <2>2. OpOK(L)' /\ Unmarked(op') = {}
    BY <2>1, NoOpOK
  <2>3. mounted /\ Trusted(session) =>
          (\A x \in L \ Unmarked(op') : MarkedInode(mem', table, x)) /\ (~dirty' => ~dirty)
    BY <1>3, <2>1, <2>2 DEF TreeInv, Marks
  <2>4. UNCHANGED <<fsVars, diskVars, session>> /\ op.call # "unmount"
    BY <1>2, <2>1 DEF diskVars
  <2>5. TreeInv(L)'
    BY <2>2, <2>3, <2>4, InMemory
  <2> QED
    BY <2>5
<1>8. CASE w # "lost"
  <2>1. \A i \in Inodes : /\ q(i) # op.block => table'[i] = table[i]
                          /\ q(i) = op.block => table'[i] = FreshTable[i]
    BY <1>1, <1>2, <1>4, <1>8 DEF InTableBlock
  <2>2. \A i \in Inodes : q(i) < op.block => table[i] = FreshTable[i]
    BY <1>2 DEF TreeInv, OpOK, SavingOK, FormatInv, Formatting
  <2>3. op.block \in Nat /\ op.block >= 1 /\ \A i \in Inodes : q(i) \in Nat
    BY <1>2, TableBlocksAre, TablePlace DEF TableBlocks
  <2>4. \A i \in Inodes : q(i) <= op.block => table'[i] = FreshTable[i]
    <3>1. SUFFICES ASSUME NEW i \in Inodes, q(i) <= op.block PROVE table'[i] = FreshTable[i]
      OBVIOUS
    <3>2. q(i) < op.block \/ q(i) = op.block
      <4>1. q(i) \in Nat
        BY <2>3
      <4> HIDE DEF q
      <4> QED
        BY <2>3, <3>1, <4>1
    <3> HIDE DEF q
    <3> QED
      BY <2>1, <2>2, <3>2
  <2>5. RootInode \in Inodes /\ q(RootInode) = 1
    BY TablePlace, SizesOfDrive
  <2> HIDE DEF q
  <2>6. table'[RootInode] = FreshTable[RootInode] /\ content'[RootBlock] = DotsOf(RootInode)
    BY <1>2, <2>3, <2>4, <2>5 DEF FormatInv, RootBlockKept
  <2>7. PICK M : M = {RootInode}
    OBVIOUS
  <2>8. Whole(table', content', M)
    BY <2>6, <2>7, WholeFresh
  <2>9. table = FreshTable => table' = FreshTable
    <3>1. ASSUME table = FreshTable PROVE \A i \in Inodes : table'[i] = FreshTable[i]
      BY <2>1, <3>1
    <3>2. table' \in Tables /\ FreshTable \in Tables
      BY FreshType DEF Typed, StateType
    <3> QED
      BY <3>1, <3>2 DEF Tables
  <2>10. mounted /\ Trusted(session) => MarkedInode(mem, table', RootInode)
    <3>1. SUFFICES ASSUME mounted, Trusted(session) PROVE MarkedInode(mem, table', RootInode)
      OBVIOUS
    <3>2. RootMarked(mem)
      BY <1>3, <3>1, RootIsMarked
    <3>3. \A k, b : Has(table', RootInode, k, b) => b = RootBlock
      BY <2>6, FreshType DEF Has
    <3> QED
      BY <3>2, <3>3 DEF MarkedInode, RootMarked
  <2>11. CASE /\ UNCHANGED <<mem, dirty, fsVars>>
              /\ \/ op' = NoOp /\ op.call = "format"
                 \/ op' = [op EXCEPT !.block = @ + 1]
                 \/ op' = [op EXCEPT !.pc = "root"] /\ op.call = "format"
    <3>1. /\ mounted' = mounted /\ mem' = mem /\ dirty' = dirty /\ cwd' = cwd /\ snapshot' = snapshot
      BY <2>11 DEF fsVars
    <3>2. /\ op'.call = op.call \/ op' = NoOp
          /\ op.call = "unmount" => op'.call = "unmount" /\ op'.pc = "table" /\ op'.block = op.block + 1
          /\ op'.pc \in {"none", "table", "root"}
      <4>1. op' = NoOp => op'.pc = "none"
        BY DEF NoOp
      <4>2. op.block + 1 \in Nat
        BY <2>3
      <4>3. op' = [op EXCEPT !.block = @ + 1] =>
              op'.call = op.call /\ op'.pc = "table" /\ op'.block = op.block + 1
        BY <1>2, <4>2 DEF Ops
      <4>4. op' = [op EXCEPT !.pc = "root"] => op'.call = op.call /\ op'.pc = "root"
        BY <1>2 DEF Ops
      <4> QED
        BY <2>11, <4>1, <4>3, <4>4
    <3>3. op'.call \in {"none", "unmount", "format"} /\ (op'.call = "unmount" => op.call = "unmount")
          /\ (op'.call = "format" => op.call = "format")
      BY <1>2, <3>2 DEF NoOp
    <3>4. Marks(M)'
      BY <1>2, <2>7, <2>9, <2>10, <3>1 DEF TreeInv, Marks
    <3>5. Where(M)'
      <4>1. op'.call # "unmount" => cwd = AtRoot
        BY <1>2, <1>5, <1>6, <3>2
      <4>2. AtRoot.inode = RootInode /\ table'[RootInode].type = "directory"
        BY <2>6, FreshType DEF AtRoot
      <4> QED
        BY <1>6, <2>7, <3>1, <4>1, <4>2 DEF Where
    <3>6. Between'
      BY <1>2, <1>6, <2>9, <3>1 DEF TreeInv, Between
    <3>7. SavingOK'
      <4>1. op.call = "unmount" => \A i \in Inodes : q(i) < op.block + 1 => table'[i] = FreshTable[i]
        <5>1. \A n \in Nat : n < op.block + 1 => n <= op.block
          BY <2>3
        <5> QED
          BY <2>3, <2>4, <5>1
      <4>2. op.call = "unmount" /\ op'.pc = "table" =>
              \A i \in Inodes : (i - 1) \div InodesPerBlock + 1 < op'.block => table'[i] = FreshTable[i]
        BY <3>2, <4>1 DEF q
      <4>3. op'.call = "unmount" => op'.pc \in Saving
        BY <3>2, <3>3 DEF Saving
      <4> QED
        BY <1>2, <1>4, <1>5, <3>1, <3>3, <4>2, <4>3 DEF SavingOK
    <3>8. OpOK(M)'
      BY <3>2, <3>3, <3>7 DEF OpOK, CreatingOK, OpenOK, WritingOK, ClearingOK, Creating, Writing
    <3>9. TreeInv(M)'
      BY <2>8, <3>4, <3>5, <3>6, <3>8 DEF TreeInv
    <3> QED
      BY <3>9
  <2>12. CASE op.call = "unmount" /\ op.block + 1 \notin TableBlocks /\ op' = NoOp /\ Forget
    <3>1. ~mounted' /\ cwd' = AtRoot
      BY <2>12 DEF Forget
    <3>2. table' = FreshTable
      <4>1. \A i \in Inodes : q(i) <= op.block
        BY <1>2, <2>12, TableBlocksAre DEF q
      <4>2. table' \in Tables /\ FreshTable \in Tables
        BY FreshType DEF Typed, StateType
      <4> QED
        BY <2>4, <4>1, <4>2 DEF Tables
    <3>3. Marks(M)' /\ Where(M)' /\ Between'
      BY <1>2, <1>6, <3>1, <3>2 DEF Marks, Where, Between
    <3>4. OpOK(M)'
      BY <2>12, NoOpOK
    <3>5. TreeInv(M)'
      BY <2>8, <3>3, <3>4 DEF TreeInv
    <3> QED
      BY <3>5
  <2>13. \/ /\ UNCHANGED <<mem, dirty, fsVars>>
            /\ \/ op' = NoOp /\ op.call = "format"
               \/ op' = [op EXCEPT !.block = @ + 1]
               \/ op' = [op EXCEPT !.pc = "root"] /\ op.call = "format"
         \/ op.call = "unmount" /\ op.block + 1 \notin TableBlocks /\ op' = NoOp /\ Forget
    BY <1>1
  <2> QED
    BY <2>11, <2>12, <2>13
<1> QED
  BY <1>7, <1>8

LEMMA TreeWritesRoot ==
  ASSUME Guarded, Typed, FormatInv, NEW L, TreeInv(L), WriteRoot
  PROVE  TreeInv(L)'
<1>1. PICK w \in Outcomes : PutContent(RootBlock, DotsOf(RootInode), w)
  BY DEF WriteRoot
<1>2. op.pc = "root" /\ op' = NoOp /\ UNCHANGED <<mem, dirty, fsVars, diskCopy, table, session>>
  BY DEF WriteRoot
<1>3. op.call # "unmount" /\ Unmarked(op) = {}
  BY <1>2 DEF FormatInv, Formatting, Unmarked, Writing
<1>4. content' = content
  BY <1>1 DEF PutContent, FormatInv, RootBlockKept, Typed, StateType, Stores
<1>5. OpOK(L)' /\ Unmarked(op') = {}
  BY <1>2, NoOpOK
<1>6. mounted /\ Trusted(session) =>
        (\A x \in L \ Unmarked(op') : MarkedInode(mem', table, x)) /\ (~dirty' => ~dirty)
  BY <1>2, <1>3, <1>5 DEF TreeInv, Marks
<1>7. UNCHANGED <<fsVars, diskVars, session>>
  BY <1>2, <1>4 DEF diskVars
<1> QED
  BY <1>3, <1>5, <1>6, <1>7, InMemory

-----------------------------------------------------------------------------
(***************************************************************************)
(* At every moment there is such a tree.                                   *)
(***************************************************************************)
TreeStands == \E L : TreeInv(L)

\* The four arguments together: what the theorems below rest on.
Sound == Typed /\ FormatInv /\ TreeStands

LEMMA SoundInit == ASSUME Init PROVE Sound
<1>1. /\ ~mounted /\ cwd = AtRoot /\ diskCopy = Formatted /\ table = FreshTable /\ op = NoOp
      /\ content[RootBlock] = DotsOf(RootInode) /\ mounted \in BOOLEAN
  BY SizesOfDrive DEF Init
<1>2. PICK M : M = {RootInode}
  OBVIOUS
<1>3. Whole(table, content, M)
  BY <1>1, <1>2, WholeFresh
<1>4. Marks(M) /\ Where(M)
  BY <1>1 DEF Marks, Where
<1>5. Between
  <2>1. RootBlock \in 0 .. (Reserved - 1)
    BY SizesAssumption DEF RootBlock
  <2> QED
    BY <1>1, <2>1 DEF Between, RootMarked, Formatted
<1>6. OpOK(M)
  <2>1. op.pc = "none" /\ op.call = "none"
    BY <1>1 DEF NoOp
  <2> QED
    BY <2>1 DEF OpOK, CreatingOK, OpenOK, WritingOK, ClearingOK, SavingOK, Creating, Writing
<1>7. TreeInv(M)
  BY <1>3, <1>4, <1>5, <1>6 DEF TreeInv
<1> QED
  BY <1>7, TypeInit, FormatInit DEF Sound, TreeStands

LEMMA TreeStutters ==
  ASSUME NEW L, TreeInv(L), UNCHANGED vars
  PROVE  TreeInv(L)'
<1>1. /\ table' = table /\ content' = content /\ mounted' = mounted /\ session' = session
      /\ mem' = mem /\ dirty' = dirty /\ op' = op /\ cwd' = cwd /\ snapshot' = snapshot
      /\ diskCopy' = diskCopy
  BY DEF vars
<1>2. Whole(table', content', L) /\ Marks(L)' /\ Where(L)' /\ Between'
  BY <1>1 DEF TreeInv, Marks, Where, Between
<1>3. CreatingOK(L)'
  BY <1>1 DEF TreeInv, OpOK, CreatingOK, Spare, ParentOfNew, Find, NewInode, NewEntry
<1>4. OpenOK(L)' /\ ClearingOK(L)' /\ SavingOK'
  BY <1>1 DEF TreeInv, OpOK, OpenOK, ClearingOK, SavingOK, Find
<1>5. WritingOK(L)'
  BY <1>1 DEF TreeInv, OpOK, WritingOK, Index
<1> QED
  BY <1>2, <1>3, <1>4, <1>5 DEF TreeInv, OpOK

LEMMA TreeNext ==
  ASSUME Guarded, Typed, Typed', FormatInv, NEW L, TreeInv(L), [Next]_vars
  PROVE  \E M : TreeInv(M)'
<1>1. CASE Touch \/ Mkdir \/ Copy \/ DeleteFile \/ RemoveDirectory \/ Edit \/ CopyOpens
  <2>1. TreeInv(L)'
    BY <1>1, TreeCreates, TreeRemoves, TreeOpens
  <2> QED
    BY <2>1
<1>2. CASE WriteDots \/ WriteNewInode \/ GrowDirectory \/ RefuseEntry \/ WriteEntryBlock
  <2>1. TreeInv(L)'
    BY <1>2, TreeDots, TreeNewInode, TreeGrows, TreeRefuses, TreeEntryBlock
  <2> QED
    BY <2>1
<1>3. CASE AppendEntry
  <2>1. PICK M : TreeInv(M)'
    BY <1>3, TreeAppends
  <2> QED
    BY <2>1
<1>4. CASE WriteParentInode
  <2>1. PICK M : TreeInv(M)'
    BY <1>4, TreeExtends
  <2> QED
    BY <2>1
<1>5. CASE ClearEntry
  <2>1. PICK M : TreeInv(M)'
    BY <1>5, TreeClears
  <2> QED
    BY <2>1
<1>6. CASE WriteTruncatedInode \/ WriteFileInode \/ ExtendFile \/ RewriteBlock \/ StopWriting \/ WriteData
  <2>1. TreeInv(L)'
    BY <1>6, TreeWritesInode, TreeExtendsFile, TreeGoesOnWriting, TreeWritesData
  <2> QED
    BY <2>1
<1>7. CASE ChangeDirectory \/ Mount \/ UnmountClean \/ PowerCut \/ UnmountDirty \/ Format
  <2>1. TreeInv(L)'
    BY <1>7, TreeChangesDirectory, TreeMounts, TreeForgets, TreeSavingStarts
  <2> QED
    BY <2>1
<1>8. CASE WriteCopy \/ WriteRoot
  <2>1. TreeInv(L)'
    BY <1>8, TreeSavesCopy, TreeWritesRoot
  <2> QED
    BY <2>1
<1>9. CASE WriteTable
  BY <1>9, TreeSavesTable
<1>10. CASE UNCHANGED vars
  <2>1. TreeInv(L)'
    BY <1>10, TreeStutters
  <2> QED
    BY <2>1
<1> QED
  BY <1>1, <1>2, <1>3, <1>4, <1>5, <1>6, <1>7, <1>8, <1>9, <1>10 DEF Next

LEMMA SoundNext == ASSUME Guarded, Sound, [Next]_vars PROVE Sound'
<1>1. Typed /\ FormatInv /\ Typed' /\ FormatInv'
  BY TypeNext, FormatNext DEF Sound
<1>2. PICK L : TreeInv(L)
  BY DEF Sound, TreeStands
<1>3. \E M : TreeInv(M)'
  BY <1>1, <1>2, TreeNext
<1> QED
  BY <1>1, <1>3 DEF Sound, TreeStands

-----------------------------------------------------------------------------
(***************************************************************************)
(* What a whole tree means for what is reached from the root.              *)
(***************************************************************************)
LEMMA ReachableInTree ==
  ASSUME Typed, NEW L, TreeInv(L)
  PROVE  /\ Reachable \subseteq L
         /\ \A x \in ReachableEntries : \E k, j :
              /\ x[1] \in L /\ Live(table, content, x[1], k, j)
              /\ x = <<x[1], EntryAt(table, content, x[1], k, j)>>
         /\ \A x \in BlockUses : x[1] \in L /\ Has(table, x[1], x[2], table[x[1]].blocks[x[2]])
<1>1. table \in Tables /\ content \in Stores /\ RootInode \in L /\ L \subseteq Inodes
  BY DEF Typed, StateType, TreeInv, Whole, Kinds
<1>2. \A d \in L \cap Inodes : \A k, j : Live(table, content, d, k, j) =>
        EntryAt(table, content, d, k, j).inode \in L
  BY DEF TreeInv, Whole, EntriesLead
<1>3. \A node \in Tree : node.inode \in L
  BY <1>1, <1>2, ReachedByInduction DEF Tree
<1>4. Reachable \subseteq L
  BY <1>3 DEF Reachable
<1>5. ASSUME NEW x \in ReachableEntries
      PROVE  \E k, j : /\ x[1] \in L /\ Live(table, content, x[1], k, j)
                       /\ x = <<x[1], EntryAt(table, content, x[1], k, j)>>
  <2>1. PICK i \in Reachable : /\ table[i].type = "directory"
                               /\ \E b \in Range(table[i].blocks) : \E e \in LiveEntries(content[b]) : x = <<i, e>>
    BY <1>5 DEF ReachableEntries
  <2>2. PICK b \in Range(table[i].blocks) : \E e \in LiveEntries(content[b]) : x = <<i, e>>
    BY <2>1
  <2>3. PICK e \in LiveEntries(content[b]) : x = <<i, e>>
    BY <2>2
  <2>4. PICK k \in DOMAIN table[i].blocks : b = table[i].blocks[k]
    BY <2>2 DEF Range
  <2>5. PICK j \in DOMAIN EntriesIn(content[b]) : e = EntriesIn(content[b])[j] /\ e.inode # 0
    BY <2>3 DEF LiveEntries
  <2>6. Live(table, content, i, k, j) /\ EntryAt(table, content, i, k, j) = e
    BY <2>1, <2>4, <2>5 DEF Live, EntryAt
  <2>7. x[1] = i /\ i \in L
    BY <1>4, <2>1, <2>3
  <2> QED
    BY <2>3, <2>6, <2>7
<1>6. ASSUME NEW x \in BlockUses
      PROVE  x[1] \in L /\ Has(table, x[1], x[2], table[x[1]].blocks[x[2]])
  <2>1. x \in Reachable \X (1 .. DirectBlocks) /\ x[2] <= Len(table[x[1]].blocks)
    BY <1>6 DEF BlockUses
  <2>2. x[1] \in L /\ x[1] \in Inodes /\ x[2] \in 1 .. DirectBlocks
    BY <1>1, <1>4, <2>1
  <2>3. table[x[1]] \in InodeLists
    BY <1>1, <2>2 DEF Tables
  <2>4. DOMAIN table[x[1]].blocks = 1 .. Len(table[x[1]].blocks) /\ Len(table[x[1]].blocks) \in Nat
    BY <2>3, InodeListIs
  <2>5. x[2] \in DOMAIN table[x[1]].blocks
    BY <2>1, <2>2, <2>4, DirectoryAssumption
  <2> QED
    BY <2>2, <2>5 DEF Has
<1> QED
  BY <1>4, <1>5, <1>6

LEMMA NothingIsShared ==
  ASSUME Sound
  PROVE  NothingShared
<1>1. PICK L : TreeInv(L)
  BY DEF Sound, TreeStands
<1>2. Typed /\ BlocksApart(table, L) /\ EntriesLead(table, content, L) /\ EntriesApart(table, content, L)
  BY <1>1 DEF Sound, TreeInv, Whole
<1>3. ASSUME NEW x \in ReachableEntries, NEW y \in ReachableEntries, x[2].inode = y[2].inode
      PROVE  x = y
  <2>1. PICK k, j : /\ x[1] \in L /\ Live(table, content, x[1], k, j)
                    /\ x = <<x[1], EntryAt(table, content, x[1], k, j)>>
    BY <1>1, <1>2, ReachableInTree
  <2>2. PICK m, n : /\ y[1] \in L /\ Live(table, content, y[1], m, n)
                    /\ y = <<y[1], EntryAt(table, content, y[1], m, n)>>
    BY <1>1, <1>2, ReachableInTree
  <2>3. EntryAt(table, content, x[1], k, j).inode = EntryAt(table, content, y[1], m, n).inode
    BY <1>3, <2>1, <2>2
  <2>4. x[1] = y[1] /\ k = m /\ j = n
    BY <1>2, <2>1, <2>2, <2>3 DEF EntriesApart
  <2> QED
    BY <2>1, <2>2, <2>4
<1>4. ASSUME NEW x \in ReachableEntries PROVE x[2].inode # RootInode
  <2>1. PICK k, j : /\ x[1] \in L /\ Live(table, content, x[1], k, j)
                    /\ x = <<x[1], EntryAt(table, content, x[1], k, j)>>
    BY <1>1, <1>2, ReachableInTree
  <2>2. x[2] = EntryAt(table, content, x[1], k, j)
    BY <2>1
  <2> QED
    BY <1>2, <2>1, <2>2 DEF EntriesLead
<1>5. ASSUME NEW x \in BlockUses, NEW y \in BlockUses,
             table[x[1]].blocks[x[2]] = table[y[1]].blocks[y[2]]
      PROVE  x = y
  <2>1. /\ x[1] \in L /\ Has(table, x[1], x[2], table[x[1]].blocks[x[2]])
        /\ y[1] \in L /\ Has(table, y[1], y[2], table[y[1]].blocks[y[2]])
    BY <1>1, <1>2, ReachableInTree
  <2>2. x[1] = y[1] /\ x[2] = y[2]
    BY <1>2, <1>5, <2>1 DEF BlocksApart
  <2>3. x = <<x[1], x[2]>> /\ y = <<y[1], y[2]>>
    BY DEF BlockUses
  <2> QED
    BY <2>2, <2>3
<1> QED
  BY <1>3, <1>4, <1>5 DEF NothingShared

\* Whatever is reached has one name and its blocks to itself, through removals
\* and formats and power cuts, as long as nothing is created in a session after
\* one that was cut off.
THEOREM NothingSharedHolds ==
  ASSUME Guarded
  PROVE  Spec => []NothingShared
<1>1. Init => Sound
  BY SoundInit
<1>2. Sound /\ [Next]_vars => Sound'
  BY SoundNext
<1>3. Sound => NothingShared
  BY NothingIsShared
<1> QED
  BY <1>1, <1>2, <1>3, PTL DEF Spec

\* Each entry leads to an inode of the type it says, each block holds what the
\* inode that has it is for: at every moment, whenever the power goes.
THEOREM WrittenBeforeReferredHolds ==
  ASSUME Guarded
  PROVE  Spec => []WrittenBeforeReferred
<1>1. Init => Sound
  BY SoundInit
<1>2. Sound /\ [Next]_vars => Sound'
  BY SoundNext
<1>3. Sound => WrittenBeforeReferred
  <2>1. SUFFICES ASSUME Sound PROVE WrittenBeforeReferred
    OBVIOUS
  <2>2. PICK L : TreeInv(L)
    BY <2>1 DEF Sound, TreeStands
  <2>3. Typed /\ Kinds(table, L) /\ ContentsRight(table, content, L) /\ EntriesLead(table, content, L)
    BY <2>1, <2>2 DEF Sound, TreeInv, Whole
  <2>4. ASSUME NEW x \in ReachableEntries PROVE table[x[2].inode].type = x[2].type
    <3>1. PICK k, j : /\ x[1] \in L /\ Live(table, content, x[1], k, j)
                      /\ x = <<x[1], EntryAt(table, content, x[1], k, j)>>
      BY <2>2, <2>3, ReachableInTree
    <3>2. x[2] = EntryAt(table, content, x[1], k, j)
      BY <3>1
    <3> QED
      BY <2>3, <3>1, <3>2 DEF EntriesLead
  <2>5. ASSUME NEW x \in BlockUses
        PROVE  LET i == x[1]
                   c == content[table[i].blocks[x[2]]] IN
               IF table[i].type = "file" THEN c = DataOf(i)
               ELSE IF x[2] = 1 THEN c = DotsOf(i) ELSE c.kind = "entries" /\ c.of = i
    <3>1. x[1] \in L /\ Has(table, x[1], x[2], table[x[1]].blocks[x[2]])
      BY <2>2, <2>3, ReachableInTree
    <3>2. RightContent(table[x[1]].type, x[1], x[2], content[table[x[1]].blocks[x[2]]])
      BY <2>3, <3>1 DEF ContentsRight
    <3> QED
      BY <3>2 DEF RightContent
  <2> QED
    BY <2>4, <2>5 DEF WrittenBeforeReferred
<1> QED
  BY <1>1, <1>2, <1>3, PTL DEF Spec

\* Where no session is cut off before another, what is in use is also marked in
\* use between commands: nothing of it is given out a second time.
THEOREM SharingExcludedHolds ==
  ASSUME Guarded, \A s \in DOMAIN Sessions : Trusted(s)
  PROVE  Spec => []SharingExcluded
<1>1. Init => Sound
  BY SoundInit
<1>2. Sound /\ [Next]_vars => Sound'
  BY SoundNext
<1>3. Sound => SharingExcluded
  <2>1. SUFFICES ASSUME Sound, mounted, op = NoOp
                 PROVE  /\ \A i \in Reachable : InodeBit(i) \in mem.bits
                        /\ \A x \in BlockUses : table[x[1]].blocks[x[2]] \in mem.bits
    BY NothingIsShared DEF SharingExcluded, InUseIsMarked
  <2>2. PICK L : TreeInv(L)
    BY <2>1 DEF Sound, TreeStands
  <2>3. Typed /\ session \in DOMAIN Sessions
    BY <2>1, <2>2, RfssAssumption DEF Sound, TreeInv, Between, Typed, StateType
  <2>4. Trusted(session) /\ Unmarked(op) = {}
    BY <2>1, <2>3 DEF Unmarked, NoOp, Writing
  <2>5. \A i \in L : MarkedInode(mem, table, i)
    BY <2>1, <2>2, <2>4 DEF TreeInv, Marks
  <2>6. Reachable \subseteq L
        /\ \A x \in BlockUses : x[1] \in L /\ Has(table, x[1], x[2], table[x[1]].blocks[x[2]])
    BY <2>2, <2>3, ReachableInTree
  <2> QED
    BY <2>5, <2>6 DEF MarkedInode
<1> QED
  BY <1>1, <1>2, <1>3, PTL DEF Spec

\* A removal ends when no entry is left to clear, or with the power.
LEMMA RemovalEnds ==
  ASSUME [Next]_vars, op.pc = "clear_entry", op'.pc = "none"
  PROVE  ClearEntry \/ PowerCut
<1>1. op # NoOp /\ ~ UNCHANGED vars
  BY DEF NoOp, vars
<1>2. CASE \/ Touch \/ Mkdir \/ Copy \/ Edit \/ DeleteFile \/ RemoveDirectory
           \/ ChangeDirectory \/ Mount \/ UnmountClean \/ UnmountDirty \/ Format
  BY <1>1, <1>2 DEF Touch, Mkdir, Copy, Edit, DeleteFile, RemoveDirectory, ChangeDirectory,
     Mount, UnmountClean, UnmountDirty, Format, Ready
<1>3. CASE \/ WriteDots \/ WriteNewInode \/ AppendEntry \/ GrowDirectory \/ RefuseEntry
           \/ WriteEntryBlock \/ WriteParentInode \/ WriteRoot
  BY <1>3 DEF WriteDots, WriteNewInode, AppendEntry, GrowDirectory, RefuseEntry,
     WriteEntryBlock, WriteParentInode, WriteRoot
<1>4. CASE \/ CopyOpens \/ WriteTruncatedInode \/ ExtendFile \/ RewriteBlock
           \/ StopWriting \/ WriteData \/ WriteFileInode \/ WriteCopy \/ WriteTable
  BY <1>4 DEF CopyOpens, WriteTruncatedInode, ExtendFile, RewriteBlock, StopWriting,
     WriteData, WriteFileInode, WriteCopy, WriteTable
<1> QED
  BY <1>1, <1>2, <1>3, <1>4 DEF Next

\* When rm or rmdir of a name is through, the name leads elsewhere or nowhere:
\* the inode it led to has gone from the tree.
THEOREM RemovedIsGoneHolds ==
  ASSUME Guarded
  PROVE  Spec => RemovedIsGone
<1>1. Init => Sound
  BY SoundInit
<1>2. Sound /\ [Next]_vars => Sound'
  BY SoundNext
<1>3. ASSUME Sound, [Next]_vars, op.pc = "clear_entry", op'.pc = "none", mounted'
      PROVE  Resolve(table', content', cwd.inode, op.path, {}) # op.inode
  <2>1. Sound' /\ Typed /\ Typed'
    BY <1>2, <1>3 DEF Sound
  <2>2. ClearEntry
    BY <1>3, RemovalEnds DEF PowerCut, Forget
  <2>3. PICK L : TreeInv(L)
    BY <1>3 DEF Sound, TreeStands
  <2>4. PICK M : TreeInv(M)' /\ M = L /\ op.inode \notin M
    BY <1>3, <2>1, <2>2, <2>3, TreeClears
  <2>5. cwd.inode \in L /\ RootInode \in L /\ op.inode # 0
    BY <1>3, <2>3, SizesOfDrive DEF TreeInv, OpOK, ClearingOK, Where, Whole, Kinds
  <2>6. Whole(table', content', L) /\ table' \in Tables /\ content' \in Stores
    BY <2>1, <2>4 DEF TreeInv, Typed, StateType
  <2>7. Len(op.path.names) \in Nat
    BY <2>1 DEF Typed, OpType, Ops, PathRecords
  <2> DEFINE d == IF op.path.absolute THEN RootInode ELSE cwd.inode
  <2>8. Walk(table', content', d, op.path.names, {}) \in {0} \cup L
    <3>1. d \in L
      BY <2>5
    <3> HIDE DEF d
    <3> QED
      BY <2>6, <2>7, <3>1, WalkInTree
  <2>9. Resolve(table', content', cwd.inode, op.path, {}) \in {0} \cup L
    BY <2>8 DEF Resolve
  <2> QED
    BY <2>4, <2>5, <2>9
<1>4. Sound /\ [Next]_vars =>
        [op.pc = "clear_entry" /\ op'.pc = "none" /\ mounted'
           => Resolve(table', content', cwd.inode, op.path, {}) # op.inode]_vars
  BY <1>3
<1> QED
  BY <1>1, <1>2, <1>4, PTL DEF Spec, RemovedIsGone

-----------------------------------------------------------------------------
(***************************************************************************)
(* The current directory.  A user who goes to other directories than the   *)
(* root must not unmount: the shell's table is then written over the tree. *)
(***************************************************************************)
Stays == DirPaths = {} \/ ~Unmounts

\* The path in the prompt leads to the current directory.
Prompted == mounted => Walk(table, content, RootInode, cwd.path, {}) = cwd.inode

\* A step that keeps the entries, all but those to an inode other than the
\* current directory, keeps the way to it.
LEMMA PromptKept ==
  ASSUME Typed, Typed', NEW L, TreeInv(L), op.call # "unmount", Prompted, mounted' = mounted, cwd' = cwd,
         NEW M, TreeInv(M)', NEW i, i # cwd.inode, L \ {i} \subseteq M,
         EntriesStay(table, content, table', content', L, i)
  PROVE  Prompted'
<1>1. SUFFICES ASSUME mounted PROVE Walk(table', content', RootInode, cwd.path, {}) = cwd.inode
  BY DEF Prompted
<1>2. /\ Whole(table, content, L) /\ Whole(table', content', M) /\ RootInode \in L
      /\ table \in Tables /\ content \in Stores /\ table' \in Tables /\ content' \in Stores
      /\ cwd.inode \in Inodes /\ Len(cwd.path) \in Nat
  BY DEF TreeInv, Whole, Kinds, Typed, StateType
<1>3. SameLookups(table, content, {}, table', content', {}, L, i)
  BY <1>2, LookupsStay
<1>4. Walk(table, content, RootInode, cwd.path, {}) = cwd.inode /\ cwd.inode \notin {0, i}
  BY <1>1, <1>2, SizesOfDrive DEF Prompted
<1> QED
  BY <1>2, <1>3, <1>4, WalkKept

\* A step that writes no inode and no block of a directory of the tree.
LEMMA DirectoriesStay ==
  ASSUME Typed, NEW L, Whole(table, content, L),
         \A d \in L : table[d].type = "directory" => table'[d] = table[d],
         \A d \in L : \A k, b : table[d].type = "directory" /\ Has(table, d, k, b) => content'[b] = content[b]
  PROVE  EntriesStay(table, content, table', content', L, 0)
<1>1. 0 \notin L
  BY SizesOfDrive DEF Whole, Kinds
<1>2. ASSUME NEW d \in L, NEW k, NEW j, Live(table, content, d, k, j)
      PROVE  /\ Live(table', content', d, k, j)
             /\ EntryAt(table', content', d, k, j) = EntryAt(table, content, d, k, j)
  <2>1. table[d].type = "directory" /\ Has(table, d, k, table[d].blocks[k])
    BY <1>2 DEF Live, Has
  <2>2. table'[d] = table[d] /\ content'[table[d].blocks[k]] = content[table[d].blocks[k]]
    BY <2>1
  <2> QED
    BY <1>2, <2>2 DEF Live, EntryAt
<1> QED
  BY <1>1, <1>2 DEF EntriesStay

\* The writes of a creation go outside the tree until the entry is made.
LEMMA CreationStays ==
  ASSUME Guarded, Typed, NEW L, TreeInv(L), WriteDots \/ WriteNewInode \/ WriteEntryBlock
  PROVE  EntriesStay(table, content, table', content', L, 0)
<1>1. op.pc \in Creating /\ op.pc \in {"dots", "new_inode", "entry_block"}
  BY DEF WriteDots, WriteNewInode, WriteEntryBlock, Creating
<1>2. Whole(table, content, L) /\ Kinds(table, L) /\ op.inode \notin L
      /\ (op.pc = "entry_block" => Spare(op.grown, L))
      /\ (op.call = "create_directory" => Spare(op.block, L))
  BY <1>1, InHand DEF TreeInv, Whole
<1>3. CASE WriteNewInode
  <2>1. PICK w \in Outcomes : PutInode(op.inode, NewInode, w) /\ content' = content
    BY <1>3 DEF WriteNewInode
  <2>2. \A d \in L : table'[d] = table[d]
    BY <1>2, <2>1 DEF PutInode
  <2> QED
    BY <1>2, <2>1, <2>2, DirectoriesStay
<1>4. CASE WriteDots
  <2>1. PICK w \in Outcomes : PutContent(op.block, DotsOf(op.inode), w) /\ table' = table
    BY <1>4 DEF WriteDots
  <2>2. Spare(op.block, L)
    BY <1>2, <1>4 DEF WriteDots, Typed, OpType, CreationType, Creating
  <2>3. \A d \in L : \A k, b : Has(table, d, k, b) => content'[b] = content[b]
    BY <1>2, <2>1, <2>2, PutOutside DEF Spare
  <2> QED
    BY <1>2, <2>1, <2>3, DirectoriesStay
<1>5. CASE WriteEntryBlock
  <2>1. PICK w \in Outcomes : PutContent(op.grown, EntryBlock(op.parent, <<NewEntry>>), w) /\ table' = table
    BY <1>5 DEF WriteEntryBlock
  <2>2. Spare(op.grown, L)
    BY <1>2, <1>5 DEF WriteEntryBlock
  <2>3. \A d \in L : \A k, b : Has(table, d, k, b) => content'[b] = content[b]
    BY <1>2, <2>1, <2>2, PutOutside DEF Spare
  <2> QED
    BY <1>2, <2>1, <2>3, DirectoriesStay
<1> QED
  BY <1>3, <1>4, <1>5

\* The writes to a file change nothing of a directory.
LEMMA WritingStays ==
  ASSUME Guarded, Typed, NEW L, TreeInv(L), WriteTruncatedInode \/ WriteFileInode \/ WriteData
  PROVE  EntriesStay(table, content, table', content', L, 0)
<1>1. op.pc \in Writing
  BY DEF WriteTruncatedInode, WriteFileInode, WriteData, Writing
<1>2. /\ Whole(table, content, L) /\ table[op.inode].type = "file" /\ op.node \in InodeLists
      /\ \A k \in DOMAIN op.node.blocks :
           \A i \in L \ {op.inode} : \A m : ~Has(table, i, m, op.node.blocks[k])
  BY <1>1, FileInHand DEF TreeInv
<1>3. CASE WriteTruncatedInode \/ WriteFileInode
  <2>1. PICK w \in Outcomes : PutInode(op.inode, op.node, w)
    BY <1>3 DEF WriteTruncatedInode, WriteFileInode
  <2>2. content' = content
    BY <1>3 DEF WriteTruncatedInode, WriteFileInode
  <2>3. \A d \in L : table[d].type = "directory" => table'[d] = table[d]
    BY <1>2, <2>1 DEF PutInode
  <2> QED
    BY <1>2, <2>2, <2>3, DirectoriesStay
<1>4. CASE WriteData
  <2> DEFINE c == op.node.blocks[Index]
  <2>1. PICK w \in Outcomes : PutContent(c, DataOf(op.inode), w) /\ table' = table
    BY <1>4 DEF WriteData
  <2>2. Index \in DOMAIN op.node.blocks
    BY <1>2, <1>4, IndexIs, InodeListIs DEF WriteData
  <2>3. \A d \in L : \A k : table[d].type = "directory" => ~Has(table, d, k, c)
    BY <1>2, <2>2
  <2> HIDE DEF c
  <2>4. \A b : b # c => content'[b] = content[b]
    BY <2>1 DEF PutContent
  <2>5. \A d \in L : \A k, b : table[d].type = "directory" /\ Has(table, d, k, b) => content'[b] = content[b]
    BY <2>3, <2>4
  <2> QED
    BY <1>2, <2>1, <2>5, DirectoriesStay
<1> QED
  BY <1>3, <1>4

\* Where cd leads is where the new path leads.
LEMMA PromptChanges ==
  ASSUME Guarded, Typed, NEW L, TreeInv(L), ChangeDirectory
  PROVE  Prompted'
<1>1. PICK p \in DirPaths, bad \in Unreadable("change_directory") :
        /\ p = Up => cwd.path # <<>>
        /\ Find([absolute |-> TRUE, names |-> NewDirectory(p)], bad) # 0
        /\ cwd' = [inode |-> Find([absolute |-> TRUE, names |-> NewDirectory(p)], bad),
                   path |-> NewDirectory(p)]
  BY DEF ChangeDirectory
<1>2. Ready("cd") /\ table' = table /\ content' = content
  BY DEF ChangeDirectory, diskVars
<1>3. mounted /\ op.call # "unmount"
  BY <1>2, ReadyIs
<1>4. Len(NewDirectory(p)) \in Nat
  BY <1>1, NewDirectoryType
<1>5. Find([absolute |-> TRUE, names |-> NewDirectory(p)], {}) =
        Find([absolute |-> TRUE, names |-> NewDirectory(p)], bad)
  BY <1>1, <1>3, <1>4, FindInTree
<1>6. Find([absolute |-> TRUE, names |-> NewDirectory(p)], {}) =
        Walk(table, content, RootInode, NewDirectory(p), {})
  BY DEF Find, Resolve
<1> QED
  BY <1>1, <1>2, <1>5, <1>6 DEF Prompted

\* At the root the prompt is right.
LEMMA AtRootPrompted == ASSUME Typed', cwd' = AtRoot PROVE Prompted'
<1>1. RootInode \in Inodes /\ table' \in Tables /\ content' \in Stores
  BY SizesOfDrive DEF Typed, StateType
<1>2. AtRoot.inode = RootInode /\ Len(AtRoot.path) = 0
  BY DEF AtRoot
<1>3. Walk(table', content', RootInode, AtRoot.path, {}) = AtRoot.inode
  BY <1>1, <1>2, WalkNowhere
<1> QED
  BY <1>3 DEF Prompted

LEMMA PromptNext ==
  ASSUME Guarded, Stays, Sound, Sound', Prompted, [Next]_vars
  PROVE  Prompted'
<1>1. PICK L : TreeInv(L)
  BY DEF Sound, TreeStands
<1>2. Typed /\ Typed' /\ FormatInv
  BY DEF Sound
<1>3. CASE DirPaths = {}
  <2>1. PICK M : TreeInv(M)'
    BY DEF Sound, TreeStands
  <2>2. cwd' = AtRoot
    BY <1>3, <2>1 DEF TreeInv, Where
  <2> QED
    BY <1>2, <2>2, AtRootPrompted
<1>4. CASE DirPaths # {} /\ ~Unmounts
  <2>1. op.call # "unmount" /\ op.call # "format" /\ op.pc \notin Saving \cup {"root"}
    BY <1>1, <1>2, <1>4 DEF TreeInv, OpOK, SavingOK, FormatInv, Formatting
  <2>2. CASE UNCHANGED <<mounted, cwd, table, content>>
    BY <2>2 DEF Prompted
  <2>3. CASE WriteDots \/ WriteNewInode \/ WriteEntryBlock \/ WriteTruncatedInode \/ WriteFileInode \/ WriteData
    <3>1. EntriesStay(table, content, table', content', L, 0)
      BY <1>1, <1>2, <2>3, CreationStays, WritingStays
    <3>2. TreeInv(L)'
      BY <1>1, <1>2, <2>3, TreeDots, TreeNewInode, TreeEntryBlock, TreeWritesInode, TreeWritesData
    <3>3. mounted' = mounted /\ cwd' = cwd
      BY <2>3 DEF WriteDots, WriteNewInode, WriteEntryBlock, WriteTruncatedInode, WriteFileInode,
         WriteData, fsVars
    <3>4. 0 # cwd.inode
      BY <1>2, SizesOfDrive DEF Typed, StateType
    <3> QED
      BY <1>1, <1>2, <2>1, <3>1, <3>2, <3>3, <3>4, PromptKept
  <2>4. CASE AppendEntry \/ WriteParentInode
    <3>1. PICK M : TreeInv(M)' /\ M \in {L, L \cup {op.inode}}
                   /\ EntriesStay(table, content, table', content', L, 0)
      BY <1>1, <1>2, <2>4, TreeAppends, TreeExtends
    <3>2. mounted' = mounted /\ cwd' = cwd
      BY <2>4 DEF AppendEntry, WriteParentInode, fsVars
    <3>3. 0 # cwd.inode /\ L \ {0} \subseteq M
      BY <1>2, <3>1, SizesOfDrive DEF Typed, StateType
    <3> QED
      BY <1>1, <1>2, <2>1, <3>1, <3>2, <3>3, PromptKept
  <2>5. CASE ClearEntry
    <3>1. PICK M : /\ TreeInv(M)' /\ M \in {L, L \ {op.inode}}
                   /\ op'.pc = "none" => M = L /\ op.inode \notin M
                   /\ content' # content => EntriesStay(table, content, table', content', L, op.inode)
      BY <1>1, <1>2, <2>5, TreeClears
    <3>2. mounted' = mounted /\ cwd' = cwd /\ table' = table
      BY <2>5 DEF ClearEntry, fsVars
    <3>3. op.inode # cwd.inode /\ L \ {op.inode} \subseteq M
      BY <1>1, <2>5, <3>1 DEF ClearEntry, TreeInv, OpOK, ClearingOK
    <3>4. CASE content' = content
      BY <2>2, <3>2, <3>4
    <3>5. CASE content' # content
      BY <1>1, <1>2, <2>1, <3>1, <3>2, <3>3, <3>5, PromptKept
    <3> QED
      BY <3>4, <3>5
  <2>6. CASE ChangeDirectory
    BY <1>1, <1>2, <2>6, PromptChanges
  <2>7. CASE Mount
    BY <1>2, <2>7, AtRootPrompted DEF Mount
  <2>8. CASE UnmountClean \/ PowerCut
    BY <2>8 DEF UnmountClean, PowerCut, Forget, Prompted
  <2>9. CASE Touch \/ Mkdir \/ Copy \/ Edit \/ CopyOpens \/ DeleteFile \/ RemoveDirectory
    <3>1. UNCHANGED <<fsVars, diskVars>>
      BY <2>9 DEF Touch, Mkdir, Copy, Edit, CopyOpens, DeleteFile, RemoveDirectory, Unlink,
         OpenForWriting, CreateFile, CreateDirectory
    <3> QED
      BY <2>2, <3>1 DEF fsVars, diskVars
  <2>10. CASE GrowDirectory \/ RefuseEntry \/ ExtendFile \/ RewriteBlock \/ StopWriting
              \/ UnmountDirty \/ Format
    <3>1. UNCHANGED <<fsVars, diskVars>>
      BY <2>10 DEF GrowDirectory, RefuseEntry, ExtendFile, RewriteBlock, StopWriting, UnmountDirty, Format
    <3> QED
      BY <2>2, <3>1 DEF fsVars, diskVars
  <2>11. CASE WriteCopy \/ WriteTable \/ WriteRoot
    BY <2>1, <2>11 DEF WriteCopy, WriteTable, WriteRoot, Saving
  <2>12. CASE UNCHANGED vars
    BY <2>2, <2>12 DEF vars
  <2> QED
    BY <2>3, <2>4, <2>5, <2>6, <2>7, <2>8, <2>9, <2>10, <2>11, <2>12 DEF Next
<1> QED
  BY <1>3, <1>4 DEF Stays

\* The current directory exists and is the one the prompt names, whatever is
\* made, written and removed, if the user does not remove the current directory
\* while it is empty, which rfss_remove_directory would let him, and nobody
\* unmounts elsewhere than in the root.
THEOREM CurrentDirectoryExistsHolds ==
  ASSUME Guarded, Stays
  PROVE  Spec => []CurrentDirectoryExists
<1>1. Init => Sound /\ Prompted
  BY SoundInit DEF Init, Prompted
<1>2. Sound /\ Prompted /\ [Next]_vars => Sound' /\ Prompted'
  BY SoundNext, PromptNext
<1>3. Sound /\ Prompted => CurrentDirectoryExists
  <2>1. SUFFICES ASSUME Sound, Prompted, mounted PROVE table[cwd.inode].type = "directory"
    BY DEF CurrentDirectoryExists, Prompted
  <2>2. PICK L : TreeInv(L)
    BY <2>1 DEF Sound, TreeStands
  <2>3. CASE DirPaths = {}
    BY <2>2, <2>3 DEF TreeInv, Where, Whole, Kinds, AtRoot
  <2>4. CASE ~Unmounts
    BY <2>1, <2>2, <2>4 DEF TreeInv, Where, OpOK, SavingOK
  <2> QED
    BY <2>3, <2>4 DEF Stays
<1> QED
  BY <1>1, <1>2, <1>3, PTL DEF Spec

-----------------------------------------------------------------------------
(***************************************************************************)
(* The paths of a tree: w[i] is the one path of inode i of L.              *)
(***************************************************************************)
Ways(t, c, L, w) ==
  /\ \A i \in L : w[i] \in Seq(Names)
  /\ w[RootInode] = <<>>
  /\ \A i, j \in L : w[i] = w[j] => i = j
  /\ \A d \in L : \A k, j : Live(t, c, d, k, j) =>
       w[EntryAt(t, c, d, k, j).inode] = Append(w[d], EntryAt(t, c, d, k, j).name)
  /\ \A i \in L \ {RootInode} :
       \E d \in L : \E k, j : Live(t, c, d, k, j) /\ EntryAt(t, c, d, k, j).inode = i

\* The children of a directory are what its live entries say.
LEMMA ChildIs ==
  ASSUME NEW t, NEW c, NEW node, NEW x
  PROVE  x \in Children(t, c, node) <=>
           \E k, j : /\ Live(t, c, node.inode, k, j)
                     /\ x = [path |-> Append(node.path, EntryAt(t, c, node.inode, k, j).name),
                             inode |-> EntryAt(t, c, node.inode, k, j).inode]
<1> DEFINE d == node.inode
           Made(e) == [path |-> Append(node.path, e.name), inode |-> e.inode]
<1>1. ASSUME x \in Children(t, c, node)
      PROVE  \E k, j : Live(t, c, d, k, j) /\ x = Made(EntryAt(t, c, d, k, j))
  <2>1. t[d].type = "directory"
    BY <1>1 DEF Children
  <2>2. PICK b \in Range(t[d].blocks) : \E e \in LiveEntries(c[b]) : x = Made(e)
    BY <1>1, <2>1 DEF Children
  <2>3. PICK k \in DOMAIN t[d].blocks : b = t[d].blocks[k]
    BY <2>2 DEF Range
  <2>4. PICK e \in LiveEntries(c[b]) : x = Made(e)
    BY <2>2
  <2>5. PICK j \in DOMAIN EntriesIn(c[b]) : e = EntriesIn(c[b])[j] /\ e.inode # 0
    BY <2>4 DEF LiveEntries
  <2>6. Live(t, c, d, k, j) /\ EntryAt(t, c, d, k, j) = e
    BY <2>1, <2>3, <2>5 DEF Live, EntryAt
  <2> QED
    BY <2>4, <2>6
<1>2. ASSUME NEW k, NEW j, Live(t, c, d, k, j), x = Made(EntryAt(t, c, d, k, j))
      PROVE  x \in Children(t, c, node)
  <2> DEFINE b == t[d].blocks[k]
             e == EntryAt(t, c, d, k, j)
  <2>1. t[d].type = "directory" /\ b \in Range(t[d].blocks)
    BY <1>2 DEF Live, Range
  <2>2. e \in LiveEntries(c[b])
    BY <1>2 DEF Live, EntryAt, LiveEntries
  <2> HIDE DEF b, e
  <2>3. x \in {Made(f) : f \in LiveEntries(c[b])}
    BY <1>2, <2>2 DEF e
  <2> QED
    BY <2>1, <2>3 DEF Children
<1> QED
  BY <1>1, <1>2

\* A path is never longer than there are inodes: its directories are different.
LEMMA WaysAreShort ==
  ASSUME NEW t, NEW c, NEW L, L \subseteq Inodes, RootInode \in L, NEW w, Ways(t, c, L, w), NEW i \in L
  PROVE  Len(w[i]) \in 0 .. InodeCount
<1> DEFINE h == [x \in L |-> Len(w[x])]
<1>1. h \in [L -> Nat]
  BY DEF Ways
<1>2. ASSUME NEW x \in L, h[x] # 0 PROVE \E y \in L : h[y] = h[x] - 1
  <2>1. x # RootInode
    BY <1>2 DEF Ways
  <2>2. PICK d \in L : \E k, j : Live(t, c, d, k, j) /\ EntryAt(t, c, d, k, j).inode = x
    BY <2>1 DEF Ways
  <2>3. PICK k, j : Live(t, c, d, k, j) /\ EntryAt(t, c, d, k, j).inode = x
    BY <2>2
  <2>4. w[x] = Append(w[d], EntryAt(t, c, d, k, j).name) /\ w[d] \in Seq(Names)
    BY <2>3 DEF Ways
  <2>5. Len(w[x]) = Len(w[d]) + 1
    BY <2>4
  <2> QED
    BY <1>1, <2>5
<1>3. IsFiniteSet(L) /\ Cardinality(L) <= InodeCount /\ Cardinality(L) \in Nat
  <2>1. IsFiniteSet(Inodes) /\ Cardinality(Inodes) = InodeCount
    BY SizesAssumption, FS_Interval DEF Inodes
  <2> QED
    BY <2>1, FS_Subset, FS_CardinalityType
<1>4. h[i] = Len(w[i])
  OBVIOUS
<1> HIDE DEF h
<1>5. h[i] \in Nat /\ h[i] < Cardinality(L)
  BY <1>1, <1>2, <1>3, StepsDown
<1> QED
  BY <1>3, <1>4, <1>5, SizesAssumption

\* What is reached from the root are the inodes of the tree, each by its path.
LEMMA ReachedByWays ==
  ASSUME NEW t \in Tables, NEW c \in Stores, NEW L, Whole(t, c, L), NEW w, Ways(t, c, L, w)
  PROVE  Reached(t, c) = {[path |-> w[i], inode |-> i] : i \in L}
<1> DEFINE Place(i) == [path |-> w[i], inode |-> i]
           S == {Place(i) : i \in L}
           T == SUBSET S
<1>1. PICK level : /\ LevelsOf(level, t, c)
                   /\ Reached(t, c) = UNION {level[n] : n \in 0 .. InodeCount}
  BY ReachedIs
<1>2. RootInode \in L /\ L \subseteq Inodes /\ w[RootInode] = <<>> /\ Place(RootInode) = RootNode
  BY DEF Whole, Kinds, Ways, RootNode
<1>3. Reached(t, c) \subseteq S
  <2>1. level[0] \in T
    BY <1>1, <1>2 DEF LevelsOf
  <2>2. ASSUME NEW n \in 1 .. InodeCount, level[n - 1] \in T PROVE level[n] \in T
    <3>1. SUFFICES ASSUME NEW node \in level[n - 1], NEW x \in Children(t, c, node) PROVE x \in S
      BY <1>1 DEF LevelsOf
    <3>2. PICK d \in L : node = Place(d)
      BY <2>2, <3>1
    <3>3. node.path = w[d] /\ node.inode = d
      BY <3>2
    <3>4. PICK k, j : /\ Live(t, c, d, k, j)
                      /\ x = [path |-> Append(w[d], EntryAt(t, c, d, k, j).name),
                              inode |-> EntryAt(t, c, d, k, j).inode]
      BY <3>1, <3>3, ChildIs
    <3>5. EntryAt(t, c, d, k, j).inode \in L
      BY <3>4 DEF Whole, EntriesLead
    <3>6. w[EntryAt(t, c, d, k, j).inode] = Append(w[d], EntryAt(t, c, d, k, j).name)
      BY <3>4 DEF Ways
    <3>7. x = Place(EntryAt(t, c, d, k, j).inode)
      BY <3>4, <3>6
    <3> QED
      BY <3>5, <3>7
  <2>3. \A n \in 0 .. InodeCount : level[n] \in T
    <3> HIDE DEF T
    <3> QED
      BY <2>1, <2>2, SizesAssumption, PassedOn
  <2> QED
    BY <1>1, <2>3
<1>4. S \subseteq Reached(t, c)
  <2> DEFINE N == InodeCount
             f == [n \in 0 .. N |-> n]
             Q == {n \in 0 .. N : \A i \in L : Len(w[i]) = n => Place(i) \in level[n]}
  <2>1. N \in Nat
    BY SizesAssumption
  <2>2. f[0] \in Q
    <3>1. SUFFICES ASSUME NEW i \in L, Len(w[i]) = 0 PROVE Place(i) \in level[0]
      BY <2>1
    <3>2. w[i] = <<>>
      BY <3>1 DEF Ways
    <3>3. i = RootInode
      BY <1>2, <3>2 DEF Ways
    <3> QED
      BY <1>1, <1>2, <3>3 DEF LevelsOf
  <2>3. ASSUME NEW n \in 1 .. N, f[n - 1] \in Q PROVE f[n] \in Q
    <3>1. n \in 0 .. N /\ n - 1 \in 0 .. N /\ n - 1 \in Q
      BY <2>1, <2>3
    <3>2. SUFFICES ASSUME NEW i \in L, Len(w[i]) = n PROVE Place(i) \in level[n]
      BY <3>1
    <3>3. i # RootInode
      BY <1>2, <2>1, <3>2
    <3>4. PICK d \in L : \E k, j : Live(t, c, d, k, j) /\ EntryAt(t, c, d, k, j).inode = i
      BY <3>3 DEF Ways
    <3>5. PICK k, j : Live(t, c, d, k, j) /\ EntryAt(t, c, d, k, j).inode = i
      BY <3>4
    <3>6. w[i] = Append(w[d], EntryAt(t, c, d, k, j).name) /\ w[d] \in Seq(Names)
      BY <3>5 DEF Ways
    <3>7. Len(w[d]) = n - 1
      BY <2>1, <3>2, <3>6
    <3>8. Place(d) \in level[n - 1] /\ Place(d).inode = d /\ Place(d).path = w[d]
      BY <3>1, <3>7
    <3>9. Place(i) \in Children(t, c, Place(d))
      BY <3>5, <3>6, <3>8, ChildIs
    <3>10. level[n] = UNION {Children(t, c, node) : node \in level[n - 1]}
      BY <1>1 DEF LevelsOf
    <3> HIDE DEF Place
    <3> QED
      BY <3>8, <3>9, <3>10
  <2>4. \A n \in 0 .. N : f[n] \in Q
    <3> HIDE DEF Q, f, N
    <3> QED
      BY <2>1, <2>2, <2>3, PassedOn
  <2>5. SUFFICES ASSUME NEW i \in L PROVE Place(i) \in Reached(t, c)
    OBVIOUS
  <2>6. Len(w[i]) \in 0 .. N
    BY <1>2, WaysAreShort
  <2>7. Place(i) \in level[Len(w[i])]
    BY <2>4, <2>6
  <2> QED
    BY <1>1, <2>6, <2>7
<1> QED
  BY <1>3, <1>4

\* An inode that is still in the tree is led to by the entry that did before.
LEMMA SameEntry ==
  ASSUME NEW t, NEW c, NEW L, Whole(t, c, L), NEW t2, NEW c2, NEW M, Whole(t2, c2, M), NEW i,
         EntriesStay(t, c, t2, c2, L, i), L \ {i} \subseteq M, NEW w, Ways(t, c, L, w),
         NEW x \in L \ {RootInode, i}
  PROVE  \E d \in L \ {i} : \E k, j :
           /\ Live(t, c, d, k, j) /\ Live(t2, c2, d, k, j)
           /\ EntryAt(t2, c2, d, k, j) = EntryAt(t, c, d, k, j)
           /\ EntryAt(t, c, d, k, j).inode = x
           /\ \A f \in M : \A m, n : Live(t2, c2, f, m, n) /\ EntryAt(t2, c2, f, m, n).inode = x
                => f = d /\ m = k /\ n = j
<1>1. PICK d \in L : \E k, j : Live(t, c, d, k, j) /\ EntryAt(t, c, d, k, j).inode = x
  BY DEF Ways
<1>2. PICK k, j : Live(t, c, d, k, j) /\ EntryAt(t, c, d, k, j).inode = x
  BY <1>1
<1>3. Live(t2, c2, d, k, j) /\ EntryAt(t2, c2, d, k, j) = EntryAt(t, c, d, k, j)
  BY <1>2 DEF EntriesStay
<1>4. d # i /\ d \in M
  BY <1>2 DEF EntriesStay
<1>5. \A f \in M : \A m, n : Live(t2, c2, f, m, n) /\ EntryAt(t2, c2, f, m, n).inode = x
        => f = d /\ m = k /\ n = j
  BY <1>2, <1>3, <1>4 DEF Whole, EntriesApart
<1> QED
  BY <1>2, <1>3, <1>4, <1>5

\* The tree without inode i, if it was in it, has the same paths.
LEMMA WaysStay ==
  ASSUME NEW t, NEW c, NEW L, Whole(t, c, L), NEW t2, NEW c2, NEW i, NEW M, M = L \ {i},
         Whole(t2, c2, M), EntriesStay(t, c, t2, c2, L, i), NEW w, Ways(t, c, L, w)
  PROVE  Ways(t2, c2, M, w)
<1>1. ASSUME NEW d \in M, NEW k, NEW j, Live(t2, c2, d, k, j)
      PROVE  w[EntryAt(t2, c2, d, k, j).inode] = Append(w[d], EntryAt(t2, c2, d, k, j).name)
  <2>1. PICK x : x = EntryAt(t2, c2, d, k, j).inode
    OBVIOUS
  <2>2. x \in L \ {RootInode, i}
    BY <1>1, <2>1 DEF Whole, EntriesLead
  <2>3. PICK d0 \in L \ {i} : \E k0, j0 :
          /\ Live(t, c, d0, k0, j0) /\ Live(t2, c2, d0, k0, j0)
          /\ EntryAt(t2, c2, d0, k0, j0) = EntryAt(t, c, d0, k0, j0)
          /\ EntryAt(t, c, d0, k0, j0).inode = x
          /\ \A f \in M : \A m, n : Live(t2, c2, f, m, n) /\ EntryAt(t2, c2, f, m, n).inode = x
               => f = d0 /\ m = k0 /\ n = j0
    <3>1. /\ Whole(t, c, L) /\ Whole(t2, c2, M) /\ EntriesStay(t, c, t2, c2, L, i)
          /\ L \ {i} \subseteq M /\ Ways(t, c, L, w)
      OBVIOUS
    <3> QED
      BY ONLY <2>2, <3>1, SameEntry
  <2>4. Live(t, c, d, k, j) /\ EntryAt(t2, c2, d, k, j) = EntryAt(t, c, d, k, j)
    BY <1>1, <2>1, <2>3
  <2> QED
    BY <1>1, <2>4 DEF Ways
<1>2. ASSUME NEW x \in M \ {RootInode}
      PROVE  \E d \in M : \E k, j : Live(t2, c2, d, k, j) /\ EntryAt(t2, c2, d, k, j).inode = x
  <2>1. x \in L \ {RootInode, i}
    BY <1>2
  <2>2. PICK d0 \in L \ {i} : \E k0, j0 :
          /\ Live(t, c, d0, k0, j0) /\ Live(t2, c2, d0, k0, j0)
          /\ EntryAt(t2, c2, d0, k0, j0) = EntryAt(t, c, d0, k0, j0)
          /\ EntryAt(t, c, d0, k0, j0).inode = x
    BY <2>1, SameEntry
  <2> QED
    BY <2>2
<1> QED
  BY <1>1, <1>2 DEF Ways

\* The paths after one more entry, in directory p.
With(w, M, i, p, name) == [x \in M |-> IF x = i THEN Append(w[p], name) ELSE w[x]]

\* Inode i comes into the tree by an entry e in directory p; no other entry changes.
Entered(t, c, L, w, t2, c2, M, i, p, e) ==
  /\ Whole(t, c, L) /\ Whole(t2, c2, M) /\ i \notin L /\ M = L \cup {i}
  /\ EntriesStay(t, c, t2, c2, L, 0) /\ Ways(t, c, L, w)
  /\ p \in L /\ e.inode = i /\ e.name \in Names
  /\ \E k, j : Live(t2, c2, p, k, j) /\ EntryAt(t2, c2, p, k, j) = e

LEMMA WaysAdded ==
  ASSUME NEW t, NEW c, NEW L, NEW w, NEW t2, NEW c2, NEW M, NEW i, NEW p, NEW e,
         Entered(t, c, L, w, t2, c2, M, i, p, e)
  PROVE  /\ Ways(t2, c2, M, With(w, M, i, p, e.name))
         /\ \A x \in L : With(w, M, i, p, e.name)[x] = w[x]
         /\ With(w, M, i, p, e.name)[i] = Append(w[p], e.name)
         /\ \A x \in L : w[x] # Append(w[p], e.name)
<1>0. PICK k1, j1 : Live(t2, c2, p, k1, j1) /\ EntryAt(t2, c2, p, k1, j1) = e
  BY DEF Entered
<1> USE <1>0
<1> SUFFICES ASSUME Whole(t, c, L), Whole(t2, c2, M), i \notin L, M = L \cup {i},
                    EntriesStay(t, c, t2, c2, L, 0), Ways(t, c, L, w),
                    p \in L, e.inode = i, e.name \in Names
             PROVE  /\ Ways(t2, c2, M, With(w, M, i, p, e.name))
                    /\ \A x \in L : With(w, M, i, p, e.name)[x] = w[x]
                    /\ With(w, M, i, p, e.name)[i] = Append(w[p], e.name)
                    /\ \A x \in L : w[x] # Append(w[p], e.name)
  BY DEF Entered
<1> DEFINE v == With(w, M, i, p, e.name)
<1>1. /\ RootInode \in L /\ 0 \notin L /\ \A x \in L : w[x] \in Seq(Names)
      /\ v[i] = Append(w[p], e.name) /\ \A x \in L : v[x] = w[x]
  BY SizesOfDrive DEF Whole, Kinds, Ways, With
<1> HIDE DEF v
<1>2. ASSUME NEW x \in L \ {RootInode}
      PROVE  \E d \in L : \E k, j :
               /\ Live(t, c, d, k, j) /\ Live(t2, c2, d, k, j)
               /\ EntryAt(t2, c2, d, k, j) = EntryAt(t, c, d, k, j)
               /\ EntryAt(t, c, d, k, j).inode = x
               /\ \A f \in M : \A m, n : Live(t2, c2, f, m, n) /\ EntryAt(t2, c2, f, m, n).inode = x
                    => f = d /\ m = k /\ n = j
  <2>1. /\ x \in L \ {RootInode, 0} /\ L \ {0} \subseteq M
        /\ Whole(t, c, L) /\ Whole(t2, c2, M) /\ EntriesStay(t, c, t2, c2, L, 0) /\ Ways(t, c, L, w)
    BY <1>1
  <2>2. PICK d \in L \ {0} : \E k, j :
               /\ Live(t, c, d, k, j) /\ Live(t2, c2, d, k, j)
               /\ EntryAt(t2, c2, d, k, j) = EntryAt(t, c, d, k, j)
               /\ EntryAt(t, c, d, k, j).inode = x
               /\ \A f \in M : \A m, n : Live(t2, c2, f, m, n) /\ EntryAt(t2, c2, f, m, n).inode = x
                    => f = d /\ m = k /\ n = j
    BY ONLY <2>1, SameEntry
  <2> QED
    BY <2>2
<1>3. ASSUME NEW x \in L PROVE w[x] # Append(w[p], e.name)
  <2>1. SUFFICES ASSUME w[x] = Append(w[p], e.name) PROVE FALSE
    OBVIOUS
  <2>2. x # RootInode
    <3>1. Append(w[p], e.name) # <<>>
      BY <1>1
    <3> QED
      BY <2>1, <3>1 DEF Ways
  <2>3. PICK d \in L : \E k, j :
               /\ Live(t, c, d, k, j) /\ Live(t2, c2, d, k, j)
               /\ EntryAt(t2, c2, d, k, j) = EntryAt(t, c, d, k, j)
               /\ EntryAt(t, c, d, k, j).inode = x
    BY <1>2, <2>2
  <2>4. PICK k, j : /\ Live(t, c, d, k, j) /\ Live(t2, c2, d, k, j)
                    /\ EntryAt(t2, c2, d, k, j) = EntryAt(t, c, d, k, j)
                    /\ EntryAt(t, c, d, k, j).inode = x
    BY <2>3
  <2>5. w[x] = Append(w[d], EntryAt(t, c, d, k, j).name)
    BY <2>4 DEF Ways
  <2>6. Append(w[d], EntryAt(t, c, d, k, j).name) = Append(w[p], e.name)
    BY <2>1, <2>5
  <2>7. w[d] = w[p] /\ EntryAt(t, c, d, k, j).name = e.name
    <3>1. PICK u, z, m, n : u = w[d] /\ z = w[p] /\ m = EntryAt(t, c, d, k, j).name /\ n = e.name
      OBVIOUS
    <3>2. u \in Seq(Names) /\ z \in Seq(Names) /\ Append(u, m) = Append(z, n)
      BY <1>1, <2>6, <3>1
    <3>3. Len(Append(u, m)) = Len(u) + 1 /\ Len(Append(z, n)) = Len(z) + 1
          /\ Len(u) \in Nat /\ Len(z) \in Nat
      BY <3>2
    <3>4. Len(u) = Len(z)
      BY <3>2, <3>3
    <3>5. \A a \in 1 .. Len(u) : Append(u, m)[a] = u[a] /\ Append(z, n)[a] = z[a]
      BY <3>2, <3>4
    <3>6. \A a \in 1 .. Len(u) : u[a] = z[a]
      BY <3>2, <3>5
    <3>7. u = z
      BY <3>2, <3>4, <3>6, SeqEqual
    <3>8. Append(u, m)[Len(u) + 1] = m /\ Append(z, n)[Len(z) + 1] = n
      BY <3>2
    <3>9. m = n
      BY <3>2, <3>4, <3>8
    <3> QED
      BY <3>1, <3>7, <3>9
  <2>8. d = p
    BY <2>7 DEF Ways
  <2>9. k = k1 /\ j = j1
    BY <2>4, <2>7, <2>8 DEF Whole, EntriesApart
  <2> QED
    BY <2>4, <2>8, <2>9
<1>4. \A x \in M : v[x] \in Seq(Names)
  <2>1. Append(w[p], e.name) \in Seq(Names)
    BY <1>1
  <2> QED
    BY <1>1, <2>1
<1>5. v[RootInode] = <<>>
  BY <1>1 DEF Ways
<1>6. \A x, y \in M : v[x] = v[y] => x = y
  <2>1. \A x, y \in L : w[x] = w[y] => x = y
    BY DEF Ways
  <2>2. \A x, y \in L : v[x] = v[y] => x = y
    BY <1>1, <2>1
  <2>3. M = L \cup {i} /\ \A x \in L : v[x] # v[i]
    BY <1>1, <1>3
  <2> QED
    BY ONLY <2>2, <2>3
<1>7. ASSUME NEW d \in M, NEW k, NEW j, Live(t2, c2, d, k, j)
      PROVE  v[EntryAt(t2, c2, d, k, j).inode] = Append(v[d], EntryAt(t2, c2, d, k, j).name)
  <2>1. PICK x : x = EntryAt(t2, c2, d, k, j).inode
    OBVIOUS
  <2>2. x \in M \ {RootInode}
    BY <1>7, <2>1 DEF Whole, EntriesLead
  <2>3. CASE x = i
    <3>1. d = p /\ k = k1 /\ j = j1
      <4>1. p \in M /\ EntriesApart(t2, c2, M) /\ Live(t2, c2, p, k1, j1)
        BY DEF Whole
      <4>2. EntryAt(t2, c2, d, k, j).inode = EntryAt(t2, c2, p, k1, j1).inode
        BY <2>1, <2>3
      <4> QED
        BY ONLY <1>7, <4>1, <4>2 DEF EntriesApart
    <3> QED
      BY <1>1, <3>1
  <2>4. CASE x # i
    <3>1. x \in L \ {RootInode}
      BY <2>2, <2>4
    <3>2. PICK d0 \in L : \E k0, j0 :
               /\ Live(t, c, d0, k0, j0) /\ Live(t2, c2, d0, k0, j0)
               /\ EntryAt(t2, c2, d0, k0, j0) = EntryAt(t, c, d0, k0, j0)
               /\ EntryAt(t, c, d0, k0, j0).inode = x
               /\ \A f \in M : \A m, n : Live(t2, c2, f, m, n) /\ EntryAt(t2, c2, f, m, n).inode = x
                    => f = d0 /\ m = k0 /\ n = j0
      BY <1>2, <3>1
    <3>3. d \in L /\ Live(t, c, d, k, j) /\ EntryAt(t2, c2, d, k, j) = EntryAt(t, c, d, k, j)
      BY <1>7, <2>1, <3>2
    <3>4. w[x] = Append(w[d], EntryAt(t2, c2, d, k, j).name)
      BY <2>1, <3>3 DEF Ways
    <3> QED
      BY <1>1, <2>1, <3>1, <3>3, <3>4
  <2> QED
    BY <2>3, <2>4
<1>8. ASSUME NEW x \in M \ {RootInode}
      PROVE  \E d \in M : \E k, j : Live(t2, c2, d, k, j) /\ EntryAt(t2, c2, d, k, j).inode = x
  <2>1. CASE x = i
    BY <2>1
  <2>2. CASE x # i
    <3>1. x \in L \ {RootInode}
      BY <1>8, <2>2
    <3>2. PICK d \in L : \E k, j : Live(t2, c2, d, k, j) /\ EntryAt(t2, c2, d, k, j) = EntryAt(t, c, d, k, j)
                                   /\ EntryAt(t, c, d, k, j).inode = x
      BY <1>2, <3>1
    <3> QED
      BY <3>2
  <2> QED
    BY <2>1, <2>2
<1>9. Ways(t2, c2, M, v)
  BY <1>4, <1>5, <1>6, <1>7, <1>8 DEF Ways
<1> QED
  BY <1>1, <1>3, <1>9 DEF v

-----------------------------------------------------------------------------
(***************************************************************************)
(* Whatever is marked is accounted for: it belongs to the tree, or the     *)
(* command in progress has it in hand.  Nothing is written back to the     *)
(* bitmaps on the drive by sessions that neither unmount nor format.       *)
(***************************************************************************)
Undisturbed == \A s \in DOMAIN Sessions : "umount" \notin Sessions[s] /\ "format" \notin Sessions[s]

\* The blocks that a creation or a write has been given.
Held(o, b) ==
  \/ o.pc \in Creating /\ o.call = "create_directory" /\ b = o.block
  \/ o.pc \in {"entry_block", "parent_inode"} /\ b = o.grown
  \/ o.pc \in Writing /\ \E k \in DOMAIN o.node.blocks : o.node.blocks[k] = b

Used(t, L, o, b) == \E i \in L \ Unmarked(o) : \E k : Has(t, i, k, b)

Accounted(m, t, L, o) ==
  /\ \A i \in Inodes : InodeBit(i) \in m.bits => i \in L \/ (o.pc \in Creating /\ i = o.inode)
  /\ o.pc = "clear_entry" => InodeBit(o.inode) \notin m.bits
  /\ \A b \in DataBlocks : b \in m.bits => Used(t, L, o, b) \/ Held(o, b)

NoLeak(L) ==
  /\ diskCopy = Formatted /\ op.call \notin {"unmount", "format"}
  /\ mounted => Accounted(mem, table, L, op)

\* A command that has nothing in hand.
LEMMA IdleAccounted ==
  ASSUME NEW m, NEW t, NEW L, NEW o, o.pc \in {"none", "open"}
  PROVE  /\ \A b : ~Held(o, b)
         /\ \A b : Used(t, L, o, b) <=> \E i \in L : \E k : Has(t, i, k, b)
         /\ Accounted(m, t, L, o) <=>
              /\ \A i \in Inodes : InodeBit(i) \in m.bits => i \in L
              /\ \A b \in DataBlocks : b \in m.bits => \E i \in L : \E k : Has(t, i, k, b)
<1>1. \A b : ~Held(o, b)
  BY DEF Held, Creating, Writing
<1>2. Unmarked(o) = {}
  BY DEF Unmarked, Writing
<1>3. \A b : Used(t, L, o, b) <=> \E i \in L : \E k : Has(t, i, k, b)
  BY <1>2 DEF Used
<1> QED
  BY <1>1, <1>3 DEF Accounted, Creating

LEMMA AccountedFresh ==
  ASSUME Guarded, NEW t, NEW L, RootInode \in L, NEW o, o.pc \in {"none", "open"}
  PROVE  Accounted(Formatted, t, L, o)
<1>1. \A i \in Inodes : InodeBit(i) \in Formatted.bits => i \in L
  BY SizesAssumption DEF Formatted, InodeBit, Inodes, RootInode
<1>2. \A b \in DataBlocks : b \notin Formatted.bits
  BY SizesAssumption DEF Formatted, DataBlocks, InodeBit, RootInode, Guarded
<1> QED
  BY <1>1, <1>2, IdleAccounted

\* Fewer marks and nothing in hand.
LEMMA AccountedLess ==
  ASSUME NEW m, NEW t, NEW L, NEW o, NEW m2, NEW o2, Accounted(m, t, L, o),
         o.pc \in {"none", "open"}, o2.pc \in {"none", "open"}, m2.bits \subseteq m.bits
  PROVE  Accounted(m2, t, L, o2)
BY IdleAccounted

-----------------------------------------------------------------------------
\* A creation that begins marks what it takes in hand.
LEMMA FileAccounted ==
  ASSUME Guarded, NEW m \in Copies, NEW t, NEW L, NEW o, Accounted(m, t, L, o), o.pc = "none",
         AllocatedInode(m) # 0, NEW o2, o2.pc = "new_inode", o2.inode = AllocatedInode(m)
  PROVE  Accounted(AfterAllocateInode(m), t, L, o2)
<1>1. /\ AllocatedInode(m) \in Inodes
      /\ AfterAllocateInode(m).bits = m.bits \cup {InodeBit(AllocatedInode(m))}
  BY GivesInode
<1>2. /\ \A i \in Inodes : InodeBit(i) \in m.bits => i \in L
      /\ \A b \in DataBlocks : b \in m.bits => \E i \in L : \E k : Has(t, i, k, b)
  BY IdleAccounted
<1>3. Unmarked(o2) = {} /\ o2.pc \in Creating /\ o2.pc # "clear_entry"
  BY DEF Unmarked, Creating, Writing
<1>4. ASSUME NEW i \in Inodes, InodeBit(i) \in AfterAllocateInode(m).bits PROVE i \in L \/ i = o2.inode
  BY <1>1, <1>2, <1>4, BitsApart
<1>5. ASSUME NEW b \in DataBlocks, b \in AfterAllocateInode(m).bits PROVE Used(t, L, o2, b)
  <2>1. b \in FileBlocks
    BY SizesOfDrive
  <2>2. b \in m.bits
    BY <1>1, <1>5, <2>1, BitsApart
  <2> QED
    BY <1>2, <1>3, <2>2 DEF Used
<1> QED
  BY <1>3, <1>4, <1>5 DEF Accounted

LEMMA DirectoryAccounted ==
  ASSUME Guarded, NEW m \in Copies, NEW t, NEW L, NEW o, Accounted(m, t, L, o), o.pc = "none",
         AllocatedInode(m) # 0, AllocatedBlock(AfterAllocateInode(m)) # 0,
         NEW o2, o2.pc = "dots", o2.call = "create_directory", o2.inode = AllocatedInode(m),
         o2.block = AllocatedBlock(AfterAllocateInode(m))
  PROVE  Accounted(AfterAllocateBlock(AfterAllocateInode(m)), t, L, o2)
<1> DEFINE c == AfterAllocateInode(m)
           d == AfterAllocateBlock(c)
<1>1. AllocatedInode(m) \in Inodes /\ c \in Copies /\ c.bits = m.bits \cup {InodeBit(AllocatedInode(m))}
  BY GivesInode
<1>2. AllocatedBlock(c) \in DataBlocks /\ d.bits = c.bits \cup {AllocatedBlock(c)}
  BY <1>1, GivesBlock
<1>3. /\ \A i \in Inodes : InodeBit(i) \in m.bits => i \in L
      /\ \A b \in DataBlocks : b \in m.bits => \E i \in L : \E k : Has(t, i, k, b)
  BY IdleAccounted
<1>4. Unmarked(o2) = {} /\ o2.pc \in Creating /\ o2.pc # "clear_entry"
  BY DEF Unmarked, Creating, Writing
<1>5. o2.block = AllocatedBlock(c)
  OBVIOUS
<1> HIDE DEF c, d
<1>6. DataBlocks \subseteq FileBlocks
  BY SizesOfDrive
<1>7. ASSUME NEW i \in Inodes, InodeBit(i) \in d.bits PROVE i \in L \/ i = o2.inode
  BY <1>1, <1>2, <1>3, <1>6, <1>7, BitsApart
<1>8. ASSUME NEW b \in DataBlocks, b \in d.bits PROVE Used(t, L, o2, b) \/ Held(o2, b)
  <2>1. b = o2.block \/ b \in m.bits
    BY <1>1, <1>2, <1>5, <1>6, <1>8, BitsApart
  <2>2. CASE b = o2.block
    BY <1>4, <2>2 DEF Held
  <2>3. CASE b \in m.bits
    BY <1>3, <1>4, <2>3 DEF Used
  <2> QED
    BY <2>1, <2>2, <2>3
<1>9. Accounted(d, t, L, o2)
  BY <1>4, <1>7, <1>8 DEF Accounted
<1> QED
  BY <1>9 DEF c, d

\* A directory that gets no block: the inode is given back.
LEMMA NoDirectoryAccounted ==
  ASSUME NEW m \in Copies, NEW t, NEW L, NEW o, Accounted(m, t, L, o), o.pc = "none",
         AllocatedInode(m) # 0
  PROVE  Accounted(AfterFreeInode(AfterAllocateInode(m), AllocatedInode(m)), t, L, o)
<1>1. /\ AllocatedInode(m) \in Inodes /\ AfterAllocateInode(m) \in Copies
      /\ AfterAllocateInode(m).bits = m.bits \cup {InodeBit(AllocatedInode(m))}
  BY GivesInode
<1>2. AfterFreeInode(AfterAllocateInode(m), AllocatedInode(m)).bits \subseteq m.bits
  BY <1>1, TakesBack
<1> QED
  BY <1>2, AccountedLess

\* What a failing creation gives back is all that it has in hand.
LEMMA FailAccounted ==
  ASSUME Guarded, NEW c \in Copies, NEW t, NEW L, NEW M, NEW t2, Accounted(mem, t, L, op), mem \in Copies,
         op.pc \in Creating, op.inode \in Inodes,
         op.call = "create_directory" => op.block \in DataBlocks,
         c.bits = IF op.pc \in {"entry_block", "parent_inode"} THEN mem.bits \ {op.grown} ELSE mem.bits,
         L \subseteq M, \A i \in L : \A k, b : Has(t, i, k, b) => Has(t2, i, k, b)
  PROVE  Accounted(Undo(c), t2, M, NoOp)
<1> DEFINE d == IF op.call = "create_directory" THEN AfterFreeBlock(c, op.block) ELSE c
<1>1. d \in Copies /\ d.bits = IF op.call = "create_directory" THEN c.bits \ {op.block} ELSE c.bits
  BY TakesBack
<1>2. Undo(c) = AfterFreeInode(d, op.inode)
  BY DEF Undo
<1> HIDE DEF d
<1>3. Undo(c).bits = d.bits \ {InodeBit(op.inode)}
  BY <1>1, <1>2, TakesBack
<1>4. NoOp.pc = "none"
  BY DEF NoOp
<1>5. Unmarked(op) = {}
  BY DEF Unmarked, Creating, Writing
<1>6. ASSUME NEW i \in Inodes, InodeBit(i) \in Undo(c).bits PROVE i \in M
  <2>1. InodeBit(i) \in mem.bits /\ i # op.inode
    BY <1>1, <1>3, <1>6
  <2> QED
    BY <2>1 DEF Accounted
<1>7. ASSUME NEW b \in DataBlocks, b \in Undo(c).bits PROVE \E i \in M : \E k : Has(t2, i, k, b)
  <2>1. b \in mem.bits
    BY <1>1, <1>3, <1>7
  <2>2. ~Held(op, b)
    BY <1>1, <1>3, <1>7 DEF Held, Creating, Writing
  <2>3. Used(t, L, op, b)
    BY <2>1, <2>2 DEF Accounted
  <2>4. PICK i, k : i \in L /\ Has(t, i, k, b)
    BY <1>5, <2>3 DEF Used
  <2> QED
    BY <2>4
<1> QED
  BY <1>4, <1>6, <1>7, IdleAccounted

\* The entry is made: what was in hand belongs to the tree.
LEMMA MadeAccounted ==
  ASSUME NEW L, NEW M, EntryMade(L, M), Accounted(mem, table, L, op),
         op.pc \in {"add_entry", "parent_inode"}, op'.pc \in {"none", "open"}, op.parent \in L
  PROVE  Accounted(mem', table', M, op')
<1>1. /\ M = L \cup {op.inode} /\ mem' = mem /\ table'[op.inode] = NewInode
      /\ \A x \in L : \A k, b : Has(table, x, k, b) => Has(table', x, k, b)
      /\ op.pc = "parent_inode" => \E k : Has(table', op.parent, k, op.grown)
  BY DEF EntryMade
<1>2. Unmarked(op) = {}
  BY DEF Unmarked, Writing
<1>3. ASSUME NEW i \in Inodes, InodeBit(i) \in mem'.bits PROVE i \in M
  BY <1>1, <1>3 DEF Accounted
<1>4. ASSUME NEW b \in DataBlocks, b \in mem'.bits PROVE \E i \in M : \E k : Has(table', i, k, b)
  <2>1. Used(table, L, op, b) \/ Held(op, b)
    BY <1>1, <1>4 DEF Accounted
  <2>2. CASE Used(table, L, op, b)
    <3>1. PICK i, k : i \in L /\ Has(table, i, k, b)
      BY <1>2, <2>2 DEF Used
    <3> QED
      BY <1>1, <3>1
  <2>3. CASE op.call = "create_directory" /\ b = op.block
    <3>1. NewInode.blocks = <<b>>
      BY <2>3 DEF NewInode
    <3>2. 1 \in DOMAIN NewInode.blocks /\ NewInode.blocks[1] = b
      BY <3>1
    <3>3. Has(table', op.inode, 1, b)
      BY <1>1, <3>2 DEF Has
    <3> QED
      BY <1>1, <3>3
  <2>4. CASE op.pc = "parent_inode" /\ b = op.grown
    BY <1>1, <2>4
  <2> QED
    BY <2>1, <2>2, <2>3, <2>4 DEF Held, Writing
<1> QED
  BY <1>3, <1>4, IdleAccounted

\* A creation goes on, with one more block if the directory has to grow.
LEMMA GoesOnAccounted ==
  ASSUME NEW m, NEW m2, NEW t, NEW t2, NEW L, NEW o, NEW o2, Accounted(m, t, L, o),
         o.pc \in {"dots", "new_inode", "add_entry", "entry_block"},
         o2.pc \in Creating, o2.inode = o.inode, o2.call = o.call, o2.block = o.block,
         o.pc = "entry_block" => o2.pc = "parent_inode" /\ o2.grown = o.grown,
         \A i \in Inodes : InodeBit(i) \in m2.bits => InodeBit(i) \in m.bits,
         \A b \in DataBlocks : b \in m2.bits =>
           b \in m.bits \/ (o2.pc = "entry_block" /\ b = o2.grown),
         \A x \in L : t2[x] = t[x]
  PROVE  Accounted(m2, t2, L, o2)
<1>1. Unmarked(o) = {} /\ Unmarked(o2) = {} /\ o.pc \in Creating /\ o2.pc # "clear_entry"
      /\ o.pc \notin Writing
  BY DEF Unmarked, Creating, Writing
<1>2. \A x \in L : \A k, b : Has(t, x, k, b) => Has(t2, x, k, b)
  BY DEF Has
<1>3. ASSUME NEW i \in Inodes, InodeBit(i) \in m2.bits PROVE i \in L \/ i = o2.inode
  BY <1>3 DEF Accounted
<1>4. ASSUME NEW b \in DataBlocks, b \in m2.bits PROVE Used(t2, L, o2, b) \/ Held(o2, b)
  <2>1. CASE b \in m.bits
    <3>1. CASE Used(t, L, o, b)
      BY <1>1, <1>2, <3>1 DEF Used
    <3>2. CASE Held(o, b)
      BY <1>1, <3>2 DEF Held
    <3> QED
      BY <2>1, <3>1, <3>2 DEF Accounted
  <2>2. CASE o2.pc = "entry_block" /\ b = o2.grown
    BY <2>2 DEF Held
  <2> QED
    BY <1>4, <2>1, <2>2
<1> QED
  BY <1>1, <1>3, <1>4 DEF Accounted

\* A removal or a truncation frees what its file or directory has.
LEMMA FreedAccounted ==
  ASSUME NEW m, NEW m2, NEW t, NEW L, NEW o, NEW o2, Accounted(m, t, L, o), o.pc \in {"none", "open"},
         m2.bits \subseteq m.bits, NEW i,
         \A k : \A b \in DataBlocks : Has(t, i, k, b) => b \notin m2.bits,
         o2.pc \in {"none", "clear_entry", "truncated_inode"},
         o2.pc # "none" => o2.inode = i,
         o2.pc = "clear_entry" => InodeBit(i) \notin m2.bits
  PROVE  Accounted(m2, t, L, o2)
<1>1. /\ \A x \in Inodes : InodeBit(x) \in m.bits => x \in L
      /\ \A b \in DataBlocks : b \in m.bits => \E x \in L : \E k : Has(t, x, k, b)
  BY IdleAccounted
<1>2. Unmarked(o2) \subseteq {i}
  BY DEF Unmarked, Writing
<1>3. ASSUME NEW b \in DataBlocks, b \in m2.bits PROVE Used(t, L, o2, b)
  <2>1. PICK x, k : x \in L /\ Has(t, x, k, b)
    BY <1>1, <1>3
  <2>2. x # i
    BY <1>3, <2>1
  <2> QED
    BY <1>2, <2>1, <2>2 DEF Used
<1>4. \A x \in Inodes : InodeBit(x) \in m2.bits => x \in L
  BY <1>1
<1> QED
  BY <1>3, <1>4 DEF Accounted

\* The inode that was freed leaves the tree when its entry is cleared.
LEMMA ClearedAccounted ==
  ASSUME NEW m, NEW t, NEW L, NEW M, NEW o, NEW o2, Accounted(m, t, L, o), o.pc = "clear_entry",
         L \ {o.inode} \subseteq M, o2.pc \in {"none", "clear_entry"},
         o2.pc = "clear_entry" => o2.inode = o.inode
  PROVE  Accounted(m, t, M, o2)
<1>1. Unmarked(o) = {o.inode} /\ Unmarked(o2) \subseteq {o.inode}
  BY DEF Unmarked, Writing
<1>2. ASSUME NEW x \in Inodes, InodeBit(x) \in m.bits PROVE x \in M
  <2>1. x \in L /\ x # o.inode
    BY <1>2 DEF Accounted, Creating
  <2> QED
    BY <2>1
<1>3. ASSUME NEW b \in DataBlocks, b \in m.bits PROVE Used(t, M, o2, b)
  <2>1. ~Held(o, b)
    BY DEF Held, Creating, Writing
  <2>2. Used(t, L, o, b)
    BY <1>3, <2>1 DEF Accounted
  <2>3. PICK x, k : x \in L \ {o.inode} /\ Has(t, x, k, b)
    BY <1>1, <2>2 DEF Used
  <2> QED
    BY <1>1, <2>3 DEF Used
<1>4. o2.pc = "clear_entry" => InodeBit(o2.inode) \notin m.bits
  BY DEF Accounted
<1> QED
  BY <1>2, <1>3, <1>4 DEF Accounted

\* The write of a file goes on, with one more block or without.
LEMMA WritingAccounted ==
  ASSUME NEW m, NEW m2, NEW t, NEW t2, NEW L, NEW o, NEW o2, Accounted(m, t, L, o), o.pc \in Writing,
         o2.pc \in Writing, o2.inode = o.inode,
         \A k \in DOMAIN o.node.blocks : \E n \in DOMAIN o2.node.blocks : o2.node.blocks[n] = o.node.blocks[k],
         \A i \in Inodes : InodeBit(i) \in m2.bits => InodeBit(i) \in m.bits,
         \A b \in DataBlocks : b \in m2.bits =>
           b \in m.bits \/ \E n \in DOMAIN o2.node.blocks : o2.node.blocks[n] = b,
         \A x \in L \ {o.inode} : t2[x] = t[x]
  PROVE  Accounted(m2, t2, L, o2)
<1>1. /\ Unmarked(o) = {o.inode} /\ Unmarked(o2) = {o.inode}
      /\ o.pc \notin Creating /\ o2.pc \notin Creating \cup {"clear_entry"}
      /\ o.pc \notin {"entry_block", "parent_inode"}
  BY DEF Unmarked, Creating, Writing
<1>2. \A i \in Inodes : InodeBit(i) \in m2.bits => i \in L
  BY <1>1 DEF Accounted
<1>3. ASSUME NEW b \in DataBlocks, b \in m2.bits PROVE Used(t2, L, o2, b) \/ Held(o2, b)
  <2>1. CASE Used(t, L, o, b)
    <3>1. PICK x, k : x \in L \ {o.inode} /\ Has(t, x, k, b)
      BY <1>1, <2>1 DEF Used
    <3>2. Has(t2, x, k, b)
      BY <3>1 DEF Has
    <3> QED
      BY <1>1, <3>1, <3>2 DEF Used
  <2>2. CASE Held(o, b)
    BY <1>1, <2>2 DEF Held
  <2>3. CASE \E n \in DOMAIN o2.node.blocks : o2.node.blocks[n] = b
    BY <2>3 DEF Held
  <2>4. b \in m.bits \/ \E n \in DOMAIN o2.node.blocks : o2.node.blocks[n] = b
    BY <1>3
  <2> QED
    BY <2>1, <2>2, <2>3, <2>4 DEF Accounted
<1> QED
  BY <1>1, <1>2, <1>3 DEF Accounted

\* The write of a file ends: its inode on the drive has the blocks it has in hand.
LEMMA WrittenAccounted ==
  ASSUME NEW m, NEW t, NEW t2, NEW L, NEW o, NEW o2, Accounted(m, t, L, o), o.pc \in Writing,
         o2.pc = "none", o.inode \in L, t2[o.inode] = o.node, \A x \in L \ {o.inode} : t2[x] = t[x]
  PROVE  Accounted(m, t2, L, o2)
<1>1. Unmarked(o) = {o.inode} /\ o.pc \notin Creating /\ o.pc \notin {"entry_block", "parent_inode"}
  BY DEF Unmarked, Creating, Writing
<1>2. \A i \in Inodes : InodeBit(i) \in m.bits => i \in L
  BY <1>1 DEF Accounted
<1>3. ASSUME NEW b \in DataBlocks, b \in m.bits PROVE \E i \in L : \E k : Has(t2, i, k, b)
  <2>1. CASE Used(t, L, o, b)
    <3>1. PICK x, k : x \in L \ {o.inode} /\ Has(t, x, k, b)
      BY <1>1, <2>1 DEF Used
    <3>2. Has(t2, x, k, b)
      BY <3>1 DEF Has
    <3> QED
      BY <3>1, <3>2
  <2>2. CASE Held(o, b)
    <3>1. PICK k \in DOMAIN o.node.blocks : o.node.blocks[k] = b
      BY <1>1, <2>2 DEF Held
    <3>2. Has(t2, o.inode, k, b)
      BY <3>1 DEF Has
    <3> QED
      BY <3>2
  <2> QED
    BY <1>3, <2>1, <2>2 DEF Accounted
<1>4. Unmarked(o2) = {}
  BY DEF Unmarked, Writing
<1>5. o2.pc # "clear_entry"
  OBVIOUS
<1> QED
  BY <1>2, <1>3, <1>4, <1>5 DEF Accounted, Used

-----------------------------------------------------------------------------
(***************************************************************************)
(* Step by step nothing is lost.  The steps that write neither an inode    *)
(* nor a directory block of the tree come first.                           *)
(***************************************************************************)
LEMMA CreateFileLeaksNot ==
  ASSUME Guarded, Typed, NEW L, TreeInv(L), NoLeak(L), NEW command \in {"touch", "cp"}, Ready(command),
         NEW p, NEW copy, NEW left, CreateFile(p, copy, left)
  PROVE  NoLeak(L)'
<1> DEFINE i == AllocatedInode(mem)
<1>1. PICK bad \in Unreadable("create_file") :
        /\ i # 0
        /\ op' = [NoOp EXCEPT !.call = "create_file", !.pc = FirstWrite("create_file"), !.path = p,
                    !.parent = ParentOfNew(p, bad), !.inode = i, !.copy = copy, !.left = left]
        /\ Changes(AfterAllocateInode(mem)) /\ UNCHANGED <<fsVars, diskVars, session>>
  BY DEF CreateFile, CanCreate
<1>2. op'.pc = "new_inode" /\ op'.call = "create_file" /\ op'.inode = i
  BY <1>1 DEF NoOp, FirstWrite
<1>3. mounted /\ op.pc = "none" /\ mem \in Copies
  BY ReadyIs DEF Typed, StateType
<1>4. mem' = AfterAllocateInode(mem) /\ table' = table /\ diskCopy' = diskCopy
  BY <1>1 DEF Changes, diskVars
<1>5. Accounted(mem, table, L, op) /\ diskCopy = Formatted
  BY <1>3 DEF NoLeak
<1> HIDE DEF i
<1>6. PICK o : o = op'
  OBVIOUS
<1>7. Accounted(AfterAllocateInode(mem), table, L, o)
  <2>1. o.pc = "new_inode" /\ o.inode = AllocatedInode(mem) /\ AllocatedInode(mem) # 0
    BY <1>1, <1>2, <1>6 DEF i
  <2> QED
    BY <1>3, <1>5, <2>1, FileAccounted
<1> QED
  BY <1>2, <1>4, <1>5, <1>6, <1>7 DEF NoLeak

LEMMA CreateDirectoryLeaksNot ==
  ASSUME Guarded, Typed, NEW L, TreeInv(L), NoLeak(L), Ready("mkdir"), NEW p, CreateDirectory(p)
  PROVE  NoLeak(L)'
<1> DEFINE m == AfterAllocateInode(mem)
           i == AllocatedInode(mem)
           b == AllocatedBlock(m)
<1>1. PICK bad \in Unreadable("create_directory") :
        /\ i # 0 /\ UNCHANGED <<fsVars, diskVars, session>>
        /\ \/ /\ b # 0
              /\ op' = [NoOp EXCEPT !.call = "create_directory",
                          !.pc = FirstWrite("create_directory"), !.path = p,
                          !.parent = ParentOfNew(p, bad), !.inode = i, !.block = b]
              /\ Changes(AfterAllocateBlock(m))
           \/ b = 0 /\ mem' = AfterFreeInode(m, i) /\ UNCHANGED op
  BY DEF CreateDirectory, CanCreate
<1>2. mounted /\ op.pc = "none" /\ mem \in Copies
  BY ReadyIs DEF Typed, StateType
<1>3. table' = table /\ diskCopy' = diskCopy
  BY <1>1 DEF diskVars
<1>4. Accounted(mem, table, L, op) /\ diskCopy = Formatted /\ op.call \notin {"unmount", "format"}
  BY <1>2 DEF NoLeak
<1>5. PICK o : o = op'
  OBVIOUS
<1>6. CASE b = 0 /\ mem' = AfterFreeInode(m, i) /\ UNCHANGED op
  <2>1. Accounted(AfterFreeInode(m, i), table, L, op)
    BY <1>1, <1>2, <1>4, NoDirectoryAccounted
  <2> QED
    BY <1>3, <1>4, <1>6, <2>1 DEF NoLeak
<1>7. CASE /\ b # 0
           /\ op' = [NoOp EXCEPT !.call = "create_directory",
                       !.pc = FirstWrite("create_directory"), !.path = p,
                       !.parent = ParentOfNew(p, bad), !.inode = i, !.block = b]
           /\ Changes(AfterAllocateBlock(m))
  <2>1. o.pc = "dots" /\ o.call = "create_directory" /\ o.inode = i /\ o.block = b
    BY <1>5, <1>7 DEF NoOp, FirstWrite
  <2>2. Accounted(AfterAllocateBlock(m), table, L, o)
    BY <1>1, <1>2, <1>4, <1>7, <2>1, DirectoryAccounted
  <2>3. mem' = AfterAllocateBlock(m)
    BY <1>7 DEF Changes
  <2> QED
    BY <1>3, <1>4, <1>5, <2>1, <2>2, <2>3 DEF NoLeak
<1> QED
  BY <1>1, <1>6, <1>7

\* rm, rmdir and opening for writing free what the inode has.
LEMMA FreeingLeaksNot ==
  ASSUME Guarded, Typed, NEW L, TreeInv(L), NoLeak(L), mounted, op.pc \in {"none", "open"},
         NEW i \in L, NEW m, m \in {FreeAll(mem, table[i].blocks), AfterFreeInode(FreeAll(mem, table[i].blocks), i)},
         Changes(m), UNCHANGED <<fsVars, diskVars, session>>,
         op'.call \notin {"unmount", "format"}, op'.pc \in {"none", "clear_entry", "truncated_inode"},
         op'.pc # "none" => op'.inode = i,
         op'.pc = "clear_entry" => m = AfterFreeInode(FreeAll(mem, table[i].blocks), i)
  PROVE  NoLeak(L)'
<1> DEFINE f == FreeAll(mem, table[i].blocks)
<1>1. i \in Inodes /\ mem \in Copies
  BY DEF TreeInv, Whole, Kinds, Typed, StateType
<1>2. Len(table[i].blocks) \in Nat /\ DOMAIN table[i].blocks = 1 .. Len(table[i].blocks)
  BY <1>1, InodeListIs DEF Typed, StateType, Tables
<1>3. /\ f \in Copies /\ f.bits \subseteq mem.bits
      /\ \A k \in DOMAIN table[i].blocks : table[i].blocks[k] \in DataBlocks => table[i].blocks[k] \notin f.bits
  BY <1>1, <1>2, FreeAllKeeps, FreeAllFrees
<1> HIDE DEF f
<1>4. AfterFreeInode(f, i).bits = f.bits \ {InodeBit(i)}
  BY <1>1, <1>3, TakesBack
<1>5. m.bits \subseteq f.bits
  BY <1>4 DEF f
<1>6. \A k : \A b \in DataBlocks : Has(table, i, k, b) => b \notin m.bits
  BY <1>3, <1>5 DEF Has
<1>7. op'.pc = "clear_entry" => InodeBit(i) \notin m.bits
  BY <1>4 DEF f
<1>8. Accounted(mem, table, L, op) /\ diskCopy = Formatted
  BY DEF NoLeak
<1>9. PICK o : o = op'
  OBVIOUS
<1>10. m.bits \subseteq mem.bits
  BY <1>3, <1>5
<1>11. o.pc \in {"none", "clear_entry", "truncated_inode"} /\ (o.pc # "none" => o.inode = i)
       /\ (o.pc = "clear_entry" => InodeBit(i) \notin m.bits)
  BY <1>7, <1>9
<1>12. Accounted(m, table, L, o)
  BY <1>6, <1>8, <1>10, <1>11, FreedAccounted
<1>13. mem' = m /\ table' = table /\ diskCopy' = diskCopy
  BY DEF Changes, diskVars
<1> QED
  BY <1>8, <1>9, <1>12, <1>13 DEF NoLeak

\* A creation that fails, and one that goes on.
LEMMA FailingLeaksNot ==
  ASSUME Guarded, Typed, NEW L, TreeInv(L), NoLeak(L), op.pc \in Creating,
         NEW c, c = (IF op.pc \in {"entry_block", "parent_inode"} THEN AfterFreeBlock(mem, op.grown) ELSE mem),
         Fail(c), diskCopy' = diskCopy, \A x \in L : table'[x] = table[x]
  PROVE  NoLeak(L)'
<1>1. /\ mounted /\ op.inode \in Inodes /\ (op.call = "create_directory" => op.block \in DataBlocks)
      /\ op.pc \in {"entry_block", "parent_inode"} => op.grown \in DataBlocks
      /\ mem \in Copies
  BY InHand DEF Spare, Typed, StateType
<1>2. c \in Copies /\ c.bits = IF op.pc \in {"entry_block", "parent_inode"} THEN mem.bits \ {op.grown} ELSE mem.bits
  BY <1>1, TakesBack
<1>3. \A i \in L : \A k, b : Has(table, i, k, b) => Has(table', i, k, b)
  BY DEF Has
<1>4. Accounted(mem, table, L, op) /\ diskCopy = Formatted
  BY <1>1 DEF NoLeak
<1>5. PICK u : u = table'
  OBVIOUS
<1>6. Accounted(Undo(c), u, L, NoOp)
  <2>1. /\ Guarded /\ c \in Copies /\ Accounted(mem, table, L, op) /\ mem \in Copies
        /\ op.pc \in Creating /\ op.inode \in Inodes
        /\ op.call = "create_directory" => op.block \in DataBlocks
        /\ c.bits = IF op.pc \in {"entry_block", "parent_inode"} THEN mem.bits \ {op.grown} ELSE mem.bits
        /\ L \subseteq L /\ \A i \in L : \A k, b : Has(table, i, k, b) => Has(u, i, k, b)
    BY <1>1, <1>2, <1>3, <1>4, <1>5
  <2> QED
    BY ONLY <2>1, FailAccounted
<1>7. mem' = Undo(c) /\ op' = NoOp /\ NoOp.call = "none"
  BY DEF Fail, Changes, NoOp
<1> QED
  BY <1>4, <1>5, <1>6, <1>7 DEF NoLeak

LEMMA GoingOnLeaksNot ==
  ASSUME Typed, NEW L, TreeInv(L), NoLeak(L), op.pc \in {"dots", "new_inode", "entry_block"},
         NEW q \in {"new_inode", "add_entry", "parent_inode"}, op' = [op EXCEPT !.pc = q],
         op.pc = "entry_block" => q = "parent_inode",
         mem' = mem, diskCopy' = diskCopy, \A x \in L : table'[x] = table[x]
  PROVE  NoLeak(L)'
<1>1. op.pc \in Creating /\ q \in Creating
  BY DEF Creating
<1>2. mounted /\ op \in Ops
  BY <1>1, InHand DEF Typed, OpType
<1>3. /\ op'.pc = q /\ op'.inode = op.inode /\ op'.call = op.call /\ op'.block = op.block
      /\ op'.grown = op.grown
  BY <1>2 DEF Ops
<1>4. Accounted(mem, table, L, op) /\ diskCopy = Formatted /\ op.call \notin {"unmount", "format"}
  BY <1>2 DEF NoLeak
<1>5. PICK o, u : o = op' /\ u = table'
  OBVIOUS
<1>6. Accounted(mem, u, L, o)
  <2>1. /\ Accounted(mem, table, L, op) /\ op.pc \in {"dots", "new_inode", "add_entry", "entry_block"}
        /\ o.pc \in Creating /\ o.inode = op.inode /\ o.call = op.call /\ o.block = op.block
        /\ op.pc = "entry_block" => o.pc = "parent_inode" /\ o.grown = op.grown
        /\ \A i \in Inodes : InodeBit(i) \in mem.bits => InodeBit(i) \in mem.bits
        /\ \A b \in DataBlocks : b \in mem.bits => b \in mem.bits \/ (o.pc = "entry_block" /\ b = o.grown)
        /\ \A x \in L : u[x] = table[x]
    BY <1>1, <1>3, <1>4, <1>5
  <2> QED
    BY ONLY <2>1, GoesOnAccounted
<1> QED
  BY <1>3, <1>4, <1>5, <1>6 DEF NoLeak

\* The writes of a creation, and the block its directory may need.
LEMMA CreationLeaksNot ==
  ASSUME Guarded, Typed, NEW L, TreeInv(L), NoLeak(L), WriteDots \/ WriteNewInode \/ WriteEntryBlock
  PROVE  NoLeak(L)' /\ \A x \in L : table'[x] = table[x]
<1>1. /\ op.pc \in {"dots", "new_inode", "entry_block"} /\ op.pc \in Creating
      /\ UNCHANGED <<fsVars, diskCopy>>
  BY DEF WriteDots, WriteNewInode, WriteEntryBlock, Creating
<1>2. \A x \in L : table'[x] = table[x]
  <2>1. CASE WriteNewInode
    <3>1. PICK w \in Outcomes : PutInode(op.inode, NewInode, w)
      BY <2>1 DEF WriteNewInode
    <3>2. op.inode \notin L /\ Kinds(table, L)
      BY <1>1, InHand DEF TreeInv, Whole
    <3> QED
      BY <3>1, <3>2, PutOutside
  <2>2. CASE WriteDots \/ WriteEntryBlock
    BY <2>2 DEF WriteDots, WriteEntryBlock
  <2> QED
    BY <2>1, <2>2
<1>3. \/ \E q \in {"new_inode", "add_entry", "parent_inode"} :
           /\ op' = [op EXCEPT !.pc = q] /\ (op.pc = "entry_block" => q = "parent_inode") /\ mem' = mem
      \/ Fail(IF op.pc \in {"entry_block", "parent_inode"} THEN AfterFreeBlock(mem, op.grown) ELSE mem)
  BY DEF WriteDots, WriteNewInode, WriteEntryBlock
<1>4. PICK c : c = IF op.pc \in {"entry_block", "parent_inode"} THEN AfterFreeBlock(mem, op.grown) ELSE mem
  OBVIOUS
<1>5. CASE Fail(c)
  BY <1>1, <1>2, <1>4, <1>5, FailingLeaksNot
<1>6. CASE ~Fail(c)
  <2>1. PICK q \in {"new_inode", "add_entry", "parent_inode"} :
          /\ op' = [op EXCEPT !.pc = q] /\ (op.pc = "entry_block" => q = "parent_inode") /\ mem' = mem
    BY <1>3, <1>4, <1>6
  <2> QED
    BY <1>1, <1>2, <2>1, GoingOnLeaksNot
<1> QED
  BY <1>2, <1>5, <1>6

LEMMA GrowingLeaksNot ==
  ASSUME Guarded, Typed, NEW L, TreeInv(L), NoLeak(L), GrowDirectory
  PROVE  NoLeak(L)'
<1>1. /\ op.pc = "add_entry" /\ op.pc \in Creating /\ AllocatedBlock(mem) # 0
      /\ op' = [op EXCEPT !.pc = "entry_block", !.grown = AllocatedBlock(mem)]
      /\ Changes(AfterAllocateBlock(mem)) /\ UNCHANGED <<fsVars, diskVars>>
  BY DEF GrowDirectory, Creating
<1>2. mounted /\ op \in Ops /\ mem \in Copies
  BY <1>1, InHand DEF Typed, OpType, StateType
<1>3. /\ op'.pc = "entry_block" /\ op'.inode = op.inode /\ op'.call = op.call /\ op'.block = op.block
      /\ op'.grown = AllocatedBlock(mem)
  BY <1>1, <1>2 DEF Ops
<1>4. Accounted(mem, table, L, op) /\ diskCopy = Formatted /\ op.call \notin {"unmount", "format"}
  BY <1>2 DEF NoLeak
<1>5. PICK o, m : o = op' /\ m = mem'
  OBVIOUS
<1>6. m.bits = mem.bits \cup {AllocatedBlock(mem)} /\ AllocatedBlock(mem) \in FileBlocks
  BY <1>1, <1>2, <1>5, GivesBlock, SizesOfDrive DEF Changes
<1>7. Accounted(m, table, L, o)
  <2>1. "entry_block" \in Creating
    BY DEF Creating
  <2>2. \A i \in Inodes : InodeBit(i) \in m.bits => InodeBit(i) \in mem.bits
    BY <1>6, BitsApart
  <2>3. /\ Accounted(mem, table, L, op) /\ op.pc \in {"dots", "new_inode", "add_entry", "entry_block"}
        /\ o.pc \in Creating /\ o.inode = op.inode /\ o.call = op.call /\ o.block = op.block
        /\ op.pc = "entry_block" => o.pc = "parent_inode" /\ o.grown = op.grown
        /\ \A i \in Inodes : InodeBit(i) \in m.bits => InodeBit(i) \in mem.bits
        /\ \A b \in DataBlocks : b \in m.bits => b \in mem.bits \/ (o.pc = "entry_block" /\ b = o.grown)
        /\ \A x \in L : table[x] = table[x]
    BY <1>1, <1>3, <1>4, <1>5, <1>6, <2>1, <2>2
  <2> QED
    BY ONLY <2>3, GoesOnAccounted
<1>8. table' = table /\ diskCopy' = diskCopy
  BY <1>1 DEF diskVars
<1> QED
  BY <1>3, <1>4, <1>5, <1>7, <1>8 DEF NoLeak

LEMMA RefusingLeaksNot ==
  ASSUME Guarded, Typed, NEW L, TreeInv(L), NoLeak(L), RefuseEntry
  PROVE  NoLeak(L)'
<1>1. op.pc = "add_entry" /\ op.pc \in Creating /\ Fail(mem) /\ UNCHANGED <<fsVars, diskVars>>
  BY DEF RefuseEntry, Creating
<1>2. PICK c : c = mem
  OBVIOUS
<1>3. c = (IF op.pc \in {"entry_block", "parent_inode"} THEN AfterFreeBlock(mem, op.grown) ELSE mem)
      /\ Fail(c) /\ diskCopy' = diskCopy /\ \A x \in L : table'[x] = table[x]
  BY <1>1, <1>2 DEF diskVars
<1> QED
  BY <1>1, <1>3, FailingLeaksNot

\* The entry of the new inode is written, or the creation fails.
LEMMA EntryLeaksNot ==
  ASSUME Guarded, Typed, NEW L, TreeInv(L), NoLeak(L), AppendEntry \/ WriteParentInode,
         NEW M, EntryMade(L, M) \/ EntryLost(L, M)
  PROVE  NoLeak(M)'
<1>1. op.pc \in {"add_entry", "parent_inode"} /\ op.pc \in Creating /\ diskCopy' = diskCopy
  BY DEF AppendEntry, WriteParentInode, Creating
<1>2. CASE EntryLost(L, M)
  <2>1. PICK c : c = IF op.pc \in {"entry_block", "parent_inode"} THEN AfterFreeBlock(mem, op.grown) ELSE mem
    OBVIOUS
  <2>2. Fail(c) /\ M = L /\ \A x \in L : table'[x] = table[x]
    BY <1>1, <1>2, <2>1 DEF EntryLost
  <2> QED
    BY <1>1, <2>1, <2>2, FailingLeaksNot
<1>3. CASE EntryMade(L, M)
  <2>1. mounted /\ op \in Ops /\ op.parent \in L
    BY <1>1, InHand DEF Typed, OpType
  <2>2. Accounted(mem, table, L, op) /\ diskCopy = Formatted /\ op.call \notin {"unmount", "format"}
    BY <2>1 DEF NoLeak
  <2>3. op'.pc \in {"none", "open"} /\ op'.call \notin {"unmount", "format"}
    BY <1>3, <2>1 DEF EntryMade, Succeed, Ops, NoOp
  <2>4. Accounted(mem', table', M, op')
    BY <1>1, <1>3, <2>1, <2>2, <2>3, MadeAccounted
  <2> QED
    BY <1>1, <2>2, <2>3, <2>4 DEF NoLeak
<1> QED
  BY <1>2, <1>3

LEMMA ClearingLeaksNot ==
  ASSUME Typed, NEW L, TreeInv(L), NoLeak(L), ClearEntry,
         NEW M, EntryGone(L, M) \/ (M = L /\ op' = NoOp)
  PROVE  NoLeak(M)'
<1>1. op.pc = "clear_entry" /\ UNCHANGED <<mem, table, diskCopy>> /\ op \in Ops
  BY DEF ClearEntry, Typed, OpType
<1>2. mounted /\ op.call = "delete"
  BY <1>1 DEF TreeInv, OpOK, ClearingOK
<1>3. Accounted(mem, table, L, op) /\ diskCopy = Formatted
  BY <1>2 DEF NoLeak
<1>4. L \ {op.inode} \subseteq M
  BY DEF EntryGone
<1>5. op'.pc \in {"none", "clear_entry"} /\ (op'.pc = "clear_entry" => op'.inode = op.inode)
  BY DEF EntryGone, NoOp
<1>6. op'.call \notin {"unmount", "format"}
  <2>1. CASE op' = NoOp
    BY <2>1 DEF NoOp
  <2>2. CASE op' # NoOp
    <3>1. \E n : op' = [op EXCEPT !.position = n]
      BY <2>2 DEF ClearEntry
    <3> QED
      BY <1>1, <1>2, <3>1 DEF Ops
  <2> QED
    BY <2>1, <2>2
<1>7. PICK o : o = op'
  OBVIOUS
<1>8. Accounted(mem, table, M, o)
  BY <1>1, <1>3, <1>4, <1>5, <1>7, ClearedAccounted
<1> QED
  BY <1>1, <1>3, <1>6, <1>7, <1>8 DEF NoLeak

LEMMA UnlinkingLeaksNot ==
  ASSUME Guarded, Typed, NEW L, TreeInv(L), NoLeak(L), DeleteFile \/ RemoveDirectory
  PROVE  NoLeak(L)'
<1>1. PICK p \in OldPaths, bad \in Unreadable("delete") : Find(p, bad) # 0 /\ Unlink(p, Find(p, bad), bad)
  BY DEF DeleteFile, RemoveDirectory
<1>2. Ready("rm") \/ Ready("rmdir")
  BY DEF DeleteFile, RemoveDirectory
<1>3. mounted /\ op.pc = "none" /\ op.call # "unmount"
  BY <1>2, ReadyIs
<1>4. Find(p, bad) \in L
  <2>1. p = [absolute |-> p.absolute, names |-> p.names] /\ Len(p.names) \in Nat
    BY OldPathIs DEF PathRecords
  <2> QED
    BY <1>1, <1>3, <2>1, FindInTree
<1>5. PICK i \in L : i = Find(p, bad)
  BY <1>4
<1>6. PICK m : m = AfterFreeInode(FreeAll(mem, table[i].blocks), i)
  OBVIOUS
<1>7. Changes(m) /\ UNCHANGED <<fsVars, diskVars, session>>
  BY <1>1, <1>5, <1>6 DEF Unlink
<1>8. PICK d : op' = NoOp \/ op' = [call |-> "delete", pc |-> "clear_entry", path |-> p, copy |-> FALSE,
                                    parent |-> d, inode |-> i, block |-> 0, grown |-> 0,
                                    node |-> NoInode, position |-> 0, left |-> 0]
  <2>1. op' = NoOp \/ op' = [NoOp EXCEPT !.call = "delete", !.pc = "clear_entry", !.path = p,
                               !.inode = i, !.parent = ParentOfOld(p, bad)]
    BY <1>1, <1>5 DEF Unlink
  <2> QED
    BY <2>1 DEF NoOp
<1>9. /\ op'.call \notin {"unmount", "format"} /\ op'.pc \in {"none", "clear_entry", "truncated_inode"}
      /\ op'.pc # "none" => op'.inode = i
  BY <1>8 DEF NoOp
<1> QED
  BY <1>3, <1>6, <1>7, <1>9, FreeingLeaksNot

LEMMA OpeningLeaksNot ==
  ASSUME Guarded, Typed, NEW L, TreeInv(L), NoLeak(L), Edit \/ CopyOpens
  PROVE  NoLeak(L)'
<1>1. PICK p, left : OpenForWriting(p, left) /\ (p \in OldPaths \/ (op.pc = "open" /\ p = op.path))
  BY DEF Edit, CopyOpens
<1>2. Ready("edit") \/ op.pc = "open"
  BY DEF Edit, CopyOpens
<1>3. mounted /\ op.pc \in {"none", "open"} /\ op.call # "unmount"
  BY <1>2, ReadyIs DEF TreeInv, OpOK, OpenOK
<1>4. p \in PathRecords
  BY <1>1, OldPathIs DEF Typed, OpType, Ops
<1>5. PICK bad \in Unreadable("open") :
        /\ UNCHANGED <<fsVars, diskVars, session>>
        /\ \/ /\ Find(p, bad) # 0
              /\ Changes(FreeAll(mem, table[Find(p, bad)].blocks))
              /\ op' = Opening(p, Find(p, bad), left)
           \/ op' = NoOp /\ UNCHANGED <<mem, dirty>>
  BY <1>1 DEF OpenForWriting, Opening
<1>6. CASE Find(p, bad) # 0 /\ Changes(FreeAll(mem, table[Find(p, bad)].blocks))
           /\ op' = Opening(p, Find(p, bad), left)
  <2>1. Find(p, bad) \in L
    <3>1. p = [absolute |-> p.absolute, names |-> p.names] /\ Len(p.names) \in Nat
      BY <1>4 DEF PathRecords
    <3> QED
      BY <1>3, <1>6, <3>1, FindInTree
  <2>2. PICK i \in L : i = Find(p, bad)
    BY <2>1
  <2>3. PICK m : m = FreeAll(mem, table[i].blocks)
    OBVIOUS
  <2>4. Changes(m) /\ op' = Opening(p, i, left)
    BY <1>6, <2>2, <2>3
  <2>5. op'.call = "open" /\ op'.pc = "truncated_inode" /\ op'.inode = i
    BY <2>4 DEF Opening, NoOp
  <2> QED
    BY <1>3, <1>5, <2>3, <2>4, <2>5, FreeingLeaksNot
<1>7. CASE op' = NoOp /\ UNCHANGED <<mem, dirty>>
  <2>1. NoOp.pc = "none" /\ NoOp.call = "none" /\ mem.bits \subseteq mem.bits
    BY DEF NoOp
  <2>2. Accounted(mem, table, L, op) /\ diskCopy = Formatted
    BY <1>3 DEF NoLeak
  <2>3. Accounted(mem, table, L, NoOp)
    BY <1>3, <2>1, <2>2, AccountedLess
  <2> QED
    BY <1>5, <1>7, <2>1, <2>2, <2>3 DEF NoLeak, diskVars
<1> QED
  BY <1>5, <1>6, <1>7

-----------------------------------------------------------------------------
\* A file is being written.
LEMMA ExtendingLeaksNot ==
  ASSUME Guarded, Typed, NEW L, TreeInv(L), NoLeak(L), ExtendFile
  PROVE  NoLeak(L)'
<1> DEFINE b == AllocatedBlock(mem)
           s == op.node.blocks
           n == [op.node EXCEPT !.blocks = Append(@, b)]
<1>1. /\ op.pc = "write" /\ op.pc \in Writing /\ b # 0
      /\ op' = [op EXCEPT !.pc = "data", !.node.blocks = Append(@, b)]
      /\ Changes(AfterAllocateBlock(mem)) /\ UNCHANGED <<fsVars, diskVars, session>>
  BY DEF ExtendFile, Writing
<1>2. mounted /\ op.call \in {"open", "write"} /\ op \in Ops /\ op.node \in InodeLists
  BY <1>1, FileInHand
<1>3. /\ b \in DataBlocks /\ b \in FileBlocks /\ mem' = AfterAllocateBlock(mem)
      /\ mem'.bits = mem.bits \cup {b}
  BY <1>1, GivesBlock, SizesOfDrive DEF Changes, Typed, StateType
<1>4. op' = [op EXCEPT !.pc = "data", !.node = n]
  BY <1>1, <1>2 DEF Ops
<1>5. op'.pc = "data" /\ op'.node = n /\ op'.inode = op.inode /\ op'.call = op.call
  BY <1>2, <1>4 DEF Ops
<1> HIDE DEF b
<1>6. n.blocks = Append(s, b)
  BY <1>2 DEF InodeLists
<1>7. s \in Seq(FileBlocks) /\ DOMAIN s = 1 .. Len(s) /\ Len(s) \in Nat
  BY <1>2, InodeListIs
<1> HIDE DEF n, s
<1>8. /\ Len(s) + 1 \in DOMAIN n.blocks /\ n.blocks[Len(s) + 1] = b
      /\ \A k \in DOMAIN s : k \in DOMAIN n.blocks /\ n.blocks[k] = s[k]
  BY <1>3, <1>6, <1>7
<1>9. Accounted(mem, table, L, op) /\ diskCopy = Formatted
  BY <1>2 DEF NoLeak
<1>10. PICK o, m : o = op' /\ m = mem'
  OBVIOUS
<1>11. Accounted(m, table, L, o)
  <2>1. "data" \in Writing
    BY DEF Writing
  <2>2. \A i \in Inodes : InodeBit(i) \in m.bits => InodeBit(i) \in mem.bits
    BY <1>3, <1>10, BitsApart
  <2>3. /\ Accounted(mem, table, L, op) /\ op.pc \in Writing /\ o.pc \in Writing /\ o.inode = op.inode
        /\ \A k \in DOMAIN op.node.blocks : \E j \in DOMAIN o.node.blocks : o.node.blocks[j] = op.node.blocks[k]
        /\ \A i \in Inodes : InodeBit(i) \in m.bits => InodeBit(i) \in mem.bits
        /\ \A x \in DataBlocks : x \in m.bits =>
             x \in mem.bits \/ \E j \in DOMAIN o.node.blocks : o.node.blocks[j] = x
        /\ \A x \in L \ {op.inode} : table[x] = table[x]
    BY <1>1, <1>3, <1>5, <1>8, <1>9, <1>10, <2>1, <2>2 DEF s
  <2> QED
    BY ONLY <2>3, WritingAccounted
<1>12. table' = table /\ diskCopy' = diskCopy
  BY <1>1 DEF diskVars
<1> QED
  BY <1>2, <1>5, <1>9, <1>10, <1>11, <1>12 DEF NoLeak

\* The list of blocks in hand stays as it is.
LEMMA WritingOnLeaksNot ==
  ASSUME Typed, NEW L, TreeInv(L), NoLeak(L), op.pc \in Writing, op'.pc \in Writing,
         op'.inode = op.inode, op'.node = op.node, op'.call \in {"open", "write"},
         mem' = mem, diskCopy' = diskCopy, \A x \in L \ {op.inode} : table'[x] = table[x]
  PROVE  NoLeak(L)'
<1>1. mounted
  BY FileInHand
<1>2. Accounted(mem, table, L, op) /\ diskCopy = Formatted
  BY <1>1 DEF NoLeak
<1>3. PICK o, u : o = op' /\ u = table'
  OBVIOUS
<1>4. Accounted(mem, u, L, o)
  <2>1. /\ Accounted(mem, table, L, op) /\ op.pc \in Writing /\ o.pc \in Writing /\ o.inode = op.inode
        /\ \A k \in DOMAIN op.node.blocks : \E j \in DOMAIN o.node.blocks : o.node.blocks[j] = op.node.blocks[k]
        /\ \A i \in Inodes : InodeBit(i) \in mem.bits => InodeBit(i) \in mem.bits
        /\ \A x \in DataBlocks : x \in mem.bits =>
             x \in mem.bits \/ \E j \in DOMAIN o.node.blocks : o.node.blocks[j] = x
        /\ \A x \in L \ {op.inode} : u[x] = table[x]
    BY <1>2, <1>3
  <2> QED
    BY ONLY <2>1, WritingAccounted
<1> QED
  BY <1>2, <1>3, <1>4 DEF NoLeak

LEMMA WritingLeaksNot ==
  ASSUME Guarded, Typed, NEW L, TreeInv(L), NoLeak(L),
         RewriteBlock \/ StopWriting \/ WriteData \/ WriteTruncatedInode \/ WriteFileInode
  PROVE  NoLeak(L)'
<1>1. op.pc \in Writing /\ mem' = mem /\ diskCopy' = diskCopy
  BY DEF RewriteBlock, StopWriting, WriteData, WriteTruncatedInode, WriteFileInode, Writing, diskVars
<1>2. /\ mounted /\ op \in Ops /\ op.call \in {"open", "write"} /\ op.inode \in L /\ op.inode \in Inodes
  BY <1>1, FileInHand
<1>3. CASE RewriteBlock \/ StopWriting \/ WriteData
  <2>1. \E pc \in {"data", "file_inode"} : \E k, n :
          op' = [op EXCEPT !.pc = pc, !.position = k, !.left = n]
    <3>1. \E pc \in {"data", "file_inode"} :
             \/ op' = [op EXCEPT !.pc = pc] \/ op' = [op EXCEPT !.pc = pc, !.left = 0]
             \/ op' = [op EXCEPT !.pc = pc, !.position = @ + 1, !.left = @ - 1]
      BY <1>3 DEF RewriteBlock, StopWriting, WriteData
    <3>2. PICK pc \in {"data", "file_inode"} :
             \/ op' = [op EXCEPT !.pc = pc] \/ op' = [op EXCEPT !.pc = pc, !.left = 0]
             \/ op' = [op EXCEPT !.pc = pc, !.position = @ + 1, !.left = @ - 1]
      BY <3>1
    <3>3. CASE op' = [op EXCEPT !.pc = pc]
      <4>1. op' = [op EXCEPT !.pc = pc, !.position = op.position, !.left = op.left]
        BY <1>2, <3>3 DEF Ops
      <4> QED
        BY <4>1
    <3>4. CASE op' = [op EXCEPT !.pc = pc, !.left = 0]
      <4>1. op' = [op EXCEPT !.pc = pc, !.position = op.position, !.left = 0]
        BY <1>2, <3>4 DEF Ops
      <4> QED
        BY <4>1
    <3>5. CASE op' = [op EXCEPT !.pc = pc, !.position = @ + 1, !.left = @ - 1]
      <4>1. op' = [op EXCEPT !.pc = pc, !.position = op.position + 1, !.left = op.left - 1]
        BY <3>5
      <4> QED
        BY <4>1
    <3> QED
      BY <3>2, <3>3, <3>4, <3>5
  <2>2. op'.pc \in {"data", "file_inode"} /\ op'.inode = op.inode /\ op'.node = op.node /\ op'.call = op.call
    BY <1>2, <2>1 DEF Ops
  <2>3. op'.pc \in Writing /\ table' = table
    BY <1>3, <2>2 DEF Writing, RewriteBlock, StopWriting, WriteData, diskVars
  <2> QED
    BY <1>1, <1>2, <2>2, <2>3, WritingOnLeaksNot
<1>4. CASE WriteTruncatedInode \/ WriteFileInode
  <2>1. PICK w \in Outcomes : PutInode(op.inode, op.node, w) /\ op' = AfterInode
    BY <1>4 DEF WriteTruncatedInode, WriteFileInode
  <2>2. w = "done"
    BY <1>2, <2>1, OutcomesAre
  <2>3. table'[op.inode] = op.node /\ \A x \in L \ {op.inode} : table'[x] = table[x]
    <3>1. Kinds(table, L)
      BY DEF TreeInv, Whole
    <3> QED
      BY <1>2, <2>1, <2>2, <3>1, PutOutside
  <2>4. CASE op' = [op EXCEPT !.call = "write", !.pc = "write"]
    <3>1. op'.pc = "write" /\ op'.call = "write" /\ op'.inode = op.inode /\ op'.node = op.node
      BY <1>2, <2>4 DEF Ops
    <3>2. op'.pc \in Writing
      BY <3>1 DEF Writing
    <3> QED
      BY <1>1, <2>3, <3>1, <3>2, WritingOnLeaksNot
  <2>5. CASE op' = NoOp
    <3>1. Accounted(mem, table, L, op) /\ diskCopy = Formatted
      BY <1>2 DEF NoLeak
    <3>2. PICK u : u = table'
      OBVIOUS
    <3>3. NoOp.pc = "none" /\ NoOp.call = "none"
      BY DEF NoOp
    <3>4. Accounted(mem, u, L, NoOp)
      BY <1>1, <1>2, <2>3, <3>1, <3>2, <3>3, WrittenAccounted
    <3> QED
      BY <1>1, <2>5, <3>1, <3>2, <3>3, <3>4 DEF NoLeak
  <2> QED
    BY <2>1, <2>4, <2>5 DEF AfterInode
<1> QED
  BY <1>3, <1>4

-----------------------------------------------------------------------------
(***************************************************************************)
(* The command in progress, as FileTree sees it.                           *)
(***************************************************************************)
DoingOf(o) ==
  CASE o.call \in {"create_file", "create_directory"} -> IF o.copy THEN "copy" ELSE "add"
    [] o.call = "delete" /\ o.position = 0 -> "remove"
    [] o.call = "open" -> "empty"
    [] o.call = "write" -> "fill"
    [] OTHER -> "nothing"

LEMMA DoingIs ==
  /\ Doing = DoingOf(op) /\ Doing' = DoingOf(op')
  /\ \A o : /\ o.call \in {"create_file", "create_directory"} =>
                 DoingOf(o) = IF o.copy THEN "copy" ELSE "add"
            /\ o.call = "delete" /\ o.position = 0 => DoingOf(o) = "remove"
            /\ o.call = "delete" /\ o.position # 0 => DoingOf(o) = "nothing"
            /\ o.call = "open" => DoingOf(o) = "empty"
            /\ o.call = "write" => DoingOf(o) = "fill"
            /\ o = NoOp => DoingOf(o) = "nothing"
<1>1. Doing = DoingOf(op)
  BY DEF Doing, DoingOf
<1>2. Doing' = DoingOf(op')
  BY DEF Doing, DoingOf
<1>3. ASSUME NEW o
      PROVE  /\ o.call \in {"create_file", "create_directory"} =>
                  DoingOf(o) = IF o.copy THEN "copy" ELSE "add"
             /\ o.call = "delete" /\ o.position = 0 => DoingOf(o) = "remove"
             /\ o.call = "delete" /\ o.position # 0 => DoingOf(o) = "nothing"
             /\ o.call = "open" => DoingOf(o) = "empty"
             /\ o.call = "write" => DoingOf(o) = "fill"
  BY DEF DoingOf
<1>4. NoOp.call = "none"
  BY DEF NoOp
<1>5. DoingOf(NoOp) = "nothing"
  BY <1>4 DEF DoingOf
<1> QED
  BY <1>1, <1>2, <1>3, <1>5

\* Where each command is in its steps, and how long the file in its hands is: as
\* long as on the drive, or one block longer.
InOrder(o, t) ==
  /\ o.call \in {"create_file", "create_directory"} => o.pc \in Creating
  /\ o.call = "delete" => o.pc = "clear_entry"
  /\ o.call = "open" => o.pc = "open" \/ (o.pc = "truncated_inode" /\ Len(o.node.blocks) = 0)
  /\ o.call = "write" =>
       \/ o.pc = "write" /\ Len(o.node.blocks) = Len(t[o.inode].blocks)
       \/ /\ o.pc \in {"data", "file_inode"}
          /\ Len(o.node.blocks) \in {Len(t[o.inode].blocks), Len(t[o.inode].blocks) + 1}

\* A command begins, ends, or goes on about the same path.
SameAim ==
  IF Doing \in {"add", "copy"} THEN op'.parent = op.parent /\ op'.path = op.path
                               ELSE op'.inode = op.inode
Steady ==
  \/ Doing' = "nothing"
  \/ Doing = "nothing" /\ Doing' # "fill"
  \/ Doing' = Doing /\ SameAim

LEMMA EndSteady ==
  ASSUME op' = NoOp
  PROVE  InOrder(op', table') /\ Steady
<1>1. op'.call = "none"
  BY DEF NoOp
<1>2. InOrder(op', table')
  BY <1>1 DEF InOrder
<1>3. Doing' = "nothing"
  BY DoingIs
<1> QED
  BY <1>2, <1>3 DEF Steady

LEMMA StillSteady ==
  ASSUME InOrder(op, table), op' = op, table' = table
  PROVE  InOrder(op', table') /\ Steady
<1>1. InOrder(op', table')
  OBVIOUS
<1>2. Doing' = Doing /\ SameAim
  BY DoingIs DEF SameAim
<1> QED
  BY <1>1, <1>2 DEF Steady

LEMMA StartSteady ==
  ASSUME op = NoOp,
         \/ op'.call \in {"create_file", "create_directory"} /\ op'.pc \in Creating
         \/ op'.call = "delete" /\ op'.pc = "clear_entry"
         \/ op'.call = "open" /\ op'.pc = "truncated_inode" /\ Len(op'.node.blocks) = 0
  PROVE  InOrder(op', table') /\ Steady
<1>1. InOrder(op', table')
  BY DEF InOrder
<1>2. Doing = "nothing" /\ Doing' = DoingOf(op')
  BY DoingIs
<1>3. DoingOf(op') # "fill"
  <2>1. PICK o : o = op'
    OBVIOUS
  <2>2. CASE o.call \in {"create_file", "create_directory"}
    BY <2>1, <2>2, DoingIs
  <2>3. CASE o.call = "delete"
    BY <2>1, <2>3, DoingIs
  <2>4. CASE o.call = "open"
    BY <2>1, <2>4, DoingIs
  <2> QED
    BY <2>1, <2>2, <2>3, <2>4
<1> QED
  BY <1>1, <1>2, <1>3 DEF Steady

LEMMA CreatingSteady ==
  ASSUME Guarded, Typed, NEW L, TreeInv(L), InOrder(op, table), Touch \/ Mkdir \/ Copy
  PROVE  InOrder(op', table') /\ Steady
<1>1. PICK command \in {"touch", "mkdir", "cp"} : Ready(command)
  BY DEF Touch, Mkdir, Copy
<1>2. op = NoOp
  BY <1>1, ReadyIs
<1>3. table' = table
  <2>1. \A p, copy, left : CreateFile(p, copy, left) => table' = table
    BY DEF CreateFile, diskVars
  <2>2. \A p : CreateDirectory(p) => table' = table
    BY DEF CreateDirectory, diskVars
  <2> QED
    BY <2>1, <2>2 DEF Touch, Mkdir, Copy
<1>4. \A p, copy, left : CreateFile(p, copy, left) => op'.call = "create_file" /\ op'.pc = "new_inode"
  BY DEF CreateFile, NoOp, FirstWrite
<1>5. \A p : CreateDirectory(p) =>
        op' = op \/ (op'.call = "create_directory" /\ op'.pc = "dots")
  BY DEF CreateDirectory, NoOp, FirstWrite
<1>6. op' = op \/ (op'.call \in {"create_file", "create_directory"} /\ op'.pc \in {"new_inode", "dots"})
  BY <1>4, <1>5 DEF Touch, Mkdir, Copy
<1>7. CASE op' = op
  BY <1>3, <1>7, StillSteady
<1>8. CASE op'.call \in {"create_file", "create_directory"} /\ op'.pc \in {"new_inode", "dots"}
  BY <1>2, <1>8, StartSteady DEF Creating
<1> QED
  BY <1>6, <1>7, <1>8

LEMMA UnlinkingSteady ==
  ASSUME Guarded, Typed, NEW L, TreeInv(L), DeleteFile \/ RemoveDirectory
  PROVE  InOrder(op', table') /\ Steady
<1>1. PICK command \in {"rm", "rmdir"} : Ready(command)
  BY DEF DeleteFile, RemoveDirectory
<1>2. op = NoOp
  BY <1>1, ReadyIs
<1>3. PICK p, i, bad : Unlink(p, i, bad)
  BY DEF DeleteFile, RemoveDirectory
<1>4. op' = NoOp \/ (op'.call = "delete" /\ op'.pc = "clear_entry")
  BY <1>3 DEF Unlink, NoOp
<1> QED
  BY <1>2, <1>4, StartSteady, EndSteady

LEMMA OpeningSteady ==
  ASSUME Guarded, Typed, NEW L, TreeInv(L), Edit \/ CopyOpens
  PROVE  InOrder(op', table') /\ Steady
<1>1. PICK p, left : /\ OpenForWriting(p, left)
                     /\ (Ready("edit") /\ p \in OldPaths) \/ (op.pc = "open" /\ p = op.path)
  BY DEF Edit, CopyOpens
<1>2. PICK bad : \/ Find(p, bad) # 0 /\ op' = Opening(p, Find(p, bad), left)
                 \/ op' = NoOp
  BY <1>1 DEF OpenForWriting, Opening
<1>3. CASE op' = NoOp
  BY <1>3, EndSteady
<1>4. CASE Find(p, bad) # 0 /\ op' = Opening(p, Find(p, bad), left)
  <2>1. op'.call = "open" /\ op'.pc = "truncated_inode" /\ op'.inode = Find(p, bad)
        /\ op'.node = Truncated(table[Find(p, bad)])
    BY <1>4 DEF Opening, NoOp
  <2>2. Len(op'.node.blocks) = 0
    <3>1. /\ p \in PathRecords => p = [absolute |-> p.absolute, names |-> p.names] /\ Len(p.names) \in Nat
          /\ p \in PathRecords /\ mounted /\ op.call # "unmount"
      BY <1>1, ReadyIs, OldPathIs DEF Typed, OpType, Ops, PathRecords, TreeInv, OpOK, OpenOK
    <3>2. Find(p, bad) \in L
      BY <1>4, <3>1, FindInTree
    <3>3. table[Find(p, bad)] \in InodeLists
      BY <3>2 DEF TreeInv, Whole, Kinds, Typed, StateType, Tables
    <3> QED
      BY <2>1, <3>3, TruncatedIs
  <2>3. CASE Ready("edit")
    <3>1. op = NoOp
      BY <2>3, ReadyIs
    <3> QED
      BY <2>1, <2>2, <3>1, StartSteady
  <2>4. CASE op.pc = "open" /\ p = op.path
    <3>1. mounted /\ op.call = "open" /\ Find(op.path, {}) = op.inode
      BY <2>4 DEF TreeInv, OpOK, OpenOK
    <3>2. p = [absolute |-> p.absolute, names |-> p.names] /\ Len(p.names) \in Nat
      BY <2>4 DEF Typed, OpType, Ops, PathRecords
    <3>3. Find(p, bad) = op.inode
      BY <1>4, <2>4, <3>1, <3>2, FindInTree
    <3>4. Doing = "empty" /\ Doing' = "empty"
      BY <2>1, <3>1, DoingIs
    <3>5. SameAim
      BY <2>1, <3>3, <3>4 DEF SameAim
    <3>6. InOrder(op', table')
      BY <2>1, <2>2 DEF InOrder
    <3> QED
      BY <3>4, <3>5, <3>6 DEF Steady
  <2> QED
    BY <1>1, <2>3, <2>4
<1> QED
  BY <1>2, <1>3, <1>4

LEMMA GoingOnSteady ==
  ASSUME Guarded, Typed, NEW L, TreeInv(L), InOrder(op, table),
         WriteDots \/ WriteNewInode \/ WriteEntryBlock \/ GrowDirectory \/ RefuseEntry
  PROVE  InOrder(op', table') /\ Steady
<1>1. op.pc \in Creating
  BY DEF WriteDots, WriteNewInode, WriteEntryBlock, GrowDirectory, RefuseEntry, Creating
<1>2. op \in Ops /\ op.call \in {"create_file", "create_directory"}
  BY <1>1, InHand DEF Typed, OpType
<1>3. \/ op' = NoOp
      \/ \E q \in {"new_inode", "add_entry", "parent_inode"} : op' = [op EXCEPT !.pc = q]
      \/ \E b : op' = [op EXCEPT !.pc = "entry_block", !.grown = b]
  BY DEF WriteDots, WriteNewInode, WriteEntryBlock, GrowDirectory, RefuseEntry, Fail
<1>4. CASE op' = NoOp
  BY <1>4, EndSteady
<1>5. CASE op' # NoOp
  <2>1. /\ op'.pc \in {"new_inode", "add_entry", "parent_inode", "entry_block"}
        /\ op'.call = op.call /\ op'.copy = op.copy /\ op'.parent = op.parent /\ op'.path = op.path
    BY <1>2, <1>3, <1>5 DEF Ops
  <2>2. InOrder(op', table')
    BY <1>2, <2>1 DEF InOrder, Creating
  <2>3. Doing' = Doing /\ Doing \in {"add", "copy"}
    BY <1>2, <2>1, DoingIs
  <2> QED
    BY <2>1, <2>2, <2>3 DEF Steady, SameAim
<1> QED
  BY <1>4, <1>5

\* What is written to a file before its inode.
LEMMA FillingSteady ==
  ASSUME Guarded, Typed, NEW L, TreeInv(L), InOrder(op, table),
         ExtendFile \/ RewriteBlock \/ StopWriting \/ WriteData
  PROVE  InOrder(op', table') /\ Steady
<1>1. op.pc \in {"write", "data"} /\ op.pc \in Writing /\ table' = table
  BY DEF ExtendFile, RewriteBlock, StopWriting, WriteData, Writing, diskVars
<1>2. op \in Ops /\ op.node \in InodeLists /\ op.call = "write"
  BY <1>1, FileInHand DEF InOrder
<1>3. PICK n : n = Len(table[op.inode].blocks)
  OBVIOUS
<1>4. /\ op.pc = "write" => Len(op.node.blocks) = n
      /\ op.pc = "data" => Len(op.node.blocks) \in {n, n + 1}
  BY <1>2, <1>3 DEF InOrder
<1>5. /\ op'.call = "write" /\ op'.inode = op.inode /\ op'.pc \in {"data", "file_inode"}
      /\ Len(op'.node.blocks) \in {n, n + 1}
  <2>1. CASE ExtendFile
    <3> DEFINE m == [op.node EXCEPT !.blocks = Append(@, AllocatedBlock(mem))]
    <3>1. /\ op.pc = "write" /\ Index <= DirectBlocks /\ Index > Len(op.node.blocks)
          /\ AllocatedBlock(mem) # 0
          /\ op' = [op EXCEPT !.pc = "data", !.node.blocks = Append(@, AllocatedBlock(mem))]
      BY <2>1 DEF ExtendFile
    <3>2. AllocatedBlock(mem) \in FileBlocks
      BY <3>1, GivesBlock, SizesOfDrive DEF Typed, StateType
    <3>3. op' = [op EXCEPT !.pc = "data", !.node = m]
      BY <1>2, <3>1 DEF Ops
    <3>4. op'.node = m /\ op'.call = op.call /\ op'.inode = op.inode /\ op'.pc = "data"
      BY <1>2, <3>3 DEF Ops
    <3>5. Len(m.blocks) = Len(op.node.blocks) + 1
      BY <3>1, <3>2, ExtendedIs
    <3> HIDE DEF m
    <3> QED
      BY <1>2, <1>4, <3>1, <3>4, <3>5
  <2>2. CASE RewriteBlock \/ StopWriting \/ WriteData
    <3>1. \/ op' = [op EXCEPT !.pc = "data"] \/ op' = [op EXCEPT !.pc = "file_inode", !.left = 0]
          \/ op' = [op EXCEPT !.pc = "file_inode", !.position = @ + 1, !.left = @ - 1]
      BY <2>2 DEF RewriteBlock, StopWriting, WriteData
    <3>2. /\ op'.call = op.call /\ op'.inode = op.inode /\ op'.node = op.node
          /\ op'.pc \in {"data", "file_inode"}
      BY <1>2, <3>1 DEF Ops
    <3> QED
      BY <1>1, <1>2, <1>4, <3>2
  <2> QED
    BY <2>1, <2>2
<1>6. InOrder(op', table')
  BY <1>1, <1>3, <1>5 DEF InOrder
<1>7. Doing' = Doing /\ Doing = "fill"
  BY <1>2, <1>5, DoingIs
<1> QED
  BY <1>5, <1>6, <1>7 DEF Steady, SameAim

LEMMA AroundSteady ==
  ASSUME InOrder(op, table), Mount \/ ChangeDirectory \/ PowerCut \/ UNCHANGED vars
  PROVE  InOrder(op', table') /\ Steady
<1>1. CASE PowerCut
  BY <1>1, EndSteady DEF PowerCut
<1>2. CASE Mount \/ ChangeDirectory \/ UNCHANGED vars
  BY <1>2, StillSteady DEF Mount, ChangeDirectory, vars, diskVars
<1> QED
  BY <1>1, <1>2

-----------------------------------------------------------------------------
(***************************************************************************)
(* What a step does to the tree that can be seen.                          *)
(***************************************************************************)
NodeOf(t, w, i) ==
  [path |-> w[i], type |-> t[i].type, size |-> IF t[i].type = "file" THEN Len(t[i].blocks) ELSE 0]

Kept(w, v, S) == \A x \in S : NodeOf(table', v, x) = NodeOf(table, w, x)

Unmoved(L, w, M, v) == M = L /\ Kept(w, v, L) /\ Steady

Added(L, w, M, v) ==
  /\ op.inode \notin L /\ M = L \cup {op.inode} /\ Kept(w, v, L)
  /\ op.parent \in L /\ table[op.parent].type = "directory" /\ Last(op.path.names) \in Names
  /\ \A x \in L : w[x] # Append(w[op.parent], Last(op.path.names))
  /\ \E type \in {"file", "directory"} :
       /\ NodeOf(table', v, op.inode) =
            [path |-> Append(w[op.parent], Last(op.path.names)), type |-> type, size |-> 0]
       /\ \/ Doing = "add" /\ Doing' = "nothing"
          \/ Doing = "copy" /\ Doing' = "empty" /\ op'.inode = op.inode /\ type = "file"

Removed(L, w, M, v) ==
  /\ Doing = "remove" /\ Doing' = "nothing"
  /\ op.inode \in L \ {RootInode} /\ M = L \ {op.inode} /\ Kept(w, v, M)
  /\ NoEntries(table, content, op.inode)

Resized(L, w, M, v) ==
  /\ op.inode \in L /\ M = L /\ Kept(w, v, L \ {op.inode}) /\ table[op.inode].type = "file"
  /\ Doing' = "nothing" \/ (Doing' = "fill" /\ op'.inode = op.inode)
  /\ \E size \in 0 .. DirectBlocks :
       /\ NodeOf(table', v, op.inode) = [path |-> w[op.inode], type |-> "file", size |-> size]
       /\ \/ Doing = "empty" /\ size = 0
          \/ /\ Doing = "fill"
             /\ size \in {Len(table[op.inode].blocks), Len(table[op.inode].blocks) + 1}

Moved(L, w, M, v) ==
  Unmoved(L, w, M, v) \/ Added(L, w, M, v) \/ Removed(L, w, M, v) \/ Resized(L, w, M, v)

\* After the step there is such a tree again, with nothing lost.
Fate(L, w) ==
  /\ InOrder(op', table')
  /\ \E M, v : /\ TreeInv(M)' /\ NoLeak(M)' /\ Ways(table', content', M, v)
               /\ Moved(L, w, M, v)

\* A step that makes or clears no entry.
LEMMA StayingFate ==
  ASSUME NEW L, TreeInv(L), TreeInv(L)', NoLeak(L)', NEW w, Ways(table, content, L, w),
         EntriesStay(table, content, table', content', L, 0),
         InOrder(op', table'),
         ((\A x \in L : table'[x] = table[x]) /\ Steady) \/ Resized(L, w, L, w)
  PROVE  Fate(L, w)
<1>1. PICK t2, c2 : t2 = table' /\ c2 = content'
  OBVIOUS
<1>2. Whole(table, content, L) /\ Whole(t2, c2, L) /\ 0 \notin L
  BY <1>1, SizesOfDrive DEF TreeInv, Whole, Kinds
<1>3. L = L \ {0} /\ EntriesStay(table, content, t2, c2, L, 0)
  BY <1>1, <1>2
<1>4. Ways(t2, c2, L, w)
  BY <1>2, <1>3, WaysStay
<1>5. Moved(L, w, L, w)
  BY DEF Moved, Unmoved, Kept, NodeOf
<1> QED
  BY <1>1, <1>4, <1>5 DEF Fate

LEMMA StillFate ==
  ASSUME NEW L, TreeInv(L), TreeInv(L)', NoLeak(L)', NEW w, Ways(table, content, L, w),
         table' = table, content' = content, InOrder(op', table'), Steady
  PROVE  Fate(L, w)
<1>1. 0 \notin L
  BY SizesOfDrive DEF TreeInv, Whole, Kinds
<1>2. EntriesStay(table, content, table', content', L, 0)
  BY <1>1 DEF EntriesStay, Live, EntryAt
<1> QED
  BY <1>2, StayingFate

\* The writes to a file: its inode is written with another length.
LEMMA WritingFate ==
  ASSUME Guarded, Typed, NEW L, TreeInv(L), NoLeak(L), NEW w, Ways(table, content, L, w),
         InOrder(op, table), WriteData \/ WriteTruncatedInode \/ WriteFileInode
  PROVE  Fate(L, w)
<1>1. TreeInv(L)' /\ NoLeak(L)' /\ EntriesStay(table, content, table', content', L, 0)
  BY TreeWritesInode, TreeWritesData, WritingLeaksNot, WritingStays
<1>2. CASE WriteData
  BY <1>1, <1>2, FillingSteady, StayingFate DEF WriteData
<1>3. CASE WriteTruncatedInode \/ WriteFileInode
  <2>1. op.pc \in Writing /\ op.pc \in {"truncated_inode", "file_inode"}
    BY <1>3 DEF WriteTruncatedInode, WriteFileInode, Writing
  <2>2. /\ op.call \in {"open", "write"} /\ op.inode \in L /\ op.inode \in Inodes
        /\ table[op.inode].type = "file" /\ op.node.type = "file" /\ op.node \in InodeLists
        /\ op \in Ops
    BY <2>1, FileInHand
  <2>3. PICK how \in Outcomes : PutInode(op.inode, op.node, how)
    BY <1>3 DEF WriteTruncatedInode, WriteFileInode
  <2>4. table'[op.inode] = op.node /\ \A x \in L \ {op.inode} : table'[x] = table[x]
    <3>1. how = "done"
      BY <2>2, <2>3, OutcomesAre
    <3>2. table \in Tables
      BY DEF Typed, StateType
    <3> QED
      BY <2>2, <2>3, <3>1, <3>2 DEF PutInode, Tables
  <2>5. PICK size \in 0 .. DirectBlocks : size = Len(op.node.blocks)
    BY <2>2, InodeListIs, DirectoryAssumption
  <2>6. \/ op.call = "open" /\ size = 0
        \/ op.call = "write" /\ size \in {Len(table[op.inode].blocks), Len(table[op.inode].blocks) + 1}
    BY <2>1, <2>2, <2>5 DEF InOrder
  <2>7. \/ Doing = "empty" /\ size = 0
        \/ Doing = "fill" /\ size \in {Len(table[op.inode].blocks), Len(table[op.inode].blocks) + 1}
    BY <2>6, DoingIs
  <2>8. \/ op' = NoOp
        \/ op'.call = "write" /\ op'.pc = "write" /\ op'.inode = op.inode /\ op'.node = op.node
    BY <1>3, <2>2 DEF WriteTruncatedInode, WriteFileInode, AfterInode, Ops
  <2>9. /\ InOrder(op', table')
        /\ Doing' = "nothing" \/ (Doing' = "fill" /\ op'.inode = op.inode)
    <3>1. CASE op' = NoOp
      BY <3>1, EndSteady, DoingIs
    <3>2. CASE op'.call = "write" /\ op'.pc = "write" /\ op'.inode = op.inode /\ op'.node = op.node
      BY <2>4, <3>2, DoingIs DEF InOrder
    <3> QED
      BY <2>8, <3>1, <3>2
  <2>10. NodeOf(table', w, op.inode) = [path |-> w[op.inode], type |-> "file", size |-> size]
    BY <2>2, <2>4, <2>5 DEF NodeOf
  <2>11. Kept(w, w, L \ {op.inode})
    BY <2>4 DEF Kept, NodeOf
  <2>12. Resized(L, w, L, w)
    BY <2>2, <2>5, <2>7, <2>9, <2>10, <2>11 DEF Resized
  <2> QED
    BY <1>1, <2>9, <2>12, StayingFate
<1> QED
  BY <1>2, <1>3

\* The entry of a new file or directory is written, or the creation fails.
LEMMA EntryFate ==
  ASSUME Guarded, Typed, Typed', NEW L, TreeInv(L), NoLeak(L), NEW w, Ways(table, content, L, w),
         InOrder(op, table), AppendEntry \/ WriteParentInode
  PROVE  Fate(L, w)
<1>1. PICK M : /\ TreeInv(M)' /\ EntriesStay(table, content, table', content', L, 0)
               /\ EntryMade(L, M) \/ EntryLost(L, M)
  BY TreeAppends, TreeExtends
<1>2. NoLeak(M)'
  BY <1>1, EntryLeaksNot
<1>3. CASE EntryLost(L, M)
  <2>1. op' = NoOp
    BY <1>3 DEF EntryLost, Fail
  <2> QED
    BY <1>1, <1>2, <1>3, <2>1, StillFate, EndSteady DEF EntryLost
<1>4. CASE EntryMade(L, M)
  <2>1. op.pc \in {"add_entry", "parent_inode"} /\ op.pc \in Creating
    BY DEF AppendEntry, WriteParentInode, Creating
  <2>2. op.inode \notin L /\ op.parent \in L /\ op \in Ops /\ op.path.names # <<>>
    BY <2>1, InHand DEF Typed, OpType, CreationType
  <2>3. PICK t2, c2 : t2 = table' /\ c2 = content'
    OBVIOUS
  <2>4. Whole(table, content, L) /\ Whole(t2, c2, M)
    BY <1>1, <2>3 DEF TreeInv
  <2>5. PICK i, p, e : i = op.inode /\ p = op.parent /\ p \in L /\ e = NewEntry
    BY <2>2
  <2>6. PICK k, j : Live(t2, c2, p, k, j) /\ EntryAt(t2, c2, p, k, j) = e
    BY <1>4, <2>3, <2>5 DEF EntryMade
  <2>7. e.inode = i /\ e.name \in Names
    <3>1. op.path.names \in Seq(Names)
      BY <2>2 DEF Ops, PathRecords
    <3> QED
      BY <2>2, <2>5, <3>1, FrontIs DEF NewEntry
  <2>9. PICK v : v = With(w, M, i, p, e.name)
    OBVIOUS
  <2>8. M = L \cup {i} /\ i \notin L
    BY <1>4, <2>2, <2>5 DEF EntryMade
  <2>10. /\ Ways(t2, c2, M, v) /\ \A x \in L : v[x] = w[x]
        /\ v[i] = Append(w[p], e.name) /\ \A x \in L : w[x] # Append(w[p], e.name)
    <3>1. Entered(table, content, L, w, t2, c2, M, i, p, e)
      BY <1>1, <2>3, <2>4, <2>5, <2>6, <2>7, <2>8 DEF Entered
    <3>2. /\ Ways(t2, c2, M, With(w, M, i, p, e.name))
          /\ \A x \in L : With(w, M, i, p, e.name)[x] = w[x]
          /\ With(w, M, i, p, e.name)[i] = Append(w[p], e.name)
          /\ \A x \in L : w[x] # Append(w[p], e.name)
      BY ONLY <3>1, WaysAdded
    <3> QED
      BY <2>9, <3>2
  <2>11. table[p].type = "directory"
    BY <1>4, <2>3, <2>5, <2>6 DEF EntryMade, Live
  <2>12. Kept(w, v, L)
    <3>1. ASSUME NEW x \in L PROVE NodeOf(table', v, x) = NodeOf(table, w, x)
      <4>1. table'[x].type = table[x].type /\ (x # p => table'[x] = table[x])
        BY <1>4, <2>5 DEF EntryMade
      <4> QED
        BY <2>10, <2>11, <4>1 DEF NodeOf
    <3> QED
      BY <3>1 DEF Kept
  <2>13. NodeOf(table', v, i) = [path |-> Append(w[p], e.name), type |-> NewInode.type, size |-> 0]
    <3>1. table'[i] = NewInode
      BY <1>4, <2>5 DEF EntryMade
    <3>2. NewInode.type = "file" => Len(NewInode.blocks) = 0
      BY DEF NewInode
    <3> QED
      BY <2>10, <3>1, <3>2 DEF NodeOf
  <2>14. PICK type \in {"file", "directory"} : type = NewInode.type
    BY DEF NewInode
  <2>15. /\ InOrder(op', table')
         /\ \/ Doing = "add" /\ Doing' = "nothing"
            \/ Doing = "copy" /\ Doing' = "empty" /\ op'.inode = i /\ type = "file"
    <3>1. Succeed /\ op.call \in {"create_file", "create_directory"}
          /\ (op.copy => op.call = "create_file")
      BY <1>4, <2>1, InHand DEF EntryMade
    <3>2. CASE ~op.copy
      <4>1. op' = NoOp
        BY <3>1, <3>2, SucceedType
      <4> QED
        BY <3>1, <3>2, <4>1, EndSteady, DoingIs
    <3>3. CASE op.copy
      <4>1. op'.call = "open" /\ op'.pc = "open" /\ op'.inode = op.inode
        BY <3>1, <3>3, SucceedType
      <4>2. InOrder(op', table')
        BY <4>1 DEF InOrder
      <4>3. type = "file"
        BY <2>14, <3>1, <3>3 DEF NewInode
      <4> QED
        BY <2>5, <3>1, <3>3, <4>1, <4>2, <4>3, DoingIs
    <3> QED
      BY <3>2, <3>3
  <2>16. Added(L, w, M, v)
    <3>1. i = op.inode /\ p = op.parent /\ e.name = Last(op.path.names)
      BY <2>5 DEF NewEntry
    <3>2. /\ op.inode \notin L /\ M = L \cup {op.inode} /\ Kept(w, v, L)
          /\ op.parent \in L /\ table[op.parent].type = "directory" /\ Last(op.path.names) \in Names
          /\ \A x \in L : w[x] # Append(w[op.parent], Last(op.path.names))
      BY <2>5, <2>7, <2>8, <2>10, <2>11, <2>12, <3>1
    <3>3. NodeOf(table', v, op.inode) =
            [path |-> Append(w[op.parent], Last(op.path.names)), type |-> type, size |-> 0]
      BY <2>13, <2>14, <3>1
    <3> QED
      BY <2>14, <2>15, <3>1, <3>2, <3>3 DEF Added
  <2> QED
    BY <1>1, <1>2, <2>3, <2>10, <2>15, <2>16 DEF Fate, Moved
<1> QED
  BY <1>1, <1>3, <1>4

LEMMA ClearingFate ==
  ASSUME Guarded, Typed, Typed', NEW L, TreeInv(L), NoLeak(L), NEW w, Ways(table, content, L, w),
         InOrder(op, table), ClearEntry
  PROVE  Fate(L, w)
<1>1. PICK M : /\ TreeInv(M)'
               /\ EntryGone(L, M) \/ (M = L /\ op' = NoOp /\ content' = content)
  BY TreeClears
<1>2. NoLeak(M)'
  BY <1>1, ClearingLeaksNot
<1>3. table' = table
  BY DEF ClearEntry
<1>4. CASE M = L /\ op' = NoOp /\ content' = content
  BY <1>1, <1>2, <1>3, <1>4, StillFate, EndSteady
<1>5. CASE EntryGone(L, M)
  <2>1. PICK t2, c2 : t2 = table' /\ c2 = content'
    OBVIOUS
  <2>2. PICK i \in L \ {RootInode} : i = op.inode
    BY <1>5 DEF EntryGone
  <2>3. /\ Whole(table, content, L) /\ Whole(t2, c2, M) /\ M = L \ {i}
        /\ EntriesStay(table, content, t2, c2, L, i)
    BY <1>1, <1>5, <2>1, <2>2 DEF TreeInv, EntryGone
  <2>4. Ways(t2, c2, M, w)
    BY <2>3, WaysStay
  <2>5. Kept(w, w, M)
    BY <1>3, <2>3 DEF Kept, NodeOf
  <2>6. op.pc = "clear_entry" /\ op'.pc = "clear_entry" /\ op'.inode = i /\ i \in L /\ i \notin M
    BY <1>5, <2>2, <2>3 DEF ClearEntry, EntryGone
  <2>7. op.call = "delete" /\ op.position = 0
    BY <2>2, <2>6 DEF TreeInv, OpOK, ClearingOK
  <2>8. op'.call = "delete" /\ op'.position # 0
    BY <1>1, <2>6 DEF TreeInv, OpOK, ClearingOK
  <2>9. Doing = "remove" /\ Doing' = "nothing" /\ InOrder(op', table')
    BY <2>6, <2>7, <2>8, DoingIs DEF InOrder
  <2>10. Removed(L, w, M, w)
    BY <1>5, <2>2, <2>3, <2>5, <2>9 DEF Removed, EntryGone
  <2> QED
    BY <1>1, <1>2, <2>1, <2>4, <2>9, <2>10 DEF Fate, Moved
<1> QED
  BY <1>1, <1>4, <1>5

LEMMA CreatingLeaksNot ==
  ASSUME Guarded, Typed, NEW L, TreeInv(L), NoLeak(L), Touch \/ Mkdir \/ Copy
  PROVE  NoLeak(L)' /\ table' = table /\ content' = content
<1>1. CASE Touch \/ Copy
  <2>1. PICK command \in {"touch", "cp"} :
          Ready(command) /\ \E p, copy, left : CreateFile(p, copy, left)
    BY <1>1 DEF Touch, Copy
  <2>2. PICK p, copy, left : CreateFile(p, copy, left)
    BY <2>1
  <2>3. NoLeak(L)'
    BY <2>1, <2>2, CreateFileLeaksNot
  <2> QED
    BY <2>2, <2>3 DEF CreateFile, diskVars
<1>2. CASE Mkdir
  <2>1. Ready("mkdir")
    BY <1>2 DEF Mkdir
  <2>2. PICK p : CreateDirectory(p)
    BY <1>2 DEF Mkdir
  <2>3. NoLeak(L)'
    BY <2>1, <2>2, CreateDirectoryLeaksNot
  <2> QED
    BY <2>2, <2>3 DEF CreateDirectory, diskVars
<1> QED
  BY <1>1, <1>2

\* What goes on besides: sessions begin with what is on the drive, cd marks nothing.
LEMMA AroundLeaksNot ==
  ASSUME Guarded, Typed, NEW L, TreeInv(L), NoLeak(L),
         Mount \/ ChangeDirectory \/ PowerCut \/ UNCHANGED vars
  PROVE  NoLeak(L)'
<1>1. CASE Mount
  <2>1. NoOp.pc \in {"none", "open"} /\ NoOp.call = "none" /\ RootInode \in L
    BY DEF NoOp, TreeInv, Whole, Kinds
  <2>2. Accounted(Formatted, table, L, NoOp)
    BY <2>1, AccountedFresh
  <2> QED
    BY <1>1, <2>1, <2>2 DEF Mount, NoLeak, diskVars
<1>2. CASE ChangeDirectory
  BY <1>2 DEF ChangeDirectory, NoLeak, diskVars
<1>3. CASE PowerCut
  BY <1>3 DEF PowerCut, Forget, NoLeak, diskVars, NoOp
<1>4. CASE UNCHANGED vars
  BY <1>4 DEF vars, NoLeak
<1> QED
  BY <1>1, <1>2, <1>3, <1>4

\* Nobody unmounts and nobody formats.
LEMMA SavesNothing ==
  ASSUME Guarded, Undisturbed, Typed, FormatInv, NEW L, TreeInv(L), NoLeak(L)
  PROVE  ~ (UnmountClean \/ UnmountDirty \/ Format \/ WriteCopy \/ WriteTable \/ WriteRoot)
<1>1. op.pc \notin Saving \cup {"root"}
  BY DEF NoLeak, FormatInv, Formatting
<1>2. ~ (WriteCopy \/ WriteTable \/ WriteRoot)
  BY <1>1 DEF WriteCopy, WriteTable, WriteRoot, Saving
<1>3. ~Ready("umount")
  BY ReadyIs DEF Undisturbed
<1>4. session > 0 => session \in DOMAIN Sessions
  BY RfssAssumption DEF Typed, StateType
<1>5. ~Format
  BY <1>4 DEF Format, Undisturbed
<1> QED
  BY <1>2, <1>3, <1>5 DEF UnmountClean, UnmountDirty

LEMMA FateNext ==
  ASSUME Guarded, Undisturbed, Typed, Typed', FormatInv, NEW L, TreeInv(L), NoLeak(L),
         NEW w, Ways(table, content, L, w), InOrder(op, table), [Next]_vars
  PROVE  Fate(L, w)
<1>1. CASE WriteDots \/ WriteNewInode \/ WriteEntryBlock
  <2>1. TreeInv(L)' /\ EntriesStay(table, content, table', content', L, 0)
    BY <1>1, TreeDots, TreeNewInode, TreeEntryBlock, CreationStays
  <2>2. NoLeak(L)' /\ \A x \in L : table'[x] = table[x]
    BY <1>1, CreationLeaksNot
  <2>3. InOrder(op', table') /\ Steady
    BY <1>1, GoingOnSteady
  <2> QED
    BY <2>3, <2>1, <2>2, StayingFate
<1>2. CASE AppendEntry \/ WriteParentInode
  BY <1>2, EntryFate
<1>3. CASE ClearEntry
  BY <1>3, ClearingFate
<1>4. CASE WriteData \/ WriteTruncatedInode \/ WriteFileInode
  BY <1>4, WritingFate
<1>5. CASE Touch \/ Mkdir \/ Copy
  <2>1. TreeInv(L)' /\ NoLeak(L)' /\ table' = table /\ content' = content
    BY <1>5, TreeCreates, CreatingLeaksNot
  <2>2. InOrder(op', table') /\ Steady
    BY <1>5, CreatingSteady
  <2> QED
    BY <2>2, <2>1, StillFate
<1>6. CASE Edit \/ CopyOpens
  <2>1. TreeInv(L)' /\ NoLeak(L)'
    BY <1>6, TreeOpens, OpeningLeaksNot
  <2>2. table' = table /\ content' = content
    BY <1>6 DEF Edit, CopyOpens, OpenForWriting, diskVars
  <2>3. InOrder(op', table') /\ Steady
    BY <1>6, OpeningSteady
  <2> QED
    BY <2>3, <2>1, <2>2, StillFate
<1>7. CASE DeleteFile \/ RemoveDirectory
  <2>1. TreeInv(L)' /\ NoLeak(L)'
    BY <1>7, TreeRemoves, UnlinkingLeaksNot
  <2>2. table' = table /\ content' = content
    BY <1>7 DEF DeleteFile, RemoveDirectory, Unlink, diskVars
  <2>3. InOrder(op', table') /\ Steady
    BY <1>7, UnlinkingSteady
  <2> QED
    BY <2>3, <2>1, <2>2, StillFate
<1>8. CASE GrowDirectory \/ RefuseEntry
  <2>1. TreeInv(L)' /\ NoLeak(L)'
    BY <1>8, TreeGrows, TreeRefuses, GrowingLeaksNot, RefusingLeaksNot
  <2>2. table' = table /\ content' = content
    BY <1>8 DEF GrowDirectory, RefuseEntry, diskVars
  <2>3. InOrder(op', table') /\ Steady
    BY <1>8, GoingOnSteady
  <2> QED
    BY <2>3, <2>1, <2>2, StillFate
<1>9. CASE ExtendFile \/ RewriteBlock \/ StopWriting
  <2>1. TreeInv(L)' /\ NoLeak(L)'
    BY <1>9, TreeExtendsFile, TreeGoesOnWriting, ExtendingLeaksNot, WritingLeaksNot
  <2>2. table' = table /\ content' = content
    BY <1>9 DEF ExtendFile, RewriteBlock, StopWriting, diskVars
  <2>3. InOrder(op', table') /\ Steady
    BY <1>9, FillingSteady
  <2> QED
    BY <2>3, <2>1, <2>2, StillFate
<1>10. CASE Mount \/ ChangeDirectory \/ PowerCut \/ UNCHANGED vars
  <2>1. TreeInv(L)' /\ NoLeak(L)'
    BY <1>10, TreeMounts, TreeChangesDirectory, TreeForgets, TreeStutters, AroundLeaksNot
  <2>2. table' = table /\ content' = content
    BY <1>10 DEF Mount, ChangeDirectory, PowerCut, diskVars, vars
  <2>3. InOrder(op', table') /\ Steady
    BY <1>10, AroundSteady
  <2> QED
    BY <2>3, <2>1, <2>2, StillFate
<1> QED
  BY <1>1, <1>2, <1>3, <1>4, <1>5, <1>6, <1>7, <1>8, <1>9, <1>10, SavesNothing DEF Next

-----------------------------------------------------------------------------
(***************************************************************************)
(* What a user sees are the inodes of the tree, each by its one path.      *)
(***************************************************************************)
NodesAt(t, w, L) == {NodeOf(t, w, i) : i \in L}

Shown(t, c) ==
  {[path |-> node.path, type |-> t[node.inode].type,
    size |-> IF t[node.inode].type = "file" THEN Len(t[node.inode].blocks) ELSE 0]
     : node \in Reached(t, c)}

LEMMA ShownIs ==
  ASSUME NEW t \in Tables, NEW c \in Stores, NEW L, Whole(t, c, L), NEW w, Ways(t, c, L, w)
  PROVE  Shown(t, c) = NodesAt(t, w, L)
<1>1. Reached(t, c) = {[path |-> w[i], inode |-> i] : i \in L}
  BY ReachedByWays
<1>2. ASSUME NEW x PROVE x \in Shown(t, c) <=> x \in NodesAt(t, w, L)
  <2>1. x \in Shown(t, c) <=>
          \E i \in L : x = [path |-> [path |-> w[i], inode |-> i].path,
                            type |-> t[[path |-> w[i], inode |-> i].inode].type,
                            size |-> IF t[[path |-> w[i], inode |-> i].inode].type = "file"
                                       THEN Len(t[[path |-> w[i], inode |-> i].inode].blocks) ELSE 0]
    BY <1>1 DEF Shown
  <2>2. x \in Shown(t, c) <=> \E i \in L : x = NodeOf(t, w, i)
    BY <2>1 DEF NodeOf
  <2> QED
    BY <2>2 DEF NodesAt
<1> QED
  BY <1>2

\* A path one longer than a directory's that begins with it belongs to an entry of it.
LEMMA ChildHasEntry ==
  ASSUME NEW t, NEW c, NEW L, NEW w, Ways(t, c, L, w), NEW i \in L, NoEntries(t, c, i),
         NEW x \in L
  PROVE  ~Files!IsChild(w[x], w[i])
<1>1. SUFFICES ASSUME Files!IsChild(w[x], w[i]) PROVE FALSE
  OBVIOUS
<1>2. Len(w[x]) = Len(w[i]) + 1 /\ SubSeq(w[x], 1, Len(w[i])) = w[i]
  BY <1>1 DEF Files!IsChild
<1>3. w[x] \in Seq(Names) /\ w[i] \in Seq(Names) /\ Len(w[i]) \in Nat
  BY DEF Ways
<1>4. x # RootInode
  <2>1. x = RootInode => Len(w[x]) = 0
    BY DEF Ways
  <2> QED
    BY <1>2, <1>3, <2>1
<1>5. PICK d \in L : \E k, j : Live(t, c, d, k, j) /\ EntryAt(t, c, d, k, j).inode = x
  BY <1>4 DEF Ways
<1>6. PICK k, j : Live(t, c, d, k, j) /\ EntryAt(t, c, d, k, j).inode = x
  BY <1>5
<1>7. w[x] = Append(w[d], EntryAt(t, c, d, k, j).name) /\ w[d] \in Seq(Names)
  BY <1>6 DEF Ways
<1>8. w[d] = w[i]
  <2>1. PICK u, v, name : u = w[d] /\ v = w[i] /\ name = EntryAt(t, c, d, k, j).name
    OBVIOUS
  <2>2. u \in Seq(Names) /\ v \in Seq(Names) /\ Len(Append(u, name)) = Len(v) + 1
        /\ SubSeq(Append(u, name), 1, Len(v)) = v /\ Len(u) \in Nat /\ Len(v) \in Nat
    BY <1>2, <1>3, <1>7, <2>1
  <2>3. Len(Append(u, name)) = Len(u) + 1
    BY <2>2
  <2>4. Len(u) = Len(v)
    BY <2>2, <2>3
  <2>5. ASSUME NEW n \in 1 .. Len(u) PROVE u[n] = v[n]
    <3>1. Append(u, name)[n] = u[n]
      BY <2>2
    <3>2. SubSeq(Append(u, name), 1, Len(v))[n] = Append(u, name)[n]
      <4>1. n \in 1 .. Len(v) /\ 1 + n - 1 = n
        BY <2>4
      <4> QED
        BY <4>1
    <3> QED
      BY <2>2, <3>1, <3>2
  <2>6. u = v
    BY <2>2, <2>4, <2>5, SeqEqual
  <2> QED
    BY <2>1, <2>6
<1>9. d = i
  BY <1>8 DEF Ways
<1> QED
  BY <1>6, <1>9 DEF NoEntries

\* The path a command is about is that of the inode in its hands; while that is
\* not in the tree yet, it is the parent's with the new name.
AimOf(o, w) ==
  IF DoingOf(o) \in {"add", "copy"} THEN {Append(w[o.parent], Last(o.path.names))}
  ELSE IF DoingOf(o) \in {"remove", "empty", "fill"} THEN {w[o.inode]} ELSE {}

PathsIn(t, c, i) == {node.path : node \in {n \in Reached(t, c) : n.inode = i}}
AtOf(o, t, c) ==
  CASE DoingOf(o) \in {"add", "copy"} ->
         {Append(p, Last(o.path.names)) : p \in PathsIn(t, c, o.parent)}
    [] DoingOf(o) \in {"remove", "empty", "fill"} -> PathsIn(t, c, o.inode)
    [] OTHER -> {}

LEMMA AtIs ==
  At = AtOf(op, table, content) /\ At' = AtOf(op', table', content')
<1>1. At = AtOf(op, table, content)
  BY DoingIs DEF At, AtOf, PathsTo, PathsIn, Tree
<1>2. At' = AtOf(op', table', content')
  BY DoingIs DEF At, AtOf, PathsTo, PathsIn, Tree
<1> QED
  BY <1>1, <1>2

LEMMA PathsInTree ==
  ASSUME NEW t \in Tables, NEW c \in Stores, NEW L, Whole(t, c, L), NEW w, Ways(t, c, L, w),
         NEW i \in L
  PROVE  PathsIn(t, c, i) = {w[i]}
<1>1. Reached(t, c) = {[path |-> w[x], inode |-> x] : x \in L}
  BY ReachedByWays
<1>2. {n \in Reached(t, c) : n.inode = i} = {[path |-> w[i], inode |-> i]}
  BY <1>1
<1>3. PICK node : node = [path |-> w[i], inode |-> i]
  OBVIOUS
<1>4. PathsIn(t, c, i) = {x.path : x \in {node}} /\ node.path = w[i]
  BY <1>2, <1>3 DEF PathsIn
<1> QED
  BY <1>4

LEMMA AimIs ==
  ASSUME NEW t \in Tables, NEW c \in Stores, NEW L, Whole(t, c, L), NEW w, Ways(t, c, L, w),
         NEW o,
         DoingOf(o) \in {"add", "copy"} => o.parent \in L,
         DoingOf(o) \in {"remove", "empty", "fill"} => o.inode \in L
  PROVE  AtOf(o, t, c) = AimOf(o, w)
<1>1. CASE DoingOf(o) \in {"add", "copy"}
  <2>1. PathsIn(t, c, o.parent) = {w[o.parent]}
    BY <1>1, PathsInTree
  <2> QED
    BY <1>1, <2>1 DEF AtOf, AimOf
<1>2. CASE DoingOf(o) \in {"remove", "empty", "fill"}
  <2>1. PathsIn(t, c, o.inode) = {w[o.inode]}
    BY <1>2, PathsInTree
  <2> QED
    BY <1>2, <2>1 DEF AtOf, AimOf
<1>3. CASE DoingOf(o) \notin {"add", "copy", "remove", "empty", "fill"}
  BY <1>3 DEF AtOf, AimOf
<1> QED
  BY <1>1, <1>2, <1>3

\* What the command in progress is about is in the tree.
Aimed(o, L) ==
  /\ DoingOf(o) \in {"nothing", "add", "copy", "remove", "empty", "fill"}
  /\ DoingOf(o) \in {"add", "copy"} => o.parent \in L /\ Last(o.path.names) \in Names
  /\ DoingOf(o) \in {"remove", "empty", "fill"} => o.inode \in L

LEMMA AimedBy ==
  ASSUME NEW o, NEW t, NEW L, InOrder(o, t), o.path.names \in Seq(Names),
         o.pc \in Creating => o.parent \in L /\ o.path.names # <<>>,
         o.pc = "clear_entry" /\ o.position = 0 => o.inode \in L,
         o.pc = "open" \/ o.pc \in Writing => o.inode \in L
  PROVE  Aimed(o, L)
<1>1. CASE o.call \in {"create_file", "create_directory"}
  <2>1. o.parent \in L /\ Last(o.path.names) \in Names
    BY <1>1, FrontIs DEF InOrder
  <2>2. DoingOf(o) \in {"add", "copy"}
    BY <1>1, DoingIs
  <2> QED
    BY <2>1, <2>2 DEF Aimed
<1>2. CASE o.call = "delete"
  <2>1. CASE o.position = 0
    <3>1. DoingOf(o) = "remove" /\ o.inode \in L
      BY <1>2, <2>1, DoingIs DEF InOrder
    <3> QED
      BY <3>1 DEF Aimed
  <2>2. CASE o.position # 0
    <3>1. DoingOf(o) = "nothing"
      BY <1>2, <2>2, DoingIs
    <3> QED
      BY <3>1 DEF Aimed
  <2> QED
    BY <2>1, <2>2
<1>3. CASE o.call \in {"open", "write"}
  <2>1. o.inode \in L
    BY <1>3 DEF InOrder, Writing
  <2>2. DoingOf(o) \in {"empty", "fill"}
    BY <1>3, DoingIs
  <2> QED
    BY <2>1, <2>2 DEF Aimed
<1>4. CASE o.call \notin {"create_file", "create_directory", "delete", "open", "write"}
  <2>1. DoingOf(o) = "nothing"
    BY <1>4 DEF DoingOf
  <2> QED
    BY <2>1 DEF Aimed
<1> QED
  BY <1>1, <1>2, <1>3, <1>4

\* Each way in which a step can change the tree is one of FileTree's, or none.
LEMMA MovedAsFiles ==
  ASSUME NEW L, RootInode \in L, NEW w, Ways(table, content, L, w), Visible = NodesAt(table, w, L),
         NEW M, NEW v, Visible' = NodesAt(table', v, M), Moved(L, w, M, v),
         Aimed(op, L), Aimed(op', M), At = AimOf(op, w), At' = AimOf(op', v)
  PROVE  [Files!Next]_(Files!vars)
<1>1. \A x, y \in L : w[x] = w[y] => x = y
  BY DEF Ways
<1>2. \A x \in L : NodeOf(table, w, x).path = w[x]
  BY DEF NodeOf
<1>3. ASSUME NEW i \in L PROVE NodesAt(table, w, L) \ {NodeOf(table, w, i)} = NodesAt(table, w, L \ {i})
  BY <1>1, <1>2 DEF NodesAt
<1>4. \A S : Kept(w, v, S) => NodesAt(table', v, S) = NodesAt(table, w, S)
  BY DEF Kept, NodesAt
<1>5. \A S : Kept(w, v, S) => \A x \in S : v[x] = w[x]
  BY DEF Kept, NodeOf
<1>6. Doing = DoingOf(op) /\ Doing' = DoingOf(op')
  BY DoingIs
<1>7. Doing' = "nothing" => At' = {}
  BY <1>6 DEF AimOf
<1>8. Doing = "nothing" => At = {}
  BY <1>6 DEF AimOf
<1>9. CASE Unmoved(L, w, M, v)
  <2>1. Visible' = Visible /\ M = L /\ \A x \in L : v[x] = w[x]
    BY <1>4, <1>5, <1>9 DEF Unmoved
  <2>2. CASE Doing' = "nothing"
    BY <1>7, <2>1, <2>2 DEF Files!Next, Files!End, Files!Over
  <2>3. CASE Doing = "nothing" /\ Doing' # "fill" /\ Doing' # "nothing"
    <3>1. \A x \in L : w[x] \in Files!PathsOf(Visible)
      BY <1>2 DEF NodesAt, Files!PathsOf
    <3>2. CASE Doing' \in {"add", "copy"}
      <4>1. PICK p, name : p = op'.parent /\ name = Last(op'.path.names)
        OBVIOUS
      <4>2. p \in L /\ name \in Names /\ At' = {Append(v[p], name)}
        BY <1>6, <2>1, <3>2, <4>1 DEF Aimed, AimOf
      <4>3. At' = {Append(w[p], name)} /\ w[p] \in Files!PathsOf(Visible)
        BY <2>1, <3>1, <4>2
      <4> QED
        BY <2>1, <2>3, <3>2, <4>2, <4>3 DEF Files!Next, Files!Begin
    <3>3. CASE Doing' \in {"remove", "empty"}
      <4>1. op'.inode \in L /\ At' = {v[op'.inode]}
        BY <1>6, <2>1, <3>3 DEF Aimed, AimOf
      <4>2. At' = {w[op'.inode]} /\ w[op'.inode] \in Files!PathsOf(Visible)
        BY <2>1, <3>1, <4>1
      <4> QED
        BY <2>1, <2>3, <3>3, <4>2 DEF Files!Next, Files!Begin
    <3> QED
      BY <1>6, <2>3, <3>2, <3>3 DEF Aimed
  <2>4. CASE Doing' = Doing /\ SameAim /\ Doing # "nothing"
    <3>1. At' = At
      <4>1. CASE Doing \in {"add", "copy"}
        BY <1>6, <2>1, <2>4, <4>1 DEF SameAim, Aimed, AimOf
      <4>2. CASE Doing \in {"remove", "empty", "fill"}
        BY <1>6, <2>1, <2>4, <4>2 DEF SameAim, Aimed, AimOf
      <4> QED
        BY <1>6, <2>4, <4>1, <4>2 DEF Aimed
    <3> QED
      BY <2>1, <2>4, <3>1 DEF Files!vars
  <2> QED
    BY <1>9, <2>2, <2>3, <2>4 DEF Unmoved, Steady
<1>10. CASE Added(L, w, M, v)
  <2>1. PICK i, p, name : i = op.inode /\ p = op.parent /\ name = Last(op.path.names)
    OBVIOUS
  <2>2. /\ i \notin L /\ M = L \cup {i} /\ Kept(w, v, L)
        /\ p \in L /\ name \in Names /\ table[p].type = "directory"
        /\ \A x \in L : w[x] # Append(w[p], name)
    BY <1>10, <2>1 DEF Added
  <2>3. PICK type \in {"file", "directory"} :
          /\ NodeOf(table', v, i) = [path |-> Append(w[p], name), type |-> type, size |-> 0]
          /\ \/ Doing = "add" /\ Doing' = "nothing"
             \/ Doing = "copy" /\ Doing' = "empty" /\ op'.inode = i /\ type = "file"
    BY <1>10, <2>1 DEF Added
  <2>4. PICK d : d = NodeOf(table, w, p)
    OBVIOUS
  <2>5. d \in Visible /\ d.type = "directory" /\ d.path = w[p]
    BY <2>2, <2>4 DEF NodesAt, NodeOf
  <2>6. Append(d.path, name) \notin Files!PathsOf(Visible)
    <3>1. ASSUME NEW n \in Visible PROVE n.path # Append(d.path, name)
      <4>1. PICK x \in L : n = NodeOf(table, w, x)
        BY DEF NodesAt
      <4> QED
        BY <1>2, <2>2, <2>5, <4>1
    <3> QED
      BY <3>1 DEF Files!PathsOf
  <2>7. Visible' = Visible \cup {Files!Node(Append(d.path, name), type, 0)}
    <3>1. NodesAt(table', v, M) = NodesAt(table', v, L) \cup {NodeOf(table', v, i)}
      BY <2>2 DEF NodesAt
    <3> QED
      BY <1>4, <2>2, <2>3, <2>5, <3>1 DEF Files!Node
  <2>8. At = {Append(d.path, name)}
    BY <1>6, <2>1, <2>3, <2>5 DEF AimOf
  <2>9. \/ Doing = "add" /\ Doing' = "nothing" /\ At' = {}
        \/ Doing = "copy" /\ Doing' = "empty" /\ At' = At
    <3>1. CASE Doing = "add" /\ Doing' = "nothing"
      BY <1>7, <3>1
    <3>2. CASE Doing = "copy" /\ Doing' = "empty" /\ op'.inode = i
      <4>1. At' = {v[i]}
        BY <1>6, <3>2 DEF AimOf
      <4>2. v[i] = NodeOf(table', v, i).path
        BY DEF NodeOf
      <4>3. v[i] = Append(w[p], name)
        BY <2>3, <4>2
      <4> QED
        BY <2>5, <2>8, <3>2, <4>1, <4>3
    <3> QED
      BY <2>3, <3>1, <3>2
  <2>10. Files!Nodes("directory") = {n \in Visible : n.type = "directory"}
    BY DEF Files!Nodes
  <2>11. Files!Create
    <3>1. /\ d \in Files!Nodes("directory") /\ name \in Names /\ type \in {"file", "directory"}
          /\ At = {Append(d.path, name)}
          /\ Append(d.path, name) \notin Files!PathsOf(Visible)
          /\ Visible' = Visible \cup {Files!Node(Append(d.path, name), type, 0)}
          /\ Doing = "copy" => type = "file"
      BY <2>2, <2>3, <2>5, <2>6, <2>7, <2>8, <2>10
    <3>2. \/ Doing = "add" /\ Files!Over
          \/ Doing = "copy" /\ Files!GoesOn("empty")
      BY <2>9 DEF Files!Over, Files!GoesOn
    <3> QED
      BY <3>1, <3>2 DEF Files!Create
  <2> QED
    BY <2>11 DEF Files!Next
<1>11. CASE Removed(L, w, M, v)
  <2>1. PICK i \in L \ {RootInode} :
          /\ i = op.inode /\ M = L \ {i} /\ Kept(w, v, M) /\ NoEntries(table, content, i)
    BY <1>11 DEF Removed
  <2>2. PICK n : n = NodeOf(table, w, i)
    OBVIOUS
  <2>3. n \in Visible /\ n.path = w[i]
    BY <1>2, <2>2 DEF NodesAt
  <2>4. n.path # <<>>
    BY <1>1, <2>1, <2>3 DEF Ways
  <2>5. ASSUME NEW m \in Visible PROVE ~Files!IsChild(m.path, n.path)
    <3>1. PICK x \in L : m = NodeOf(table, w, x)
      BY DEF NodesAt
    <3> QED
      BY <1>2, <2>1, <2>3, <3>1, ChildHasEntry
  <2>6. Visible' = Visible \ {n}
    BY <1>3, <1>4, <2>1, <2>2
  <2>7. Doing = "remove" /\ At = {n.path} /\ Files!Over
    BY <1>6, <1>7, <1>11, <2>1, <2>3 DEF Removed, AimOf, Files!Over
  <2>8. Files!Delete
    BY <2>3, <2>4, <2>5, <2>6, <2>7 DEF Files!Delete
  <2> QED
    BY <2>8 DEF Files!Next
<1>12. CASE Resized(L, w, M, v)
  <2>1. PICK i \in L :
          /\ i = op.inode /\ M = L /\ Kept(w, v, L \ {i}) /\ table[i].type = "file"
          /\ Doing' = "nothing" \/ (Doing' = "fill" /\ op'.inode = i)
    BY <1>12 DEF Resized
  <2>2. PICK size \in 0 .. DirectBlocks :
          /\ NodeOf(table', v, i) = [path |-> w[i], type |-> "file", size |-> size]
          /\ \/ Doing = "empty" /\ size = 0
             \/ Doing = "fill" /\ size \in {Len(table[i].blocks), Len(table[i].blocks) + 1}
    BY <1>12, <2>1 DEF Resized
  <2>3. PICK n : n = NodeOf(table, w, i)
    OBVIOUS
  <2>4. n \in Visible /\ n.type = "file" /\ n.path = w[i] /\ n.size = Len(table[i].blocks)
    BY <2>1, <2>3 DEF NodesAt, NodeOf
  <2>5. [n EXCEPT !.size = size] = [path |-> w[i], type |-> "file", size |-> size]
    BY <2>1, <2>3 DEF NodeOf
  <2>6. Visible' = (Visible \ {n}) \cup {[n EXCEPT !.size = size]}
    <3>1. NodesAt(table', v, L) = NodesAt(table', v, L \ {i}) \cup {NodeOf(table', v, i)}
      BY DEF NodesAt
    <3> QED
      BY <1>3, <1>4, <2>1, <2>2, <2>3, <2>5, <3>1
  <2>7. At = {n.path}
    BY <1>6, <2>1, <2>2, <2>4 DEF AimOf
  <2>8. Files!Resize(n, size)
    BY <2>4, <2>6, <2>7 DEF Files!Resize, Files!Nodes
  <2>9. Files!Over \/ Files!GoesOn("fill")
    <3>1. CASE Doing' = "nothing"
      BY <1>7, <3>1 DEF Files!Over
    <3>2. CASE Doing' = "fill" /\ op'.inode = i
      <4>1. At' = {v[i]}
        BY <1>6, <3>2 DEF AimOf
      <4>2. v[i] = NodeOf(table', v, i).path
        BY DEF NodeOf
      <4>3. v[i] = w[i]
        BY <2>2, <4>2
      <4> QED
        BY <2>4, <2>7, <3>2, <4>1, <4>3 DEF Files!GoesOn
    <3> QED
      BY <2>1, <3>1, <3>2
  <2>10. CASE Doing = "empty" /\ size = 0
    <3>1. Files!Empty
      BY <2>4, <2>8, <2>9, <2>10 DEF Files!Empty
    <3> QED
      BY <3>1 DEF Files!Next
  <2>11. CASE Doing = "fill" /\ size \in {n.size, n.size + 1}
    <3>1. Files!Fill
      BY <2>4, <2>8, <2>9, <2>11 DEF Files!Fill
    <3> QED
      BY <3>1 DEF Files!Next
  <2> QED
    BY <2>2, <2>4, <2>10, <2>11
<1> QED
  BY <1>9, <1>10, <1>11, <1>12 DEF Moved

\* At every moment there is such a tree, with paths and with nothing lost.
Standing ==
  /\ InOrder(op, table)
  /\ \E L, w : TreeInv(L) /\ NoLeak(L) /\ Ways(table, content, L, w)

LEMMA StandingInit == ASSUME Init PROVE Standing /\ Files!Init
<1>1. Typed /\ \E L : TreeInv(L)
  BY SoundInit DEF Sound, TreeStands
<1>2. PICK L : TreeInv(L)
  BY <1>1
<1>3. /\ table = FreshTable /\ diskCopy = Formatted /\ op = NoOp /\ mounted = FALSE
  BY DEF Init
<1>4. L = {RootInode} /\ Whole(table, content, L)
  BY <1>2, <1>3, FreshIsRoot DEF TreeInv
<1>5. PICK w : w = [x \in L |-> <<>>]
  OBVIOUS
<1>6. Ways(table, content, L, w)
  <2>1. \A d \in L : \A k, j : ~Live(table, content, d, k, j)
    BY <1>4 DEF Whole, EntriesLead
  <2>2. w[RootInode] = <<>> /\ <<>> \in Seq(Names)
    BY <1>4, <1>5
  <2> QED
    BY <1>4, <2>1, <2>2 DEF Ways
<1>7. NoLeak(L)
  BY <1>3 DEF NoLeak, NoOp
<1>8. Visible = NodesAt(table, w, L)
  <2>1. table \in Tables /\ content \in Stores
    BY <1>1 DEF Typed, StateType
  <2>2. Visible = Shown(table, content)
    BY DEF Visible, Tree, Shown
  <2> QED
    BY <1>4, <1>6, <2>1, <2>2, ShownIs
<1>9. NodeOf(table, w, RootInode) = [path |-> <<>>, type |-> "directory", size |-> 0]
  BY <1>3, <1>4, <1>6, FreshType DEF NodeOf, Ways
<1>10. Visible = {Files!Node(<<>>, "directory", 0)}
  BY <1>4, <1>8, <1>9 DEF NodesAt, Files!Node
<1>11. InOrder(op, table)
  BY <1>3 DEF InOrder, NoOp
<1>12. Doing = "nothing"
  BY <1>3, DoingIs
<1>13. At = {}
  BY <1>12 DEF At
<1> QED
  BY <1>2, <1>6, <1>7, <1>10, <1>11, <1>12, <1>13 DEF Standing, Files!Init

LEMMA StandingNext ==
  ASSUME Guarded, Undisturbed, Sound, Sound', Standing, [Next]_vars
  PROVE  Standing' /\ [Files!Next]_(Files!vars)
<1>1. PICK L, w : TreeInv(L) /\ NoLeak(L) /\ Ways(table, content, L, w)
  BY DEF Standing
<1>2. Typed /\ Typed' /\ FormatInv /\ InOrder(op, table)
  BY DEF Sound, Standing
<1>3. Fate(L, w)
  BY <1>1, <1>2, FateNext
<1>4. PICK M, v : TreeInv(M)' /\ NoLeak(M)' /\ Ways(table', content', M, v) /\ Moved(L, w, M, v)
  BY <1>3 DEF Fate
<1>5. Standing'
  BY <1>3, <1>4 DEF Standing, Fate
<1>6. /\ table \in Tables /\ content \in Stores /\ table' \in Tables /\ content' \in Stores
      /\ Visible = Shown(table, content) /\ Visible' = Shown(table', content')
  BY <1>2 DEF Typed, StateType, Visible, Tree, Shown
<1>7. Visible = NodesAt(table, w, L) /\ RootInode \in L
  BY <1>6, <1>1, ShownIs DEF TreeInv, Whole, Kinds
<1>8. Whole(table, content, L) /\ Whole(table', content', M)
  BY <1>1, <1>4 DEF TreeInv
<1>9. Visible' = NodesAt(table', v, M)
  BY <1>6, <1>4, <1>8, ShownIs
<1>10. Aimed(op, L)
  <2>1. /\ op.path.names \in Seq(Names) /\ InOrder(op, table)
        /\ op.pc \in Creating => op.parent \in L /\ op.path.names # <<>>
        /\ op.pc = "clear_entry" /\ op.position = 0 => op.inode \in L
        /\ op.pc = "open" \/ op.pc \in Writing => op.inode \in L
    BY <1>1, <1>2 DEF Typed, OpType, CreationType, Ops, PathRecords, TreeInv, OpOK, CreatingOK,
                      OpenOK, WritingOK, ClearingOK
  <2> QED
    BY <2>1, AimedBy
<1>11. Aimed(op', M)
  <2>1. /\ op'.path.names \in Seq(Names) /\ InOrder(op', table')
        /\ op'.pc \in Creating => op'.parent \in M /\ op'.path.names # <<>>
        /\ op'.pc = "clear_entry" /\ op'.position = 0 => op'.inode \in M
        /\ op'.pc = "open" \/ op'.pc \in Writing => op'.inode \in M
    BY <1>2, <1>3, <1>4 DEF Typed, OpType, CreationType, Ops, PathRecords, TreeInv, OpOK, CreatingOK,
                            OpenOK, WritingOK, ClearingOK, Fate
  <2> QED
    BY <2>1, AimedBy
<1>12. At = AimOf(op, w)
  <2>1. AtOf(op, table, content) = AimOf(op, w)
    BY <1>1, <1>6, <1>8, <1>10, AimIs DEF Aimed
  <2> QED
    BY <2>1, AtIs
<1>13. At' = AimOf(op', v)
  <2>1. AtOf(op', table', content') = AimOf(op', v)
    BY <1>4, <1>6, <1>8, <1>11, AimIs DEF Aimed
  <2> QED
    BY <2>1, AtIs
<1>14. [Files!Next]_(Files!vars)
  BY <1>1, <1>4, <1>7, <1>9, <1>10, <1>11, <1>12, <1>13, MovedAsFiles
<1> QED
  BY <1>5, <1>14

\* A command changes what the user sees only at the path it is about: touch, mkdir,
\* rm and rmdir in one step, edit and the second half of cp by emptying the file at
\* that path and letting it grow by one block at a time, and what a command that is
\* cut off or fails has done is a first part of that.  So the drive implements
\* FileTree, as long as nobody unmounts or formats it.
THEOREM FileTreeImplementedHolds ==
  ASSUME Guarded, Undisturbed
  PROVE  Spec => FileTreeImplemented
<1>1. Init => Sound /\ Standing /\ Files!Init
  BY SoundInit, StandingInit
<1>2. Sound /\ Standing /\ [Next]_vars => Sound' /\ Standing' /\ [Files!Next]_(Files!vars)
  BY SoundNext, StandingNext
<1> QED
  BY <1>1, <1>2, PTL DEF Spec, FileTreeImplemented, Files!Spec

LEMMA StandingLeaksNot ==
  ASSUME Sound, Standing
  PROVE  NothingLeaked
<1>1. SUFFICES ASSUME mounted, op = NoOp
               PROVE  /\ \A i \in Inodes : InodeBit(i) \in mem.bits => i \in Reachable
                      /\ \A b \in DataBlocks : b \in mem.bits =>
                           \E x \in BlockUses : table[x[1]].blocks[x[2]] = b
  BY DEF NothingLeaked
<1>2. PICK L, w : TreeInv(L) /\ NoLeak(L) /\ Ways(table, content, L, w)
  BY DEF Standing
<1>3. Typed
  BY DEF Sound
<1>4. Tree = {[path |-> w[i], inode |-> i] : i \in L}
  BY <1>2, <1>3, ReachedByWays DEF TreeInv, Typed, StateType, Tree
<1>5. Reachable = L
  <2>1. \A i : i \in Reachable <=> \E j \in L : i = [path |-> w[j], inode |-> j].inode
    BY <1>4 DEF Reachable
  <2> QED
    BY <2>1
<1>6. op.pc \in {"none", "open"} /\ Accounted(mem, table, L, op)
  BY <1>1, <1>2 DEF NoOp, NoLeak
<1>7. /\ \A i \in Inodes : InodeBit(i) \in mem.bits => i \in L
      /\ \A b \in DataBlocks : b \in mem.bits => \E i \in L : \E k : Has(table, i, k, b)
  BY <1>6, IdleAccounted
<1>8. ASSUME NEW b \in DataBlocks, b \in mem.bits
      PROVE  \E x \in BlockUses : table[x[1]].blocks[x[2]] = b
  <2>1. PICK i, k : i \in L /\ Has(table, i, k, b)
    BY <1>7, <1>8
  <2>2. /\ table[i] \in InodeLists
        /\ k \in DOMAIN table[i].blocks /\ table[i].blocks[k] = b
    BY <1>2, <1>3, <2>1 DEF Has, TreeInv, Whole, Kinds, Typed, StateType, Tables
  <2>3. k \in 1 .. DirectBlocks /\ k <= Len(table[i].blocks)
    BY <2>2, InodeListIs, DirectoryAssumption
  <2>4. <<i, k>> \in BlockUses
    BY <1>5, <2>1, <2>3 DEF BlockUses
  <2> QED
    BY <2>2, <2>4
<1> QED
  BY <1>5, <1>7, <1>8

\* Between commands nothing is marked that nothing reaches: what a removal, a
\* truncation or a failing creation gives up can be given out again.
THEOREM NothingLeakedHolds ==
  ASSUME Guarded, Undisturbed
  PROVE  Spec => []NothingLeaked
<1>1. Init => Sound /\ Standing
  BY SoundInit, StandingInit
<1>2. Sound /\ Standing /\ [Next]_vars => Sound' /\ Standing'
  BY SoundNext, StandingNext
<1>3. Sound /\ Standing => NothingLeaked
  BY StandingLeaksNot
<1> QED
  BY <1>1, <1>2, <1>3, PTL DEF Spec
=============================================================================
