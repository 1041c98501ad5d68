------------------------------ MODULE DirBlock ------------------------------
(***************************************************************************)
(* The bytes of one directory block of RFSS (src/fs/rfss.c): a chain of    *)
(* records, each giving the distance to the next one, scanned from its     *)
(* start by every function.  A step is one iteration of such a loop, or    *)
(* what follows it.  A record takes the whole struct (with room for the    *)
(* longest name) and the length of its name once more, rounded up.         *)
(***************************************************************************)
EXTENDS Integers

CONSTANTS
  BlockSize,     \* RFSS_BLOCK_SIZE: 4096
  EntrySize,     \* sizeof(rfss_dir_entry_t): 263, 8 of them before the name
  DotLen,        \* the length of the record of ".": 12
  Names, NoName,
  NameLen,       \* the length of each name: at most 254
  Files          \* the inodes that entries lead to

RoundUp(n) == ((n + 3) \div 4) * 4

\* Mutant of Size: the name is taken to be all there is to a record after its
\* header, as in ext2.
SizeOfName(name) == RoundUp(2 + NameLen[name])

Size(name) == RoundUp(EntrySize + NameLen[name])

\* Every name that rfss_create_file lets through fits in an empty block: the
\* check that rfss_add_directory_entry begins with never fails.
ASSUME DirBlockAssumption ==
  /\ BlockSize \in Nat /\ EntrySize \in Nat /\ DotLen \in Nat
  /\ 0 < DotLen /\ DotLen < EntrySize /\ EntrySize <= BlockSize
  /\ NoName \notin Names
  /\ NameLen \in [Names -> Nat]
  /\ \A n \in Names : Size(n) <= BlockSize - EntrySize
  /\ Files \subseteq Nat \ {0}

VARIABLES
  rec,     \* the record last written at each offset
  bytes,   \* the offset of the record that each byte was last written for, or -1
  heads,   \* history: the offsets where entries were put
  op,      \* the scan in progress: what for, where it is and where it was before
  ret      \* what the last scan returned

vars == <<rec, bytes, heads, op, ret>>

Offsets == 0 .. (BlockSize - 1)
Record(inode, len, name) == [inode |-> inode, len |-> len, name |-> name]
Unwritten == Record(0, 0, NoName)
Records == [inode : {0} \cup Files, len : 0 .. BlockSize, name : Names \cup {NoName}]

Scan(call, name, inode) ==
  [call |-> call, name |-> name, inode |-> inode, offset |-> 0, last |-> -1]
Idle == Scan("none", NoName, 0)
Scans == [call : {"none", "find", "add", "remove", "empty"}, name : Names \cup {NoName},
          inode : {0} \cup Files, offset : 0 .. BlockSize, last : {-1} \cup Offsets]

TypeOK ==
  /\ rec \in [Offsets -> Records]
  /\ bytes \in [Offsets -> {-1} \cup Offsets]
  /\ heads \subseteq Offsets
  /\ op \in Scans
  /\ ret \in {0, 1} \cup Files

\* The bytes of a whole record, header, name and padding, after it is written.
Struct(at) == at .. (at + EntrySize - 1)
Written(b, at) == [k \in Offsets |-> IF k \in Struct(at) THEN at ELSE b[k]]

\* A block gets its first entry when a directory grows by it; as the first block
\* of a directory it has "." and, beginning within that, "..".
NewBlock(name, inode) ==
  /\ rec = [o \in Offsets |-> IF o = 0 THEN Record(inode, BlockSize, name) ELSE Unwritten]
  /\ heads = {0}

DotsBlock(inode) ==
  /\ rec = [o \in Offsets |-> IF o = 0 THEN Record(inode, DotLen, NoName) ELSE Unwritten]
  /\ heads = {}

Init ==
  /\ \E i \in Files : DotsBlock(i) \/ \E n \in Names : NewBlock(n, i)
  /\ bytes = Written([k \in Offsets |-> -1], 0)
  /\ op = Idle /\ ret = 0

-----------------------------------------------------------------------------
(***************************************************************************)
(* The entries of the block, by the history: what a scan ought to find.    *)
(***************************************************************************)
Live == {o \in heads : rec[o].inode # 0}
Entries == {<<rec[o].name, rec[o].inode>> : o \in Live}

\* The callers add a name only after they looked for it.
Ask ==
  /\ op = Idle
  /\ \/ \E n \in Names : op' = Scan("find", n, 0)
     \/ \E n \in Names, i \in Files :
          (\A o \in Live : rec[o].name # n) /\ op' = Scan("add", n, i)
     \/ \E n \in Names, i \in Files : op' = Scan("remove", n, i)
     \/ op' = Scan("empty", NoName, 0)
  /\ UNCHANGED <<rec, bytes, heads, ret>>

(***************************************************************************)
(* The loop that all scans have: it ends at the end of the block or at a   *)
(* record whose length cannot be right.  (rfss_remove_directory leaves the *)
(* comparison with the end of the block out, for which a whole chain has   *)
(* no use.)                                                                *)
(***************************************************************************)
Here == rec[op.offset]

AtEnd ==
  op.offset < BlockSize =>
    Here.len = 0 \/ Here.len > BlockSize - op.offset \/ Here.len < EntrySize

\* Mutant of Hit: cleared entries count.
HitCleared ==
  \/ op.call = "find" /\ Here.name = op.name
  \/ op.call = "remove" /\ Here.inode = op.inode /\ Here.name = op.name
  \/ op.call = "empty" /\ Here.inode # 0

Hit ==
  \/ op.call = "find" /\ Here.inode # 0 /\ Here.name = op.name
  \/ op.call = "remove" /\ Here.inode = op.inode /\ Here.name = op.name
  \/ op.call = "empty" /\ Here.inode # 0

\* Mutant of GoOn: where the scan was is not kept.
GoOnForgetful ==
  /\ op # Idle /\ ~AtEnd /\ ~Hit
  /\ op' = [op EXCEPT !.offset = @ + Here.len]
  /\ UNCHANGED <<rec, bytes, heads, ret>>

GoOn ==
  /\ op # Idle /\ ~AtEnd /\ ~Hit
  /\ op' = [op EXCEPT !.offset = @ + Here.len, !.last = op.offset]
  /\ UNCHANGED <<rec, bytes, heads, ret>>

Find ==
  /\ op.call = "find"
  /\ \/ ~AtEnd /\ Hit /\ ret' = Here.inode
     \/ AtEnd /\ ret' = 0
  /\ op' = Idle
  /\ UNCHANGED <<rec, bytes, heads>>

Remove ==
  /\ op.call = "remove"
  /\ \/ ~AtEnd /\ Hit /\ rec' = [rec EXCEPT ![op.offset].inode = 0]
     \/ AtEnd /\ UNCHANGED rec
  /\ op' = Idle
  /\ UNCHANGED <<bytes, heads, ret>>

Empty ==
  /\ op.call = "empty"
  /\ \/ ~AtEnd /\ Hit /\ ret' = 0
     \/ AtEnd /\ ret' = 1
  /\ op' = Idle
  /\ UNCHANGED <<rec, bytes, heads>>

\* The end of the last record, without what it has to spare, and the rest.
Tail == op.last + Size(rec[op.last].name)
FreeSpace == BlockSize - Tail

\* Mutant of Fits: the room that is left is not looked at.
FitsAlways == TRUE

Fits == FreeSpace >= Size(op.name)

\* Mutant of Appended: the last record is not cut.
AppendedOnly == [rec EXCEPT ![Tail] = Record(op.inode, FreeSpace, op.name)]

Appended ==
  [rec EXCEPT ![op.last].len = Size(rec[op.last].name),
              ![Tail] = Record(op.inode, FreeSpace, op.name)]

Append ==
  /\ op.call = "add" /\ AtEnd
  /\ op.last # -1 /\ Fits
  /\ rec' = Appended
  /\ bytes' = Written(bytes, Tail)
  /\ heads' = heads \cup {Tail}
  /\ op' = Idle /\ ret' = 1

Refuse ==
  /\ op.call = "add" /\ AtEnd
  /\ op.last # -1 => ~Fits
  /\ op' = Idle /\ ret' = 0
  /\ UNCHANGED <<rec, bytes, heads>>

Next == Ask \/ GoOn \/ Find \/ Remove \/ Empty \/ Append \/ Refuse

Spec == Init /\ [][Next]_vars

-----------------------------------------------------------------------------
(***************************************************************************)
(* Properties                                                              *)
(***************************************************************************)

\* The records follow each other without gap or overlap from the block's first
\* byte to its last, each long enough for its name, however many entries were
\* cleared and added; and a directory's first block has none.
ChainWhole ==
  IF heads = {} THEN rec[0].len = DotLen
  ELSE /\ 0 \in heads
       /\ \A o \in heads :
            LET end == o + rec[o].len IN
            /\ rec[o].name \in Names /\ rec[o].len >= Size(rec[o].name)
            /\ end = BlockSize \/ end \in heads
            /\ \A p \in heads : p > o => p >= end

\* No record is written over another or beyond the block, although each write
\* stores the whole struct, padding included, and not only the name's bytes.
RecordsIntact ==
  \A o \in heads : Struct(o) \subseteq Offsets /\ \A k \in Struct(o) : bytes[k] = o

\* What a scan is asked for.
KnownScan ==
  \/ op = Idle
  \/ op.call = "find" /\ op.name \in Names /\ op.inode = 0
  \/ op.call \in {"add", "remove"} /\ op.name \in Names /\ op.inode \in Files
  \/ op.call = "empty" /\ op.name = NoName /\ op.inode = 0

\* It is at the beginning, or right behind the record it was at before.
OnChain ==
  \/ op.offset = 0 /\ op.last = -1
  \/ op.last \in heads /\ op.offset = op.last + rec[op.last].len

\* Nothing that it has passed is what it looks for.
NothingMissed ==
  \A o \in heads : o < op.offset =>
    /\ op.call = "find" => rec[o].inode = 0 \/ rec[o].name # op.name
    /\ op.call = "remove" => rec[o].inode # op.inode \/ rec[o].name # op.name
    /\ op.call = "empty" => rec[o].inode = 0

\* A name is in the block once, and not at all while it is being added.
NamesOnce ==
  /\ \A o, p \in Live : rec[o].name = rec[p].name => o = p
  /\ op.call = "add" => \A o \in Live : rec[o].name # op.name

\* However the block came to be, a scan steps from record to record and passes
\* nothing that it looks for, although a cleared entry keeps its name and an
\* added one is cut out of the record before it; so the first hit of
\* rfss_find_file_in_directory, at which it returns, and those of rfss_delete_file
\* and rfss_remove_directory, at which they stop, are the only ones.
ScanSound == KnownScan /\ OnChain /\ NothingMissed /\ NamesOnce

\* The scans answer as a table of names would (NameTable).
Table == INSTANCE NameTable WITH
  entries <- Entries, request <- [call |-> op.call, name |-> op.name, inode |-> op.inode]

TableImplemented == Table!Spec
=============================================================================
