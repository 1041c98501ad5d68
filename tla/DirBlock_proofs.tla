--------------------------- MODULE DirBlock_proofs ---------------------------
(***************************************************************************)
(* Theorems about a directory block, for every size of block and record,   *)
(* and every set of names that fit.                                        *)
(***************************************************************************)
EXTENDS DirBlock, TLAPS

LEMMA RoundUpBounds == ASSUME NEW n \in Nat PROVE RoundUp(n) \in n .. n + 3
BY DEF RoundUp

\* A record takes the whole struct at least, and fits in a block behind another.
LEMMA SizeBounds ==
  ASSUME NEW n \in Names
  PROVE  Size(n) \in EntrySize .. BlockSize - EntrySize
<1>1. NameLen[n] \in Nat /\ EntrySize \in Nat /\ BlockSize \in Nat
      /\ Size(n) <= BlockSize - EntrySize
  BY DirBlockAssumption
<1>2. Size(n) \in EntrySize + NameLen[n] .. EntrySize + NameLen[n] + 3
  BY <1>1, RoundUpBounds DEF Size
<1> QED
  BY <1>1, <1>2

\* The sizes that the proofs below go by.
LEMMA Sizes ==
  /\ BlockSize \in Nat /\ EntrySize \in Nat /\ DotLen \in Nat
  /\ 0 < DotLen /\ DotLen < EntrySize /\ EntrySize <= BlockSize
  /\ 0 \in Offsets /\ Offsets \subseteq Nat
  /\ \A o \in Offsets : o < BlockSize
BY DirBlockAssumption DEF Offsets

\* The bytes of a struct that fits, and what writing it leaves of the others.
LEMMA StructInBlock ==
  ASSUME NEW at \in Nat, at + EntrySize <= BlockSize
  PROVE  Struct(at) \subseteq Offsets
BY Sizes DEF Struct, Offsets

LEMMA WrittenBytes ==
  ASSUME NEW b, b \in [Offsets -> {-1} \cup Offsets], NEW at \in Offsets
  PROVE  /\ Written(b, at) \in [Offsets -> {-1} \cup Offsets]
         /\ \A k \in Offsets : k \in Struct(at) => Written(b, at)[k] = at
         /\ \A k \in Offsets : k \notin Struct(at) => Written(b, at)[k] = b[k]
BY DEF Written

LEMMA FilesAreInodes == Files \subseteq Nat \ {0}
BY DirBlockAssumption

LEMMA NoNameIsNone == NoName \notin Names
BY DirBlockAssumption

\* All that is known of a reachable state.
Inv == TypeOK /\ ChainWhole /\ RecordsIntact /\ ScanSound

-----------------------------------------------------------------------------
(***************************************************************************)
(* Initial states: a directory's first block, and a block with one entry.  *)
(***************************************************************************)
LEMMA InitInv == Init => Inv
<1> SUFFICES ASSUME Init PROVE Inv
  OBVIOUS
<1>1. PICK i \in Files, n \in Names \cup {NoName} :
        DotsBlock(i) \/ (n \in Names /\ NewBlock(n, i))
  BY DEF Init
<1>2. bytes = Written([k \in Offsets |-> -1], 0) /\ op = Idle /\ ret = 0
  BY DEF Init
<1>3. /\ op \in Scans /\ op.call = "none" /\ op.offset = 0 /\ op.last = -1
  BY <1>2, Sizes DEF Idle, Scan, Scans
<1>4. Struct(0) \subseteq Offsets
  BY Sizes, StructInBlock
<1>5. bytes \in [Offsets -> {-1} \cup Offsets] /\ \A k \in Struct(0) : bytes[k] = 0
  <2> DEFINE none == [k \in Offsets |-> -1]
  <2>1. none \in [Offsets -> {-1} \cup Offsets] /\ bytes = Written(none, 0)
    BY <1>2
  <2> HIDE DEF none
  <2> QED
    BY <1>4, <2>1, Sizes, WrittenBytes
<1>6. CASE DotsBlock(i)
  <2>1. rec \in [Offsets -> Records]
    BY <1>6, Sizes DEF DotsBlock, Records, Record, Unwritten
  <2>2. rec[0].len = DotLen /\ heads = {}
    BY <1>6, Sizes DEF DotsBlock, Record
  <2>3. TypeOK /\ ChainWhole /\ RecordsIntact
    BY <1>2, <1>3, <1>5, <2>1, <2>2 DEF TypeOK, ChainWhole, RecordsIntact
  <2>4. ScanSound
    BY <1>2, <1>3, <2>2 DEF ScanSound, KnownScan, OnChain, NothingMissed, NamesOnce, Live
  <2> QED
    BY <2>3, <2>4 DEF Inv
<1>7. CASE n \in Names /\ NewBlock(n, i)
  <2>1. rec \in [Offsets -> Records]
    BY <1>7, Sizes DEF NewBlock, Records, Record, Unwritten
  <2>2. rec[0].len = BlockSize /\ rec[0].name = n /\ heads = {0}
    BY <1>7, Sizes DEF NewBlock, Record
  <2>3. TypeOK
    BY <1>2, <1>3, <1>5, <2>1, <2>2, Sizes DEF TypeOK
  <2>4. ChainWhole
    BY <1>7, <2>2, Sizes, SizeBounds DEF ChainWhole
  <2>5. RecordsIntact
    BY <1>4, <1>5, <2>2 DEF RecordsIntact
  <2>6. ScanSound
    BY <1>2, <1>3, <2>2 DEF ScanSound, KnownScan, OnChain, NothingMissed, NamesOnce, Live
  <2> QED
    BY <2>3, <2>4, <2>5, <2>6 DEF Inv
<1> QED
  BY <1>1, <1>6, <1>7

-----------------------------------------------------------------------------
(***************************************************************************)
(* The scan.                                                               *)
(***************************************************************************)
\* A block with entries has a record at 0, and each record ends at the next.
LEMMA RecordInBlock ==
  ASSUME Inv, NEW o \in heads
  PROVE  /\ o \in Offsets /\ rec[o].name \in Names
         /\ Size(rec[o].name) \in Nat /\ Size(rec[o].name) >= EntrySize
         /\ rec[o].len \in Nat /\ rec[o].len >= Size(rec[o].name)
         /\ \/ o + rec[o].len = BlockSize
            \/ o + rec[o].len \in heads /\ o + rec[o].len < BlockSize
<1>1. o \in Offsets /\ rec[o] \in Records
  BY DEF Inv, TypeOK
<1>2. rec[o].name \in Names /\ rec[o].len >= Size(rec[o].name) /\ rec[o].len \in Nat
  BY <1>1, Sizes DEF Inv, ChainWhole, Records
<1>3. o + rec[o].len = BlockSize \/ o + rec[o].len \in heads
  BY DEF Inv, ChainWhole
<1>4. o + rec[o].len \in heads => o + rec[o].len < BlockSize
  BY Sizes DEF Inv, TypeOK
<1> QED
  BY <1>1, <1>2, <1>3, <1>4, SizeBounds, Sizes

\* A scan in a block with entries is at one of them until it is at the end.
LEMMA ScanPlace ==
  ASSUME Inv, heads # {}
  PROVE  op.offset \in heads \/ op.offset = BlockSize
<1>1. 0 \in heads
  BY DEF Inv, ChainWhole
<1> QED
  BY <1>1, RecordInBlock DEF Inv, ScanSound, OnChain

\* The loop ends where it should: at the end of a block with entries, and at the
\* dots of a directory's first block.
LEMMA ScanEnds ==
  ASSUME Inv, AtEnd
  PROVE  /\ heads = {} => op.last = -1
         /\ heads # {} => op.last \in heads /\ op.offset = BlockSize
                          /\ op.last + rec[op.last].len = BlockSize
<1>1. heads = {} => op.last = -1
  BY DEF Inv, ScanSound, OnChain
<1>2. ASSUME heads # {} PROVE op.offset = BlockSize
  <2>1. CASE op.offset \in heads
    <3>1. /\ op.offset \in Offsets /\ Here.len \in Nat
          /\ Size(Here.name) \in Nat /\ Size(Here.name) >= EntrySize
          /\ Here.len >= Size(Here.name)
          /\ op.offset + Here.len = BlockSize \/ op.offset + Here.len < BlockSize
      BY <2>1, RecordInBlock DEF Here
    <3>2. op.offset \in Nat /\ op.offset < BlockSize
      BY <3>1, Sizes
    <3> QED
      BY <3>1, <3>2, Sizes DEF AtEnd
  <2> QED
    BY <1>2, <2>1, ScanPlace
<1>3. op.offset = BlockSize => op.last \in heads /\ op.last + rec[op.last].len = BlockSize
  BY Sizes DEF Inv, ScanSound, OnChain
<1> QED
  BY <1>1, <1>2, <1>3

LEMMA ScanGoesOn ==
  ASSUME Inv, ~AtEnd
  PROVE  op.offset \in heads /\ op.offset \in Offsets
<1>1. op.offset < BlockSize /\ Here.len >= EntrySize
  <2>1. op.offset \in 0 .. BlockSize
    BY DEF Inv, TypeOK, Scans
  <2>2. op.offset < BlockSize
    BY DEF AtEnd
  <2>3. Here \in Records
    BY <2>1, <2>2, Sizes DEF Inv, TypeOK, Here, Offsets
  <2> QED
    BY <2>2, <2>3, Sizes DEF AtEnd, Records
<1>2. heads # {}
  <2>1. SUFFICES ASSUME heads = {} PROVE FALSE
    OBVIOUS
  <2>2. op.offset = 0 /\ rec[0].len = DotLen
    BY <2>1 DEF Inv, ScanSound, OnChain, ChainWhole
  <2> QED
    BY <1>1, <2>2, Sizes DEF Here
<1>3. op.offset \in heads
  BY <1>1, <1>2, ScanPlace, Sizes
<1> QED
  BY <1>3 DEF Inv, TypeOK

-----------------------------------------------------------------------------
(***************************************************************************)
(* Steps that leave the block as it is.                                    *)
(***************************************************************************)
LEMMA SameBlock ==
  ASSUME Inv, UNCHANGED <<rec, bytes, heads>>, op' \in Scans, ret' \in {0, 1} \cup Files
  PROVE  TypeOK' /\ ChainWhole' /\ RecordsIntact'
BY DEF Inv, TypeOK, ChainWhole, RecordsIntact

LEMMA IdleIsScan == Idle \in Scans /\ Idle.call = "none" /\ Idle.offset = 0 /\ Idle.last = -1
BY Sizes DEF Idle, Scan, Scans

\* A scan that ends, whatever it has found.
LEMMA EndOfScan ==
  ASSUME Inv, UNCHANGED <<rec, bytes, heads>>, op' = Idle, ret' \in {0, 1} \cup Files
  PROVE  Inv'
<1>1. TypeOK' /\ ChainWhole' /\ RecordsIntact'
  BY IdleIsScan, SameBlock
<1>2. ScanSound'
  BY IdleIsScan DEF Inv, ScanSound, KnownScan, OnChain, NothingMissed, NamesOnce, Live
<1> QED
  BY <1>1, <1>2 DEF Inv

LEMMA AskInv == ASSUME Inv, Ask PROVE Inv'
<1>1. PICK call \in {"find", "add", "remove", "empty"}, n \in Names \cup {NoName},
           i \in {0} \cup Files :
        /\ op' = Scan(call, n, i)
        /\ call = "find" => n \in Names /\ i = 0
        /\ call \in {"add", "remove"} => n \in Names /\ i \in Files
        /\ call = "empty" => n = NoName /\ i = 0
        /\ call = "add" => \A o \in Live : rec[o].name # n
  BY DEF Ask
<1>2. /\ op'.call = call /\ op'.name = n /\ op'.inode = i
      /\ op'.offset = 0 /\ op'.last = -1 /\ op' \in Scans
  BY <1>1, Sizes DEF Scan, Scans
<1>3. UNCHANGED <<rec, bytes, heads, ret>>
  BY DEF Ask
<1>4. TypeOK' /\ ChainWhole' /\ RecordsIntact'
  BY <1>2, <1>3, SameBlock DEF Inv, TypeOK
<1>5. KnownScan'
  BY <1>1, <1>2 DEF KnownScan
<1>6. OnChain'
  BY <1>2 DEF OnChain
<1>7. NothingMissed'
  BY <1>2, <1>3, Sizes DEF NothingMissed, Inv, TypeOK
<1>8. NamesOnce'
  BY <1>1, <1>2, <1>3 DEF NamesOnce, Live, Inv, ScanSound
<1> QED
  BY <1>4, <1>5, <1>6, <1>7, <1>8 DEF Inv, ScanSound

\* One more record: it is passed, and no other one lies between it and the next.
LEMMA GoOnInv == ASSUME Inv, GoOn PROVE Inv'
<1>1. op # Idle /\ ~AtEnd /\ ~Hit /\ UNCHANGED <<rec, bytes, heads, ret>>
  BY DEF GoOn
<1>2. op \in Scans
  BY DEF Inv, TypeOK
<1>3. /\ op'.call = op.call /\ op'.name = op.name /\ op'.inode = op.inode
      /\ op'.offset = op.offset + Here.len /\ op'.last = op.offset
  BY <1>2 DEF GoOn, Scans
<1>4. op.offset \in heads /\ op.offset \in Offsets
  BY <1>1, ScanGoesOn
<1>5. /\ Here.len \in Nat /\ Here.len > 0
      /\ op.offset + Here.len \in heads \/ op.offset + Here.len = BlockSize
  BY <1>4, RecordInBlock, Sizes DEF Here
<1>6. op'.offset \in 0 .. BlockSize
  BY <1>3, <1>5, Sizes DEF Inv, TypeOK, Offsets
<1>7. op' \in Scans
  BY <1>2, <1>3, <1>4, <1>6 DEF GoOn, Scans
<1>8. TypeOK' /\ ChainWhole' /\ RecordsIntact'
  BY <1>1, <1>7, SameBlock DEF Inv, TypeOK
<1>9. KnownScan'
  BY <1>1, <1>3 DEF Inv, ScanSound, KnownScan
<1>10. OnChain'
  BY <1>1, <1>3, <1>4 DEF OnChain, Here
<1>11. NothingMissed'
  <2> SUFFICES ASSUME NEW o \in heads, o < op'.offset
               PROVE  /\ op.call = "find" => rec[o].inode = 0 \/ rec[o].name # op.name
                      /\ op.call = "remove" => rec[o].inode # op.inode \/ rec[o].name # op.name
                      /\ op.call = "empty" => rec[o].inode = 0
    BY <1>1, <1>3 DEF NothingMissed
  <2> o \in Nat /\ op.offset \in Nat
    BY <1>4, Sizes DEF Inv, TypeOK
  <2>1. CASE o < op.offset
    BY <2>1 DEF Inv, ScanSound, NothingMissed
  <2>2. CASE o = op.offset
    BY <1>1, <2>2 DEF Hit, Here
  <2>3. CASE o > op.offset
    <3>1. o >= op.offset + Here.len
      BY <1>4, <2>3 DEF Inv, ChainWhole, Here
    <3> QED
      BY <1>3, <1>5, <3>1
  <2> QED
    BY <2>1, <2>2, <2>3
<1>12. NamesOnce'
  BY <1>1, <1>3 DEF Inv, ScanSound, NamesOnce, Live
<1> QED
  BY <1>8, <1>9, <1>10, <1>11, <1>12 DEF Inv, ScanSound

-----------------------------------------------------------------------------
(***************************************************************************)
(* Steps that change the block.                                            *)
(***************************************************************************)
\* Clearing an entry changes nothing but its inode.
LEMMA RemoveInv == ASSUME Inv, Remove PROVE Inv'
<1>1. CASE AtEnd /\ UNCHANGED rec
  BY <1>1, EndOfScan DEF Remove, Inv, TypeOK
<1>2. CASE ~AtEnd /\ Hit /\ rec' = [rec EXCEPT ![op.offset].inode = 0]
  <2>1. op' = Idle /\ UNCHANGED <<bytes, heads, ret>>
    BY DEF Remove
  <2>2. op.offset \in Offsets /\ heads \subseteq Offsets /\ rec \in [Offsets -> Records]
    BY <1>2, ScanGoesOn DEF Inv, TypeOK
  <2>3. \A o \in Offsets : /\ rec'[o].len = rec[o].len /\ rec'[o].name = rec[o].name
                            /\ rec'[o].inode = IF o = op.offset THEN 0 ELSE rec[o].inode
    BY <1>2, <2>2 DEF Records
  <2>4. rec' \in [Offsets -> Records]
    BY <1>2, <2>2 DEF Records
  <2>5. TypeOK'
    BY <2>1, <2>4, IdleIsScan DEF Inv, TypeOK
  <2>6. ChainWhole'
    BY <2>1, <2>2, <2>3, Sizes DEF Inv, ChainWhole
  <2>7. RecordsIntact'
    BY <2>1 DEF Inv, RecordsIntact
  <2>8. ScanSound'
    BY <2>1, <2>2, <2>3, IdleIsScan
    DEF Inv, ScanSound, KnownScan, OnChain, NothingMissed, NamesOnce, Live
  <2> QED
    BY <2>5, <2>6, <2>7, <2>8 DEF Inv
<1> QED
  BY <1>1, <1>2 DEF Remove

\* Where a new entry goes: into what the last record has to spare, behind the
\* last record's struct, and where nothing else is.
LEMMA TailPlace ==
  ASSUME Inv, Append
  PROVE  /\ op.name \in Names /\ op.inode \in Files /\ op.inode # 0
         /\ op.last \in heads /\ op.last \in Offsets /\ rec[op.last].name \in Names
         /\ Size(rec[op.last].name) \in 0 .. BlockSize
         /\ Tail = op.last + Size(rec[op.last].name) /\ Tail \in Offsets
         /\ op.last \in Nat /\ Tail \in Nat
         /\ op.last + EntrySize <= Tail /\ Tail + EntrySize <= BlockSize
         /\ FreeSpace \in 0 .. BlockSize /\ Tail + FreeSpace = BlockSize
         /\ Size(op.name) \in Nat /\ FreeSpace >= Size(op.name)
         /\ \A o \in heads : o \in Nat /\ (o < op.last \/ o = op.last)
<1>1. op.call = "add" /\ AtEnd /\ op.last # -1 /\ Fits
  BY DEF Append
<1>2. op.name \in Names /\ op.inode \in Files /\ op.inode # 0
  BY <1>1, FilesAreInodes DEF Inv, ScanSound, KnownScan, Idle, Scan
<1>3. op.last \in heads /\ op.last + rec[op.last].len = BlockSize
  BY <1>1, ScanEnds
<1>4. op.last \in Offsets /\ rec[op.last].name \in Names
  BY <1>3, RecordInBlock
<1>5. /\ Size(rec[op.last].name) \in EntrySize .. BlockSize
      /\ Size(op.name) \in EntrySize .. BlockSize
  BY <1>2, <1>4, SizeBounds, Sizes
<1>6. Tail = op.last + Size(rec[op.last].name) /\ FreeSpace = BlockSize - Tail
  BY DEF Tail, FreeSpace
<1>7. FreeSpace >= Size(op.name)
  BY <1>1 DEF Fits
<1>8. op.last \in Nat /\ op.last < BlockSize
  BY <1>4, Sizes
<1>9. /\ Tail \in Offsets /\ Tail \in Nat /\ FreeSpace \in 0 .. BlockSize
      /\ op.last + EntrySize <= Tail /\ Tail + EntrySize <= BlockSize
      /\ Tail + FreeSpace = BlockSize
  BY <1>5, <1>6, <1>7, <1>8, Sizes DEF Offsets
<1>10. ASSUME NEW o \in heads PROVE o \in Nat /\ (o < op.last \/ o = op.last)
  <2>1. o \in Nat /\ o < BlockSize
    BY Sizes DEF Inv, TypeOK
  <2>2. o > op.last => o >= BlockSize
    BY <1>3 DEF Inv, ChainWhole
  <2>3. ~(o > op.last)
    BY <2>1, <2>2, Sizes
  <2> QED
    BY <1>8, <2>1, <2>3
<1>11. Size(rec[op.last].name) \in 0 .. BlockSize /\ Size(op.name) \in Nat
  BY <1>5, Sizes
<1> QED
  BY <1>2, <1>3, <1>4, <1>6, <1>7, <1>8, <1>9, <1>10, <1>11

\* What is in the block then.
LEMMA AppendedRecords ==
  ASSUME Inv, Append
  PROVE  /\ heads' = heads \cup {Tail} /\ Tail \notin heads /\ op.last < Tail
         /\ rec' \in [Offsets -> Records]
         /\ rec'[Tail] = Record(op.inode, FreeSpace, op.name)
         /\ \A o \in heads : rec'[o].name = rec[o].name /\ rec'[o].inode = rec[o].inode
         /\ \A o \in heads : o # op.last => rec'[o].len = rec[o].len
         /\ rec'[op.last].len = Size(rec[op.last].name)
<1> USE TailPlace
<1>1. heads' = heads \cup {Tail} /\ rec' = Appended
  BY DEF Append
<1>2. op.last \in Nat /\ Tail \in Nat /\ op.last < Tail
  BY Sizes
<1>3. \A o \in heads : o \in Nat /\ o <= op.last
  BY <1>2
<1>4. Tail \notin heads
  BY <1>2, <1>3
<1>5. rec \in [Offsets -> Records] /\ heads \subseteq Offsets
  BY DEF Inv, TypeOK
<1>6. Record(op.inode, FreeSpace, op.name) \in Records
  BY Sizes DEF Record, Records
<1>7. Size(rec[op.last].name) \in 0 .. BlockSize
  BY Sizes
<1>8. [rec[op.last] EXCEPT !.len = Size(rec[op.last].name)] \in Records
  BY <1>5, <1>7 DEF Records
<1>9. /\ rec' \in [Offsets -> Records]
      /\ rec'[Tail] = Record(op.inode, FreeSpace, op.name)
      /\ rec'[op.last] = [rec[op.last] EXCEPT !.len = Size(rec[op.last].name)]
      /\ \A o \in Offsets : o # Tail /\ o # op.last => rec'[o] = rec[o]
  BY <1>1, <1>2, <1>5, <1>6, <1>8 DEF Appended
<1>10. /\ rec'[op.last].len = Size(rec[op.last].name)
       /\ rec'[op.last].name = rec[op.last].name /\ rec'[op.last].inode = rec[op.last].inode
  BY <1>5, <1>9 DEF Records
<1> QED
  BY <1>1, <1>2, <1>4, <1>5, <1>9, <1>10

LEMMA AppendChain == ASSUME Inv, Append PROVE ChainWhole'
<1> USE TailPlace, AppendedRecords
<1>1. 0 \in heads /\ 0 \in heads' /\ heads' # {}
  BY DEF Inv, ChainWhole
<1> SUFFICES ASSUME NEW o \in heads'
             PROVE  /\ rec'[o].name \in Names /\ rec'[o].len >= Size(rec'[o].name)
                    /\ o + rec'[o].len = BlockSize \/ o + rec'[o].len \in heads'
                    /\ \A p \in heads' : p > o => p >= o + rec'[o].len
  BY <1>1 DEF ChainWhole
<1>2. /\ \A p \in heads' : p \in Nat /\ p < BlockSize
      /\ op.last \in Nat /\ Tail \in Nat
  BY Sizes DEF Inv, TypeOK
<1>3. CASE o = Tail
  <2>1. /\ rec'[o].name = op.name /\ rec'[o].len = FreeSpace
    BY <1>3 DEF Record
  <2>2. \A p \in heads' : ~(p > o)
    BY <1>2, <1>3
  <2>3. o + FreeSpace = BlockSize
    BY <1>2, <1>3, Sizes
  <2> QED
    BY <2>1, <2>2, <2>3, Sizes
<1>4. CASE o = op.last
  <2>1. /\ rec'[o].name = rec[op.last].name /\ rec'[o].len = Size(rec[op.last].name)
        /\ o + rec'[o].len = Tail
    BY <1>4
  <2>2. \A p \in heads' : p > o => p = Tail
    BY <1>2, <1>4
  <2> QED
    BY <1>2, <2>1, <2>2, Sizes
<1>5. CASE o \in heads /\ o # op.last
  <2>1. /\ rec'[o].name = rec[o].name /\ rec'[o].len = rec[o].len
        /\ rec[o].name \in Names /\ rec[o].len >= Size(rec[o].name) /\ rec[o].len \in Nat
        /\ o + rec[o].len = BlockSize \/ o + rec[o].len \in heads
    BY <1>5, RecordInBlock
  <2>2. op.last >= o + rec[o].len
    BY <1>2, <1>5 DEF Inv, ChainWhole
  <2>3. ASSUME NEW p \in heads', p > o PROVE p >= o + rec[o].len
    <3>1. CASE p \in heads
      BY <1>5, <2>3, <3>1 DEF Inv, ChainWhole
    <3>2. CASE p = Tail
      <4>1. o \in Nat /\ rec[o].len \in Nat
        BY <1>5, <2>1
      <4>2. op.last + EntrySize <= Tail /\ Tail \in Nat /\ op.last \in Nat
        OBVIOUS
      <4>3. Tail >= o + rec[o].len
        BY <2>2, <4>1, <4>2, Sizes
      <4> QED
        BY <3>2, <4>3
    <3> QED
      BY <3>1, <3>2
  <2> QED
    BY <2>1, <2>3
<1> QED
  BY <1>3, <1>4, <1>5

LEMMA AppendIntact == ASSUME Inv, Append PROVE RecordsIntact'
<1> USE TailPlace, AppendedRecords
<1>1. bytes' = Written(bytes, Tail) /\ bytes \in [Offsets -> {-1} \cup Offsets]
  BY DEF Append, Inv, TypeOK
<1>2. op.last \in Nat /\ Tail \in Nat /\ Tail + EntrySize <= BlockSize
  OBVIOUS
<1> SUFFICES ASSUME NEW o \in heads'
             PROVE  Struct(o) \subseteq Offsets /\ \A k \in Struct(o) : bytes'[k] = o
  BY DEF RecordsIntact
<1>3. CASE o = Tail
  BY <1>1, <1>2, <1>3, StructInBlock, WrittenBytes
<1>4. CASE o \in heads
  <2>1. Struct(o) \subseteq Offsets /\ \A k \in Struct(o) : bytes[k] = o
    BY <1>4 DEF Inv, RecordsIntact
  <2>2. o + EntrySize <= Tail
    <3>1. o \in Nat /\ rec[o].len \in Nat /\ rec[o].len >= EntrySize
      BY <1>4, RecordInBlock, Sizes
    <3>2. o # op.last => op.last >= o + rec[o].len
      BY <1>2, <1>4, <3>1 DEF Inv, ChainWhole
    <3> QED
      BY <1>2, <3>1, <3>2, Sizes
  <2>3. ASSUME NEW k \in Struct(o) PROVE k \notin Struct(Tail)
    BY <1>2, <1>4, <2>2, Sizes DEF Struct, Inv, TypeOK
  <2> QED
    BY <1>1, <2>1, <2>3, WrittenBytes
<1> QED
  BY <1>3, <1>4

LEMMA AppendInv == ASSUME Inv, Append PROVE Inv'
<1> USE TailPlace, AppendedRecords
<1>1. op' = Idle /\ ret' = 1 /\ bytes' = Written(bytes, Tail)
  BY DEF Append
<1>2. TypeOK'
  BY <1>1, IdleIsScan, WrittenBytes DEF Inv, TypeOK
<1>3. NamesOnce'
  <2>1. op.call = "add"
    BY DEF Append
  <2>2. \A o \in Live : rec[o].name # op.name
    BY <2>1 DEF Inv, ScanSound, NamesOnce
  <2>3. Live' = Live \cup {Tail} /\ rec'[Tail].name = op.name
    BY DEF Live, Record
  <2>4. \A o \in Live : rec'[o].name = rec[o].name /\ o \in heads
    BY DEF Live
  <2> QED
    BY <1>1, <2>2, <2>3, <2>4, IdleIsScan DEF Inv, ScanSound, NamesOnce
<1>4. ScanSound'
  <2>1. \A o \in heads' : ~(o < 0)
    BY <1>2, Sizes DEF TypeOK
  <2> QED
    BY <1>1, <1>3, <2>1, IdleIsScan DEF ScanSound, KnownScan, OnChain, NothingMissed
<1> QED
  BY <1>2, <1>4, AppendChain, AppendIntact DEF Inv

-----------------------------------------------------------------------------
(***************************************************************************)
(* The invariant.                                                          *)
(***************************************************************************)
LEMMA NextInv == Inv /\ [Next]_vars => Inv'
<1> SUFFICES ASSUME Inv, [Next]_vars PROVE Inv'
  OBVIOUS
<1>1. CASE Ask
  BY <1>1, AskInv
<1>2. CASE GoOn
  BY <1>2, GoOnInv
<1>3. CASE Find
  <2>1. ret' \in {0, 1} \cup Files
    <3>1. CASE ~AtEnd /\ Hit /\ ret' = Here.inode
      BY <3>1, ScanGoesOn DEF Here, Inv, TypeOK, Records
    <3>2. CASE AtEnd /\ ret' = 0
      BY <3>2
    <3> QED
      BY <1>3, <3>1, <3>2 DEF Find
  <2> QED
    BY <1>3, <2>1, EndOfScan DEF Find
<1>4. CASE Remove
  BY <1>4, RemoveInv
<1>5. CASE Empty
  BY <1>5, EndOfScan DEF Empty
<1>6. CASE Append
  BY <1>6, AppendInv
<1>7. CASE Refuse
  BY <1>7, EndOfScan DEF Refuse
<1>8. CASE UNCHANGED vars
  BY <1>8 DEF vars, Inv, TypeOK, ChainWhole, RecordsIntact, ScanSound, KnownScan,
              OnChain, NothingMissed, NamesOnce, Live
<1> QED
  BY <1>1, <1>2, <1>3, <1>4, <1>5, <1>6, <1>7, <1>8 DEF Next

LEMMA InvHolds == Spec => []Inv
BY InitInv, NextInv, PTL DEF Spec

\* Every length that is stored is at most the block's, and every offset that a
\* scan uses lies in the block: rec_len, which is stored as 16 bits, and the
\* subtraction of what an entry takes never go below zero.
THEOREM TypeCorrect == Spec => []TypeOK
<1>1. Inv => TypeOK
  BY DEF Inv
<1> QED
  BY <1>1, InvHolds, PTL

\* rfss_add_directory_entry keeps the chain of records whole: they follow each
\* other from the block's first byte to its last, each long enough for the
\* name it has, for every size of block and names.
THEOREM ChainWholeHolds == Spec => []ChainWhole
<1>1. Inv => ChainWhole
  BY DEF Inv
<1> QED
  BY <1>1, InvHolds, PTL

\* No write of a whole rfss_dir_entry_t, of which an entry's name fills but a
\* part, touches another record or goes beyond the block.
THEOREM RecordsIntactHolds == Spec => []RecordsIntact
<1>1. Inv => RecordsIntact
  BY DEF Inv
<1> QED
  BY <1>1, InvHolds, PTL

\* The loops of rfss_find_file_in_directory, rfss_delete_file,
\* rfss_remove_directory and rfss_add_directory_entry step from record to
\* record, pass nothing that they look for, and find it once at most.
THEOREM ScanSoundHolds == Spec => []ScanSound
<1>1. Inv => ScanSound
  BY DEF Inv
<1> QED
  BY <1>1, InvHolds, PTL

-----------------------------------------------------------------------------
(***************************************************************************)
(* The block is a table of names.                                          *)
(***************************************************************************)
TableRequest == [call |-> op.call, name |-> op.name, inode |-> op.inode]

LEMMA TableInit == Init => Table!Init
<1> SUFFICES ASSUME Init PROVE Table!Init
  OBVIOUS
<1>1. Inv
  BY InitInv
<1>2. op = Idle /\ ret = 0
  BY DEF Init
<1>3. TableRequest = Table!NoRequest
  BY <1>2 DEF TableRequest, Idle, Scan, Table!NoRequest, Table!Request
<1>4. ASSUME NEW o \in Live PROVE <<rec[o].name, rec[o].inode>> \in Names \X Files
  <2>1. o \in heads /\ rec[o].inode # 0
    BY DEF Live
  <2>2. rec[o].name \in Names /\ o \in Offsets
    BY <1>1, <2>1, RecordInBlock
  <2> QED
    BY <1>1, <2>1, <2>2 DEF Inv, TypeOK, Records
<1>5. Entries \subseteq Names \X Files
  BY <1>4 DEF Entries
<1> QED
  BY <1>2, <1>3, <1>5 DEF Table!Init, TableRequest

\* A request is asked of the table as it is of the block.
LEMMA AskMaps == ASSUME Inv, Ask PROVE Table!Ask
<1>1. UNCHANGED <<rec, heads, ret>> /\ op = Idle
  BY DEF Ask
<1>2. UNCHANGED <<Entries, ret>>
  BY <1>1 DEF Entries, Live
<1>3. TableRequest = Table!NoRequest
  BY <1>1 DEF TableRequest, Idle, Scan, Table!NoRequest, Table!Request
<1>4. TableRequest' \in Table!Asked
  <2>1. CASE \E n \in Names : op' = Scan("find", n, 0)
    BY <2>1 DEF TableRequest, Scan, Table!Asked, Table!Request
  <2>2. CASE \E n \in Names, i \in Files :
               (\A o \in Live : rec[o].name # n) /\ op' = Scan("add", n, i)
    <3>1. PICK n \in Names, i \in Files :
            (\A o \in Live : rec[o].name # n) /\ op' = Scan("add", n, i)
      BY <2>2
    <3>2. \A e \in Entries : e[1] # n
      BY <3>1 DEF Entries
    <3>3. TableRequest' = Table!Request("add", n, i)
      BY <3>1 DEF TableRequest, Scan, Table!Request
    <3> QED
      BY <3>2, <3>3 DEF Table!Asked
  <2>3. CASE \E n \in Names, i \in Files : op' = Scan("remove", n, i)
    BY <2>3 DEF TableRequest, Scan, Table!Asked, Table!Request
  <2>4. CASE op' = Scan("empty", NoName, 0)
    BY <2>4 DEF TableRequest, Scan, Table!Asked, Table!Request
  <2> QED
    BY <2>1, <2>2, <2>3, <2>4 DEF Ask
<1> QED
  BY <1>2, <1>3, <1>4 DEF Table!Ask, TableRequest

LEMMA GoOnMaps == ASSUME Inv, GoOn PROVE UNCHANGED Table!vars
<1>1. UNCHANGED <<rec, heads, ret>> /\ UNCHANGED <<op.call, op.name, op.inode>>
  BY DEF GoOn, Inv, TypeOK, Scans
<1> QED
  BY <1>1 DEF Table!vars, Entries, Live

\* At the end of the block, the scan has passed every entry.
LEMMA AllPassed == ASSUME Inv, AtEnd, NEW o \in heads PROVE o < op.offset
<1>1. op.offset = BlockSize
  BY ScanEnds
<1> QED
  BY <1>1, Sizes DEF Inv, TypeOK

\* A scan that ends leaves no request.
LEMMA Answered == ASSUME op' = Idle PROVE TableRequest' = Table!NoRequest
BY DEF TableRequest, Idle, Scan, Table!NoRequest, Table!Request

LEMMA FindMaps == ASSUME Inv, Find PROVE Table!Answer
<1>1. op.call = "find" /\ op' = Idle /\ UNCHANGED <<rec, heads>>
  BY DEF Find
<1>2. UNCHANGED Entries
  BY <1>1 DEF Entries, Live
<1>3. CASE ~AtEnd /\ Hit /\ ret' = Here.inode
  <2>1. op.offset \in Live /\ Here.name = op.name
    BY <1>1, <1>3, ScanGoesOn DEF Hit, Live, Here
  <2>2. <<op.name, ret'>> \in Entries
    BY <1>3, <2>1 DEF Entries, Here
  <2> QED
    BY <1>1, <1>2, <2>2, Answered DEF Table!Answer, Table!Find, TableRequest
<1>4. CASE AtEnd /\ ret' = 0
  <2>1. ASSUME NEW o \in Live PROVE rec[o].name # op.name
    <3>1. o \in heads /\ rec[o].inode # 0 /\ o < op.offset
      BY <1>4, AllPassed DEF Live
    <3> QED
      BY <1>1, <3>1 DEF Inv, ScanSound, NothingMissed
  <2>2. \A e \in Entries : e[1] # op.name
    BY <2>1 DEF Entries
  <2> QED
    BY <1>1, <1>2, <1>4, <2>2, Answered DEF Table!Answer, Table!Find, TableRequest
<1> QED
  BY <1>3, <1>4 DEF Find

LEMMA EmptyMaps == ASSUME Inv, Empty PROVE Table!Answer
<1>1. op.call = "empty" /\ op' = Idle /\ UNCHANGED <<rec, heads>>
  BY DEF Empty
<1>2. UNCHANGED Entries
  BY <1>1 DEF Entries, Live
<1>3. ret' = IF Entries = {} THEN 1 ELSE 0
  <2>1. CASE ~AtEnd /\ Hit /\ ret' = 0
    <3>1. op.offset \in Live
      BY <1>1, <2>1, ScanGoesOn DEF Hit, Live, Here
    <3> QED
      BY <2>1, <3>1 DEF Entries
  <2>2. CASE AtEnd /\ ret' = 1
    <3>1. ASSUME NEW o \in Live PROVE FALSE
      <4>1. o \in heads /\ rec[o].inode # 0 /\ o < op.offset
        BY <2>2, AllPassed DEF Live
      <4> QED
        BY <1>1, <4>1 DEF Inv, ScanSound, NothingMissed
    <3> QED
      BY <2>2, <3>1 DEF Entries
  <2> QED
    BY <2>1, <2>2 DEF Empty
<1> QED
  BY <1>1, <1>2, <1>3, Answered DEF Table!Answer, Table!Empty, TableRequest

\* The entry that is cleared is the only one of its name, and when none is
\* cleared there was none.
LEMMA RemoveMaps == ASSUME Inv, Remove PROVE Table!Answer
<1>1. op.call = "remove" /\ op' = Idle /\ UNCHANGED <<heads, ret>>
  BY DEF Remove
<1>2. op.inode # 0
  BY <1>1, FilesAreInodes DEF Inv, ScanSound, KnownScan, Idle, Scan
<1>3. Entries' = Entries \ {<<op.name, op.inode>>}
  <2>1. CASE ~AtEnd /\ Hit /\ rec' = [rec EXCEPT ![op.offset].inode = 0]
    <3>1. op.offset \in heads /\ op.offset \in Offsets /\ heads \subseteq Offsets
          /\ rec \in [Offsets -> Records]
      BY <2>1, ScanGoesOn DEF Inv, TypeOK
    <3>2. rec[op.offset].inode = op.inode /\ rec[op.offset].name = op.name
      BY <1>1, <2>1 DEF Hit, Here
    <3>3. op.offset \in Live
      BY <1>2, <3>1, <3>2 DEF Live
    <3>4. \A o \in Offsets : rec'[o].name = rec[o].name
                            /\ rec'[o].inode = IF o = op.offset THEN 0 ELSE rec[o].inode
      BY <2>1, <3>1 DEF Records
    <3>5. Live' = Live \ {op.offset}
      BY <1>1, <3>1, <3>4 DEF Live
    <3>6. \A o \in Live : rec[o].name = op.name => o = op.offset
      BY <3>2, <3>3 DEF Inv, ScanSound, NamesOnce
    <3>7. ASSUME NEW e PROVE e \in Entries' <=> e \in Entries /\ e # <<op.name, op.inode>>
      <4>1. e \in Entries' <=> \E o \in Live \ {op.offset} : e = <<rec[o].name, rec[o].inode>>
        <5>1. \A o \in Live \ {op.offset} :
                rec'[o].name = rec[o].name /\ rec'[o].inode = rec[o].inode
          BY <3>1, <3>4 DEF Live
        <5> QED
          BY <3>5, <5>1 DEF Entries
      <4>2. e \in Entries <=> \E o \in Live : e = <<rec[o].name, rec[o].inode>>
        BY DEF Entries
      <4> QED
        BY <3>2, <3>3, <3>6, <4>1, <4>2
    <3> QED
      BY <3>7
  <2>2. CASE AtEnd /\ UNCHANGED rec
    <3>1. <<op.name, op.inode>> \notin Entries
      <4>1. ASSUME NEW o \in Live PROVE rec[o].inode # op.inode \/ rec[o].name # op.name
        BY <1>1, <2>2, AllPassed DEF Live, Inv, ScanSound, NothingMissed
      <4> QED
        BY <4>1 DEF Entries
    <3>2. UNCHANGED Entries
      BY <1>1, <2>2 DEF Entries, Live
    <3> QED
      BY <3>1, <3>2
  <2> QED
    BY <2>1, <2>2 DEF Remove
<1> QED
  BY <1>1, <1>3, Answered DEF Table!Answer, Table!Remove, TableRequest

LEMMA AppendMaps == ASSUME Inv, Append PROVE Table!Answer
<1> USE TailPlace, AppendedRecords
<1>1. op.call = "add" /\ op' = Idle /\ ret' = 1
  BY DEF Append
<1>2. rec'[Tail].name = op.name /\ rec'[Tail].inode = op.inode
  BY DEF Record
<1>3. Live' = Live \cup {Tail}
  BY <1>2 DEF Live
<1>4. \A o \in Live : rec'[o].name = rec[o].name /\ rec'[o].inode = rec[o].inode
  BY DEF Live
<1>5. Entries' = Entries \cup {<<op.name, op.inode>>}
  BY <1>2, <1>3, <1>4 DEF Entries
<1> QED
  BY <1>1, <1>5, Answered DEF Table!Answer, Table!Add, TableRequest

LEMMA RefuseMaps == ASSUME Inv, Refuse PROVE Table!Answer
<1>1. op.call = "add" /\ op' = Idle /\ ret' = 0 /\ UNCHANGED <<rec, heads>>
  BY DEF Refuse
<1>2. UNCHANGED Entries
  BY <1>1 DEF Entries, Live
<1> QED
  BY <1>1, <1>2, Answered DEF Table!Answer, Table!Add, TableRequest

\* The functions that scan a directory block treat it as a table of names: a
\* name is found exactly if it is there, with its inode, removing takes away
\* that entry and no other, and a block is called empty exactly if it is.
THEOREM TableHolds == Spec => TableImplemented
<1>1. Init => Table!Init
  BY TableInit
<1>2. Inv /\ [Next]_vars => [Table!Next]_(Table!vars)
  <2> SUFFICES ASSUME Inv, [Next]_vars PROVE [Table!Next]_(Table!vars)
    OBVIOUS
  <2>1. CASE Ask
    BY <2>1, AskMaps DEF Table!Next
  <2>2. CASE GoOn
    BY <2>2, GoOnMaps
  <2>3. CASE Find \/ Remove \/ Empty \/ Append \/ Refuse
    BY <2>3, FindMaps, RemoveMaps, EmptyMaps, AppendMaps, RefuseMaps DEF Table!Next
  <2>4. CASE UNCHANGED vars
    BY <2>4 DEF vars, Table!vars, Entries, Live
  <2> QED
    BY <2>1, <2>2, <2>3, <2>4 DEF Next
<1> QED
  BY <1>1, <1>2, InvHolds, PTL DEF Spec, Table!Spec, TableImplemented
=============================================================================
