---------------------------- MODULE AtaPio_proofs ----------------------------
(***************************************************************************)
(* Theorems about the ATA driver and the drive, for every number of        *)
(* blocks, sectors in a block and polls of a wait.                         *)
(***************************************************************************)
EXTENDS AtaPio, TLAPS

\* A sector of a block is a sector of the drive.
LEMMA SectorInRange ==
  ASSUME NEW b \in Blocks, NEW p \in Pieces
  PROVE  Sector(b, p) \in Sectors
<1>1. /\ TotalBlocks \in Nat \ {0} /\ SectorsPerBlock \in Nat \ {0}
      /\ b \in Nat /\ p \in Nat /\ b <= TotalBlocks - 1 /\ p <= SectorsPerBlock - 1
  BY SizesAssumption DEF Blocks, Pieces
<1>2. b * SectorsPerBlock <= (TotalBlocks - 1) * SectorsPerBlock
  BY <1>1
<1>3. (TotalBlocks - 1) * SectorsPerBlock = TotalBlocks * SectorsPerBlock - SectorsPerBlock
  BY <1>1
<1>4. b * SectorsPerBlock \in Nat /\ TotalBlocks * SectorsPerBlock \in Nat
  BY <1>1
<1> QED
  BY <1>1, <1>2, <1>3, <1>4 DEF Sector, Sectors

\* There is a sector 0, which holds piece 0 of a block.
LEMMA FirstSector == 0 \in Sectors /\ 0 \in Pieces /\ 0 \in Blocks
<1>1. 0 \in Blocks /\ 0 \in Pieces
  BY SizesAssumption DEF Blocks, Pieces
<1>2. Sector(0, 0) = 0
  BY SizesAssumption DEF Sector
<1> QED
  BY <1>1, <1>2, SectorInRange

\* Places in a grid of rows of n: a place has one row and one column.
LEMMA OneRowOneColumn ==
  ASSUME NEW n \in Nat \ {0}, NEW a \in Nat, NEW b \in Nat,
         NEW p \in 0 .. n - 1, NEW q \in 0 .. n - 1, a * n + p = b * n + q
  PROVE  a = b /\ p = q
<1>1. ASSUME NEW x \in Nat, NEW y \in Nat, x < y PROVE x * n + n <= y * n
  <2>1. y = x + 1 + (y - x - 1) /\ y - x - 1 \in Nat
    BY <1>1
  <2>2. \A k \in Nat : (x + 1 + k) * n = x * n + n + k * n /\ k * n >= 0
    OBVIOUS
  <2> QED
    BY <2>1, <2>2
<1>2. a * n \in Nat /\ b * n \in Nat
  OBVIOUS
<1>3. ~(a < b)
  BY <1>1, <1>2
<1>4. ~(b < a)
  BY <1>1, <1>2
<1>5. a = b
  BY <1>3, <1>4
<1> QED
  BY <1>2, <1>5

LEMMA Division ==
  ASSUME NEW n \in Nat \ {0}, NEW s \in Nat
  PROVE  \E a \in Nat, p \in 0 .. n - 1 : s = a * n + p /\ s % n = p
<1>1. s = (s \div n) * n + (s % n) /\ s % n \in 0 .. n - 1 /\ s \div n \in Nat
  OBVIOUS
<1> QED
  BY <1>1

\* Different pieces are in different sectors, piece p where it is expected.
LEMMA SectorsApart ==
  ASSUME NEW a \in Blocks, NEW b \in Blocks, NEW p \in Pieces, NEW q \in Pieces,
         Sector(a, p) = Sector(b, q)
  PROVE  a = b /\ p = q
BY SizesAssumption, OneRowOneColumn DEF Blocks, Pieces, Sector

LEMMA SectorPiece ==
  ASSUME NEW b \in Blocks, NEW p \in Pieces
  PROVE  Sector(b, p) % SectorsPerBlock = p
<1>1. b * SectorsPerBlock + p \in Nat
  BY SizesAssumption, b * SectorsPerBlock \in Nat DEF Blocks, Pieces
<1>2. PICK a \in Nat, q \in Pieces :
        /\ b * SectorsPerBlock + p = a * SectorsPerBlock + q
        /\ (b * SectorsPerBlock + p) % SectorsPerBlock = q
  BY <1>1, SizesAssumption, Division DEF Pieces
<1> QED
  BY <1>2, SizesAssumption, OneRowOneColumn DEF Blocks, Pieces, Sector

\* Every sector is the place of a piece.
LEMMA SectorsCovered ==
  ASSUME NEW s \in Sectors
  PROVE  \E b \in Blocks, p \in Pieces : s = Sector(b, p)
<1> DEFINE n == SectorsPerBlock
<1>1. n \in Nat \ {0} /\ TotalBlocks \in Nat \ {0} /\ s \in Nat /\ s < TotalBlocks * n
  BY SizesAssumption, TotalBlocks * SectorsPerBlock \in Nat DEF Sectors
<1> HIDE DEF n
<1>2. PICK a \in Nat, p \in 0 .. n - 1 : s = a * n + p
  BY <1>1, Division
<1>3. a <= TotalBlocks - 1
  <2>1. SUFFICES ASSUME a >= TotalBlocks PROVE FALSE
    BY <1>1, <1>2
  <2>2. PICK k \in Nat : a = TotalBlocks + k
    BY <1>1, <2>1, a - TotalBlocks \in Nat
  <2>3. /\ (TotalBlocks + k) * n = TotalBlocks * n + k * n
        /\ k * n >= 0 /\ TotalBlocks * n \in Nat /\ k * n \in Nat
    BY <1>1
  <2> QED
    BY <1>1, <1>2, <2>2, <2>3
<1>4. a \in Blocks /\ p \in Pieces
  BY <1>1, <1>2, <1>3 DEF n, Blocks, Pieces
<1> QED
  BY <1>2, <1>4 DEF n, Sector

-----------------------------------------------------------------------------
\* The type invariant is not inductive by itself: the next sector of a call is
\* counted up and looked up (the call must be a transfer then), and the drive
\* stores what it was given (which must be data).
TransferCalls == [op : {"read", "write"}, block : Blocks, piece : Pieces, data : Data]

CallInProgress ==
  /\ pc # "idle" => call # NoCall
  /\ pc \in {"stored", "flush", "flushed"} => call \in TransferCalls

StoresData == dev.cmd = "store" => dev.data \in Contents

InductiveType == TypeOK /\ CallInProgress /\ StoresData

\* The variables of the driver and those of the drive, each with its own part
\* of the invariant: a step of one leaves the other's part alone.
HostType ==
  /\ call \in Calls /\ pc \in Steps /\ timeout \in 0 .. Patience
  /\ buffer \in [Pieces -> Contents \cup {Garbage}]
  /\ ret \in {"none", "ok", "failed"} /\ exists \in BOOLEAN
  /\ CallInProgress

Registers == [bsy : BOOLEAN, drq : BOOLEAN, err : BOOLEAN, cmd : Commands,
              lba : Sectors, data : Contents \cup {Garbage}, awaited : BOOLEAN]

DevType == dev \in Registers /\ StoresData
StorageType ==
  /\ cache \in [Sectors -> Contents] /\ disk \in [Sectors -> Contents]
  /\ missed \in BOOLEAN

LEMMA Parts == InductiveType <=> HostType /\ DevType /\ StorageType
BY DEF InductiveType, TypeOK, HostType, DevType, Registers, StorageType

LEMMA CallShapes ==
  ASSUME HostType, pc # "idle"
  PROVE  \/ call = [op |-> "identify"]
         \/ call \in TransferCalls
BY DEF HostType, CallInProgress, Calls, TransferCalls

\* The sector that a call is at is one of the drive.
LEMMA LbaInRange ==
  ASSUME HostType, pc # "idle"
  PROVE  Lba \in Sectors
<1>1. CASE call = [op |-> "identify"]
  BY <1>1, FirstSector DEF Lba
<1>2. CASE call \in TransferCalls
  BY <1>2, SectorInRange DEF Lba, TransferCalls
<1> QED
  BY <1>1, <1>2, CallShapes

LEMMA PoweredOnType == PoweredOn \in Registers /\ BlankBuffer \in [Pieces -> Contents \cup {Garbage}]
BY FirstSector DEF PoweredOn, BlankBuffer, Registers, Commands

LEMMA TypeInit == Init => InductiveType
<1> SUFFICES ASSUME Init PROVE InductiveType
  OBVIOUS
<1>1. HostType
  <2>1. 0 \in 0 .. Patience
    BY SizesAssumption
  <2>2. call # NoCall /\ call \in Calls
    BY DEF Init, NoCall, Calls
  <2> QED
    BY <2>1, <2>2, PoweredOnType DEF Init, HostType, CallInProgress, Steps
<1>2. DevType
  BY PoweredOnType DEF Init, DevType, StoresData, PoweredOn
<1>3. StorageType
  <2>1. PICK d \in Data : disk = [s \in Sectors |-> <<d, s % SectorsPerBlock>>]
    BY DEF Init
  <2>2. ASSUME NEW s \in Sectors PROVE s % SectorsPerBlock \in Pieces
    BY SizesAssumption DEF Sectors, Pieces
  <2> QED
    BY <2>1, <2>2 DEF Init, StorageType, Contents
<1> QED
  BY <1>1, <1>2, <1>3, Parts

-----------------------------------------------------------------------------
\* The driver's moves from one place to the next.
LEMMA MoveType ==
  ASSUME HostType, pc # "idle", NEW step \in Steps \ {"idle"},
         step \in {"stored", "flush", "flushed"} => call \in TransferCalls,
         Goto(step) \/ Wait(step)
  PROVE  HostType'
<1>1. timeout' \in 0 .. Patience
  BY SizesAssumption DEF Goto, Wait
<1> QED
  BY <1>1 DEF HostType, CallInProgress, Goto, Wait

LEMMA ReturnType ==
  ASSUME HostType, NEW status \in {"none", "ok", "failed"}, Return(status),
         UNCHANGED buffer, exists' \in BOOLEAN
  PROVE  HostType'
<1>1. timeout' \in 0 .. Patience
  BY SizesAssumption DEF Return
<1>2. NoCall \in Calls /\ "idle" \in Steps
  BY DEF Calls, Steps
<1> QED
  BY <1>1, <1>2 DEF HostType, CallInProgress, Return

LEMMA NextPieceType ==
  ASSUME HostType, call \in TransferCalls, NextPiece
  PROVE  HostType'
<1>1. CASE LastPiece
  BY <1>1, ReturnType DEF NextPiece, HostType
<1>2. CASE ~LastPiece
  <2>1. call' \in TransferCalls
    <3>1. call.piece \in Pieces /\ call.piece # SectorsPerBlock - 1
      BY <1>2 DEF TransferCalls, LastPiece
    <3>2. call.piece + 1 \in Pieces
      BY <3>1, SizesAssumption DEF Pieces
    <3>3. call' = [call EXCEPT !.piece = @ + 1]
      BY <1>2 DEF NextPiece
    <3> QED
      BY <3>2, <3>3 DEF TransferCalls
  <2>2. call' \in Calls /\ call' # NoCall
    BY <2>1 DEF Calls, TransferCalls, NoCall
  <2>3. timeout' \in 0 .. Patience
    BY <1>2, SizesAssumption DEF NextPiece
  <2> QED
    BY <1>2, <2>2, <2>3 DEF NextPiece, HostType, CallInProgress, Steps
<1> QED
  BY <1>1, <1>2

\* One poll of a wait, whose next step keeps the types.
LEMMA UntilType ==
  ASSUME HostType, DevType, StorageType, NEW done \in BOOLEAN, NEW step, Until(done, step),
         step => HostType'
  PROVE  HostType' /\ DevType' /\ StorageType'
<1>1. CASE done /\ timeout > 0 /\ step /\ UNCHANGED devVars
  BY <1>1 DEF devVars, DevType, StoresData, StorageType
<1>2. CASE GivesUp /\ Return("failed") /\ UNCHANGED <<buffer, exists>> /\ UNCHANGED devVars
  <2>1. HostType'
    BY <1>2, ReturnType DEF HostType
  <2> QED
    BY <1>2, <2>1 DEF devVars, DevType, StoresData, StorageType
<1>3. CASE /\ ~done /\ timeout > 0 /\ timeout' = timeout - 1
           /\ dev' = [dev EXCEPT !.awaited = (@ /\ timeout > 1)]
           /\ UNCHANGED <<call, pc, buffer, ret, exists, cache, disk, missed>>
  <2>1. timeout' \in 0 .. Patience
    BY <1>3, SizesAssumption DEF HostType
  <2>2. HostType'
    BY <1>3, <2>1 DEF HostType, CallInProgress
  <2>3. (timeout > 1) \in BOOLEAN
    OBVIOUS
  <2>4. DevType'
    BY <1>3, <2>3 DEF DevType, Registers, StoresData
  <2> QED
    BY <1>3, <2>2, <2>4 DEF StorageType
<1> QED
  BY <1>1, <1>2, <1>3 DEF Until

LEMMA AcceptType ==
  ASSUME DevType, NEW cmd \in {"identify", "read", "write", "flush"}, Accept(cmd)
  PROVE  DevType'
BY DEF DevType, Registers, StoresData, Accept, Commands

-----------------------------------------------------------------------------
LEMMA BeginType == HostType /\ Begin => HostType'
<1> SUFFICES ASSUME HostType, Begin PROVE HostType'
  OBVIOUS
<1> USE DEF HostType
<1>1. buffer' = BlankBuffer /\ buffer' \in [Pieces -> Contents \cup {Garbage}]
  BY PoweredOnType DEF Begin
<1>2. PICK op \in {"read", "write"}, b \in 0 .. TotalBlocks, d \in Data :
        \/ /\ exists /\ InRange(b)
           /\ call' = [op |-> op, block |-> b, piece |-> 0, data |-> d]
           /\ pc' = "registers" /\ ret' = "none"
        \/ /\ ~(exists /\ InRange(b))
           /\ ret' = "failed" /\ UNCHANGED <<call, pc>>
  BY DEF Begin
<1>3. CASE exists /\ InRange(b)
  <2>1. b \in Blocks
    BY <1>3, SizesAssumption DEF InRange, Blocks
  <2>2. call' \in Calls /\ call' # NoCall
    BY <1>2, <1>3, <2>1, FirstSector DEF Calls, NoCall
  <2> QED
    BY <1>1, <1>2, <1>3, <2>2 DEF Begin, CallInProgress, Steps
<1>4. CASE ~(exists /\ InRange(b))
  BY <1>1, <1>2, <1>4 DEF Begin, CallInProgress
<1> QED
  BY <1>3, <1>4

\* The driver's own steps.
LEMMA StepType ==
  ASSUME HostType, DevType, StorageType, Step
  PROVE  HostType' /\ DevType' /\ StorageType'
<1>1. CASE SetRegisters
  <2>1. HostType'
    BY <1>1, MoveType DEF SetRegisters, Steps
  <2>2. Lba \in Sectors
    BY <1>1, LbaInRange DEF SetRegisters
  <2>3. DevType'
    BY <1>1, <2>2 DEF SetRegisters, DevType, Registers, StoresData
  <2> QED
    BY <1>1, <2>1, <2>3 DEF SetRegisters, StorageType
<1>2. CASE Command
  <2>1. HostType'
    BY <1>2, MoveType DEF Command, Steps
  <2>2. call.op \in {"identify", "read", "write"}
    BY <1>2, CallShapes DEF Command, TransferCalls
  <2>3. DevType'
    BY <1>2, <2>2, AcceptType DEF Command
  <2> QED
    BY <1>2, <2>1, <2>3 DEF Command, StorageType
<1>3. CASE WaitReady
  <2>1. Goto("check") => HostType'
    BY <1>3, MoveType DEF WaitReady, Steps
  <2>2. (~dev.bsy) \in BOOLEAN
    OBVIOUS
  <2> QED
    BY <1>3, <2>1, <2>2, UntilType DEF WaitReady
<1>4. CASE CheckError
  <2>1. HostType'
    <3>1. CASE Return("failed") /\ UNCHANGED <<buffer, exists>>
      BY <3>1, ReturnType DEF HostType
    <3>2. CASE Wait("drq")
      BY <1>4, <3>2, MoveType DEF CheckError, Steps
    <3> QED
      BY <1>4, <3>1, <3>2 DEF CheckError
  <2> QED
    BY <1>4, <2>1 DEF CheckError, devVars, DevType, StoresData, StorageType
<1>5. CASE WaitData
  <2>1. Goto("transfer") => HostType'
    BY <1>5, MoveType DEF WaitData, Steps
  <2>2. dev.drq \in BOOLEAN
    BY DEF DevType, Registers
  <2> QED
    BY <1>5, <2>1, <2>2, UntilType DEF WaitData
<1>6. CASE Transfer
  <2>1. CASE call.op = "identify"
    <3>1. HostType'
      BY <1>6, <2>1, ReturnType DEF Transfer, Identified
    <3>2. DevType'
      BY <1>6, <2>1 DEF Transfer, DevType, Registers, StoresData, Commands
    <3> QED
      BY <1>6, <3>1, <3>2 DEF Transfer, StorageType
  <2>2. CASE call \in TransferCalls
    <3>1. call.op \in {"read", "write"} /\ <<call.data, call.piece>> \in Contents
      BY <2>2 DEF TransferCalls, Contents
    <3>2. DevType'
      BY <1>6, <3>1 DEF Transfer, DevType, Registers, StoresData, Commands
    <3>3. CASE call.op = "write"
      <4>1. HostType'
        BY <1>6, <2>2, <3>3, MoveType DEF Transfer, Steps
      <4> QED
        BY <1>6, <3>2, <4>1 DEF Transfer, StorageType
    <3>4. CASE call.op = "read"
      <4>1. buffer' \in [Pieces -> Contents \cup {Garbage}]
        BY <1>6, <3>4 DEF Transfer, HostType, DevType, Registers
      <4>2. timeout' \in 0 .. Patience /\ pc' = "stored" /\ UNCHANGED <<call, ret, exists>>
        BY <1>6, <3>4, SizesAssumption DEF Transfer
      <4>3. call # NoCall
        BY <3>1 DEF NoCall
      <4>4. HostType'
        BY <2>2, <4>1, <4>2, <4>3 DEF HostType, CallInProgress, Steps
      <4> QED
        BY <1>6, <3>2, <4>4 DEF Transfer, StorageType
    <3> QED
      BY <3>1, <3>3, <3>4
  <2> QED
    BY <1>6, <2>1, <2>2, CallShapes DEF Transfer
<1>7. CASE WaitStored
  <2>1. call \in TransferCalls
    BY <1>7 DEF WaitStored, HostType, CallInProgress
  <2>2. AfterData => HostType'
    BY <1>7, <2>1, NextPieceType, MoveType DEF WaitStored, AfterData, Steps
  <2>3. (~dev.bsy) \in BOOLEAN
    OBVIOUS
  <2> QED
    BY <1>7, <2>2, <2>3, UntilType DEF WaitStored
<1>8. CASE Flush
  <2>1. call \in TransferCalls
    BY <1>8 DEF Flush, HostType, CallInProgress
  <2>2. HostType'
    BY <1>8, <2>1, MoveType DEF Flush, Steps
  <2>3. DevType'
    BY <1>8, AcceptType DEF Flush
  <2> QED
    BY <1>8, <2>2, <2>3 DEF Flush, StorageType
<1>9. CASE WaitFlushed
  <2>1. call \in TransferCalls
    BY <1>9 DEF WaitFlushed, HostType, CallInProgress
  <2>2. NextPiece => HostType'
    BY <2>1, NextPieceType
  <2>3. (~dev.bsy) \in BOOLEAN
    OBVIOUS
  <2> QED
    BY <1>9, <2>2, <2>3, UntilType DEF WaitFlushed
<1> QED
  BY <1>1, <1>2, <1>3, <1>4, <1>5, <1>6, <1>7, <1>8, <1>9 DEF Step

\* The drive's own steps.
LEMMA DriveType ==
  ASSUME DevType, StorageType, Answer \/ ReportError \/ WriteBack
  PROVE  DevType' /\ StorageType'
<1>1. CASE Answer
  <2>1. dev.lba \in Sectors /\ cache[dev.lba] \in Contents
    BY DEF DevType, Registers, StorageType
  <2>2. CASE dev.cmd \in {"read", "identify", "write"}
    BY <1>1, <2>1, <2>2 DEF Answer, Finish, Offer, DevType, Registers, StoresData, StorageType
  <2>3. CASE dev.cmd \in {"store", "flush"}
    BY <1>1, <2>1, <2>3
    DEF Answer, Finish, DevType, Registers, StoresData, StorageType, Commands
  <2> QED
    BY <1>1, <2>2, <2>3 DEF Answer, Finish
<1>2. CASE ReportError
  BY <1>2 DEF ReportError, DevType, Registers, StoresData, StorageType, Commands
<1>3. CASE WriteBack
  BY <1>3 DEF WriteBack, DevType, StoresData, StorageType
<1> QED
  BY <1>1, <1>2, <1>3

LEMMA TypeNext == InductiveType /\ [Next]_vars => InductiveType'
<1> SUFFICES ASSUME HostType, DevType, StorageType, [Next]_vars
             PROVE  HostType' /\ DevType' /\ StorageType'
  BY Parts DEF InductiveType, TypeOK, HostType, DevType, Registers, StorageType,
               CallInProgress, StoresData
<1>1. CASE Begin
  BY <1>1, BeginType DEF Begin, devVars, DevType, StoresData, StorageType
<1>2. CASE NoDrive
  <2>1. HostType'
    BY <1>2, ReturnType DEF NoDrive, HostType
  <2> QED
    BY <1>2, <2>1 DEF NoDrive, devVars, DevType, StoresData, StorageType
<1>3. CASE Step
  BY <1>3, StepType
<1>4. CASE Answer \/ ReportError \/ WriteBack
  BY <1>4, DriveType
  DEF Answer, ReportError, WriteBack, hostVars, HostType, CallInProgress
<1>5. CASE PowerCut
  <2>1. [op |-> "identify"] \in Calls /\ [op |-> "identify"] # NoCall /\ 0 \in 0 .. Patience
    BY SizesAssumption DEF Calls, NoCall
  <2>2. HostType'
    BY <1>5, <2>1, PoweredOnType DEF PowerCut, HostType, CallInProgress, Steps
  <2>3. DevType'
    BY <1>5, PoweredOnType DEF PowerCut, PoweredOn, DevType, StoresData
  <2> QED
    BY <1>5, <2>2, <2>3 DEF PowerCut, StorageType
<1>6. CASE UNCHANGED vars
  BY <1>6 DEF vars, HostType, CallInProgress, DevType, StoresData, StorageType
<1> QED
  BY <1>1, <1>2, <1>3, <1>4, <1>5, <1>6 DEF Next

\* ata_read_sectors and ata_write_sectors only ever ask for sectors of the
\* drive, piece after piece of a block, and what the drive stores is always what
\* some transfer gave it, whatever the drive answers, fails to answer or answers
\* too late.
THEOREM TypeCorrect == Spec => []TypeOK
<1>1. InductiveType => TypeOK
  BY DEF InductiveType
<1> QED
  BY <1>1, TypeInit, TypeNext, PTL DEF Spec

-----------------------------------------------------------------------------
(***************************************************************************)
(* KnownState: where the drive is, as far as the driver may know.          *)
(***************************************************************************)
LEMMA OneCallInit == Init => OneCall
BY DEF Init, OneCall, NoCall

LEMMA OneCallNext == HostType /\ OneCall /\ [Next]_vars => OneCall'
<1> SUFFICES ASSUME HostType, OneCall, [Next]_vars PROVE OneCall'
  OBVIOUS
<1> USE DEF OneCall
<1>0. NoCall.op = "none" /\ NoCall # [op |-> "identify"]
  BY DEF NoCall
<1>1. ASSUME NEW status, Return(status) PROVE OneCall'
  BY <1>0, <1>1 DEF Return
<1>2. ASSUME NEW step \in Steps \ {"idle"}, pc # "idle", Goto(step) \/ Wait(step)
      PROVE  OneCall'
  BY <1>2 DEF Goto, Wait
<1>3. ASSUME call \in TransferCalls, pc # "idle", NextPiece PROVE OneCall'
  <2>1. CASE LastPiece
    BY <1>1, <1>3, <2>1 DEF NextPiece
  <2>2. CASE ~LastPiece
    <3>1. call'.op = call.op /\ call'.op \in {"read", "write"}
      BY <1>3, <2>2 DEF NextPiece, TransferCalls
    <3> QED
      BY <1>0, <1>3, <2>2, <3>1 DEF NextPiece
  <2> QED
    BY <2>1, <2>2
<1>4. ASSUME NEW done, NEW step, Until(done, step), step => OneCall'
      PROVE  OneCall'
  BY <1>1, <1>4 DEF Until
<1>5. CASE Begin
  BY <1>0, <1>5 DEF Begin
<1>6. CASE NoDrive
  BY <1>1, <1>6 DEF NoDrive
<1>7. CASE SetRegisters
  BY <1>2, <1>7 DEF SetRegisters, Steps
<1>8. CASE Command
  BY <1>2, <1>8 DEF Command, Steps
<1>9. CASE WaitReady
  BY <1>2, <1>4, <1>9 DEF WaitReady, Steps
<1>10. CASE CheckError
  BY <1>1, <1>2, <1>10 DEF CheckError, Steps
<1>11. CASE WaitData
  BY <1>2, <1>4, <1>11 DEF WaitData, Steps
<1>12. CASE Transfer
  <2>1. CASE call.op = "identify"
    BY <1>1, <1>12, <2>1 DEF Transfer, Identified
  <2>2. CASE call.op = "read"
    BY <1>12, <2>2 DEF Transfer
  <2>3. CASE call.op = "write"
    BY <1>2, <1>12, <2>3 DEF Transfer, Steps
  <2> QED
    BY <1>12, <2>1, <2>2, <2>3 DEF Transfer
<1>13. CASE WaitStored
  <2>1. call \in TransferCalls /\ pc # "idle"
    BY <1>13 DEF WaitStored, HostType, CallInProgress
  <2>2. AfterData => OneCall'
    BY <1>2, <1>3, <2>1 DEF AfterData, Steps
  <2> QED
    BY <1>4, <1>13, <2>2 DEF WaitStored
<1>14. CASE Flush
  BY <1>2, <1>14 DEF Flush, Steps
<1>15. CASE WaitFlushed
  <2>1. call \in TransferCalls /\ pc # "idle"
    BY <1>15 DEF WaitFlushed, HostType, CallInProgress
  <2> QED
    BY <1>3, <1>4, <1>15, <2>1 DEF WaitFlushed
<1>16. CASE Answer \/ ReportError \/ WriteBack
  BY <1>16 DEF Answer, ReportError, WriteBack, hostVars
<1>17. CASE PowerCut
  BY <1>0, <1>17 DEF PowerCut
<1>18. CASE UNCHANGED vars
  BY <1>18 DEF vars
<1> QED
  BY <1>5, <1>6, <1>7, <1>8, <1>9, <1>10, <1>11, <1>12, <1>13, <1>14, <1>15,
     <1>16, <1>17, <1>18 DEF Next, Step

\* Once the wait for a command has run out, nothing that the driver does gets
\* the drive out of it.
LEMMA StuckStays ==
  ASSUME HostType, DevType, Stuck, Begin \/ NoDrive \/ Step \/ WriteBack
  PROVE  Stuck'
<1> USE DEF Stuck
<1>1. ASSUME NEW step, Until(~dev.bsy, step), pc \in {"busy", "stored", "flushed"}
      PROVE  Stuck'
  <2>1. CASE timeout > 0
    <3>1. dev.bsy /\ ~dev.awaited
      OBVIOUS
    <3>2. dev'.bsy /\ ~dev'.awaited /\ pc' = pc /\ pc = "busy"
      BY <1>1, <2>1, <3>1 DEF Until, GivesUp, DevType, Registers
    <3> QED
      BY <3>2
  <2>2. CASE ~(timeout > 0)
    BY <1>1, <2>2 DEF Until, GivesUp, Return, devVars, HostType
  <2> QED
    BY <2>1, <2>2
<1>2. CASE Begin
  BY <1>2 DEF Begin, devVars
<1>3. CASE NoDrive
  BY <1>3 DEF NoDrive, Return, devVars
<1>4. CASE SetRegisters
  BY <1>4 DEF SetRegisters, Listening, Goto
<1>5. CASE Command
  BY <1>5 DEF Command, Accept, Listening, Wait
<1>6. CASE WaitReady \/ WaitStored \/ WaitFlushed
  BY <1>1, <1>6 DEF WaitReady, WaitStored, WaitFlushed
<1>7. CASE CheckError \/ WaitData \/ Transfer \/ Flush
  BY <1>7 DEF CheckError, WaitData, Transfer, Flush
<1>8. CASE WriteBack
  BY <1>8 DEF WriteBack, hostVars
<1> QED
  BY <1>2, <1>3, <1>4, <1>5, <1>6, <1>7, <1>8 DEF Step

-----------------------------------------------------------------------------
\* What stays as it is when only the place in the program changes.
LEMMA SameCall ==
  ASSUME UNCHANGED call
  PROVE  Lba' = Lba /\ Given' = Given
BY DEF Lba, Given

LEMMA StepsBeforeData ==
  ASSUME HostType, DevType, StorageType, OneCall, Working,
         Begin \/ NoDrive \/ SetRegisters \/ Command \/ CheckError \/ WaitData
  PROVE  Working'
<1> USE DEF Working, BeforeData
<1>1. CASE Begin
  <2>1. UNCHANGED devVars /\ pc = "idle"
    BY <1>1 DEF Begin
  <2>2. pc' \in {"idle", "registers"} /\ Progress'
    <3>1. PICK op \in {"read", "write"}, b \in 0 .. TotalBlocks, d \in Data :
            \/ /\ call' = [op |-> op, block |-> b, piece |-> 0, data |-> d]
               /\ pc' = "registers"
            \/ UNCHANGED <<call, pc>>
      BY <1>1 DEF Begin
    <3>2. CASE UNCHANGED <<call, pc>>
      BY <2>1, <3>2 DEF OneCall, NoCall, Progress
    <3>3. CASE call' = [op |-> op, block |-> b, piece |-> 0, data |-> d] /\ pc' = "registers"
      <4>1. \A q \in Pieces : ~(q < 0)
        BY SizesAssumption DEF Pieces
      <4> QED
        BY <3>3, <4>1 DEF Progress
    <3> QED
      BY <3>1, <3>2, <3>3, <2>1
  <2> QED
    BY <2>1, <2>2 DEF devVars, Quiet
<1>2. CASE NoDrive
  BY <1>2 DEF NoDrive, Return, devVars, Quiet, NoCall, Progress
<1>3. CASE SetRegisters
  <2>1. dev' = [dev EXCEPT !.lba = Lba]
    BY <1>3 DEF SetRegisters, Quiet, Listening
  <2> QED
    BY <1>3, <2>1, SameCall DEF SetRegisters, Goto, Quiet, Progress, DevType, Registers
<1>4. CASE Command
  <2>1. dev' = [dev EXCEPT !.bsy = TRUE, !.err = FALSE, !.cmd = call.op, !.awaited = TRUE]
    BY <1>4 DEF Command, Accept, Quiet, Listening
  <2>2. Busy(call.op)' /\ ~dev'.err /\ dev'.awaited /\ dev'.lba = Lba
    BY <1>4, <2>1 DEF Command, Busy, Quiet, Wait, DevType, Registers
  <2>3. timeout' > 0
    BY <1>4, SizesAssumption DEF Command, Wait
  <2> QED
    BY <1>4, <2>2, <2>3, SameCall DEF Command, Wait, Progress
<1>5. CASE CheckError
  <2>1. CASE dev.err
    <3>1. Return("failed") /\ Quiet
      BY <1>5, <2>1 DEF CheckError, Offering, Refused, Wait, Return
    <3> QED
      BY <1>5, <3>1 DEF CheckError, Return, devVars, Quiet, NoCall, Progress
  <2>2. CASE ~dev.err
    <3>1. Wait("drq") /\ Offering
      BY <1>5, <2>2 DEF CheckError, Offering, Refused
    <3>2. timeout' > 0
      BY <3>1, SizesAssumption DEF Wait
    <3> QED
      BY <1>5, <3>1, <3>2, SameCall DEF CheckError, Wait, devVars, Offering, Progress
  <2> QED
    BY <2>1, <2>2
<1>6. CASE WaitData
  <2>1. Offering /\ timeout > 0 /\ dev.drq /\ pc = "drq"
    BY <1>6 DEF WaitData, Offering
  <2>2. Goto("transfer") /\ UNCHANGED devVars
    BY <1>6, <2>1 DEF WaitData, Until, GivesUp
  <2> QED
    BY <2>1, <2>2, SameCall DEF Goto, devVars, Offering, Progress
<1> QED
  BY <1>1, <1>2, <1>3, <1>4, <1>5, <1>6

\* A poll that does not see what it waits for: the wait goes on, or has run out.
LEMMA PollMissed ==
  ASSUME HostType, DevType, dev.awaited, timeout > 0,
         timeout' = timeout - 1,
         dev' = [dev EXCEPT !.awaited = (@ /\ timeout > 1)]
  PROVE  /\ UNCHANGED <<dev.bsy, dev.drq, dev.err, dev.cmd, dev.lba, dev.data>>
         /\ \/ dev'.awaited /\ timeout' > 0
            \/ ~dev'.awaited /\ timeout' = 0
<1>1. timeout \in Nat /\ dev \in Registers
  BY SizesAssumption DEF HostType, DevType
<1>2. (timeout > 1 => dev'.awaited) /\ (~(timeout > 1) => ~dev'.awaited)
  BY <1>1 DEF Registers
<1>3. UNCHANGED <<dev.bsy, dev.drq, dev.err, dev.cmd, dev.lba, dev.data>>
  BY <1>1 DEF Registers
<1>4. (timeout > 1 => timeout' > 0) /\ (~(timeout > 1) => timeout' = 0)
  BY <1>1
<1> QED
  BY <1>2, <1>3, <1>4

LEMMA WaitReadyWorks ==
  ASSUME HostType, DevType, OneCall, Working, WaitReady
  PROVE  Stuck' \/ Working'
<1> USE DEF Working, BeforeData
<1>1. pc = "busy" /\ timeout > 0 /\ Until(~dev.bsy, Goto("check"))
  BY DEF WaitReady
<1>2. CASE ~dev.bsy
  <2>1. (Offering \/ Refused) /\ Goto("check") /\ UNCHANGED devVars
    BY <1>1, <1>2 DEF Busy, Until, GivesUp
  <2> QED
    BY <1>1, <2>1, SameCall DEF Goto, devVars, Offering, Refused, Quiet, Progress
<1>3. CASE dev.bsy
  <2>1. /\ timeout' = timeout - 1
        /\ dev' = [dev EXCEPT !.awaited = (@ /\ timeout > 1)]
        /\ UNCHANGED <<call, pc, buffer, ret, exists, cache, disk, missed>>
    BY <1>1, <1>3 DEF Until, GivesUp
  <2>2. Busy(call.op) /\ ~dev.err
    BY <1>1, <1>3 DEF Offering, Refused, Quiet
  <2>3. Busy(call.op)' /\ ~dev'.err /\ dev'.lba = Lba
    BY <1>1, <2>1, <2>2, PollMissed DEF Busy
  <2> QED
    BY <1>1, <2>1, <2>3, PollMissed, SameCall DEF Stuck, Busy, Progress
<1> QED
  BY <1>2, <1>3

LEMMA TransferWorks ==
  ASSUME HostType, DevType, StorageType, OneCall, Working, Transfer
  PROVE  Working'
<1> USE DEF Working, BeforeData
<1>1. pc = "transfer" /\ Offering /\ dev.lba = Lba /\ cache = disk /\ dev \in Registers
  BY DEF Transfer, DevType
<1>2. UNCHANGED <<cache, disk>>
  BY DEF Transfer
<1>3. CASE call.op = "identify"
  <2>1. dev' = [dev EXCEPT !.drq = FALSE, !.cmd = "none", !.data = Garbage]
    BY <1>1, <1>3 DEF Transfer, Offering
  <2>2. Return("none")
    BY <1>1, <1>3 DEF Transfer, Identified
  <2> QED
    BY <1>1, <1>2, <2>1, <2>2 DEF Return, Quiet, Offering, Registers, NoCall, Progress
<1>4. CASE call.op = "read"
  <2>1. dev' = [dev EXCEPT !.drq = FALSE, !.cmd = "none", !.data = Garbage]
    BY <1>1, <1>4 DEF Transfer, Offering
  <2>2. /\ buffer' = [buffer EXCEPT ![call.piece] = dev.data]
        /\ pc' = "stored" /\ timeout' = Patience /\ UNCHANGED call
    BY <1>1, <1>4 DEF Transfer, Offering
  <2>3. Storing'
    BY <1>1, <1>2, <1>4, <2>1, <2>2, SizesAssumption DEF Storing, Quiet, Offering, Registers
  <2>4. call \in TransferCalls
    BY <1>1, <1>4, CallShapes
  <2>5. Lba = Sector(call.block, call.piece)
    BY <1>4 DEF Lba
  <2>6. ASSUME NEW q \in Pieces, q < call.piece \/ q = call.piece
        PROVE  buffer'[q] = disk[Sector(call.block, q)]
    <3>1. CASE q = call.piece
      BY <1>1, <1>4, <2>2, <2>5, <3>1 DEF Offering, HostType
    <3>2. CASE q < call.piece
      <4>1. q # call.piece
        BY <2>4, <3>2, SizesAssumption DEF TransferCalls, Pieces
      <4>2. buffer[q] = disk[Sector(call.block, q)]
        BY <1>4, <3>2 DEF Progress
      <4> QED
        BY <2>2, <4>1, <4>2 DEF HostType
    <3> QED
      BY <2>6, <3>1, <3>2
  <2>7. Progress'
    BY <1>2, <1>4, <2>2, <2>6 DEF Progress
  <2> QED
    BY <1>1, <2>1, <2>2, <2>3, <2>7 DEF Registers
<1>5. CASE call.op = "write"
  <2>1. dev' = [dev EXCEPT !.bsy = TRUE, !.drq = FALSE, !.cmd = "store", !.data = Given]
    BY <1>1, <1>5 DEF Transfer, Offering, Given
  <2>2. Wait("stored")
    BY <1>5 DEF Transfer
  <2>3. Busy("store")' /\ dev'.lba = Lba /\ dev'.data = Given /\ dev'.awaited
    BY <1>1, <2>1 DEF Busy, Registers
  <2>4. Storing'
    BY <1>1, <1>2, <1>5, <2>2, <2>3, SameCall, SizesAssumption DEF Storing, Wait
  <2> QED
    BY <1>1, <1>2, <1>5, <2>2, <2>3, <2>4 DEF Wait, Progress
<1> QED
  BY <1>3, <1>4, <1>5 DEF Transfer

\* From one piece of a block to the next.
LEMMA NextPieceWorks ==
  ASSUME HostType, DevType, StorageType, OneCall, call \in TransferCalls,
         NextPiece, UNCHANGED devVars,
         dev.awaited, Quiet, cache = disk,
         call.op = "read" => pc = "stored",
         call.op = "write" => disk[Lba] = Given,
         Progress
  PROVE  Working'
<1>1. CASE LastPiece
  BY <1>1 DEF NextPiece, Return, Working, BeforeData, devVars, Quiet, NoCall, Progress
<1>2. CASE ~LastPiece
  <2>1. call' = [call EXCEPT !.piece = @ + 1] /\ pc' = "registers" /\ UNCHANGED buffer
    BY <1>2 DEF NextPiece
  <2>2. /\ call'.op = call.op /\ call'.block = call.block /\ call'.data = call.data
        /\ call'.piece = call.piece + 1
    BY <2>1 DEF TransferCalls
  <2>3. \A q \in Pieces : q < call.piece + 1 => q < call.piece \/ q = call.piece
    BY SizesAssumption DEF TransferCalls, Pieces
  <2>4. call.op = "write" => disk[Sector(call.block, call.piece)] = <<call.data, call.piece>>
    BY DEF Lba, Given
  <2>5. Progress'
    BY <2>1, <2>2, <2>3, <2>4 DEF Progress, devVars
  <2> QED
    BY <2>1, <2>5 DEF Working, BeforeData, devVars, Quiet
<1> QED
  BY <1>1, <1>2

LEMMA WaitStoredWorks ==
  ASSUME HostType, DevType, StorageType, OneCall, Working, WaitStored
  PROVE  Stuck' \/ Working'
<1> USE DEF Working
<1>1. /\ pc = "stored" /\ timeout > 0 /\ Storing /\ Until(~dev.bsy, AfterData)
      /\ call \in TransferCalls /\ call.op \in {"read", "write"}
  BY DEF WaitStored, Storing, HostType, CallInProgress, TransferCalls
<1>2. CASE ~dev.bsy
  <2>1. AfterData /\ UNCHANGED devVars /\ Quiet
    BY <1>1, <1>2 DEF Until, GivesUp, Storing, Busy
  <2>2. CASE call.op = "read"
    BY <1>1, <2>1, <2>2, NextPieceWorks DEF AfterData, Storing
  <2>3. CASE call.op = "write"
    <3>1. Goto("flush") /\ OnlyGiven
      BY <1>1, <1>2, <2>1, <2>3 DEF AfterData, Storing, Busy
    <3> QED
      BY <2>1, <2>3, <3>1, SameCall DEF Goto, devVars, Flushing, OnlyGiven, Quiet, Progress
  <2> QED
    BY <1>1, <2>2, <2>3
<1>3. CASE dev.bsy
  <2>1. /\ timeout' = timeout - 1
        /\ dev' = [dev EXCEPT !.awaited = (@ /\ timeout > 1)]
        /\ UNCHANGED <<call, pc, buffer, ret, exists, cache, disk, missed>>
    BY <1>1, <1>3 DEF Until, GivesUp
  <2>2. /\ call.op = "write" /\ Busy("store")
        /\ dev.lba = Lba /\ dev.data = Given /\ cache = disk
    BY <1>1, <1>3 DEF Storing, Quiet
  <2>3. Busy("store")' /\ dev'.lba = Lba /\ dev'.data = Given
    BY <1>1, <2>1, <2>2, PollMissed DEF Busy
  <2> QED
    BY <1>1, <2>1, <2>2, <2>3, PollMissed, SameCall DEF Stuck, Busy, Storing, Progress
<1> QED
  BY <1>2, <1>3

LEMMA FlushWorks ==
  ASSUME HostType, DevType, OneCall, Working, Flush
  PROVE  Working'
<1>1. pc = "flush" /\ Flushing /\ Quiet /\ dev \in Registers
  BY DEF Flush, Working, Flushing, DevType
<1>2. dev' = [dev EXCEPT !.bsy = TRUE, !.err = FALSE, !.cmd = "flush", !.awaited = TRUE]
  BY <1>1 DEF Flush, Accept, Quiet, Listening
<1>3. Busy("flush")' /\ dev'.awaited
  BY <1>1, <1>2 DEF Busy, Quiet, Registers
<1>4. timeout' > 0
  BY SizesAssumption DEF Flush, Wait
<1> QED
  BY <1>1, <1>3, <1>4, SameCall DEF Flush, Wait, Working, Flushing, OnlyGiven, Progress

LEMMA WaitFlushedWorks ==
  ASSUME HostType, DevType, StorageType, OneCall, Working, WaitFlushed
  PROVE  Stuck' \/ Working'
<1> USE DEF Working
<1>1. /\ pc = "flushed" /\ timeout > 0 /\ Flushing /\ Until(~dev.bsy, NextPiece)
      /\ call \in TransferCalls /\ call.op = "write"
  BY DEF WaitFlushed, Flushing, HostType, CallInProgress
<1>2. CASE ~dev.bsy
  <2>1. NextPiece /\ UNCHANGED devVars /\ Quiet /\ cache = disk
    BY <1>1, <1>2 DEF Until, GivesUp, Flushing, Busy
  <2>2. disk[Lba] = Given
    BY <1>1, <2>1 DEF Flushing, OnlyGiven
  <2> QED
    BY <1>1, <2>1, <2>2, NextPieceWorks
<1>3. CASE dev.bsy
  <2>1. /\ timeout' = timeout - 1
        /\ dev' = [dev EXCEPT !.awaited = (@ /\ timeout > 1)]
        /\ UNCHANGED <<call, pc, buffer, ret, exists, cache, disk, missed>>
    BY <1>1, <1>3 DEF Until, GivesUp
  <2>2. Busy("flush")
    BY <1>1, <1>3 DEF Flushing, Quiet
  <2>3. Busy("flush")'
    BY <1>1, <2>1, <2>2, PollMissed DEF Busy
  <2> QED
    BY <1>1, <2>1, <2>3, PollMissed, SameCall DEF Stuck, Busy, Flushing, OnlyGiven, Progress
<1> QED
  BY <1>2, <1>3

\* The driver's steps: what it may rely on stays so, or its wait runs out.
LEMMA DriverWorks ==
  ASSUME HostType, DevType, StorageType, OneCall, Working, Begin \/ NoDrive \/ Step
  PROVE  Stuck' \/ Working'
BY StepsBeforeData, WaitReadyWorks, TransferWorks, WaitStoredWorks, FlushWorks,
   WaitFlushedWorks DEF Step

-----------------------------------------------------------------------------
\* The drive's answer to what the driver waits for.
LEMMA AnswerWorks ==
  ASSUME HostType, DevType, StorageType, OneCall, Working, Answer
  PROVE  Working'
<1> USE DEF Working
<1>1. dev.bsy /\ Finish /\ UNCHANGED hostVars /\ dev \in Registers
  BY DEF Answer, DevType
<1>2. Lba' = Lba /\ Given' = Given
  BY <1>1, SameCall DEF hostVars
<1>3. CASE pc \notin {"stored", "flush", "flushed"}
  <2>1. pc = "busy" /\ Busy(call.op) /\ ~dev.err /\ dev.lba = Lba /\ cache = disk /\ timeout > 0
    BY <1>1, <1>3 DEF BeforeData, Quiet, Offering, Refused, HostType, Steps
  <2>2. call.op \in {"identify", "read", "write"}
    BY <2>1, CallShapes DEF TransferCalls
  <2>3. PICK c : Offer(c) /\ (call.op = "read" => c = disk[Lba])
    BY <1>1, <2>1, <2>2 DEF Finish, Busy
  <2>4. Offering' /\ dev'.lba = Lba /\ dev'.awaited
    BY <1>1, <1>2, <2>1, <2>3 DEF Offer, Offering, Busy, Registers, hostVars
  <2> QED
    BY <1>1, <1>2, <2>1, <2>3, <2>4 DEF Offer, BeforeData, Progress, hostVars
<1>4. CASE pc = "stored"
  <2>1. /\ call.op = "write" /\ Busy("store") /\ timeout > 0
        /\ dev.lba = Lba /\ dev.data = Given /\ cache = disk
    <3>1. call.op \in {"read", "write"}
      BY <1>4 DEF HostType, CallInProgress, TransferCalls
    <3> QED
      BY <1>1, <1>4, <3>1 DEF Storing, Quiet
  <2>2. /\ dev' = [dev EXCEPT !.bsy = FALSE, !.cmd = "none", !.data = Garbage]
        /\ cache' = [cache EXCEPT ![Lba] = Given] /\ disk' = disk
    BY <1>1, <2>1 DEF Finish, Busy
  <2>3. Lba \in Sectors
    BY <1>4, LbaInRange
  <2>4. Quiet' /\ OnlyGiven' /\ dev'.awaited
    BY <1>1, <1>2, <2>1, <2>2, <2>3 DEF Quiet, OnlyGiven, Busy, Registers, StorageType
  <2> QED
    BY <1>1, <1>4, <2>1, <2>2, <2>4 DEF Storing, Progress, hostVars
<1>5. CASE pc \in {"flush", "flushed"}
  <2>1. /\ pc = "flushed" /\ call.op = "write" /\ Busy("flush") /\ timeout > 0 /\ OnlyGiven
    BY <1>1, <1>5 DEF Flushing, Quiet
  <2>2. /\ dev' = [dev EXCEPT !.bsy = FALSE, !.cmd = "none", !.data = Garbage]
        /\ cache' = cache /\ disk' = cache
    BY <1>1, <2>1 DEF Finish, Busy
  <2>3. Quiet' /\ OnlyGiven' /\ dev'.awaited
    BY <1>1, <1>2, <2>1, <2>2 DEF Quiet, OnlyGiven, Busy, Registers
  <2>4. ASSUME NEW q \in Pieces, q < call.piece
        PROVE  disk'[Sector(call.block, q)] = <<call.data, q>>
    <3>1. call \in TransferCalls /\ q # call.piece
      BY <2>1, <2>4, SizesAssumption DEF HostType, CallInProgress, TransferCalls, Pieces
    <3>2. Lba = Sector(call.block, call.piece)
      BY <2>1 DEF Lba
    <3>3. Sector(call.block, q) \in Sectors \ {Lba}
      BY <3>1, <3>2, SectorInRange, SectorsApart DEF TransferCalls
    <3> QED
      BY <2>1, <2>2, <2>4, <3>3 DEF OnlyGiven, Progress
  <2>5. Progress'
    BY <1>1, <2>1, <2>4 DEF Progress, hostVars
  <2> QED
    BY <1>1, <2>1, <2>2, <2>3, <2>5 DEF Flushing, hostVars
<1> QED
  BY <1>3, <1>4, <1>5 DEF HostType, Steps

\* An error that the driver looks for.
LEMMA ErrorWorks ==
  ASSUME HostType, DevType, OneCall, Working, ReportError, ~missed'
  PROVE  Working'
<1>1. dev.bsy /\ dev.cmd \notin {"store", "flush"} /\ dev \in Registers
  BY DEF ReportError, DevType
<1>2. pc \notin {"stored", "flush", "flushed"}
  <2>1. pc = "stored" => call.op \in {"read", "write"}
    BY DEF HostType, CallInProgress, TransferCalls
  <2> QED
    BY <1>1, <2>1 DEF Working, Storing, Flushing, Quiet, Busy
<1>3. pc = "busy" /\ dev.lba = Lba /\ cache = disk /\ timeout > 0 /\ ~dev.drq
  BY <1>1, <1>2 DEF Working, BeforeData, Quiet, Offering, Refused, Busy, HostType, Steps
<1>4. Refused' /\ dev'.lba = Lba /\ dev'.awaited
  BY <1>1, <1>3 DEF ReportError, Refused, Quiet, Registers, Working
<1> QED
  BY <1>2, <1>3, <1>4, SameCall DEF ReportError, hostVars, Working, BeforeData, Progress

\* Written back is only what the call in progress wrote.
LEMMA WriteBackWorks ==
  ASSUME HostType, DevType, StorageType, OneCall, Working, WriteBack
  PROVE  Working'
<1> USE DEF Working
<1>1. PICK s \in Sectors : disk[s] # cache[s] /\ disk' = [disk EXCEPT ![s] = cache[s]]
  BY DEF WriteBack
<1>2. UNCHANGED <<dev, cache, hostVars>> /\ cache # disk
  BY <1>1 DEF WriteBack
<1>3. /\ pc \in {"stored", "flush", "flushed"} /\ call \in TransferCalls
      /\ call.op = "write" /\ OnlyGiven
  <2>1. pc \in {"stored", "flush", "flushed"} /\ call \in TransferCalls
    BY <1>2 DEF BeforeData, HostType, CallInProgress
  <2>2. call.op \in {"read", "write"}
    BY <2>1 DEF TransferCalls
  <2> QED
    BY <1>2, <2>1, <2>2 DEF Storing, Flushing
<1>4. s = Lba /\ Lba = Sector(call.block, call.piece) /\ UNCHANGED <<Lba, Given>>
  BY <1>1, <1>2, <1>3, SameCall DEF OnlyGiven, Lba, hostVars
<1>5. OnlyGiven'
  BY <1>1, <1>2, <1>3, <1>4 DEF OnlyGiven, StorageType
<1>6. ASSUME NEW q \in Pieces, q < call.piece
      PROVE  disk'[Sector(call.block, q)] = <<call.data, q>>
  <2>1. q # call.piece
    BY <1>3, <1>6, SizesAssumption DEF TransferCalls, Pieces
  <2>2. Sector(call.block, q) \in Sectors \ {Lba}
    BY <1>3, <1>4, <2>1, SectorInRange, SectorsApart DEF TransferCalls
  <2> QED
    BY <1>1, <1>3, <1>4, <1>6, <2>2 DEF Progress
<1>7. Progress'
  BY <1>2, <1>3, <1>6 DEF Progress, hostVars
<1> QED
  BY <1>2, <1>3, <1>5, <1>7 DEF Storing, Flushing, Quiet, Busy, hostVars

LEMMA PowerCutWorks == PowerCut => Working'
BY DEF PowerCut, PoweredOn, Working, BeforeData, Quiet, Progress

\* No answer that the driver waits for puts a piece where another belongs.
LEMMA InPlaceStays ==
  ASSUME HostType, DevType, StorageType, OneCall, InPlace, Stuck \/ Working,
         [Next]_vars, ~missed'
  PROVE  InPlace'
<1> SUFFICES ASSUME NEW b \in Blocks, NEW p \in Pieces
             PROVE  /\ cache'[Sector(b, p)] \in Data \X {p}
                    /\ disk'[Sector(b, p)] \in Data \X {p}
  BY DEF InPlace
<1>1. /\ Sector(b, p) \in Sectors
      /\ cache[Sector(b, p)] \in Data \X {p} /\ disk[Sector(b, p)] \in Data \X {p}
  BY SectorInRange DEF InPlace
<1>2. CASE Answer
  <2>1. Working /\ dev.bsy /\ Finish
    BY <1>2 DEF Answer, Stuck
  <2>2. CASE dev.cmd = "store"
    <3>1. pc = "stored" /\ call \in TransferCalls /\ dev.lba = Lba /\ dev.data = Given
      <4>1. pc \in {"stored", "flush", "flushed"}
        <5>1. SUFFICES ASSUME pc \notin {"stored", "flush", "flushed"} PROVE FALSE
          OBVIOUS
        <5>2. pc = "busy" /\ dev.cmd = call.op
          BY <2>1, <5>1 DEF Working, BeforeData, Quiet, Offering, Refused, Busy, HostType, Steps
        <5>3. call.op \in {"identify", "read", "write"}
          BY <5>2, CallShapes DEF TransferCalls
        <5> QED
          BY <2>2, <5>2, <5>3
      <4>2. pc = "stored" /\ call \in TransferCalls
        BY <2>1, <2>2, <4>1 DEF Working, Flushing, Quiet, Busy, HostType, CallInProgress
      <4>3. call.op \in {"read", "write"}
        BY <4>2 DEF TransferCalls
      <4> QED
        BY <2>1, <4>2, <4>3 DEF Working, Storing, Quiet
    <3>2. Lba = Sector(call.block, call.piece)
      BY <3>1 DEF Lba, TransferCalls
    <3>3. cache' = [cache EXCEPT ![Lba] = Given] /\ disk' = disk
      BY <2>1, <2>2, <3>1 DEF Finish
    <3>4. CASE Sector(b, p) = Lba
      <4>1. p = call.piece
        BY <3>1, <3>2, <3>4, SectorsApart DEF TransferCalls
      <4> QED
        BY <1>1, <3>1, <3>3, <3>4, <4>1 DEF Given, TransferCalls, StorageType
    <3> QED
      BY <1>1, <3>3, <3>4 DEF StorageType
  <2>3. CASE dev.cmd # "store"
    BY <1>1, <2>1, <2>3 DEF Finish, Offer
  <2> QED
    BY <2>2, <2>3
<1>3. CASE WriteBack
  BY <1>1, <1>3 DEF WriteBack, StorageType
<1>4. CASE PowerCut
  BY <1>1, <1>4 DEF PowerCut
<1>5. CASE UNCHANGED <<cache, disk>>
  BY <1>1, <1>5
<1>6. Begin \/ NoDrive \/ Step \/ ReportError \/ UNCHANGED vars => UNCHANGED <<cache, disk>>
  <2>1. ASSUME NEW done, NEW step, Until(done, step), step => UNCHANGED <<cache, disk>>
        PROVE  UNCHANGED <<cache, disk>>
    BY <2>1 DEF Until, devVars
  <2>2. WaitReady \/ WaitData \/ WaitStored \/ WaitFlushed => UNCHANGED <<cache, disk>>
    BY DEF WaitReady, WaitData, WaitStored, WaitFlushed, Until, devVars
  <2> QED
    BY <2>2 DEF Begin, NoDrive, Step, ReportError, SetRegisters, Command, CheckError,
                Transfer, Flush, devVars, vars
<1> QED
  BY <1>2, <1>3, <1>4, <1>5, <1>6 DEF Next

LEMMA MissedStays == ASSUME StorageType, [Next]_vars, ~missed' PROVE ~missed
<1>1. WaitReady \/ WaitData \/ WaitStored \/ WaitFlushed => UNCHANGED missed
  BY DEF WaitReady, WaitData, WaitStored, WaitFlushed, Until, devVars
<1> QED
  BY <1>1 DEF Next, Begin, NoDrive, Step, SetRegisters, Command, CheckError, Transfer,
              Flush, Answer, ReportError, WriteBack, PowerCut, devVars, vars

LEMMA KnownInit == Init => KnownState
<1> SUFFICES ASSUME Init PROVE KnownState
  OBVIOUS
<1>1. Working
  BY DEF Init, PoweredOn, Working, BeforeData, Quiet, Progress
<1>2. InPlace
  <2>1. PICK d \in Data : disk = [s \in Sectors |-> <<d, s % SectorsPerBlock>>]
    BY DEF Init
  <2>2. cache = disk
    BY DEF Init
  <2>3. ASSUME NEW b \in Blocks, NEW p \in Pieces
        PROVE  disk[Sector(b, p)] = <<d, p>>
    BY <2>1, SectorInRange, SectorPiece
  <2> QED
    BY <2>2, <2>3 DEF InPlace
<1> QED
  BY <1>1, <1>2, OneCallInit DEF KnownState

LEMMA KnownNext == InductiveType /\ KnownState /\ [Next]_vars => KnownState'
<1> SUFFICES ASSUME InductiveType, KnownState, [Next]_vars PROVE KnownState'
  OBVIOUS
<1>1. HostType /\ DevType /\ StorageType /\ OneCall
  BY Parts DEF KnownState
<1>2. OneCall'
  BY <1>1, OneCallNext
<1>3. ASSUME ~missed' PROVE InPlace' /\ (Stuck' \/ Working')
  <2>1. ~missed /\ InPlace /\ (Stuck \/ Working)
    BY <1>1, <1>3, MissedStays DEF KnownState
  <2>2. InPlace'
    BY <1>1, <1>3, <2>1, InPlaceStays
  <2>3. CASE Begin \/ NoDrive \/ Step
    BY <1>1, <2>1, <2>2, <2>3, StuckStays, DriverWorks
  <2>4. CASE Answer
    <3>1. dev.awaited
      BY <1>3, <2>4 DEF Answer
    <3> QED
      BY <1>1, <2>1, <2>2, <2>4, <3>1, AnswerWorks DEF Stuck
  <2>5. CASE ReportError
    <3>1. dev.awaited
      BY <1>3, <2>5 DEF ReportError
    <3> QED
      BY <1>1, <1>3, <2>1, <2>2, <2>5, <3>1, ErrorWorks DEF Stuck
  <2>6. CASE WriteBack
    BY <1>1, <2>1, <2>2, <2>6, StuckStays, WriteBackWorks
  <2>7. CASE PowerCut
    BY <2>2, <2>7, PowerCutWorks
  <2>8. CASE UNCHANGED vars
    <3>1. UNCHANGED <<call, pc, timeout, buffer, dev, cache, disk>>
      BY <2>8 DEF vars
    <3>2. Lba' = Lba /\ Given' = Given
      BY <3>1, SameCall
    <3>3. Stuck => Stuck'
      BY <3>1 DEF Stuck
    <3>4. Working => Working'
      BY <3>1, <3>2
      DEF Working, BeforeData, Storing, Flushing, Progress, OnlyGiven, Quiet, Busy,
          Offering, Refused
    <3> QED
      BY <2>1, <2>2, <3>3, <3>4
  <2> QED
    BY <2>3, <2>4, <2>5, <2>6, <2>7, <2>8 DEF Next
<1> QED
  BY <1>2, <1>3 DEF KnownState

\* As long as the drive does nothing that the driver does not look for, it is
\* where ata_read_sectors and ata_write_sectors take it to be: at the command
\* they sent, with the registers they set, and with nothing in its cache that is
\* not on the disk except the sector being written; or at a command whose wait
\* has run out, and then it takes nothing the driver sends.
THEOREM KnownStateHolds == Spec => []KnownState
BY TypeInit, TypeNext, KnownInit, KnownNext, PTL DEF Spec

-----------------------------------------------------------------------------
(***************************************************************************)
(* AtaPio implements BlockStore, for every number of blocks, sectors in a  *)
(* block and polls of a wait, whatever the drive does and whenever the     *)
(* power goes.                                                             *)
(***************************************************************************)
-----------------------------------------------------------------------------
(***************************************************************************)
(* What the mapping makes of the state.                                    *)
(***************************************************************************)
LEMMA PieceInPlace ==
  ASSUME InPlace, NEW b \in Blocks, NEW p \in Pieces
  PROVE  /\ PieceOf(disk[Sector(b, p)], p) = disk[Sector(b, p)][1]
         /\ PieceOf(cache[Sector(b, p)], p) = cache[Sector(b, p)][1]
         /\ disk[Sector(b, p)][1] \in Data /\ cache[Sector(b, p)][1] \in Data
         /\ disk[Sector(b, p)] = <<disk[Sector(b, p)][1], p>>
         /\ cache[Sector(b, p)] = <<cache[Sector(b, p)][1], p>>
BY DEF InPlace, PieceOf

LEMMA NothingInFlight == ASSUME cache = disk PROVE PiecesInFlight = {}
BY DEF PiecesInFlight, Unlanded

LEMMA SameStorage ==
  ASSUME UNCHANGED <<cache, disk>>
  PROVE  UNCHANGED <<StoredBlocks, PiecesInFlight>>
BY DEF StoredBlocks, PiecesInFlight, Unlanded, SectorOf

LEMMA SameRequest == ASSUME UNCHANGED call PROVE UNCHANGED Request
BY DEF Request

LEMMA NotAnswered == ASSUME ret = "none" PROVE Answered = Store!NoAnswer
BY DEF Answered, Store!NoAnswer

\* A request is in progress in a transfer, and in nothing else.
LEMMA RequestShapes ==
  ASSUME HostType
  PROVE  /\ call \in TransferCalls =>
              /\ Request = [op |-> call.op, block |-> call.block, data |-> call.data]
              /\ Request.op = call.op /\ Request # Store!NoRequest
         /\ call \notin TransferCalls => Request = Store!NoRequest
<1>1. call \in TransferCalls \/ call \in {NoCall, [op |-> "identify"]}
  BY DEF HostType, Calls, TransferCalls
<1>2. CASE call \in TransferCalls
  <2>1. call.op \in {"read", "write"}
    BY <1>2 DEF TransferCalls
  <2>2. Request = [op |-> call.op, block |-> call.block, data |-> call.data]
    BY <2>1 DEF Request
  <2>3. Request.op = call.op /\ Request.op # "none" /\ Store!NoRequest.op = "none"
    BY <2>1, <2>2 DEF Store!NoRequest
  <2> QED
    BY <1>2, <2>2, <2>3
<1>3. CASE call \in {NoCall, [op |-> "identify"]}
  <2>1. call.op \notin {"read", "write"}
    BY <1>3 DEF NoCall
  <2> QED
    BY <1>3, <2>1 DEF Request, NoCall, Store!NoRequest, TransferCalls
<1> QED
  BY <1>1, <1>2, <1>3

LEMMA StoreInit == Init => Store!Init
<1> SUFFICES ASSUME Init PROVE Store!Init
  OBVIOUS
<1>1. InductiveType /\ KnownState /\ ~missed /\ cache = disk /\ ret = "none"
  BY TypeInit, KnownInit DEF Init
<1>2. HostType /\ InPlace
  BY <1>1, Parts DEF KnownState
<1>3. StoredBlocks \in [Blocks -> [Pieces -> Data]]
  BY <1>2, PieceInPlace DEF StoredBlocks
<1>4. call \notin TransferCalls
  BY DEF Init, TransferCalls
<1> QED
  BY <1>1, <1>2, <1>3, <1>4, NothingInFlight, NotAnswered, RequestShapes DEF Store!Init

-----------------------------------------------------------------------------
(***************************************************************************)
(* The driver's steps.                                                     *)
(***************************************************************************)
LEMMA HiddenStep ==
  ASSUME UNCHANGED <<cache, disk, missed>>, UNCHANGED Request, UNCHANGED Answered
  PROVE  [Store!Next]_(Store!vars)
BY SameStorage DEF Store!vars

\* A step inside a call: no result, the same request.
LEMMA InsideCall ==
  ASSUME UNCHANGED <<cache, disk, missed, call>>, ret = "none", ret' = "none"
  PROVE  [Store!Next]_(Store!vars)
<1>1. Answered = Store!NoAnswer /\ Answered' = Store!NoAnswer
  BY NotAnswered DEF Answered, Store!NoAnswer
<1> QED
  BY <1>1, HiddenStep, SameRequest

LEMMA CallFails ==
  ASSUME HostType, Return("failed"), UNCHANGED <<cache, disk, missed>>
  PROVE  Store!Next
<1>1. Answered' = Store!Failed
  BY DEF Return, Answered, Store!Failed
<1>2. Request' = Store!NoRequest
  BY DEF Return, Request, NoCall, Store!NoRequest
<1>3. UNCHANGED <<StoredBlocks, PiecesInFlight, missed>>
  BY SameStorage
<1>4. CASE call \in TransferCalls
  <2>1. Store!Fail
    BY <1>1, <1>2, <1>3, <1>4, RequestShapes DEF Store!Fail, Store!End
  <2> QED
    BY <1>3, <2>1 DEF Store!Next
<1>5. CASE call \notin TransferCalls
  <2>1. Store!Refuse
    BY <1>1, <1>2, <1>3, <1>5, RequestShapes DEF Store!Refuse
  <2> QED
    BY <1>3, <2>1 DEF Store!Next
<1> QED
  BY <1>4, <1>5

LEMMA BeginMaps ==
  ASSUME HostType, OneCall, Begin
  PROVE  Store!Next
<1>1. UNCHANGED <<StoredBlocks, PiecesInFlight, missed>>
  BY SameStorage DEF Begin, devVars
<1>2. call = NoCall /\ Request = Store!NoRequest
  BY RequestShapes DEF Begin, OneCall, NoCall, TransferCalls
<1>3. PICK op \in {"read", "write"}, b \in 0 .. TotalBlocks, d \in Data :
        \/ /\ exists /\ InRange(b)
           /\ call' = [op |-> op, block |-> b, piece |-> 0, data |-> d]
           /\ pc' = "registers" /\ ret' = "none"
        \/ /\ ~(exists /\ InRange(b))
           /\ ret' = "failed" /\ UNCHANGED <<call, pc>>
  BY DEF Begin
<1>4. CASE exists /\ InRange(b)
  <2>1. b \in Blocks
    BY <1>4, SizesAssumption DEF InRange, Blocks
  <2>2. Request' = [op |-> op, block |-> b, data |-> d]
    BY <1>3, <1>4 DEF Request
  <2>3. Answered' = Store!NoAnswer
    BY <1>3, <1>4 DEF Answered, Store!NoAnswer
  <2>4. Store!Ask
    BY <1>1, <1>2, <2>1, <2>2, <2>3 DEF Store!Ask
  <2> QED
    BY <1>1, <2>4 DEF Store!Next
<1>5. CASE ~(exists /\ InRange(b))
  <2>1. Request' = Store!NoRequest
    BY <1>2, <1>3, <1>5, SameRequest
  <2>2. Answered' = Store!Failed
    BY <1>3, <1>5 DEF Answered, Store!Failed
  <2>3. Store!Refuse
    BY <1>1, <1>2, <2>1, <2>2 DEF Store!Refuse
  <2> QED
    BY <1>1, <2>3 DEF Store!Next
<1> QED
  BY <1>4, <1>5

\* The last piece of a read, or of a write.
LEMMA LastPieceMaps ==
  ASSUME HostType, OneCall, InPlace, call \in TransferCalls, pc # "idle",
         LastPiece, NextPiece, UNCHANGED devVars, cache = disk,
         call.op = "read" => pc = "stored",
         call.op = "write" => disk[Lba] = Given,
         Progress
  PROVE  Store!Next
<1>1. Return("ok") /\ UNCHANGED buffer
  BY DEF NextPiece
<1>2. UNCHANGED <<StoredBlocks, PiecesInFlight, missed>> /\ PiecesInFlight = {}
  BY SameStorage, NothingInFlight DEF devVars
<1>3. Request' = Store!NoRequest
  BY <1>1 DEF Return, Request, NoCall, Store!NoRequest
<1>4. Request.op = call.op /\ Request.block = call.block /\ Request.data = call.data
  BY RequestShapes
<1>5. /\ call.block \in Blocks /\ call.piece \in Pieces /\ call.op \in {"read", "write"}
      /\ \A p \in Pieces : p < call.piece \/ p = call.piece
      /\ Lba = Sector(call.block, call.piece)
  BY SizesAssumption DEF TransferCalls, LastPiece, Pieces, Lba
<1>6. StoredBlocks[call.block] =
        [p \in Pieces |-> PieceOf(disk[Sector(call.block, p)], p)]
  BY <1>5 DEF StoredBlocks
<1>7. CASE call.op = "write"
  <2>1. Answered' = Store!Stored
    BY <1>1, <1>7 DEF Return, Answered, OneCall, BlankBuffer, Store!Stored
  <2>2. ASSUME NEW p \in Pieces PROVE StoredBlocks[call.block][p] = call.data
    <3>1. disk[Sector(call.block, p)] = <<call.data, p>>
      BY <1>5, <1>7 DEF Progress, Given
    <3> QED
      BY <1>5, <1>6, <3>1, PieceInPlace
  <2>3. Store!EndWrite
    BY <1>2, <1>3, <1>4, <1>7, <2>1, <2>2 DEF Store!EndWrite, Store!Holds, Store!End
  <2> QED
    BY <1>2, <2>3 DEF Store!Next
<1>8. CASE call.op = "read"
  <2>1. \A p \in Pieces : buffer[p] = disk[Sector(call.block, p)]
    BY <1>5, <1>8 DEF Progress
  <2>2. buffer # BlankBuffer
    <3>1. buffer[0] \in Data \X {0} /\ BlankBuffer[0] = Garbage
      BY <1>5, <2>1, FirstSector DEF InPlace, BlankBuffer
    <3>2. buffer[0][1] \in Data /\ Garbage[1] \notin Data
      BY <3>1, GarbageAssumption DEF Garbage
    <3> QED
      BY <3>1, <3>2
  <2>3. Answered' = [status |-> "read",
                     content |-> [p \in Pieces |-> PieceOf(buffer[p], p)]]
    BY <1>1, <2>2 DEF Return, Answered, BlankBuffer, PieceOf
  <2>4. Answered' = Store!Read(StoredBlocks[call.block])
    BY <1>6, <2>1, <2>3 DEF Store!Read
  <2>5. Store!EndRead
    BY <1>2, <1>3, <1>4, <1>8, <2>4 DEF Store!EndRead, Store!End
  <2> QED
    BY <1>2, <2>5 DEF Store!Next
<1> QED
  BY <1>5, <1>7, <1>8

LEMMA NextPieceMaps ==
  ASSUME HostType, OneCall, InPlace, call \in TransferCalls, pc # "idle",
         NextPiece, UNCHANGED devVars, cache = disk,
         call.op = "read" => pc = "stored",
         call.op = "write" => disk[Lba] = Given,
         Progress
  PROVE  [Store!Next]_(Store!vars)
<1>1. CASE LastPiece
  BY <1>1, LastPieceMaps
<1>2. CASE ~LastPiece
  <2>1. call' = [call EXCEPT !.piece = @ + 1] /\ UNCHANGED ret /\ ret = "none"
    BY <1>2 DEF NextPiece, OneCall
  <2>2. UNCHANGED Request
    BY <2>1 DEF TransferCalls, Request
  <2>3. Answered = Store!NoAnswer /\ Answered' = Store!NoAnswer
    BY <2>1 DEF Answered, Store!NoAnswer
  <2> QED
    BY <2>2, <2>3, HiddenStep DEF devVars
<1> QED
  BY <1>1, <1>2

LEMMA UntilMaps ==
  ASSUME HostType, OneCall, pc # "idle", NEW done, NEW step, Until(done, step),
         done /\ step /\ UNCHANGED devVars => [Store!Next]_(Store!vars)
  PROVE  [Store!Next]_(Store!vars)
<1>1. CASE GivesUp /\ Return("failed") /\ UNCHANGED devVars
  BY <1>1, CallFails DEF devVars
<1>2. CASE UNCHANGED <<call, pc, buffer, ret, exists, cache, disk, missed>>
  BY <1>2, InsideCall DEF OneCall
<1> QED
  BY <1>1, <1>2 DEF Until

\* The driver's steps: a step of the store, or none that it shows.
LEMMA DriverMaps ==
  ASSUME HostType, OneCall, InPlace, Stuck \/ Working, Begin \/ NoDrive \/ Step
  PROVE  [Store!Next]_(Store!vars)
<1>1. CASE Begin
  BY <1>1, BeginMaps
<1>2. CASE NoDrive
  BY <1>2, CallFails DEF NoDrive, devVars
<1>3. CASE SetRegisters \/ Command \/ Flush
  BY <1>3, InsideCall DEF SetRegisters, Command, Flush, Goto, Wait, OneCall
<1>4. CASE WaitReady
  <2>1. Goto("check") /\ UNCHANGED devVars => [Store!Next]_(Store!vars)
    BY <1>4, InsideCall DEF WaitReady, Goto, devVars, OneCall
  <2> QED
    BY <1>4, <2>1, UntilMaps DEF WaitReady
<1>5. CASE CheckError
  <2>1. CASE Return("failed")
    BY <1>5, <2>1, CallFails DEF CheckError, devVars
  <2>2. CASE Wait("drq")
    BY <1>5, <2>2, InsideCall DEF CheckError, Wait, devVars, OneCall
  <2> QED
    BY <1>5, <2>1, <2>2 DEF CheckError
<1>6. CASE WaitData
  <2>1. Goto("transfer") /\ UNCHANGED devVars => [Store!Next]_(Store!vars)
    BY <1>6, InsideCall DEF WaitData, Goto, devVars, OneCall
  <2> QED
    BY <1>6, <2>1, UntilMaps DEF WaitData
<1>7. CASE Transfer
  <2>1. UNCHANGED <<cache, disk, missed>> /\ ret = "none" /\ ret' = "none"
    BY <1>7 DEF Transfer, OneCall, Identified, Return, Wait
  <2>2. CASE call.op = "identify"
    <3>1. Request' = NoCall /\ Request = NoCall
      BY <1>7, <2>2 DEF Transfer, Identified, Return, Request, NoCall
    <3>2. Answered = Store!NoAnswer /\ Answered' = Store!NoAnswer
      BY <2>1 DEF Answered, Store!NoAnswer
    <3> QED
      BY <2>1, <3>1, <3>2, HiddenStep
  <2>3. CASE call.op \in {"read", "write"}
    BY <1>7, <2>1, <2>3, InsideCall DEF Transfer, Wait
  <2> QED
    BY <1>7, <2>2, <2>3 DEF Transfer
<1>8. CASE WaitStored
  <2>1. pc = "stored" /\ call \in TransferCalls /\ call.op \in {"read", "write"}
    BY <1>8 DEF WaitStored, HostType, CallInProgress, TransferCalls
  <2>2. ASSUME ~dev.bsy, AfterData, UNCHANGED devVars PROVE [Store!Next]_(Store!vars)
    <3>1. Working
      BY <2>2 DEF Stuck
    <3>2. CASE call.op = "read"
      BY <2>1, <2>2, <3>1, <3>2, NextPieceMaps DEF AfterData, Working, Storing
    <3>3. CASE call.op = "write"
      BY <2>1, <2>2, <3>3, InsideCall DEF AfterData, Goto, devVars, OneCall
    <3> QED
      BY <2>1, <3>2, <3>3
  <2> QED
    BY <1>8, <2>1, <2>2, UntilMaps DEF WaitStored
<1>9. CASE WaitFlushed
  <2>1. pc = "flushed" /\ call \in TransferCalls
    BY <1>9 DEF WaitFlushed, HostType, CallInProgress
  <2>2. ASSUME ~dev.bsy, NextPiece, UNCHANGED devVars PROVE [Store!Next]_(Store!vars)
    <3>1. Working /\ Flushing
      BY <2>1, <2>2 DEF Stuck, Working
    <3>2. call.op = "write" /\ cache = disk /\ disk[Lba] = Given
      BY <2>1, <2>2, <3>1 DEF Flushing, Busy, OnlyGiven
    <3> QED
      BY <2>1, <2>2, <3>1, <3>2, NextPieceMaps DEF Working
  <2> QED
    BY <1>9, <2>1, <2>2, UntilMaps DEF WaitFlushed
<1> QED
  BY <1>1, <1>2, <1>3, <1>4, <1>5, <1>6, <1>7, <1>8, <1>9 DEF Step

-----------------------------------------------------------------------------
(***************************************************************************)
(* The drive's steps.                                                      *)
(***************************************************************************)
\* One sector becomes durable: the store's piece lands.
LEMMA LandMaps ==
  ASSUME StorageType, InPlace, UNCHANGED <<hostVars, cache, missed>>,
         NEW s \in Sectors, disk[s] # cache[s], disk' = [disk EXCEPT ![s] = cache[s]]
  PROVE  Store!Next
<1>1. PICK b \in Blocks, p \in Pieces : s = Sector(b, p)
  BY SectorsCovered
<1> DEFINE d == PieceOf(cache[s], p)
           x == <<b, p, d>>
<1>2. ASSUME NEW a \in Blocks, NEW q \in Pieces
      PROVE  disk'[Sector(a, q)] = IF a = b /\ q = p THEN cache[s] ELSE disk[Sector(a, q)]
  <2>1. Sector(a, q) \in Sectors /\ (Sector(a, q) = s => a = b /\ q = p)
    BY <1>1, SectorInRange, SectorsApart
  <2> QED
    BY <1>1, <2>1 DEF StorageType
<1>3. StoredBlocks' = [StoredBlocks EXCEPT ![b][p] = d]
  <2>1. StoredBlocks' \in [Blocks -> [Pieces -> Data \cup {Garbage[1]}]]
    BY DEF StoredBlocks, PieceOf
  <2>2. ASSUME NEW a \in Blocks, NEW q \in Pieces
        PROVE  StoredBlocks'[a][q] = [StoredBlocks EXCEPT ![b][p] = d][a][q]
    BY <1>1, <1>2 DEF StoredBlocks
  <2>3. [StoredBlocks EXCEPT ![b][p] = d] \in [Blocks -> [Pieces -> Data \cup {Garbage[1]}]]
    BY DEF StoredBlocks, PieceOf
  <2> QED
    BY <2>1, <2>2, <2>3
<1>4. x \in PiecesInFlight /\ PiecesInFlight' = PiecesInFlight \ {x}
  <2>1. <<b, p>> \in Unlanded
    BY <1>1 DEF Unlanded, SectorOf
  <2>2. Unlanded' = Unlanded \ {<<b, p>>}
    <3>1. ASSUME NEW bp \in Blocks \X Pieces
          PROVE  bp \in Unlanded' <=> bp \in Unlanded /\ bp # <<b, p>>
      <4>1. PICK a \in Blocks, q \in Pieces : bp = <<a, q>>
        OBVIOUS
      <4> QED
        BY <1>1, <1>2, <4>1 DEF Unlanded, SectorOf
    <3> QED
      BY <3>1 DEF Unlanded
  <2>3. ASSUME NEW bp \in Blocks \X Pieces
        PROVE  <<bp[1], bp[2], PieceOf(cache[SectorOf(bp)], bp[2])>> = x <=> bp = <<b, p>>
    BY <1>1 DEF SectorOf
  <2> QED
    BY <1>1, <2>1, <2>2, <2>3 DEF PiecesInFlight, Unlanded, SectorOf
<1>5. UNCHANGED <<Request, Answered, missed>>
  BY SameRequest DEF hostVars, Answered, BlankBuffer, PieceOf
<1>6. x[1] = b /\ x[2] = p /\ x[3] = d
  OBVIOUS
<1> HIDE DEF x, d
<1>7. Store!Land
  BY <1>3, <1>4, <1>5, <1>6 DEF Store!Land
<1> QED
  BY <1>5, <1>7 DEF Store!Next

\* The drive takes the piece that it was given.
LEMMA SendMaps ==
  ASSUME HostType, StorageType, OneCall, InPlace, Working, pc = "stored",
         call \in TransferCalls, call.op = "write",
         UNCHANGED <<hostVars, disk, missed>>,
         cache = disk, cache' = [cache EXCEPT ![Lba] = Given], disk[Lba] # Given
  PROVE  Store!Next
<1> DEFINE b == call.block
           p == call.piece
<1>1. /\ b \in Blocks /\ p \in Pieces /\ call.data \in Data /\ Lba = Sector(b, p)
      /\ Lba \in Sectors /\ Given = <<call.data, p>>
  BY SectorInRange DEF TransferCalls, Lba, Given
<1>2. /\ Request.op = "write" /\ Request.block = b /\ Request.data = call.data
  BY RequestShapes
<1>3. UNCHANGED <<Request, Answered, StoredBlocks, missed>> /\ PiecesInFlight = {}
  BY SameRequest, NothingInFlight
  DEF hostVars, Answered, StoredBlocks, BlankBuffer, PieceOf
<1>4. ~Store!Holds(b, p, call.data)
  <2>1. disk[Lba] = <<disk[Lba][1], p>> /\ StoredBlocks[b][p] = disk[Lba][1]
    BY <1>1, PieceInPlace DEF StoredBlocks
  <2> QED
    BY <1>1, <2>1 DEF Store!Holds
<1>5. ASSUME NEW q \in Pieces, ~Store!Holds(b, q, call.data) PROVE q >= p
  <2>1. SUFFICES ASSUME q < p PROVE FALSE
    BY <1>1, SizesAssumption DEF Pieces
  <2>2. disk[Sector(b, q)] = <<call.data, q>>
    BY <2>1 DEF Working, Progress
  <2>3. StoredBlocks[b][q] = call.data
    BY <1>1, <2>2, PieceInPlace DEF StoredBlocks
  <2> QED
    BY <1>5, <2>3 DEF Store!Holds
<1>6. PiecesInFlight' = {<<b, p, call.data>>}
  <2>1. ASSUME NEW a \in Blocks, NEW q \in Pieces
        PROVE  cache'[Sector(a, q)] # disk'[Sector(a, q)] <=> a = b /\ q = p
    <3>1. Sector(a, q) \in Sectors /\ (Sector(a, q) = Lba => a = b /\ q = p)
      BY <1>1, SectorInRange, SectorsApart
    <3> QED
      BY <1>1, <3>1 DEF StorageType
  <2>2. Unlanded' = {<<b, p>>}
    <3>1. ASSUME NEW bp \in Blocks \X Pieces PROVE bp \in Unlanded' <=> bp = <<b, p>>
      <4>1. PICK a \in Blocks, q \in Pieces : bp = <<a, q>>
        OBVIOUS
      <4> QED
        BY <2>1, <4>1 DEF Unlanded, SectorOf
    <3> QED
      BY <1>1, <3>1 DEF Unlanded
  <2>3. PieceOf(cache'[Sector(b, p)], p) = call.data
    BY <1>1 DEF PieceOf, StorageType
  <2> QED
    BY <2>2, <2>3 DEF PiecesInFlight, SectorOf
<1> HIDE DEF b, p
<1>7. Store!SendPiece
  BY <1>1, <1>2, <1>3, <1>4, <1>5, <1>6 DEF Store!SendPiece
<1> QED
  BY <1>3, <1>7 DEF Store!Next

LEMMA StillNotMissed ==
  ASSUME StorageType, NEW late \in BOOLEAN, missed' = (missed \/ late), ~missed, ~missed'
  PROVE  UNCHANGED missed
<1>1. missed' \in BOOLEAN /\ missed \in BOOLEAN
  BY Zenon DEF StorageType
<1> QED
  BY <1>1, Zenon

LEMMA AnswerMaps ==
  ASSUME HostType, DevType, StorageType, OneCall, InPlace, Working, Answer, ~missed, ~missed'
  PROVE  [Store!Next]_(Store!vars)
<1>1. dev.bsy /\ Finish /\ UNCHANGED hostVars /\ UNCHANGED missed
  <2>1. dev.bsy /\ Finish /\ UNCHANGED hostVars /\ missed' = (missed \/ ~dev.awaited)
    BY DEF Answer
  <2> QED
    BY <2>1, StillNotMissed
<1>2. CASE dev.cmd \notin {"store", "flush"}
  <2>1. UNCHANGED <<cache, disk>>
    BY <1>1, <1>2 DEF Finish, Offer
  <2>2. UNCHANGED <<Request, Answered>>
    BY <1>1, SameRequest DEF hostVars, Answered, BlankBuffer, PieceOf
  <2> QED
    BY <1>1, <2>1, <2>2, HiddenStep
<1>3. ASSUME dev.cmd \in {"store", "flush"}
      PROVE  pc \in {"stored", "flushed"} /\ call \in TransferCalls /\ call.op = "write"
  <2>1. pc \in {"stored", "flush", "flushed"}
    <3>1. SUFFICES ASSUME pc \notin {"stored", "flush", "flushed"} PROVE FALSE
      OBVIOUS
    <3>2. pc = "busy" /\ dev.cmd = call.op
      BY <1>1, <3>1 DEF Working, BeforeData, Quiet, Offering, Refused, Busy, HostType, Steps
    <3>3. call.op \in {"identify", "read", "write"}
      BY <3>2, CallShapes DEF TransferCalls
    <3> QED
      BY <1>3, <3>2, <3>3
  <2>2. call \in TransferCalls
    BY <2>1 DEF HostType, CallInProgress
  <2>3. call.op \in {"read", "write"}
    BY <2>2 DEF TransferCalls
  <2> QED
    BY <1>1, <2>1, <2>2, <2>3 DEF Working, Storing, Flushing, Quiet
<1>4. CASE dev.cmd = "store"
  <2>1. /\ pc = "stored" /\ call \in TransferCalls /\ call.op = "write"
        /\ cache = disk /\ dev.lba = Lba /\ dev.data = Given
    BY <1>1, <1>3, <1>4 DEF Working, Storing, Flushing, Quiet, Busy
  <2>2. cache' = [cache EXCEPT ![Lba] = Given] /\ UNCHANGED disk
    BY <1>1, <1>4, <2>1 DEF Finish
  <2>3. CASE disk[Lba] # Given
    BY <1>1, <2>1, <2>2, <2>3, SendMaps
  <2>4. CASE disk[Lba] = Given
    <3>1. UNCHANGED cache
      BY <2>1, <2>2, <2>4 DEF StorageType
    <3>2. UNCHANGED <<Request, Answered>>
      BY <1>1, SameRequest DEF hostVars, Answered, BlankBuffer, PieceOf
    <3> QED
      BY <1>1, <2>2, <3>1, <3>2, HiddenStep
  <2> QED
    BY <2>3, <2>4
<1>5. CASE dev.cmd = "flush"
  <2>1. pc = "flushed" /\ OnlyGiven /\ call \in TransferCalls
    BY <1>1, <1>3, <1>5 DEF Working, Storing, Flushing, Quiet, Busy
  <2>2. UNCHANGED cache /\ disk' = cache
    BY <1>1, <1>5 DEF Finish
  <2>3. CASE disk[Lba] # cache[Lba]
    <3>1. Lba \in Sectors
      BY <2>1, LbaInRange
    <3>2. disk' = [disk EXCEPT ![Lba] = cache[Lba]]
      BY <2>1, <2>2, <3>1 DEF OnlyGiven, StorageType
    <3> QED
      BY <1>1, <2>2, <2>3, <3>1, <3>2, LandMaps
  <2>4. CASE disk[Lba] = cache[Lba]
    <3>1. UNCHANGED disk
      BY <2>1, <2>2, <2>4 DEF OnlyGiven, StorageType
    <3>2. UNCHANGED <<Request, Answered>>
      BY <1>1, SameRequest DEF hostVars, Answered, BlankBuffer, PieceOf
    <3> QED
      BY <1>1, <2>2, <3>1, <3>2, HiddenStep
  <2> QED
    BY <2>3, <2>4
<1> QED
  BY <1>2, <1>4, <1>5

LEMMA PowerCutMaps ==
  ASSUME PowerCut
  PROVE  Store!Next
<1>1. UNCHANGED <<StoredBlocks, missed>> /\ PiecesInFlight' = {}
  BY DEF PowerCut, StoredBlocks, PiecesInFlight, Unlanded, PieceOf
<1>2. Request' = Store!NoRequest /\ Answered' = Store!NoAnswer
  BY DEF PowerCut, Request, Answered, NoCall, Store!NoRequest, Store!NoAnswer
<1>3. Store!Restart
  BY <1>1, <1>2 DEF Store!Restart
<1> QED
  BY <1>1, <1>3 DEF Store!Next

LEMMA StoreNext ==
  ASSUME InductiveType, KnownState, [Next]_vars
  PROVE  [Store!Next]_(Store!vars)
<1>1. CASE missed'
  BY <1>1 DEF Store!Next
<1>2. CASE ~missed'
  <2>1. HostType /\ DevType /\ StorageType /\ OneCall
    BY Parts DEF KnownState
  <2>2. ~missed /\ InPlace /\ (Stuck \/ Working)
    BY <1>2, <2>1, MissedStays DEF KnownState
  <2>3. CASE Begin \/ NoDrive \/ Step
    BY <2>1, <2>2, <2>3, DriverMaps
  <2>4. CASE Answer
    <3>1. dev.awaited
      BY <1>2, <2>4 DEF Answer
    <3> QED
      BY <1>2, <2>1, <2>2, <2>4, <3>1, AnswerMaps DEF Stuck
  <2>5. CASE ReportError
    <3>1. UNCHANGED <<cache, disk, hostVars, missed>>
      <4>1. /\ UNCHANGED <<cache, disk, hostVars>>
            /\ missed' = (missed \/ (~dev.awaited \/ dev.cmd \in {"store", "flush"}))
        BY <2>5, Zenon DEF ReportError
      <4> QED
        BY <1>2, <2>1, <2>2, <4>1, StillNotMissed
    <3>2. UNCHANGED <<Request, Answered>>
      BY <3>1, SameRequest DEF hostVars, Answered, BlankBuffer, PieceOf
    <3> QED
      BY <3>1, <3>2, HiddenStep
  <2>6. CASE WriteBack
    BY <2>1, <2>2, <2>6, LandMaps DEF WriteBack
  <2>7. CASE PowerCut
    BY <2>7, PowerCutMaps
  <2>8. CASE UNCHANGED vars
    <3>1. UNCHANGED <<cache, disk, hostVars, missed>>
      BY <2>8 DEF vars, hostVars
    <3>2. UNCHANGED <<Request, Answered>>
      BY <3>1, SameRequest DEF hostVars, Answered, BlankBuffer, PieceOf
    <3> QED
      BY <3>1, <3>2, HiddenStep
  <2> QED
    BY <2>3, <2>4, <2>5, <2>6, <2>7, <2>8 DEF Next
<1> QED
  BY <1>1, <1>2

\* rfss_read_block and rfss_write_block are the block store of BlockStore: a
\* write that returned 0 is stored for good, one that failed or was cut off has
\* stored a first part of the block, of which one piece may still follow, and a
\* read that returned 0 has read what is stored; until the drive does something
\* that the driver does not look for.
THEOREM StoreHolds == Spec => StoreImplemented
<1>1. Init => Store!Init
  BY StoreInit
<1>2. Spec => [](InductiveType /\ KnownState)
  BY TypeInit, TypeNext, KnownInit, KnownNext, PTL DEF Spec
<1>3. InductiveType /\ KnownState /\ [Next]_vars => [Store!Next]_(Store!vars)
  BY StoreNext
<1> QED
  BY <1>1, <1>2, <1>3, PTL DEF Spec, StoreImplemented, Store!Spec
=============================================================================
