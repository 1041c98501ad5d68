------------------------------- MODULE AtaPio -------------------------------
(***************************************************************************)
(* Blocks of the filesystem on an ATA drive: rfss_read_block and           *)
(* rfss_write_block (src/fs/rfss.c) transfer a block sector by sector      *)
(* through ata_read_sectors and ata_write_sectors (src/drivers/ata.c),     *)
(* which poll the status register with a bound on their patience.  The     *)
(* drive is external: it answers when it likes, early, late or never, and  *)
(* keeps what it was given in a cache that only a flush makes durable.     *)
(***************************************************************************)
EXTENDS Integers

CONSTANTS
  TotalBlocks,      \* blocks of the filesystem (superblock->total_blocks)
  SectorsPerBlock,  \* RFSS_BLOCK_SIZE / ATA_SECTOR_SIZE
  Data,             \* what a block can hold
  Patience          \* polls before a wait gives up (timeout)

ASSUME SizesAssumption ==
  /\ TotalBlocks \in Nat \ {0} /\ SectorsPerBlock \in Nat \ {0}
  /\ Patience \in Nat \ {0}

\* What a read returns that no device answers is none of the data.
ASSUME GarbageAssumption == "garbage" \notin Data

Pieces == 0 .. SectorsPerBlock - 1
Blocks == 0 .. TotalBlocks - 1
Sectors == 0 .. TotalBlocks * SectorsPerBlock - 1
\* What a sector holds: a piece of a block's data.
Contents == Data \X Pieces
Garbage == <<"garbage", 0>>

VARIABLES
  call,     \* the block transfer in progress, or NoCall
  pc,       \* where the driver is
  timeout,  \* the polls that are left of the wait it is in
  buffer,   \* the caller's buffer, piece by piece
  ret,      \* what the last block transfer returned
  exists,   \* ata_devices[0].exists
  dev,      \* the drive's registers, and the command it is at
  cache,    \* what the drive would read from each sector
  disk,     \* what is left of it when the power goes
  missed    \* history: the drive has done what the driver does not look for

hostVars == <<call, pc, timeout, buffer, ret, exists>>
devVars == <<dev, cache, disk, missed>>
vars == <<call, pc, timeout, buffer, ret, exists, dev, cache, disk, missed>>

NoCall == [op |-> "none"]
Steps == {"idle", "registers", "command", "busy", "check", "drq", "transfer",
          "stored", "flush", "flushed"}
Commands == {"none", "identify", "read", "write", "store", "flush"}
Calls == {NoCall, [op |-> "identify"]}
           \cup [op : {"read", "write"}, block : Blocks, piece : Pieces, data : Data]
BlankBuffer == [p \in Pieces |-> Garbage]

TypeOK ==
  /\ call \in Calls /\ pc \in Steps /\ timeout \in 0 .. Patience
  /\ buffer \in [Pieces -> Contents \cup {Garbage}]
  /\ ret \in {"none", "ok", "failed"} /\ exists \in BOOLEAN
  /\ dev \in [bsy : BOOLEAN, drq : BOOLEAN, err : BOOLEAN, cmd : Commands,
              lba : Sectors,
              data : Contents \cup {Garbage}, awaited : BOOLEAN]
  /\ cache \in [Sectors -> Contents] /\ disk \in [Sectors -> Contents]
  /\ missed \in BOOLEAN

\* The drive after power-on; the call that boot makes first is ata_init.
PoweredOn ==
  [bsy |-> FALSE, drq |-> FALSE, err |-> FALSE, cmd |-> "none", lba |-> 0,
   data |-> Garbage, awaited |-> TRUE]

Init ==
  /\ call = [op |-> "identify"] /\ pc = "registers" /\ timeout = 0
  /\ buffer = BlankBuffer /\ ret = "none" /\ exists = FALSE
  /\ dev = PoweredOn
  /\ \E d \in Data :
       disk = [s \in Sectors |-> <<d, s % SectorsPerBlock>>]
  /\ cache = disk
  /\ missed = FALSE

-----------------------------------------------------------------------------
\* The sector that the transfer is at.
Sector(b, p) == b * SectorsPerBlock + p
Lba == IF call.op = "identify" THEN 0 ELSE Sector(call.block, call.piece)

Goto(step) == pc' = step /\ timeout' = 0 /\ UNCHANGED <<call, buffer, ret, exists>>
Wait(step) == pc' = step /\ timeout' = Patience /\ UNCHANGED <<call, buffer, ret, exists>>
Return(status) ==
  /\ call' = NoCall /\ pc' = "idle" /\ timeout' = 0 /\ ret' = status

\* rfss_read_block and rfss_write_block check the block, ata_*_sectors the drive.
InRange(b) == b < TotalBlocks
\* Bound: once the drive has done what the driver does not look for, no
\* transfer starts any more, and the one in progress goes on to its end.
Begin ==
  /\ pc = "idle" /\ ~missed
  /\ \E op \in {"read", "write"}, b \in 0 .. TotalBlocks, d \in Data :
       \/ /\ exists /\ InRange(b)
          /\ call' = [op |-> op, block |-> b, piece |-> 0, data |-> d]
          /\ pc' = "registers" /\ ret' = "none"
       \/ /\ ~(exists /\ InRange(b))
          /\ ret' = "failed" /\ UNCHANGED <<call, pc>>
  /\ buffer' = BlankBuffer
  /\ UNCHANGED <<timeout, exists>> /\ UNCHANGED devVars

\* A drive that is at a command takes no other, nor the registers of another.
Listening == ~dev.bsy /\ ~dev.drq

SetRegisters ==
  /\ pc = "registers"
  /\ dev' = IF Listening THEN [dev EXCEPT !.lba = Lba] ELSE dev
  /\ Goto("command")
  /\ UNCHANGED <<cache, disk, missed>>

Accept(cmd) ==
  dev' = IF Listening
         THEN [dev EXCEPT !.bsy = TRUE, !.err = FALSE, !.cmd = cmd, !.awaited = TRUE]
         ELSE dev

Command ==
  /\ pc = "command"
  /\ Accept(call.op)
  /\ Wait("busy")
  /\ UNCHANGED <<cache, disk, missed>>

\* ata_identify finds no drive at all: the status register reads as 0.
NoDrive ==
  /\ pc = "command" /\ call.op = "identify"
  /\ Return("failed")
  /\ UNCHANGED <<buffer, exists>> /\ UNCHANGED devVars

\* Mutant of GivesUp: a loop without a time-out.
NeverGivesUp == FALSE

GivesUp == timeout = 0

\* One poll of a wait.  A bit that is not seen within Patience polls ends the
\* call, even when the last look, which costs no poll, does see it.
Until(done, step) ==
  \/ done /\ timeout > 0 /\ step /\ UNCHANGED devVars
  \/ /\ ~done /\ timeout > 0
     /\ timeout' = timeout - 1
     /\ dev' = [dev EXCEPT !.awaited = (@ /\ timeout > 1)]
     /\ UNCHANGED <<call, pc, buffer, ret, exists, cache, disk, missed>>
  \/ /\ GivesUp
     /\ Return("failed")
     /\ UNCHANGED <<buffer, exists>> /\ UNCHANGED devVars

WaitReady == pc = "busy" /\ Until(~dev.bsy, Goto("check"))

\* Mutant of CheckError: the error bit is not looked at.
CheckErrorIgnored == pc = "check" /\ Wait("drq") /\ UNCHANGED devVars

CheckError ==
  /\ pc = "check"
  /\ \/ dev.err /\ Return("failed") /\ UNCHANGED <<buffer, exists>>
     \/ ~dev.err /\ Wait("drq")
  /\ UNCHANGED devVars

WaitData == pc = "drq" /\ Until(dev.drq, Goto("transfer"))

Identified == Return("none") /\ exists' = TRUE /\ UNCHANGED buffer

\* The data of one sector.  Words written where the drive expects none are
\* dropped, words read where it offers none are whatever the bus holds.
Transfer ==
  /\ pc = "transfer"
  /\ dev' =
       IF dev.cmd # call.op THEN dev
       ELSE IF call.op = "write"
       THEN [dev EXCEPT !.bsy = TRUE, !.drq = FALSE, !.cmd = "store",
                        !.data = <<call.data, call.piece>>]
       ELSE [dev EXCEPT !.drq = FALSE, !.cmd = "none", !.data = Garbage]
  /\ \/ call.op = "identify" /\ Identified
     \/ /\ call.op = "read"
        /\ buffer' = [buffer EXCEPT
             ![call.piece] = IF dev.cmd = "read" THEN dev.data ELSE Garbage]
        /\ pc' = "stored" /\ timeout' = Patience
        /\ UNCHANGED <<call, ret, exists>>
     \/ call.op = "write" /\ Wait("stored")
  /\ UNCHANGED <<cache, disk, missed>>

\* The next sector is another call of ata_read_sectors or ata_write_sectors.
\* Mutant of LastPiece: <= for <.
OnePieceMore == call.piece = SectorsPerBlock

LastPiece == call.piece = SectorsPerBlock - 1

NextPiece ==
  \/ /\ LastPiece
     /\ Return("ok")
     /\ UNCHANGED <<buffer, exists>>
  \/ /\ ~LastPiece
     /\ call' = [call EXCEPT !.piece = @ + 1]
     /\ pc' = "registers" /\ timeout' = 0
     /\ UNCHANGED <<buffer, ret, exists>>

\* Mutant of AfterData: the cache is not flushed.
AfterDataUnflushed == NextPiece

AfterData == IF call.op = "read" THEN NextPiece ELSE Goto("flush")

\* The status register is not looked at for an error here, nor after the flush.
WaitStored == pc = "stored" /\ Until(~dev.bsy, AfterData)

Flush ==
  /\ pc = "flush"
  /\ Accept("flush")
  /\ Wait("flushed")
  /\ UNCHANGED <<cache, disk, missed>>

WaitFlushed == pc = "flushed" /\ Until(~dev.bsy, NextPiece)

Step ==
  \/ SetRegisters \/ Command \/ WaitReady \/ CheckError \/ WaitData
  \/ Transfer \/ WaitStored \/ Flush \/ WaitFlushed

-----------------------------------------------------------------------------
\* The drive finishes the command it is at, or reports an error.  Two answers
\* are not looked for by the driver: one that comes after the last poll that
\* counts, and an error once the data are transferred.
Offer(content) ==
  /\ dev' = [dev EXCEPT !.bsy = FALSE, !.drq = TRUE, !.data = content]
  /\ UNCHANGED <<cache, disk>>

Finish ==
  \/ dev.cmd = "read" /\ Offer(cache[dev.lba])
  \/ dev.cmd \in {"identify", "write"} /\ Offer(Garbage)
  \/ /\ dev.cmd \in {"store", "flush"}
     /\ dev' = [dev EXCEPT !.bsy = FALSE, !.cmd = "none", !.data = Garbage]
     /\ cache' = IF dev.cmd = "store" THEN [cache EXCEPT ![dev.lba] = dev.data] ELSE cache
     /\ disk' = IF dev.cmd = "flush" THEN cache ELSE disk

Answer ==
  /\ dev.bsy
  /\ Finish
  /\ missed' = (missed \/ ~dev.awaited)
  /\ UNCHANGED hostVars

ReportError ==
  /\ dev.bsy
  /\ dev' = [dev EXCEPT !.bsy = FALSE, !.err = TRUE, !.cmd = "none", !.data = Garbage]
  /\ missed' = (missed \/ ~dev.awaited \/ dev.cmd \in {"store", "flush"})
  /\ UNCHANGED <<cache, disk>> /\ UNCHANGED hostVars

\* The drive writes its cache back when it likes.
WriteBack ==
  /\ \E s \in Sectors : disk[s] # cache[s] /\ disk' = [disk EXCEPT ![s] = cache[s]]
  /\ UNCHANGED <<dev, cache, missed>> /\ UNCHANGED hostVars

\* The power goes and comes back: the kernel starts again with ata_init.
PowerCut ==
  /\ call' = [op |-> "identify"] /\ pc' = "registers" /\ timeout' = 0
  /\ buffer' = BlankBuffer /\ ret' = "none" /\ exists' = FALSE
  /\ dev' = PoweredOn /\ cache' = disk
  /\ UNCHANGED <<disk, missed>>

Next ==
  \/ Begin \/ NoDrive \/ Step
  \/ Answer \/ ReportError \/ WriteBack \/ PowerCut

Fairness == WF_vars(Step)
Spec == Init /\ [][Next]_vars /\ Fairness

-----------------------------------------------------------------------------
\* What the driver may rely on as long as the drive has done nothing that it
\* does not look for.  Either the drive is at a command whose wait has run out,
\* and then nothing the driver does reaches it any more; or it is where the
\* driver's program says that it is, and only the sector that is being written
\* may differ between its cache and what is durable.
Stuck ==
  /\ dev.bsy /\ ~dev.awaited
  /\ \/ pc \in {"idle", "registers", "command", "busy"}
     \/ pc \in {"stored", "flushed"} /\ timeout = 0

Given == <<call.data, call.piece>>
Quiet == ~dev.bsy /\ ~dev.drq /\ dev.cmd = "none"
Busy(cmd) == dev.bsy /\ ~dev.drq /\ dev.cmd = cmd
Refused == Quiet /\ dev.err
Offering ==
  /\ ~dev.bsy /\ dev.drq /\ ~dev.err /\ dev.cmd = call.op
  /\ call.op = "read" => dev.data = disk[Lba]
OnlyGiven ==
  /\ cache[Lba] = Given
  /\ \A s \in Sectors \ {Lba} : cache[s] = disk[s]

BeforeData ==
  /\ cache = disk
  /\ pc \in {"idle", "registers", "command"} => Quiet
  /\ pc \in {"command", "busy", "check", "drq", "transfer"} => dev.lba = Lba
  /\ pc = "busy" => timeout > 0 /\ ((Busy(call.op) /\ ~dev.err) \/ Offering \/ Refused)
  /\ pc = "check" => Offering \/ Refused
  /\ pc = "drq" => timeout > 0 /\ Offering
  /\ pc = "transfer" => Offering

Storing ==
  /\ timeout > 0
  /\ call.op = "read" => Quiet /\ cache = disk
  /\ call.op = "write" =>
       \/ Busy("store") /\ dev.lba = Lba /\ dev.data = Given /\ cache = disk
       \/ Quiet /\ OnlyGiven

Flushing ==
  /\ call.op = "write" /\ OnlyGiven
  /\ pc = "flush" => Quiet
  /\ pc = "flushed" => timeout > 0 /\ (Busy("flush") \/ (Quiet /\ cache = disk))

\* The pieces before the one that the call is at are done.
Progress ==
  /\ call.op = "write" =>
       \A q \in Pieces : q < call.piece => disk[Sector(call.block, q)] = <<call.data, q>>
  /\ call.op = "read" =>
       \A q \in Pieces : q < call.piece \/ (q = call.piece /\ pc = "stored")
                           => buffer[q] = disk[Sector(call.block, q)]

Working ==
  /\ dev.awaited
  /\ pc \notin {"stored", "flush", "flushed"} => BeforeData
  /\ pc = "stored" => Storing
  /\ pc \in {"flush", "flushed"} => Flushing
  /\ Progress

\* Every sector holds the piece of a block that it is the place of.
InPlace ==
  \A b \in Blocks, p \in Pieces :
    cache[Sector(b, p)] \in Data \X {p} /\ disk[Sector(b, p)] \in Data \X {p}

\* One call at a time, whose result is not there before its end; a write leaves
\* the buffer as it is.
OneCall ==
  /\ pc = "idle" <=> call = NoCall
  /\ pc # "idle" => ret = "none"
  /\ call.op = "write" => buffer = BlankBuffer

\* As long as the drive has done nothing that the driver does not look for
\* (missed), the driver knows where the drive is although it only looks at one
\* bit at a time: at every place of ata_read_sectors and ata_write_sectors the
\* drive is at this call's command and sector or has refused it, the sectors
\* before it are done, and at most the sector being written is not yet durable;
\* and once a wait has run out on a command that the drive is still at, no later
\* call gets past its own first wait.
KnownState == OneCall /\ (~missed => InPlace /\ (Stuck \/ Working))

-----------------------------------------------------------------------------
(***************************************************************************)
(* The block store that the driver implements.                             *)
(***************************************************************************)
\* The data of piece p of a block, where it is that piece.
PieceOf(content, p) == IF content \in Data \X {p} THEN content[1] ELSE Garbage[1]

StoredBlocks == [b \in Blocks |-> [p \in Pieces |-> PieceOf(disk[Sector(b, p)], p)]]

SectorOf(bp) == Sector(bp[1], bp[2])
Unlanded == {bp \in Blocks \X Pieces : cache[SectorOf(bp)] # disk[SectorOf(bp)]}

PiecesInFlight ==
  {<<bp[1], bp[2], PieceOf(cache[SectorOf(bp)], bp[2])>> : bp \in Unlanded}

Request ==
  IF call.op \in {"read", "write"}
  THEN [op |-> call.op, block |-> call.block, data |-> call.data]
  ELSE NoCall

Answered ==
  IF ret = "none" THEN [status |-> "none"]
  ELSE IF ret = "failed" THEN [status |-> "failed"]
  ELSE IF buffer = BlankBuffer THEN [status |-> "stored"]
  ELSE [status |-> "read", content |-> [p \in Pieces |-> PieceOf(buffer[p], p)]]

Store == INSTANCE BlockStore WITH
  stored <- StoredBlocks, inFlight <- PiecesInFlight,
  request <- Request, answer <- Answered, excused <- missed

\* As long as the drive answers only what the driver waits for, and reports no
\* error after the last one that it looks for, rfss_read_block and
\* rfss_write_block are the block store that the filesystem takes them for: a
\* write that returned 0 is stored for good, one that returned -1 or was cut
\* off has stored a first part of the block and nothing else (its next sector
\* may still follow), and a read that returned 0 has read what is stored.
StoreImplemented == Store!Spec

\* Whatever the drive does or fails to do, the kernel is never stuck in a
\* transfer: the two loops that poll the status register end (ata_wait_bsy,
\* ata_wait_drq) and every transfer returns, unless the power goes off and on
\* for ever.
TransfersEnd == []<>(pc = "idle") \/ []<><<PowerCut>>_vars
=============================================================================
