----------------------------- MODULE BlockStore -----------------------------
(***************************************************************************)
(* What the filesystem expects of rfss_read_block and rfss_write_block: a  *)
(* drive of blocks that one request at a time reads or writes.  A write    *)
(* sends the pieces of a block in order, the next one when the last has    *)
(* landed, and reports success only when all of them have.  A write that   *)
(* fails may leave one piece in flight, which lands later or never.  A     *)
(* read that reports success returns what a power cut would leave.         *)
(***************************************************************************)
EXTENDS Integers

CONSTANTS Blocks, Pieces, Data

VARIABLES
  stored,    \* the data of each piece of each block that a power cut leaves
  inFlight,  \* the pieces, as <<block, piece, data>>, that have not landed
  request,   \* the request in progress, or NoRequest
  answer,    \* what the last request returned, or NoAnswer
  excused    \* the drive broke a rule on which the promise depends

vars == <<stored, inFlight, request, answer, excused>>

NoRequest == [op |-> "none"]
NoAnswer == [status |-> "none"]
Failed == [status |-> "failed"]
Stored == [status |-> "stored"]
Read(content) == [status |-> "read", content |-> content]

Init ==
  /\ stored \in [Blocks -> [Pieces -> Data]] /\ inFlight = {}
  /\ request = NoRequest /\ answer = NoAnswer
  /\ excused = FALSE

Ask ==
  /\ request = NoRequest
  /\ \E b \in Blocks, op \in {"read", "write"}, d \in Data :
       request' = [op |-> op, block |-> b, data |-> d]
  /\ answer' = NoAnswer
  /\ UNCHANGED <<stored, inFlight>>

\* A request that cannot be started: a block outside the drive, or no drive.
Refuse ==
  /\ request = NoRequest
  /\ answer' = Failed
  /\ UNCHANGED <<stored, inFlight, request>>

Holds(b, p, d) == stored[b][p] = d

SendPiece ==
  /\ request.op = "write" /\ inFlight = {}
  /\ LET b == request.block
         d == request.data
     IN \E p \in Pieces :
          /\ ~Holds(b, p, d)
          /\ \A q \in Pieces : ~Holds(b, q, d) => q >= p
          /\ inFlight' = {<<b, p, d>>}
  /\ UNCHANGED <<stored, request, answer>>

Land ==
  /\ \E x \in inFlight :
       /\ stored' = [stored EXCEPT ![x[1]][x[2]] = x[3]]
       /\ inFlight' = inFlight \ {x}
  /\ UNCHANGED <<request, answer>>

End(a) == request' = NoRequest /\ answer' = a /\ UNCHANGED <<stored, inFlight>>

EndWrite ==
  /\ request.op = "write" /\ inFlight = {}
  /\ \A p \in Pieces : Holds(request.block, p, request.data)
  /\ End(Stored)

EndRead ==
  /\ request.op = "read" /\ inFlight = {}
  /\ End(Read(stored[request.block]))

Fail == request # NoRequest /\ End(Failed)

\* The power goes, and comes back.
Restart ==
  /\ request' = NoRequest /\ answer' = NoAnswer /\ inFlight' = {}
  /\ UNCHANGED stored

Next ==
  \/ /\ \/ Ask \/ Refuse \/ SendPiece \/ Land
        \/ EndWrite \/ EndRead \/ Fail \/ Restart
     /\ UNCHANGED excused
  \/ excused'

Spec == Init /\ [][Next]_vars
=============================================================================
