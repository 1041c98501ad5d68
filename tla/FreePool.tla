------------------------------ MODULE FreePool ------------------------------
(***************************************************************************)
(* What an RFSS allocator promises its callers, for one kind of item       *)
(* (blocks or inodes).  While the filesystem is mounted there is a pool of *)
(* free items; taking one removes it from the pool, and nothing is refused *)
(* while the pool has an item.  A saved pool survives power loss; it is    *)
(* whole when the last save or format that began also completed, and the   *)
(* promise about refusals holds only for a session begun from a whole one. *)
(***************************************************************************)
EXTENDS Integers

CONSTANTS Items, None, NewPool   \* NewPool: the pool a format leaves

VARIABLES open, free, whole, saved, savedWhole, ret

vars == <<open, free, whole, saved, savedWhole, ret>>

Init ==
  /\ open = FALSE /\ free = {} /\ whole = FALSE /\ ret = None
  /\ saved = NewPool /\ savedWhole = TRUE

Take ==
  /\ open /\ free # {}
  /\ \E x \in free : free' = free \ {x} /\ ret' = x
  /\ UNCHANGED <<open, whole, saved, savedWhole>>

Refuse ==
  /\ open /\ (free = {} \/ ~whole)
  /\ ret' = None
  /\ UNCHANGED <<open, free, whole, saved, savedWhole>>

Put ==
  /\ open
  /\ \E x \in Items : free' = free \cup {x}
  /\ UNCHANGED <<open, whole, saved, savedWhole, ret>>

Open ==
  /\ ~open
  /\ open' = TRUE /\ free' = saved /\ whole' = savedWhole
  /\ UNCHANGED <<saved, savedWhole, ret>>

\* One write of a save or of a format.  Only a complete one is whole, and what
\* is whole is the pool in memory (when that is whole itself) or a new pool.
Written ==
  \/ ~savedWhole' /\ saved' \in {saved, free, NewPool}
  \/ savedWhole' /\ saved' = free /\ whole
  \/ savedWhole' /\ saved' = NewPool

Save == Written /\ UNCHANGED <<open, free, whole, ret>>

\* Unmount or power loss: the pool in memory is gone, after the last write of
\* the save if there was one.
Close ==
  /\ open' = FALSE /\ free' = {} /\ whole' = FALSE
  /\ Written \/ UNCHANGED <<saved, savedWhole>>
  /\ UNCHANGED ret

Next == Take \/ Refuse \/ Put \/ Open \/ Close \/ Save

Spec == Init /\ [][Next]_vars
=============================================================================
