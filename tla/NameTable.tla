----------------------------- MODULE NameTable -----------------------------
(***************************************************************************)
(* What one block of an RFSS directory promises the functions that scan    *)
(* it: it is a set of names, each with an inode, that answers one request  *)
(* at a time, and it may refuse another name for want of room.             *)
(***************************************************************************)
EXTENDS Integers

CONSTANTS Names, NoName, Files

VARIABLES entries, request, ret

vars == <<entries, request, ret>>

Request(call, name, inode) == [call |-> call, name |-> name, inode |-> inode]
NoRequest == Request("none", NoName, 0)

\* A name is added only when it is not there (the callers look first).
Asked ==
  {Request("find", n, 0) : n \in Names} \cup {Request("empty", NoName, 0)}
    \cup {Request("remove", n, i) : n \in Names, i \in Files}
    \cup {Request("add", n, i) : n \in {m \in Names : \A e \in entries : e[1] # m}, i \in Files}

Init == entries \subseteq Names \X Files /\ request = NoRequest /\ ret = 0

Ask ==
  /\ request = NoRequest
  /\ request' \in Asked
  /\ UNCHANGED <<entries, ret>>

Find ==
  /\ request.call = "find"
  /\ \/ <<request.name, ret'>> \in entries
     \/ ret' = 0 /\ \A e \in entries : e[1] # request.name
  /\ UNCHANGED entries

Add ==
  /\ request.call = "add"
  /\ \/ entries' = entries \cup {<<request.name, request.inode>>} /\ ret' = 1
     \/ UNCHANGED entries /\ ret' = 0

Remove ==
  /\ request.call = "remove"
  /\ entries' = entries \ {<<request.name, request.inode>>}
  /\ UNCHANGED ret

Empty ==
  /\ request.call = "empty"
  /\ ret' = IF entries = {} THEN 1 ELSE 0
  /\ UNCHANGED entries

Answer == request' = NoRequest /\ (Find \/ Add \/ Remove \/ Empty)

Next == Ask \/ Answer

Spec == Init /\ [][Next]_vars
=============================================================================
