---------------------------- MODULE MC_DirBlock ----------------------------
(* DirBlock with blocks of room for a few records, names of two lengths.    *)
EXTENDS DirBlock

Lengths == [n \in Names |-> IF n = "long" THEN 3 ELSE 1]
=============================================================================
