---------------------------- MODULE MC_RfssAlloc ----------------------------
(* RfssAlloc with the sizes of its .cfg files, small enough for TLC.        *)
EXTENDS RfssAlloc
=============================================================================
