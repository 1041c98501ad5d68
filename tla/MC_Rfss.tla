------------------------------ MODULE MC_Rfss ------------------------------
(***************************************************************************)
(* Rfss on small drives: the path arguments, the commands of each session  *)
(* and the disk errors that the .cfg files choose from.                    *)
(***************************************************************************)
EXTENDS Rfss

Bare(n) == [absolute |-> FALSE, names |-> <<n>>]
InRoot(n) == [absolute |-> TRUE, names |-> <<n>>]
InDir(d, n) == [absolute |-> TRUE, names |-> <<d, n>>]
RootPath == [absolute |-> TRUE, names |-> <<>>]

RootNames == {Bare("a"), Bare("b")}
RootAndBelow == RootNames \cup {InRoot("a"), InDir("a", "b")}
DirsAndUp == {Bare("a"), Bare("b"), InRoot("a"), Up}
BareDirs == RootNames
NoDirs == {}

OneSession == <<{"touch", "mkdir", "rm", "rmdir", "edit", "cp", "cd"}>>

\* A session that makes a directory and a file in it, and removes the file.
RemoveBelow == <<{"mkdir", "cd", "touch", "rm"}>>

\* A session that may format the mounted drive, and may end with the power at
\* any time; one after it that only removes.
FormatOrCut ==
  <<{"touch", "mkdir", "rm", "rmdir", "edit", "format", "power_cut"}, {"rm", "rmdir"}>>

\* A session that may end with the power at any time, and another that creates.
CutThenCreate == <<{"touch", "power_cut"}, {"touch"}>>

\* Two sessions, both of which may unmount the drive at any time.
UnmountTwice == <<{"touch", "mkdir", "rm", "edit", "cp", "umount"},
                  {"touch", "mkdir", "rm", "rmdir", "edit", "umount"}>>

NoFaults == {}
=============================================================================
