------------------------------ MODULE FileTree ------------------------------
(***************************************************************************)
(* What a user of RFSS sees of a drive, a tree of named files and          *)
(* directories, and what one command may do to it.  A command is about one *)
(* path from its beginning to its end.  touch and mkdir add that path, rm  *)
(* and rmdir take it out if nothing is below it, in one step each.  edit   *)
(* empties the file at it, then lets it grow block by block; cp adds the   *)
(* path first and then does the same.  A command may end after any step,   *)
(* refused, failed or cut off: what it has done by then stays.             *)
(***************************************************************************)
EXTENDS Integers, Sequences

CONSTANTS Names, DirectBlocks

VARIABLES
  tree,    \* a set of nodes: a path, a type and a length in blocks
  doing,   \* what the command in progress does next, "nothing" without one
  at       \* the path it is about, as a set: empty without a command

vars == <<tree, doing, at>>

Node(path, type, size) == [path |-> path, type |-> type, size |-> size]
Nodes(type) == {n \in tree : n.type = type}
PathsOf(nodes) == {n.path : n \in nodes}
IsChild(p, q) == Len(p) = Len(q) + 1 /\ SubSeq(p, 1, Len(q)) = q

Init == tree = {Node(<<>>, "directory", 0)} /\ doing = "nothing" /\ at = {}

Begin ==
  /\ doing = "nothing"
  /\ \/ /\ doing' \in {"add", "copy"}
        /\ \E p \in PathsOf(tree), name \in Names : at' = {Append(p, name)}
     \/ /\ doing' \in {"remove", "empty"}
        /\ \E p \in PathsOf(tree) : at' = {p}
  /\ UNCHANGED tree

Over == doing' = "nothing" /\ at' = {}
End == Over /\ UNCHANGED tree

GoesOn(next) == doing' = next /\ UNCHANGED at

Create ==
  /\ \E d \in Nodes("directory"), name \in Names, type \in {"file", "directory"} :
       /\ at = {Append(d.path, name)}
       /\ Append(d.path, name) \notin PathsOf(tree)
       /\ tree' = tree \cup {Node(Append(d.path, name), type, 0)}
       /\ doing = "copy" => type = "file"
  /\ \/ doing = "add" /\ Over
     \/ doing = "copy" /\ GoesOn("empty")

Delete ==
  /\ doing = "remove"
  /\ \E n \in tree :
       /\ n.path # <<>> /\ at = {n.path}
       /\ \A m \in tree : ~IsChild(m.path, n.path)
       /\ tree' = tree \ {n}
  /\ Over

\* The file at the path gets another length.
Resize(n, size) ==
  /\ n \in Nodes("file") /\ at = {n.path} /\ size \in 0 .. DirectBlocks
  /\ tree' = (tree \ {n}) \cup {[n EXCEPT !.size = size]}

Empty ==
  /\ doing = "empty"
  /\ \E n \in tree : Resize(n, 0)
  /\ Over \/ GoesOn("fill")

Fill ==
  /\ doing = "fill"
  /\ \E n \in tree : Resize(n, n.size) \/ Resize(n, n.size + 1)
  /\ Over \/ GoesOn("fill")

Next == Begin \/ Create \/ Delete \/ Empty \/ Fill \/ End

Spec == Init /\ [][Next]_vars
=============================================================================
