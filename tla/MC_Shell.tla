------------------------------ MODULE MC_Shell ------------------------------
(***************************************************************************)
(* Shell on a small screen: the files, and what the lines that can be      *)
(* typed stand for.                                                        *)
(***************************************************************************)
EXTENDS Shell

MCContents == {<<"x">>, <<"x", "e", "x">>}

Script(lines) == [rsh |-> TRUE, lines |-> lines]
One(command) == [rsh |-> FALSE, lines |-> <<command>>]
MCMeaning ==
  [l \in BoundedSeq(Chars, LineSize) |->
     CASE l = <<"e">> -> One("edit f")
       [] l = <<"x">> -> One("cd")
       [] l = <<"e", "x">> ->
            Script(<<"if true", "edit f", "else", "edit missing", "endif", "cd">>)
       [] l = <<"x", "e">> ->
            Script(<<"if true", "cd", "else", "edit missing", "endif", "edit f">>)
       [] l = <<"e", "e">> -> Script(<<"edit f", "edit missing">>)
       [] OTHER -> One("unknown")]
=============================================================================
