------------------------------ MODULE Console ------------------------------
(***************************************************************************)
(* The text screen (src/drivers/console.c, src/drivers/screen.c): cells    *)
(* that characters are drawn into, a cursor, wrapping and scrolling.       *)
(* draw_char paints only the pixels of the character, so a cell holds      *)
(* every character drawn since it was last cleared, and drawing a blank    *)
(* clears nothing.                                                         *)
(***************************************************************************)
EXTENDS Integers, Sequences, SequencesExt

CONSTANTS Cols, Rows      \* console.max_x and console.max_y

ASSUME ScreenAssumption == Cols \in Nat \ {0} /\ Rows \in Nat \ {0}

Newline == "newline"
Rubout == "rubout"        \* '\b'
Space == "space"
Glyphs(c) == IF c = Space THEN {} ELSE {c}

\* mark is the row of the last prompt (history: the screen does not know it); it
\* is negative when the prompt has scrolled off the screen.
Cleared == [cells |-> [y \in 0 .. Rows - 1 |-> [x \in 0 .. Cols - 1 |-> {}]],
            x |-> 0, y |-> 0, mark |-> 0]

Scrolled(con) ==
  [cells |-> [y \in 0 .. Rows - 1 |->
                IF y < Rows - 1 THEN con.cells[y + 1] ELSE Cleared.cells[y]],
   x |-> 0, y |-> Rows - 1,
   mark |-> IF con.mark > -Rows THEN con.mark - 1 ELSE con.mark]

\* The cursor leaves the last column for the next row, the last row by scrolling.
Settled(con) ==
  LET wrapped == IF con.x >= Cols THEN [con EXCEPT !.x = 0, !.y = @ + 1] ELSE con
  IN IF wrapped.y >= Rows THEN Scrolled(wrapped) ELSE wrapped

StepBack(con) ==
  LET back == IF con.x > 0 THEN [con EXCEPT !.x = @ - 1]
              ELSE [con EXCEPT !.x = Cols - 1, !.y = @ - 1]
  IN IF con.x = 0 /\ con.y = 0 THEN con
     ELSE [back EXCEPT !.cells[back.y][back.x] = {}]

Moved(con, c) ==
  CASE c = Newline -> [con EXCEPT !.x = 0, !.y = @ + 1]
    [] c = Rubout -> StepBack(con)
    [] OTHER -> [con EXCEPT !.cells[con.y][con.x] = @ \cup Glyphs(c), !.x = @ + 1]

PutChar(con, c) == Settled(Moved(con, c))
Put(con, text) == FoldLeft(PutChar, con, text)
SetCursor(con, x, y) == [con EXCEPT !.x = x, !.y = y]
=============================================================================
