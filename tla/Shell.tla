------------------------------- MODULE Shell -------------------------------
(***************************************************************************)
(* The shell's key handlers (src/user/shell/shell.c), the editor           *)
(* (src/user/shell/edit.c) that takes the keys over while it is open, and  *)
(* scripts (src/user/shell/rsh/rsh.c), whose commands run even then.       *)
(* keyboard_callback calls them one key at a time; each runs to its end,   *)
(* the command of an entered line included.                                *)
(* A character of the model may stand for a word, a file for one in either *)
(* of two directories; what commands print is a number of lines.           *)
(***************************************************************************)
EXTENDS Console, KHeap, FiniteSets

CONSTANTS
  Chars,          \* what can be typed
  LineSize,       \* sizeof(input_buffer) - 1
  HistorySize,    \* entries of history
  EditLimit,      \* sizeof(edit_buffer) - 1
  InodeSize,      \* sizeof(rfss_inode_t): what opening a file costs of the heap
  Blanks,         \* the blanks that shell_redisplay_input prints
  Contents,       \* what the files hold at first
  Meaning,        \* the command, or the script, that each line stands for
  \* Bounds: the lines entered, and the lines that a command prints.
  MaxLines, MaxOutput

ScriptLines == {"edit f", "edit missing", "cd", "if true", "else", "endif", "unknown"}

ASSUME ShellAssumption ==
  /\ LineSize \in Nat /\ HistorySize \in Nat \ {0} /\ EditLimit \in Nat
  /\ InodeSize \in Nat \ {0} /\ Blanks \in Nat
  /\ MaxLines \in Nat /\ MaxOutput \in Nat
  /\ Contents \subseteq Seq(Chars)
  /\ Meaning \in [BoundedSeq(Chars, LineSize) -> [rsh : BOOLEAN, lines : Seq(ScriptLines)]]

\* The screen is 240 by 67 characters and the line 255: a prompt fits on a row,
\* and what is typed behind it on the screen.  Enter and backspace are no characters.
ASSUME EchoAssumption ==
  /\ Cols > 2 /\ LineSize <= Cols * (Rows - 1)
  /\ {Newline, Rubout} \cap Chars = {}

Dirs == {"root", "sub"}
File(dir) == <<dir, "f">>
Files == {File(dir) : dir \in Dirs}

VARIABLES
  con,        \* the console
  line,       \* input_buffer up to input_pos
  start,      \* input_start_x
  history,
  index,      \* history_index
  ed,         \* the editor
  cwd,        \* fs->current_path
  files,      \* the contents of the files on the drive
  heap,
  report,     \* what the editor said when it was left last
  entered,    \* history: how many lines were entered that were not empty
  recent,     \* history: the last HistorySize of them
  recalled    \* history: the line was redisplayed since the prompt

vars == <<con, line, start, history, index, ed, cwd, files, heap, report,
          entered, recent, recalled>>

\* edit_buffer, cursor_pos, current_file, and as history: the file that was
\* loaded, whether another command has run since, and the shortest that the text
\* has been.
Closed == [on |-> FALSE, text |-> <<>>, cursor |-> 0, name |-> "none",
           loaded |-> File("root"), disturbed |-> FALSE, low |-> 0]
Reports == {"none", "saved", "error"}
Lines == BoundedSeq(Chars, LineSize)

TypeOK ==
  /\ con.x \in 0 .. Cols - 1 /\ con.y \in 0 .. Rows - 1
  /\ con.cells \in [0 .. Rows - 1 -> [0 .. Cols - 1 -> SUBSET (Chars \cup {"prompt", "text"})]]
  /\ line \in Lines /\ start \in 0 .. Cols - 1
  /\ history \in BoundedSeq(Lines, HistorySize)
  /\ index \in -1 .. Len(history) - 1
  /\ ed.on \in BOOLEAN /\ Len(ed.text) <= EditLimit /\ ed.cursor \in 0 .. Len(ed.text)
  /\ ed.low \in 0 .. Len(ed.text)
  /\ cwd \in Dirs /\ DOMAIN files = Files
  /\ heap.offset \in 0 .. HeapSize /\ report \in Reports

-----------------------------------------------------------------------------
\* What commands change: the editor, the current directory and the heap.
\* rfss_open_file finds the one file there is in each directory, and takes a
\* copy of its inode from the heap.
OpenFails(w, name) == name # "f" \/ ~Fits(w.heap, InodeSize)
Opening(w, name) == IF name = "f" THEN Kmalloc(w.heap, InodeSize) ELSE w.heap

\* A command that runs while the editor is open disturbs it.
Disturbed(w) == w.ed.disturbed \/ w.ed.on

\* cmd_edit: current_file is set first, whether or not the file can be opened.
Edit(w, name) ==
  LET content == files[File(w.cwd)]
      text == SubSeq(content, 1, IF Len(content) < EditLimit THEN Len(content) ELSE EditLimit)
  IN [w EXCEPT
        !.heap = Opening(w, name),
        !.ed =
          IF OpenFails(w, name)
          THEN [w.ed EXCEPT !.name = name, !.disturbed = Disturbed(w)]
          ELSE [on |-> TRUE, text |-> text, cursor |-> Len(text), name |-> name,
                loaded |-> File(w.cwd), disturbed |-> FALSE, low |-> Len(text)]]

\* cmd_cd into the subdirectory, and out of it with "..".
Cd(w) == [w EXCEPT !.cwd = IF @ = "root" THEN "sub" ELSE "root",
                   !.ed.disturbed = Disturbed(w)]

\* shell_execute_command
Execute(w, command) ==
  CASE command = "edit f" -> Edit(w, "f")
    [] command = "edit missing" -> Edit(w, "missing")
    [] command = "cd" -> Cd(w)
    [] OTHER -> w

\* execute_script, line by line: in_if and execute_if are all it remembers.
ScriptLine(s, l) ==
  CASE l = "if true" -> [s EXCEPT !.inIf = TRUE, !.executeIf = TRUE]
    [] l = "else" -> [s EXCEPT !.executeIf = IF s.inIf THEN ~@ ELSE @]
    [] l = "endif" -> [s EXCEPT !.inIf = FALSE, !.executeIf = FALSE]
    [] OTHER -> IF ~s.inIf \/ s.executeIf THEN [s EXCEPT !.w = Execute(@, l)] ELSE s

\* cmd_rsh opens the script before it runs it.
RunScript(w, lines) ==
  IF OpenFails(w, "f") THEN w
  ELSE FoldLeft(ScriptLine, [inIf |-> FALSE, executeIf |-> FALSE,
                             w |-> [w EXCEPT !.heap = Opening(w, "f")]], lines).w

\* shell_handle_input
Run(w, m) == IF m.rsh THEN RunScript(w, m.lines) ELSE Execute(w, m.lines[1])

World == [ed |-> ed, cwd |-> cwd, heap |-> heap]
SetWorld(w) == ed' = w.ed /\ cwd' = w.cwd /\ heap' = w.heap

-----------------------------------------------------------------------------
\* What is on the screen.  shell_display_prompt's prompt is longer in the
\* subdirectory; nothing above it is looked at again.
Prompt(dir) == IF dir = "root" THEN <<"prompt">> ELSE <<"prompt", "prompt">>
Forget(c) == [c EXCEPT !.cells = [y \in 0 .. Rows - 1 |->
                                    IF y < c.y THEN Cleared.cells[y] ELSE c.cells[y]],
                       !.mark = c.y]
Prompted(c, dir) == Put(Forget(c), Prompt(dir))
NewLines(n) == [i \in 1 .. n |-> Newline]

\* redraw_edit clears the screen and prints the text; what of it is on the
\* screen is left out, for the screen is cleared again when the editor ends.
Redrawn == Cleared

ShowPrompt(c, dir) ==
  LET p == Prompted(c, dir) IN con' = p /\ start' = p.x /\ recalled' = FALSE

-----------------------------------------------------------------------------
Init ==
  /\ con = Prompted(Cleared, "root") /\ start = con.x
  /\ line = <<>> /\ history = <<>> /\ index = -1
  /\ ed = Closed /\ cwd = "root"
  /\ files \in [Files -> Contents]
  /\ heap = FreshHeap /\ report = "none"
  /\ entered = 0 /\ recent = <<>> /\ recalled = FALSE

\* edit_input_char
\* Mutant of Inserted: the cursor is not looked at.
InsertedInFront(c) == <<c>> \o ed.text

Inserted(c) == SubSeq(ed.text, 1, ed.cursor) \o <<c>>
                 \o SubSeq(ed.text, ed.cursor + 1, Len(ed.text))
EditorKey(text, cursor) ==
  /\ ed' = [ed EXCEPT !.text = text, !.cursor = cursor,
                      !.low = IF Len(text) < @ THEN Len(text) ELSE @]
  /\ con' = Redrawn
  /\ UNCHANGED <<line, start, history, index, cwd, files, heap, report,
                 entered, recent, recalled>>

EditorType ==
  /\ ed.on
  /\ \E c \in Chars :
       IF Len(ed.text) < EditLimit THEN EditorKey(Inserted(c), ed.cursor + 1)
       ELSE EditorKey(ed.text, ed.cursor)

EditorBackspace ==
  /\ ed.on
  /\ IF ed.cursor > 0
     THEN EditorKey(SubSeq(ed.text, 1, ed.cursor - 1)
                      \o SubSeq(ed.text, ed.cursor + 1, Len(ed.text)), ed.cursor - 1)
     ELSE EditorKey(ed.text, ed.cursor)

\* shell_special_key moves the cursor with the left and the right arrow, but
\* keyboard_callback passes on only these keys.
SpecialKeys == {"escape", "up", "down"}

EditorArrow ==
  /\ ed.on
  /\ \E key \in SpecialKeys \ {"escape"} :
       IF key \in {"left", "right"}
       THEN \E step \in {-1, 1} :
              /\ ed.cursor + step \in 0 .. Len(ed.text)
              /\ step = 1 <=> key = "right"
              /\ EditorKey(ed.text, ed.cursor + step)
       ELSE UNCHANGED vars

\* Mutant of SaveTarget: the name is resolved from the root.
SaveInRoot == File("root")

SaveTarget == File(cwd)

\* Mutant of SavedFiles: the file is emptied before memory is asked for.
TruncatedFirst(opened) ==
  IF ed.name = "f" THEN [files EXCEPT ![SaveTarget] = IF opened THEN ed.text ELSE <<>>]
  ELSE files

SavedFiles(opened) == IF opened THEN [files EXCEPT ![SaveTarget] = ed.text] ELSE files

\* ESC in shell_special_key: current_file is opened again, from the directory
\* that is current now, which empties it, and an empty text writes nothing.  The
\* text is one block: when the drive is full it still fits in the one that was
\* freed, unless the file had none.  (A drive that fails is the matter of Rfss.)
Escape ==
  /\ ed.on
  /\ \E full \in BOOLEAN :
       LET opened == ~OpenFails(World, ed.name)
           saved == opened /\ ~full /\ ed.text # <<>>
       IN /\ full => files[SaveTarget] = <<>>
          /\ files' = SavedFiles(opened /\ ~full)
          /\ report' = IF saved THEN "saved" ELSE "error"
  /\ heap' = Opening(World, ed.name)
  /\ ed' = Closed
  /\ ShowPrompt(Put(Cleared, <<"text", Newline>>), cwd)
  /\ UNCHANGED <<line, history, index, cwd, entered, recent>>

\* shell_input_char, with the editor closed.  A key beyond the end of the layout's
\* table (the left arrow is one) is whatever character the table is followed by.
\* Mutant of Room: off by one.
RoomToTheEnd == Len(line) <= LineSize

Room == Len(line) < LineSize

Type ==
  /\ ~ed.on
  /\ Room
  /\ \E c \in Chars : line' = Append(line, c) /\ con' = PutChar(con, c)
  /\ UNCHANGED <<start, history, index, ed, cwd, files, heap, report, entered, recent, recalled>>

\* Mutant of RubOut: the cursor does not come back.
BackOnly == <<Rubout, Space>>

RubOut == <<Rubout, Space, Rubout>>

Backspace ==
  /\ ~ed.on
  /\ line # <<>>
  /\ line' = Front(line)
  /\ con' = Put(con, RubOut)
  /\ UNCHANGED <<start, history, index, ed, cwd, files, heap, report, entered, recent, recalled>>

LastOf(n, s) == SubSeq(s, IF Len(s) > n THEN Len(s) - n + 1 ELSE 1, Len(s))
\* Mutant of Remembered: the newest entry is overwritten, the others are not shifted.
RememberedUnshifted ==
  IF Len(history) < HistorySize THEN Append(history, line) ELSE Append(Front(history), line)

Remembered == IF Len(history) < HistorySize THEN Append(history, line)
              ELSE Append(Tail(history), line)

\* The prompt is not shown while the editor is open: the new line of
\* shell_handle_input goes to the editor's screen.
Enter ==
  /\ ~ed.on
  /\ entered < MaxLines
  /\ index' = -1 /\ line' = <<>>
  /\ \E n \in 0 .. MaxOutput :
       LET w == IF line = <<>> THEN World ELSE Run(World, Meaning[line])
           printed == Put(con, <<Newline>> \o NewLines(n) \o <<Newline>>)
       IN /\ SetWorld(w)
          /\ IF w.ed.on THEN con' = Redrawn /\ UNCHANGED <<start, recalled>>
             ELSE ShowPrompt(printed, w.cwd)
  /\ IF line = <<>> THEN UNCHANGED <<history, entered, recent>>
     ELSE /\ history' = Remembered
          /\ entered' = entered + 1
          /\ recent' = LastOf(HistorySize, Append(recent, line))
  /\ UNCHANGED <<files, report>>

\* shell_redisplay_input, with what input_buffer holds now.
Redisplay(l) ==
  /\ line' = l
  /\ con' = Put(SetCursor(Put(SetCursor(con, start, con.y), [i \in 1 .. Blanks |-> Space]),
                          start, con.y), l)
  /\ recalled' = TRUE

Up ==
  /\ ~ed.on
  /\ history # <<>>
  /\ index' = IF index = -1 THEN Len(history) - 1 ELSE IF index > 0 THEN index - 1 ELSE index
  /\ Redisplay(history[index' + 1])
  /\ UNCHANGED <<start, history, ed, cwd, files, heap, report, entered, recent>>

Down ==
  /\ ~ed.on
  /\ index # -1
  /\ IF index < Len(history) - 1
     THEN index' = index + 1 /\ Redisplay(history[index' + 1])
     ELSE index' = -1 /\ Redisplay(<<>>)
  /\ UNCHANGED <<start, history, ed, cwd, files, heap, report, entered, recent>>

Next ==
  \/ Type \/ Backspace \/ Enter \/ Up \/ Down
  \/ EditorType \/ EditorBackspace \/ EditorArrow \/ Escape

Spec == Init /\ [][Next]_vars

-----------------------------------------------------------------------------
\* history holds the lines entered last, oldest first, however many there were.
HistoryIsRecent == history = recent

\* What shell_input_char echoes is what Enter will run: the characters of
\* input_buffer follow the prompt, across rows and scrolling, and nothing else
\* does.  It is not so once a line was recalled: draw_char leaves the line that
\* was there under it.
EchoShowsLine ==
  ~ed.on /\ ~recalled =>
    LET Place(i) == start + i - 1
        Row(i) == con.mark + Place(i) \div Cols
        Cell(i) == con.cells[Row(i)][Place(i) % Cols]
    IN /\ \A i \in 1 .. Cols * Rows - start :
            Row(i) \in 0 .. Rows - 1 =>
              Cell(i) = IF i <= Len(line) THEN Glyphs(line[i]) ELSE {}
       /\ con.y = Row(Len(line) + 1) /\ con.x = Place(Len(line) + 1) % Cols

\* The text in the editor is the file that was loaded with its end rubbed out
\* and something else typed, for no key moves the cursor away from the end.  Of
\* a file that does not fit in the editor's buffer, the end counts as rubbed out.
TextExtendsFile ==
  ed.on =>
    SubSeq(ed.text, 1, ed.low) = SubSeq(files[ed.loaded], 1, ed.low)

\* kmalloc never hands out the same bytes twice (see KHeap).
HeapAreasDisjoint == AreasDisjoint(heap)

\* Only leaving the editor changes a file, and the file that it changes is the
\* one that was loaded, unless a script changed the directory, or named another
\* file to edit, after it had opened the editor.
OnlyTheEditedFile ==
  [][files' # files =>
       ed.on /\ (~ed.disturbed => files' = [files EXCEPT ![ed.loaded] = ed.text])]_vars

\* "File saved successfully." is said when a file holds the whole text, and
\* "Error saving file." when no file has changed, with the heap used up or the
\* drive full too; except that an empty text empties the file and is called an
\* error.
ReportIsTrue ==
  [][ed.on /\ ~ed'.on =>
       \/ report' = "saved" /\ \E f \in Files : files' = [files EXCEPT ![f] = ed.text]
       \/ report' = "error" /\ (files' = files \/ ed.text = <<>>)]_vars
=============================================================================
