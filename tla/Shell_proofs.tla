---------------------------- MODULE Shell_proofs ----------------------------
(***************************************************************************)
(* Theorems about the shell, its editor and its screen, for every size of  *)
(* the screen, the line, the history, the editor's buffer and the heap,    *)
(* and whatever the lines that are typed stand for.                        *)
(***************************************************************************)
EXTENDS Shell, Iteration

-----------------------------------------------------------------------------
(***************************************************************************)
(* The screen.                                                             *)
(***************************************************************************)
Marks == Chars \cup {"prompt", "text"}
Printable == Marks \cup {Space, Newline, Rubout}
CellRows == [0 .. Rows - 1 -> [0 .. Cols - 1 -> SUBSET Marks]]
Consoles == [cells : CellRows, x : 0 .. Cols - 1, y : 0 .. Rows - 1,
             mark : -Rows .. Rows - 1]
\* Before the cursor has settled it may be one past the end.
Unsettled == [cells : CellRows, x : 0 .. Cols, y : 0 .. Rows, mark : -Rows .. Rows - 1]

LEMMA ClearedType == Cleared \in Consoles
BY ScreenAssumption DEF Cleared, Consoles, CellRows, Marks

LEMMA CellsWritten ==
  ASSUME NEW cells \in CellRows, NEW y \in 0 .. Rows - 1, NEW x \in 0 .. Cols - 1,
         NEW marks \in SUBSET Marks
  PROVE  [cells EXCEPT ![y][x] = marks] \in CellRows
BY DEF CellRows

LEMMA SettledType ==
  ASSUME NEW c \in Unsettled, c.x = Cols => c.y < Rows
  PROVE  Settled(c) \in Consoles
<1> DEFINE w == IF c.x >= Cols THEN [c EXCEPT !.x = 0, !.y = @ + 1] ELSE c
<1>0. PICK cells \in CellRows, x \in 0 .. Cols, y \in 0 .. Rows, mark \in -Rows .. Rows - 1 :
        c = [cells |-> cells, x |-> x, y |-> y, mark |-> mark]
  BY DEF Unsettled
<1>1. w \in [cells : CellRows, x : 0 .. Cols - 1, y : 0 .. Rows, mark : -Rows .. Rows - 1]
  <2>1. CASE x >= Cols
    <3>1. w = [cells |-> cells, x |-> 0, y |-> y + 1, mark |-> mark]
      BY <1>0, <2>1
    <3>2. x = Cols
      BY <2>1, ScreenAssumption
    <3>3. y < Rows
      BY <1>0, <3>2
    <3>4. y + 1 \in 0 .. Rows /\ 0 \in 0 .. Cols - 1
      BY <3>3, ScreenAssumption
    <3> HIDE DEF w
    <3> QED
      BY <3>1, <3>4
  <2>2. CASE ~ (x >= Cols)
    <3>1. w = [cells |-> cells, x |-> x, y |-> y, mark |-> mark]
      BY <1>0, <2>2
    <3>2. x \in 0 .. Cols - 1
      BY <2>2, ScreenAssumption
    <3> HIDE DEF w
    <3> QED
      BY <3>1, <3>2
  <2> QED
    BY <2>1, <2>2
<1> HIDE DEF w
<1>2. CASE w.y >= Rows
  <2>1. [r \in 0 .. Rows - 1 |-> IF r < Rows - 1 THEN w.cells[r + 1] ELSE Cleared.cells[r]]
          \in CellRows
    BY <1>1, ScreenAssumption DEF CellRows, Cleared
  <2>2. Scrolled(w) \in Consoles
    BY <1>1, <2>1, ScreenAssumption DEF Scrolled, Consoles
  <2> QED
    BY <1>2, <2>2 DEF Settled, w
<1>3. CASE ~ (w.y >= Rows)
  <2>1. w \in Consoles
    BY <1>1, <1>3, ScreenAssumption DEF Consoles
  <2> QED
    BY <1>3, <2>1 DEF Settled, w
<1> QED
  BY <1>2, <1>3

LEMMA PutCharType ==
  ASSUME NEW c \in Consoles, NEW char \in Printable
  PROVE  PutChar(c, char) \in Consoles
<1>0. PICK cells \in CellRows, x \in 0 .. Cols - 1, y \in 0 .. Rows - 1,
           mark \in -Rows .. Rows - 1 :
        c = [cells |-> cells, x |-> x, y |-> y, mark |-> mark]
  BY DEF Consoles
<1>1. /\ c.cells \in CellRows /\ c.x \in 0 .. Cols - 1 /\ c.y \in 0 .. Rows - 1
      /\ c.mark \in -Rows .. Rows - 1
  BY DEF Consoles
<1>2. Moved(c, char) \in Unsettled /\ (Moved(c, char).x = Cols => Moved(c, char).y < Rows)
  <2>1. CASE char = Newline
    <3>1. Moved(c, char) = [cells |-> cells, x |-> 0, y |-> y + 1, mark |-> mark]
      BY <1>0, <2>1 DEF Moved, Newline, Rubout
    <3> QED
      BY <3>1, ScreenAssumption DEF Unsettled
  <2>2. CASE char = Rubout
    <3>1. Moved(c, char) = StepBack(c)
      BY <2>2 DEF Moved, Newline, Rubout
    <3>2. CASE c.x = 0 /\ c.y = 0
      BY <1>1, <3>1, <3>2, ScreenAssumption DEF StepBack, Consoles, Unsettled
    <3>3. CASE ~ (c.x = 0 /\ c.y = 0)
      <4> DEFINE back == IF c.x > 0 THEN [c EXCEPT !.x = @ - 1]
                         ELSE [c EXCEPT !.x = Cols - 1, !.y = @ - 1]
      <4>1. /\ back \in Consoles /\ back.cells = c.cells
            /\ back.x \in 0 .. Cols - 1 /\ back.y \in 0 .. Rows - 1
        <5>1. CASE x > 0
          <6>1. back = [cells |-> cells, x |-> x - 1, y |-> y, mark |-> mark]
            BY <1>0, <5>1
          <6> QED
            BY <1>0, <5>1, <6>1, ScreenAssumption DEF Consoles
        <5>2. CASE ~ (x > 0)
          <6>1. back = [cells |-> cells, x |-> Cols - 1, y |-> y - 1, mark |-> mark]
            BY <1>0, <5>2
          <6>2. y - 1 \in 0 .. Rows - 1
            BY <1>0, <3>3, <5>2, ScreenAssumption
          <6> QED
            BY <1>0, <6>1, <6>2, ScreenAssumption DEF Consoles
        <5> QED
          BY <5>1, <5>2
      <4>2. StepBack(c) = [back EXCEPT !.cells[back.y][back.x] = {}]
        BY <3>3 DEF StepBack
      <4> HIDE DEF back
      <4>3. [back.cells EXCEPT ![back.y][back.x] = {}] \in CellRows
        BY <1>1, <4>1, CellsWritten
      <4>4. StepBack(c) = [back EXCEPT !.cells = [back.cells EXCEPT ![back.y][back.x] = {}]]
        BY <4>2
      <4>5. StepBack(c) \in Consoles
        BY <4>1, <4>3, <4>4 DEF Consoles
      <4> QED
        BY <3>1, <4>5, ScreenAssumption DEF Consoles, Unsettled
    <3> QED
      BY <3>2, <3>3
  <2>3. CASE char # Newline /\ char # Rubout
    <3>1. Glyphs(char) \in SUBSET Marks /\ c.cells[c.y][c.x] \in SUBSET Marks
      BY <1>1, <2>3 DEF Glyphs, Printable, CellRows
    <3>2. [c.cells EXCEPT ![c.y][c.x] = @ \cup Glyphs(char)] \in CellRows
      BY <1>1, <3>1 DEF CellRows
    <3>3. Moved(c, char) = [cells |-> [cells EXCEPT ![y][x] = @ \cup Glyphs(char)],
                            x |-> x + 1, y |-> y, mark |-> mark]
      BY <1>0, <2>3 DEF Moved
    <3>4. [cells EXCEPT ![y][x] = @ \cup Glyphs(char)] \in CellRows
      BY <1>0, <3>2
    <3> QED
      BY <3>3, <3>4, ScreenAssumption DEF Unsettled
  <2> QED
    BY <2>1, <2>2, <2>3
<1> QED
  BY <1>2, SettledType DEF PutChar

LEMMA PutIsFold ==
  ASSUME NEW c, NEW text
  PROVE  Put(c, text) =
           (CHOOSE f : f = [s \in SUBSET DOMAIN text |->
                              IF s = {} THEN c
                              ELSE PutChar(f[s \ {Max(s)}], text[Max(s)])])[DOMAIN text]
BY DEF Put, FoldLeft, MapThenFoldSet

LEMMA PutSteps ==
  ASSUME NEW c \in Consoles, NEW text \in Seq(Printable)
  PROVE  \E g \in [0 .. Len(text) -> Consoles] :
           /\ g[0] = c /\ Put(c, text) = g[Len(text)]
           /\ \A i \in 0 .. Len(text) - 1 : g[i + 1] = PutChar(g[i], text[i + 1])
<1> DEFINE n == Len(text)
           step == [p \in Consoles \X (1 .. n) |-> PutChar(p[1], text[p[2]])]
           Fold(f) == f = [s \in SUBSET (1 .. n) |->
                             IF s = {} THEN c ELSE PutChar(f[s \ {Max(s)}], text[Max(s)])]
           iter == CHOOSE f : Fold(f)
<1>1. n \in Nat /\ DOMAIN text = 1 .. n /\ \A i \in 1 .. n : text[i] \in Printable
  BY LenProperties, ElementOfSeq
<1>2. step \in [Consoles \X (1 .. n) -> Consoles]
  BY <1>1, PutCharType
<1>3. \A d \in Consoles, i \in 1 .. n : step[<<d, i>>] = PutChar(d, text[i])
  OBVIOUS
<1> HIDE DEF n, step
<1>4. PICK f \in [SUBSET (1 .. n) -> Consoles] : Solves(f, n, c, step)
  <2>1. Solvable(Consoles, n, c, step)
    BY <1>1, <1>2, FoldExists
  <2> QED
    BY <2>1 DEF Solvable
<1>5. Fold(f)
  <2>1. ASSUME NEW s \in SUBSET (1 .. n)
        PROVE  f[s] = IF s = {} THEN c ELSE PutChar(f[s \ {Max(s)}], text[Max(s)])
    <3>1. CASE s = {}
      BY <1>4, <3>1 DEF Solves
    <3>2. CASE s # {}
      <4>1. Max(s) \in 1 .. n /\ f[s] = step[<<f[s \ {Max(s)}], Max(s)>>]
        BY <1>4, <3>2 DEF Solves
      <4>2. f[s \ {Max(s)}] \in Consoles
        BY <1>4
      <4> QED
        BY <1>3, <3>2, <4>1, <4>2
    <3> QED
      BY <3>1, <3>2
  <2> QED
    BY <2>1
<1>6. Fold(iter)
  <2> HIDE DEF Fold
  <2> QED
    BY <1>5
<1>7. Follows(iter, Consoles, n, c, step)
  <2> HIDE DEF iter
  <2>1. \A s \in SUBSET (1 .. n) :
          iter[s] = IF s = {} THEN c ELSE PutChar(iter[s \ {Max(s)}], text[Max(s)])
    BY <1>6
  <2>2. \A s \in SUBSET (1 .. n) : s # {} => Max(s) \in 1 .. n
    BY <1>4 DEF Solves
  <2> QED
    BY <1>3, <2>1, <2>2 DEF Follows
<1>8. /\ iter[1 .. 0] = c /\ \A i \in 0 .. n : iter[1 .. i] \in Consoles
      /\ \A i \in 0 .. n - 1 : iter[1 .. i + 1] = step[<<iter[1 .. i], i + 1>>]
  <2> HIDE DEF iter
  <2>1. Stepwise(iter, Consoles, n, c, step)
    BY <1>1, <1>2, <1>7, FoldKeeps
  <2> QED
    BY <2>1 DEF Stepwise
<1>9. Put(c, text) = iter[1 .. n]
  BY <1>1, PutIsFold
<1> HIDE DEF iter
<1> DEFINE g == [i \in 0 .. n |-> iter[1 .. i]]
<1>10. g \in [0 .. n -> Consoles] /\ g[0] = c /\ Put(c, text) = g[n]
  BY <1>1, <1>8, <1>9
<1>11. ASSUME NEW i \in 0 .. n - 1 PROVE g[i + 1] = PutChar(g[i], text[i + 1])
  <2>1. i \in 0 .. n /\ i + 1 \in 0 .. n /\ i + 1 \in 1 .. n
    BY <1>1
  <2>2. g[i] = iter[1 .. i] /\ g[i + 1] = iter[1 .. i + 1] /\ iter[1 .. i] \in Consoles
    BY <1>8, <2>1
  <2> QED
    BY <1>3, <1>8, <2>1, <2>2
<1> QED
  BY <1>10, <1>11 DEF n

LEMMA PutType ==
  ASSUME NEW c \in Consoles, NEW text \in Seq(Printable)
  PROVE  Put(c, text) \in Consoles
<1>1. Len(text) \in Nat
  BY LenProperties
<1> QED
  BY <1>1, PutSteps

-----------------------------------------------------------------------------
(***************************************************************************)
(* The heap.                                                               *)
(***************************************************************************)
Heaps == [offset : 0 .. HeapSize, areas : SUBSET (Nat \X Nat)]
HeapSound(h) ==
  /\ h \in Heaps
  /\ \A a \in h.areas :
       a[1] + a[2] <= h.offset /\ \A b \in h.areas : a = b \/ Apart(a, b)

LEMMA AlignedBounds ==
  ASSUME NEW n \in Nat, n < HeapSize
  PROVE  Aligned(n) \in 0 .. HeapSize /\ n <= Aligned(n)
BY HeapAssumption DEF Aligned

LEMMA KmallocSound ==
  ASSUME NEW h, HeapSound(h), NEW size \in Nat
  PROVE  HeapSound(Kmalloc(h, size))
<1>1. CASE ~Fits(h, size)
  BY <1>1 DEF Kmalloc
<1>2. CASE Fits(h, size)
  <2>1. PICK offset \in 0 .. HeapSize, areas \in SUBSET (Nat \X Nat) :
          h = [offset |-> offset, areas |-> areas]
    BY DEF HeapSound, Heaps
  <2> DEFINE new == <<offset, size>>
             end == Aligned(offset + size)
  <2>2. offset + size \in Nat /\ offset + size < HeapSize
    BY <1>2, <2>1, HeapAssumption DEF Fits
  <2>3. end \in 0 .. HeapSize /\ offset + size <= end
    BY <2>2, AlignedBounds
  <2>4. Kmalloc(h, size) = [offset |-> end, areas |-> areas \cup {new}]
    BY <1>2, <2>1 DEF Kmalloc
  <2>5. new \in Nat \X Nat /\ new[1] = offset /\ new[2] = size
    BY HeapAssumption
  <2> HIDE DEF new, end
  <2>6. \A a \in areas : /\ a[1] \in Int /\ a[2] \in Int /\ a[1] + a[2] <= offset
                         /\ \A b \in areas : a = b \/ Apart(a, b)
    BY <2>1 DEF HeapSound, Heaps
  <2>7. \A a \in areas : a[1] + a[2] <= end /\ Apart(a, new) /\ Apart(new, a)
    BY <2>2, <2>3, <2>5, <2>6, HeapAssumption DEF Apart
  <2>8. new[1] + new[2] <= end
    BY <2>3, <2>5
  <2>9. \A a \in areas \cup {new} :
          a[1] + a[2] <= end /\ \A b \in areas \cup {new} : a = b \/ Apart(a, b)
    BY <2>6, <2>7, <2>8
  <2>10. areas \cup {new} \in SUBSET (Nat \X Nat)
    BY <2>5
  <2> QED
    BY <2>3, <2>4, <2>9, <2>10 DEF HeapSound, Heaps
<1> QED
  BY <1>1, <1>2

LEMMA HeapSoundDisjoint ==
  ASSUME NEW h, HeapSound(h) PROVE AreasDisjoint(h)
<1>1. PICK offset \in 0 .. HeapSize, areas \in SUBSET (Nat \X Nat) :
        h = [offset |-> offset, areas |-> areas]
  BY DEF HeapSound, Heaps
<1>2. \A a \in areas : /\ a[1] \in Nat /\ a[2] \in Nat /\ a[1] + a[2] <= offset
                       /\ \A b \in areas : a = b \/ Apart(a, b)
  BY <1>1 DEF HeapSound, Heaps
<1>3. \A a \in areas : Within(a)
  BY <1>2, HeapAssumption DEF Within
<1> QED
  BY <1>1, <1>2, <1>3 DEF AreasDisjoint

-----------------------------------------------------------------------------
(***************************************************************************)
(* What commands and scripts keep of the editor, the directory and the     *)
(* heap, whatever they are.                                                *)
(***************************************************************************)
Editors == [on : BOOLEAN, text : Seq(Chars), cursor : Nat, name : {"none", "f", "missing"},
            loaded : Files, disturbed : BOOLEAN, low : Nat]
Drives == [Files -> Seq(Chars)]

Agree(s, t, n) == n <= Len(s) /\ n <= Len(t) /\ \A i \in 1 .. n : s[i] = t[i]

LEMMA AgreeSubSeq ==
  ASSUME NEW S, NEW s \in Seq(S), NEW t \in Seq(S), NEW n \in Nat, Agree(s, t, n)
  PROVE  SubSeq(s, 1, n) = SubSeq(t, 1, n)
<1>1. Len(s) \in Nat /\ Len(t) \in Nat
  BY LenProperties
<1>2. \A i \in 1 .. n : s[i] \in S /\ t[i] \in S /\ s[i] = t[i]
  BY <1>1, ElementOfSeq DEF Agree
<1>3. /\ SubSeq(s, 1, n) \in Seq(S) /\ Len(SubSeq(s, 1, n)) = n
      /\ \A i \in 1 .. n : SubSeq(s, 1, n)[i] = s[i]
  BY <1>2, SubSeqProperties
<1>4. /\ SubSeq(t, 1, n) \in Seq(S) /\ Len(SubSeq(t, 1, n)) = n
      /\ \A i \in 1 .. n : SubSeq(t, 1, n)[i] = t[i]
  BY <1>2, SubSeqProperties
<1> QED
  BY <1>2, <1>3, <1>4, SeqEqual

\* With the editor open the cursor is at the end of the text, and the text is the
\* file up to where it has been rubbed out.
EditorSound(e, drive) ==
  /\ Len(e.text) <= EditLimit /\ e.cursor <= Len(e.text) /\ e.low <= Len(e.text)
  /\ e.on => e.cursor = Len(e.text) /\ Agree(e.text, drive[e.loaded], e.low)

Worlds(drive) ==
  {w \in [ed : Editors, cwd : Dirs, heap : Heaps] :
     /\ EditorSound(w.ed, drive) /\ HeapSound(w.heap)
     /\ w.ed.on /\ ~w.ed.disturbed => w.ed.loaded = File(w.cwd)}

LEMMA OpeningSound ==
  ASSUME NEW w, HeapSound(w.heap), NEW name
  PROVE  HeapSound(Opening(w, name))
BY KmallocSound, ShellAssumption DEF Opening

LEMMA LoadedSound ==
  ASSUME NEW drive \in Drives, NEW dir \in Dirs, NEW text, NEW name \in {"f", "missing"},
         text = SubSeq(drive[File(dir)], 1,
                       IF Len(drive[File(dir)]) < EditLimit
                       THEN Len(drive[File(dir)]) ELSE EditLimit),
         NEW e, e = [on |-> TRUE, text |-> text, cursor |-> Len(text), name |-> name,
                     loaded |-> File(dir), disturbed |-> FALSE, low |-> Len(text)]
  PROVE  e \in Editors /\ EditorSound(e, drive)
<1> DEFINE content == drive[File(dir)]
           n == IF Len(content) < EditLimit THEN Len(content) ELSE EditLimit
<1>1. File(dir) \in Files /\ content \in Seq(Chars)
  BY DEF Drives, Files
<1>2. Len(content) \in Nat
  BY <1>1, LenProperties
<1>3. n \in Nat /\ n <= EditLimit /\ n <= Len(content)
  BY <1>2, ShellAssumption
<1>4. \A i \in 1 .. n : content[i] \in Chars
  BY <1>1, <1>2, <1>3, ElementOfSeq
<1>5. text = SubSeq(content, 1, n)
  OBVIOUS
<1> HIDE DEF n, content
<1>6. text \in Seq(Chars) /\ Len(text) = n /\ \A i \in 1 .. n : text[i] = content[i]
  <2>1. n \in Nat
    BY <1>3
  <2>2. /\ SubSeq(content, 1, n) \in Seq(Chars) /\ Len(SubSeq(content, 1, n)) = n
        /\ \A i \in 1 .. n : SubSeq(content, 1, n)[i] = content[i]
    BY <2>1, <1>4, SubSeqProperties
  <2> QED
    BY <2>2, <1>5
<1>7. Agree(text, content, n)
  BY <1>3, <1>6 DEF Agree
<1> QED
  BY <1>1, <1>3, <1>6, <1>7 DEF Editors, EditorSound, content

LEMMA IsWorld ==
  ASSUME NEW drive, NEW e \in Editors, NEW dir \in Dirs, NEW h \in Heaps,
         EditorSound(e, drive), HeapSound(h),
         ~ (e.on /\ ~e.disturbed) \/ e.loaded = File(dir)
  PROVE  [ed |-> e, cwd |-> dir, heap |-> h] \in Worlds(drive)
BY DEF Worlds

LEMMA DisturbedIs ==
  ASSUME NEW e \in Editors, NEW w, w.ed = e, NEW e2,
         e2 = [e EXCEPT !.disturbed = Disturbed(w)] \/
         \E name \in {"f", "missing"} :
           e2 = [e EXCEPT !.name = name, !.disturbed = Disturbed(w)]
  PROVE  /\ e2 \in Editors /\ ~ (e2.on /\ ~e2.disturbed)
         /\ \A drive : EditorSound(e, drive) => EditorSound(e2, drive)
<1>1. Disturbed(w) \in BOOLEAN
  BY DEF Disturbed
<1>2. e2 \in Editors
  BY <1>1 DEF Editors
<1>3. /\ e2.on = e.on /\ e2.disturbed = Disturbed(w) /\ e2.text = e.text
      /\ e2.cursor = e.cursor /\ e2.low = e.low /\ e2.loaded = e.loaded
  BY DEF Editors
<1>4. ~ (e2.on /\ ~e2.disturbed)
  BY <1>3 DEF Disturbed
<1>5. \A drive : EditorSound(e, drive) => EditorSound(e2, drive)
  BY <1>3 DEF EditorSound
<1> QED
  BY <1>2, <1>4, <1>5

LEMMA WorldChanged ==
  ASSUME NEW w, NEW e, NEW dir, NEW h, w = [ed |-> e, cwd |-> dir, heap |-> h],
         NEW e2, NEW dir2, NEW h2
  PROVE  /\ [w EXCEPT !.heap = h2, !.ed = e2] = [ed |-> e2, cwd |-> dir, heap |-> h2]
         /\ [w EXCEPT !.cwd = dir2, !.ed = e2] = [ed |-> e2, cwd |-> dir2, heap |-> h]
<1> DEFINE w1 == [w EXCEPT !.cwd = dir2]
           w2 == [w EXCEPT !.heap = h2]
<1>1. w1 = [ed |-> e, cwd |-> dir2, heap |-> h]
  OBVIOUS
<1>2. w2 = [ed |-> e, cwd |-> dir, heap |-> h2]
  OBVIOUS
<1>3. /\ [w EXCEPT !.heap = h2, !.ed = e2] = [w2 EXCEPT !.ed = e2]
      /\ [w EXCEPT !.cwd = dir2, !.ed = e2] = [w1 EXCEPT !.ed = e2]
  OBVIOUS
<1> HIDE DEF w1, w2
<1>4. [w1 EXCEPT !.ed = e2] = [ed |-> e2, cwd |-> dir2, heap |-> h]
  BY <1>1
<1>5. [w2 EXCEPT !.ed = e2] = [ed |-> e2, cwd |-> dir, heap |-> h2]
  BY <1>2
<1> QED
  BY <1>3, <1>4, <1>5

LEMMA EditKeeps ==
  ASSUME files \in Drives, NEW w \in Worlds(files), NEW name \in {"f", "missing"}
  PROVE  Edit(w, name) \in Worlds(files)
<1>1. PICK e \in Editors, dir \in Dirs, h \in Heaps : w = [ed |-> e, cwd |-> dir, heap |-> h]
  BY DEF Worlds
<1>2. /\ EditorSound(e, files) /\ HeapSound(h)
      /\ e.on /\ ~e.disturbed => e.loaded = File(dir)
  BY <1>1 DEF Worlds
<1> DEFINE h2 == Opening(w, name)
<1>3. HeapSound(h2) /\ h2 \in Heaps
  <2>1. HeapSound(w.heap)
    BY <1>1, <1>2
  <2> QED
    BY <2>1, OpeningSound DEF HeapSound
<1>4. CASE OpenFails(w, name)
  <2> DEFINE e2 == [e EXCEPT !.name = name, !.disturbed = Disturbed(w)]
  <2>1. Edit(w, name) = [ed |-> e2, cwd |-> dir, heap |-> h2]
    <3>1. w.ed = e /\ w.cwd = dir
      BY <1>1
    <3>2. Edit(w, name) = [w EXCEPT !.heap = h2, !.ed = e2]
      BY <3>1, <1>4 DEF Edit
    <3> HIDE DEF h2, e2
    <3> QED
      BY <1>1, <3>2, WorldChanged
  <2>2. /\ e2 \in Editors /\ ~ (e2.on /\ ~e2.disturbed)
        /\ EditorSound(e2, files)
    <3>1. w.ed = e
      BY <1>1
    <3> HIDE DEF e2
    <3>2. \E nm \in {"f", "missing"} :
            e2 = [e EXCEPT !.name = nm, !.disturbed = Disturbed(w)]
      BY DEF e2
    <3> QED
      BY <1>2, <3>1, <3>2, DisturbedIs
  <2> HIDE DEF e2, h2
  <2> QED
    BY <1>3, <2>1, <2>2, IsWorld
<1>5. CASE ~OpenFails(w, name)
  <2> DEFINE content == files[File(dir)]
             text == SubSeq(content, 1,
                            IF Len(content) < EditLimit THEN Len(content) ELSE EditLimit)
             e2 == [on |-> TRUE, text |-> text, cursor |-> Len(text), name |-> name,
                    loaded |-> File(dir), disturbed |-> FALSE, low |-> Len(text)]
  <2>1. Edit(w, name) = [ed |-> e2, cwd |-> dir, heap |-> h2]
    <3>1. w.ed = e /\ w.cwd = dir
      BY <1>1
    <3>2. Edit(w, name) = [w EXCEPT !.heap = h2, !.ed = e2]
      BY <3>1, <1>5 DEF Edit
    <3> HIDE DEF h2, e2
    <3> QED
      BY <1>1, <3>2, WorldChanged
  <2>2. e2 \in Editors /\ EditorSound(e2, files)
    BY LoadedSound
  <2>3. e2.loaded = File(dir)
    OBVIOUS
  <2> HIDE DEF e2, h2
  <2> QED
    BY <1>3, <2>1, <2>2, <2>3, IsWorld
<1> QED
  BY <1>4, <1>5

LEMMA CdKeeps ==
  ASSUME NEW w \in Worlds(files) PROVE Cd(w) \in Worlds(files)
<1>1. PICK e \in Editors, dir \in Dirs, h \in Heaps : w = [ed |-> e, cwd |-> dir, heap |-> h]
  BY DEF Worlds
<1>2. EditorSound(e, files) /\ HeapSound(h) /\ w.ed = e
  BY <1>1 DEF Worlds
<1> DEFINE e2 == [e EXCEPT !.disturbed = Disturbed(w)]
           dir2 == IF dir = "root" THEN "sub" ELSE "root"
<1>3. Cd(w) = [ed |-> e2, cwd |-> dir2, heap |-> h]
  <2>1. w.cwd = dir /\ w.ed = e /\ w.heap = h
    BY <1>1
  <2>2. Cd(w) = [w EXCEPT !.cwd = dir2, !.ed = e2]
    BY <2>1 DEF Cd
  <2> HIDE DEF dir2, e2
  <2> QED
    BY <1>1, <2>2, WorldChanged
<1>4. dir2 \in Dirs
  BY DEF Dirs
<1>5. e2 \in Editors /\ ~ (e2.on /\ ~e2.disturbed) /\ EditorSound(e2, files)
  BY <1>2, DisturbedIs
<1> HIDE DEF e2, dir2
<1> QED
  BY <1>2, <1>3, <1>4, <1>5, IsWorld

LEMMA ExecuteKeeps ==
  ASSUME files \in Drives, NEW w \in Worlds(files), NEW command
  PROVE  Execute(w, command) \in Worlds(files)
<1>1. Edit(w, "f") \in Worlds(files) /\ Edit(w, "missing") \in Worlds(files)
  BY EditKeeps
<1>2. Cd(w) \in Worlds(files)
  BY CdKeeps
<1> QED
  BY <1>1, <1>2 DEF Execute

Scripts(drive) == [inIf : BOOLEAN, executeIf : BOOLEAN, w : Worlds(drive)]

LEMMA ScriptLineKeeps ==
  ASSUME files \in Drives, NEW s \in Scripts(files), NEW l
  PROVE  ScriptLine(s, l) \in Scripts(files)
<1>1. PICK inIf \in BOOLEAN, executeIf \in BOOLEAN, w \in Worlds(files) :
        s = [inIf |-> inIf, executeIf |-> executeIf, w |-> w]
  BY DEF Scripts
<1>2. s.w = w /\ s.inIf = inIf /\ s.executeIf = executeIf
  BY <1>1
<1>3. CASE l = "if true"
  BY <1>3 DEF ScriptLine, Scripts
<1>4. CASE l = "else"
  <2>1. ScriptLine(s, l) = [s EXCEPT !.executeIf = IF s.inIf THEN ~s.executeIf ELSE s.executeIf]
    BY <1>4 DEF ScriptLine
  <2> DEFINE other == IF s.inIf THEN ~s.executeIf ELSE s.executeIf
  <2>2. other \in BOOLEAN
    BY <1>2
  <2> HIDE DEF other
  <2>3. [s EXCEPT !.executeIf = other] \in Scripts(files)
    BY <2>2 DEF Scripts
  <2> QED
    BY <2>1, <2>3 DEF other
<1>5. CASE l = "endif"
  BY <1>5 DEF ScriptLine, Scripts
<1>6. CASE l \notin {"if true", "else", "endif"}
  <2>1. ScriptLine(s, l) = IF ~s.inIf \/ s.executeIf THEN [s EXCEPT !.w = Execute(s.w, l)] ELSE s
    BY <1>6 DEF ScriptLine
  <2>2. Execute(s.w, l) \in Worlds(files)
    BY <1>2, ExecuteKeeps
  <2>3. [s EXCEPT !.w = Execute(s.w, l)] \in Scripts(files)
    BY <2>2 DEF Scripts
  <2> QED
    BY <2>1, <2>3
<1> QED
  BY <1>3, <1>4, <1>5, <1>6

Scripted(s, lines) == FoldLeft(ScriptLine, s, lines)

LEMMA ScriptIsFold ==
  ASSUME NEW s, NEW lines
  PROVE  Scripted(s, lines) =
           (CHOOSE f : f = [t \in SUBSET DOMAIN lines |->
                              IF t = {} THEN s
                              ELSE ScriptLine(f[t \ {Max(t)}], lines[Max(t)])])[DOMAIN lines]
BY DEF Scripted, FoldLeft, MapThenFoldSet

LEMMA ScriptKeeps ==
  ASSUME files \in Drives, NEW s \in Scripts(files), NEW lines \in Seq(ScriptLines)
  PROVE  Scripted(s, lines) \in Scripts(files)
<1> DEFINE n == Len(lines)
           T == Scripts(files)
           step == [p \in T \X (1 .. n) |-> ScriptLine(p[1], lines[p[2]])]
           Fold(f) == f = [t \in SUBSET (1 .. n) |->
                             IF t = {} THEN s ELSE ScriptLine(f[t \ {Max(t)}], lines[Max(t)])]
           iter == CHOOSE f : Fold(f)
<1>1. n \in Nat /\ DOMAIN lines = 1 .. n /\ s \in T
  BY LenProperties
<1>2. step \in [T \X (1 .. n) -> T]
  BY ScriptLineKeeps
<1>3. \A d \in T, i \in 1 .. n : step[<<d, i>>] = ScriptLine(d, lines[i])
  OBVIOUS
<1> HIDE DEF n, step, T
<1>4. PICK f \in [SUBSET (1 .. n) -> T] : Solves(f, n, s, step)
  <2>1. Solvable(T, n, s, step)
    BY <1>1, <1>2, FoldExists
  <2> QED
    BY <2>1 DEF Solvable
<1>5. Fold(f)
  <2>1. ASSUME NEW t \in SUBSET (1 .. n)
        PROVE  f[t] = IF t = {} THEN s ELSE ScriptLine(f[t \ {Max(t)}], lines[Max(t)])
    <3>1. CASE t = {}
      BY <1>4, <3>1 DEF Solves
    <3>2. CASE t # {}
      <4>1. Max(t) \in 1 .. n /\ f[t] = step[<<f[t \ {Max(t)}], Max(t)>>]
        BY <1>4, <3>2 DEF Solves
      <4>2. f[t \ {Max(t)}] \in T
        BY <1>4
      <4> QED
        BY <1>3, <3>2, <4>1, <4>2
    <3> QED
      BY <3>1, <3>2
  <2> QED
    BY <2>1
<1>6. Fold(iter)
  <2> HIDE DEF Fold
  <2> QED
    BY <1>5
<1>7. Follows(iter, T, n, s, step)
  <2> HIDE DEF iter
  <2>1. \A t \in SUBSET (1 .. n) :
          iter[t] = IF t = {} THEN s ELSE ScriptLine(iter[t \ {Max(t)}], lines[Max(t)])
    BY <1>6
  <2>2. \A t \in SUBSET (1 .. n) : t # {} => Max(t) \in 1 .. n
    BY <1>4 DEF Solves
  <2> QED
    BY <1>3, <2>1, <2>2 DEF Follows
<1>8. iter[1 .. n] \in T
  <2> HIDE DEF iter
  <2>1. Stepwise(iter, T, n, s, step)
    BY <1>1, <1>2, <1>7, FoldKeeps
  <2>2. n \in 0 .. n
    BY <1>1
  <2> QED
    BY <2>1, <2>2 DEF Stepwise
<1>9. Scripted(s, lines) = iter[1 .. n]
  BY <1>1, ScriptIsFold
<1> QED
  BY <1>8, <1>9 DEF T

LEMMA RunKeeps ==
  ASSUME files \in Drives, NEW w \in Worlds(files),
         NEW m \in [rsh : BOOLEAN, lines : Seq(ScriptLines)]
  PROVE  Run(w, m) \in Worlds(files)
<1>1. CASE ~m.rsh
  BY <1>1, ExecuteKeeps DEF Run
<1>2. CASE m.rsh
  <2>1. Run(w, m) = RunScript(w, m.lines)
    BY <1>2 DEF Run
  <2>2. CASE OpenFails(w, "f")
    BY <2>1, <2>2 DEF RunScript
  <2>3. CASE ~OpenFails(w, "f")
    <3> DEFINE w2 == [w EXCEPT !.heap = Opening(w, "f")]
               s == [inIf |-> FALSE, executeIf |-> FALSE, w |-> w2]
    <3>1. w2 \in Worlds(files)
      <4>1. PICK e \in Editors, dir \in Dirs, h \in Heaps :
              w = [ed |-> e, cwd |-> dir, heap |-> h]
        BY DEF Worlds
      <4>2. w.ed = e /\ w.cwd = dir /\ w.heap = h
        BY <4>1
      <4>3. /\ EditorSound(e, files) /\ HeapSound(w.heap)
            /\ ~ (e.on /\ ~e.disturbed) \/ e.loaded = File(dir)
        BY <4>2 DEF Worlds
      <4>4. HeapSound(Opening(w, "f")) /\ Opening(w, "f") \in Heaps
        BY <4>3, OpeningSound DEF HeapSound
      <4> DEFINE h2 == Opening(w, "f")
      <4> HIDE DEF h2
      <4>5. [w EXCEPT !.heap = h2] = [ed |-> e, cwd |-> dir, heap |-> h2]
        BY <4>1
      <4>6. [ed |-> e, cwd |-> dir, heap |-> h2] \in Worlds(files)
        BY <4>3, <4>4, IsWorld DEF h2
      <4> QED
        BY <4>5, <4>6 DEF h2
    <3>2. s \in Scripts(files)
      BY <3>1 DEF Scripts
    <3> HIDE DEF s
    <3>3. Scripted(s, m.lines) \in Scripts(files)
      BY <3>2, ScriptKeeps
    <3>4. RunScript(w, m.lines) = Scripted(s, m.lines).w
      BY <2>3 DEF RunScript, Scripted, s
    <3> QED
      BY <2>1, <3>3, <3>4 DEF Scripts
  <2> QED
    BY <2>2, <2>3
<1> QED
  BY <1>1, <1>2

-----------------------------------------------------------------------------
(***************************************************************************)
(* The line and the history.                                               *)
(***************************************************************************)
\* A bounded sequence is a sequence of bounded length.
LEMMA BoundedSequences ==
  ASSUME NEW S, NEW n \in Nat, NEW s
  PROVE  s \in BoundedSeq(S, n) <=> s \in Seq(S) /\ Len(s) <= n
<1>1. ASSUME s \in BoundedSeq(S, n) PROVE s \in Seq(S) /\ Len(s) <= n
  <2>1. PICK m \in 0 .. n : s \in [1 .. m -> S]
    BY <1>1 DEF BoundedSeq, SeqOf
  <2>2. s \in Seq(S)
    BY <2>1, SeqDef
  <2>3. DOMAIN s = 1 .. m /\ DOMAIN s = 1 .. Len(s) /\ Len(s) \in Nat
    BY <2>1, <2>2, LenProperties
  <2>4. Len(s) = m
    BY <2>1, <2>3
  <2> QED
    BY <2>1, <2>2, <2>4
<1>2. ASSUME s \in Seq(S), Len(s) <= n PROVE s \in BoundedSeq(S, n)
  <2>1. Len(s) \in 0 .. n /\ s \in [1 .. Len(s) -> S]
    BY <1>2, LenProperties
  <2> QED
    BY <2>1 DEF BoundedSeq, SeqOf
<1> QED
  BY <1>1, <1>2

LEMMA LinesAre == \A l : l \in Lines <=> l \in Seq(Chars) /\ Len(l) <= LineSize
BY BoundedSequences, ShellAssumption DEF Lines

LEMMA EmptyLine == <<>> \in Lines
<1>1. <<>> \in Seq(Chars) /\ Len(<<>>) = 0
  BY EmptySeq
<1>2. Len(<<>>) <= LineSize
  BY <1>1, ShellAssumption
<1> QED
  BY <1>1, <1>2, LinesAre

\* Dropping the oldest entry of a full history, and only then, is keeping the
\* last HistorySize lines.
LEMMA RememberedIsLast ==
  ASSUME NEW h \in Seq(Lines), Len(h) <= HistorySize, NEW l \in Lines, h = history, l = line
  PROVE  /\ Remembered = LastOf(HistorySize, Append(h, l))
         /\ Remembered \in Seq(Lines) /\ Len(Remembered) <= HistorySize
<1> DEFINE s == Append(h, l)
<1>1. s \in Seq(Lines) /\ Len(s) = Len(h) + 1 /\ s # <<>> /\ Len(h) \in Nat
  BY AppendProperties, LenProperties
<1>2. CASE Len(h) < HistorySize
  <2>1. LastOf(HistorySize, s) = SubSeq(s, 1, Len(s))
    <3> HIDE DEF s
    <3>1. ~ (Len(s) > HistorySize)
      BY <1>1, <1>2, ShellAssumption
    <3> QED
      BY <3>1 DEF LastOf
  <2>2. SubSeq(s, 1, Len(s)) = s
    BY <1>1, SubSeqFull
  <2>3. Remembered = s
    BY <1>2 DEF Remembered
  <2> QED
    BY <1>1, <1>2, <2>1, <2>2, <2>3, ShellAssumption
<1>3. CASE ~ (Len(h) < HistorySize)
  <2>1. Len(h) = HistorySize /\ HistorySize > 0
    BY <1>1, <1>3, ShellAssumption
  <2>2. h # <<>>
    BY <2>1, EmptySeq
  <2>3. LastOf(HistorySize, s) = SubSeq(s, 2, Len(s))
    BY <1>1, <2>1, ShellAssumption DEF LastOf
  <2>4. SubSeq(s, 2, Len(s)) = Tail(s)
    BY <1>1, TailIsSubSeq
  <2>5. Tail(s) = Append(Tail(h), l)
    BY <2>2, HeadTailAppend
  <2>6. Remembered = Append(Tail(h), l)
    BY <1>3 DEF Remembered
  <2>7. Tail(h) \in Seq(Lines) /\ Len(Tail(h)) = Len(h) - 1
    BY <2>2, HeadTailProperties
  <2>8. Append(Tail(h), l) \in Seq(Lines) /\ Len(Append(Tail(h), l)) = Len(Tail(h)) + 1
    BY <2>7, AppendProperties
  <2> QED
    BY <1>1, <2>1, <2>3, <2>4, <2>5, <2>6, <2>7, <2>8, ShellAssumption
<1> QED
  BY <1>2, <1>3

-----------------------------------------------------------------------------
(***************************************************************************)
(* What every key keeps.                                                   *)
(***************************************************************************)
ScreenType == con \in Consoles /\ start \in 0 .. Cols - 1
HistoryType ==
  /\ line \in Lines /\ history \in Seq(Lines) /\ Len(history) <= HistorySize
  /\ index \in -1 .. Len(history) - 1 /\ history = recent
FilesType == files \in Drives /\ World \in Worlds(files) /\ report \in Reports

IInv == ScreenType /\ HistoryType /\ FilesType

LEMMA ForgetIs ==
  ASSUME NEW c \in Consoles
  PROVE  /\ Forget(c) \in Consoles /\ Forget(c).x = c.x
         /\ Forget(c).y = c.y /\ Forget(c).mark = c.y
         /\ \A r \in 0 .. Rows - 1 : r >= c.y => Forget(c).cells[r] = c.cells[r]
<1>1. PICK cells \in CellRows, x \in 0 .. Cols - 1, y \in 0 .. Rows - 1,
           mark \in -Rows .. Rows - 1 :
        c = [cells |-> cells, x |-> x, y |-> y, mark |-> mark]
  BY DEF Consoles
<1> DEFINE below == [r \in 0 .. Rows - 1 |-> IF r < y THEN Cleared.cells[r] ELSE cells[r]]
<1>2. below \in CellRows
  BY ClearedType DEF CellRows, Consoles
<1>3. Forget(c) = [cells |-> below, x |-> x, y |-> y, mark |-> y]
  <2> DEFINE c1 == [c EXCEPT !.cells = below]
  <2>1. c.y = y /\ c.cells = cells
    BY <1>1
  <2>2. Forget(c) = [c1 EXCEPT !.mark = y]
    BY <2>1 DEF Forget
  <2> HIDE DEF below
  <2>3. c1 = [cells |-> below, x |-> x, y |-> y, mark |-> mark]
    BY <1>1
  <2> HIDE DEF c1
  <2> QED
    BY <2>2, <2>3
<1>4. \A r \in 0 .. Rows - 1 : r >= y => below[r] = cells[r]
  BY ScreenAssumption
<1> HIDE DEF below
<1>5. Forget(c) \in Consoles
  BY <1>2, <1>3, ScreenAssumption DEF Consoles
<1> QED
  BY <1>1, <1>3, <1>4, <1>5

LEMMA PromptType ==
  ASSUME NEW dir
  PROVE  Prompt(dir) \in Seq(Printable)
<1>1. "prompt" \in Printable
  BY DEF Printable, Marks
<1>2. <<"prompt">> \in Seq(Printable) /\ <<"prompt", "prompt">> \in Seq(Printable)
  BY <1>1
<1> QED
  BY <1>2 DEF Prompt

LEMMA PromptedType ==
  ASSUME NEW c \in Consoles, NEW dir
  PROVE  Prompted(c, dir) \in Consoles /\ Prompted(c, dir).x \in 0 .. Cols - 1
<1>1. Prompted(c, dir) \in Consoles
  BY ForgetIs, PromptType, PutType DEF Prompted
<1> QED
  BY <1>1 DEF Consoles

LEMMA PrintedType ==
  ASSUME NEW c \in Consoles, NEW n \in Nat
  PROVE  Put(c, <<Newline>> \o NewLines(n) \o <<Newline>>) \in Consoles
<1>1. <<Newline>> \in Seq(Printable)
  BY DEF Printable
<1>2. NewLines(n) \in Seq(Printable)
  <2>1. NewLines(n) \in [1 .. n -> Printable]
    BY DEF NewLines, Printable
  <2> QED
    BY <2>1, SeqDef
<1>3. (<<Newline>> \o NewLines(n)) \o <<Newline>> \in Seq(Printable)
  BY <1>1, <1>2, ConcatProperties
<1> QED
  BY <1>3, PutType

LEMMA RedisplayType ==
  ASSUME ScreenType, NEW l \in Lines, Redisplay(l)
  PROVE  con' \in Consoles
<1>1. \A c \in Consoles : SetCursor(c, start, c.y) \in Consoles
  BY DEF SetCursor, Consoles, ScreenType
<1> DEFINE blank == [i \in 1 .. Blanks |-> Space]
           c1 == SetCursor(con, start, con.y)
           c2 == Put(c1, blank)
           c3 == SetCursor(c2, start, con.y)
<1>2. blank \in Seq(Printable)
  <2>1. blank \in [1 .. Blanks -> Printable]
    BY DEF Printable
  <2> QED
    BY <2>1, SeqDef, ShellAssumption
<1>3. l \in Seq(Printable)
  <2>1. l \in Seq(Chars) /\ Chars \subseteq Printable
    BY LinesAre DEF Printable, Marks
  <2> QED
    BY <2>1, SeqMonotonic
<1> HIDE DEF blank
<1>4. c1 \in Consoles
  BY <1>1 DEF ScreenType
<1> HIDE DEF c1
<1>5. c2 \in Consoles
  BY <1>2, <1>4, PutType
<1> HIDE DEF c2
<1>6. c3 \in Consoles
  BY <1>5 DEF SetCursor, Consoles, ScreenType
<1> HIDE DEF c3
<1>7. Put(c3, l) \in Consoles
  BY <1>3, <1>6, PutType
<1> QED
  BY <1>7 DEF Redisplay, c3, c2, c1, blank

\* Nothing that FilesType is about changes.
LEMMA FilesKept ==
  ASSUME FilesType, UNCHANGED <<ed, cwd, files, heap, report>>
  PROVE  FilesType'
BY DEF FilesType, World, Worlds, Drives, EditorSound

LEMMA ShownType ==
  ASSUME NEW c \in Consoles, NEW dir, ShowPrompt(c, dir)
  PROVE  ScreenType'
BY PromptedType DEF ShowPrompt, ScreenType

LEMMA ClosedIsWorld ==
  ASSUME NEW drive \in Drives, NEW dir \in Dirs, NEW h, HeapSound(h)
  PROVE  [ed |-> Closed, cwd |-> dir, heap |-> h] \in Worlds(drive)
<1>1. Closed \in Editors /\ EditorSound(Closed, drive) /\ ~Closed.on
  BY ShellAssumption DEF Closed, Editors, EditorSound, Files, Dirs
<1>2. h \in Heaps
  BY DEF HeapSound
<1> QED
  BY <1>1, <1>2, IsWorld

LEMMA InitInv == Init => IInv
<1> SUFFICES ASSUME Init PROVE IInv
  OBVIOUS
<1>1. ScreenType
  BY ClearedType, PromptedType DEF Init, ScreenType
<1>2. HistoryType
  <2>1. <<>> \in Seq(Lines) /\ Len(<<>>) = 0
    BY EmptySeq
  <2>2. 0 <= HistorySize
    BY ShellAssumption
  <2> HIDE DEF Lines
  <2> QED
    BY <2>1, <2>2, EmptyLine DEF Init, HistoryType
<1>3. FilesType
  <2>1. HeapSound(FreshHeap)
    BY HeapAssumption DEF HeapSound, Heaps, FreshHeap
  <2>2. files \in Drives
    BY ShellAssumption DEF Init, Drives
  <2>3. World \in Worlds(files)
    BY <2>1, <2>2, ClosedIsWorld DEF Init, World, Dirs
  <2> QED
    BY <2>2, <2>3 DEF Init, FilesType, Reports
<1> QED
  BY <1>1, <1>2, <1>3 DEF IInv

LEMMA TypeInv ==
  ASSUME IInv, Type PROVE IInv'
<1> USE DEF IInv
<1>1. PICK c \in Chars : line' = Append(line, c) /\ con' = PutChar(con, c)
  BY DEF Type
<1>2. ScreenType'
  BY <1>1, PutCharType DEF ScreenType, Type, Printable, Marks
<1>3. line' \in Lines
  <2>1. line \in Seq(Chars) /\ Len(line) < LineSize /\ Len(line) \in Nat
    BY LinesAre, LenProperties DEF HistoryType, Type, Room
  <2>2. Append(line, c) \in Seq(Chars) /\ Len(Append(line, c)) = Len(line) + 1
    BY <2>1, AppendProperties
  <2> QED
    <3>1. Len(Append(line, c)) <= LineSize
      BY <2>1, <2>2, ShellAssumption
    <3>2. Append(line, c) \in Lines
      BY <2>2, <3>1, LinesAre
    <3> QED
      BY <1>1, <3>2
<1>4. HistoryType'
  BY <1>3 DEF HistoryType, Type
<1>5. FilesType'
  BY FilesKept DEF Type
<1> QED
  BY <1>2, <1>4, <1>5

LEMMA BackspaceInv ==
  ASSUME IInv, Backspace PROVE IInv'
<1> USE DEF IInv
<1>1. ScreenType'
  <2>1. RubOut \in Seq(Printable)
    <3>1. Rubout \in Printable /\ Space \in Printable
      BY DEF Printable
    <3> QED
      BY <3>1 DEF RubOut
  <2> QED
    BY <2>1, PutType DEF ScreenType, Backspace
<1>2. line' \in Lines
  <2>1. line \in Seq(Chars) /\ Len(line) <= LineSize /\ line # <<>>
    BY LinesAre DEF HistoryType, Backspace
  <2>2. Len(line) \in Nat \ {0} /\ \A i \in 1 .. Len(line) : line[i] \in Chars
    BY <2>1, EmptySeq, ElementOfSeq
  <2> DEFINE n == Len(line) - 1
  <2>3. n \in Nat /\ n <= LineSize /\ \A i \in 1 .. n : line[i] \in Chars
    BY <2>1, <2>2, ShellAssumption
  <2> HIDE DEF n
  <2>4. SubSeq(line, 1, n) \in Seq(Chars) /\ Len(SubSeq(line, 1, n)) = n
    BY <2>3, SubSeqProperties
  <2> QED
    BY <2>3, <2>4, LinesAre DEF Backspace, Front, n
<1>3. HistoryType'
  BY <1>2 DEF HistoryType, Backspace
<1>4. FilesType'
  BY FilesKept DEF Backspace
<1> QED
  BY <1>1, <1>3, <1>4

LEMMA EnterInv ==
  ASSUME IInv, Enter PROVE IInv'
<1> USE DEF IInv
<1> DEFINE w == IF line = <<>> THEN World ELSE Run(World, Meaning[line])
<1>1. w \in Worlds(files)
  <2>1. Meaning[line] \in [rsh : BOOLEAN, lines : Seq(ScriptLines)]
    BY ShellAssumption DEF HistoryType, Lines
  <2> QED
    BY <2>1, RunKeeps DEF FilesType
<1>2. PICK n \in 0 .. MaxOutput :
        LET printed == Put(con, <<Newline>> \o NewLines(n) \o <<Newline>>)
        IN /\ SetWorld(w)
           /\ IF w.ed.on THEN con' = Redrawn /\ UNCHANGED <<start, recalled>>
              ELSE ShowPrompt(printed, w.cwd)
  BY DEF Enter
<1> HIDE DEF w
<1>3. ScreenType'
  <2>1. CASE w.ed.on
    BY <1>2, <2>1, ClearedType DEF ScreenType, Redrawn
  <2>2. CASE ~w.ed.on
    <3>1. Put(con, <<Newline>> \o NewLines(n) \o <<Newline>>) \in Consoles
      BY PrintedType, ShellAssumption DEF ScreenType
    <3> QED
      BY <1>2, <2>2, <3>1, ShownType
  <2> QED
    BY <2>1, <2>2
<1>4. HistoryType'
  <2>1. <<>> \in Lines
    BY EmptyLine
  <2>2. CASE line = <<>>
    <3>1. line' \in Lines /\ index' = -1 /\ UNCHANGED <<history, recent>>
      BY <2>1, <2>2 DEF Enter
    <3>2. Len(history) \in Nat
      BY LenProperties DEF HistoryType
    <3> QED
      BY <3>1, <3>2 DEF HistoryType
  <2>3. CASE line # <<>>
    <3>1. /\ line' \in Lines /\ index' = -1 /\ history' = Remembered
          /\ recent' = LastOf(HistorySize, Append(recent, line))
      BY <2>1, <2>3 DEF Enter
    <3>2. /\ Remembered = LastOf(HistorySize, Append(history, line))
          /\ Remembered \in Seq(Lines) /\ Len(Remembered) <= HistorySize
      BY RememberedIsLast DEF HistoryType
    <3>3. Len(Remembered) \in Nat
      BY <3>2, LenProperties
    <3> QED
      BY <3>1, <3>2, <3>3 DEF HistoryType
  <2> QED
    BY <2>2, <2>3
<1>5. FilesType'
  <2>1. ed' = w.ed /\ cwd' = w.cwd /\ heap' = w.heap /\ UNCHANGED <<files, report>>
    BY <1>2 DEF SetWorld, Enter
  <2>2. w = [ed |-> w.ed, cwd |-> w.cwd, heap |-> w.heap]
    BY <1>1 DEF Worlds
  <2>3. World' = w
    BY <2>1, <2>2 DEF World
  <2>4. Worlds(files)' = Worlds(files)
    BY <2>1 DEF Worlds, EditorSound
  <2> QED
    BY <1>1, <2>1, <2>3, <2>4 DEF FilesType, Drives
<1> QED
  BY <1>3, <1>4, <1>5

LEMMA RecalledInv ==
  ASSUME IInv, NEW l \in Lines, Redisplay(l), index' \in -1 .. Len(history) - 1,
         UNCHANGED <<start, history, ed, cwd, files, heap, report, entered, recent>>
  PROVE  IInv'
<1> USE DEF IInv
<1>1. ScreenType'
  BY RedisplayType DEF ScreenType
<1>2. HistoryType'
  BY DEF HistoryType, Redisplay
<1>3. FilesType'
  BY FilesKept
<1> QED
  BY <1>1, <1>2, <1>3

LEMMA UpInv ==
  ASSUME IInv, Up PROVE IInv'
<1>1. history \in Seq(Lines) /\ Len(history) \in Nat \ {0} /\ index \in -1 .. Len(history) - 1
  BY EmptySeq DEF IInv, HistoryType, Up
<1>2. index' \in 0 .. Len(history) - 1
  BY <1>1 DEF Up
<1>3. index' + 1 \in 1 .. Len(history)
  <2>1. \A n \in Nat : \A i \in 0 .. n - 1 : i + 1 \in 1 .. n
    OBVIOUS
  <2>2. Len(history) \in Nat
    BY <1>1
  <2> QED
    BY <1>2, <2>1, <2>2
<1>4. history[index' + 1] \in Lines
  BY <1>1, <1>3, ElementOfSeq
<1>5. index' \in -1 .. Len(history) - 1
  BY <1>1, <1>2
<1> QED
  BY <1>4, <1>5, RecalledInv DEF Up

LEMMA DownInv ==
  ASSUME IInv, Down PROVE IInv'
<1>1. history \in Seq(Lines) /\ Len(history) \in Nat /\ index \in -1 .. Len(history) - 1
  BY LenProperties DEF IInv, HistoryType
<1>2. CASE index < Len(history) - 1
  <2>1. index' = index + 1 /\ Redisplay(history[index' + 1])
    BY <1>2 DEF Down
  <2>2. index' + 1 \in 1 .. Len(history) /\ index' \in -1 .. Len(history) - 1
    BY <1>1, <1>2, <2>1
  <2>3. history[index' + 1] \in Lines
    BY <1>1, <2>2, ElementOfSeq
  <2> QED
    BY <2>1, <2>2, <2>3, RecalledInv DEF Down
<1>3. CASE ~ (index < Len(history) - 1)
  <2>1. index' = -1 /\ Redisplay(<<>>)
    BY <1>3 DEF Down
  <2>2. index' \in -1 .. Len(history) - 1
    BY <1>1, <2>1
  <2> QED
    BY <2>1, <2>2, EmptyLine, RecalledInv DEF Down
<1> QED
  BY <1>2, <1>3

\* The editor's text and cursor change together, at their end.
LEMMA EditorKeyInv ==
  ASSUME IInv, ed.on, NEW text \in Seq(Chars), NEW cursor, EditorKey(text, cursor),
         cursor = Len(text), Len(text) <= EditLimit,
         \A i \in 1 .. Len(text) : i <= ed.low => text[i] = ed.text[i]
  PROVE  IInv'
<1>1. ScreenType'
  BY ClearedType DEF IInv, ScreenType, EditorKey, Redrawn
<1>2. HistoryType'
  BY DEF IInv, HistoryType, EditorKey
<1>3. /\ files \in Drives /\ ed \in Editors /\ cwd \in Dirs /\ heap \in Heaps
      /\ EditorSound(ed, files) /\ HeapSound(heap) /\ report \in Reports
      /\ ~ed.disturbed => ed.loaded = File(cwd)
  BY DEF IInv, FilesType, World, Worlds
<1> DEFINE low == IF Len(text) < ed.low THEN Len(text) ELSE ed.low
           e == [ed EXCEPT !.text = text, !.cursor = cursor, !.low = low]
<1>4. ed' = e /\ UNCHANGED <<cwd, files, heap, report>>
  BY DEF EditorKey
<1>5. /\ Len(text) \in Nat /\ ed.low \in Nat /\ ed.text \in Seq(Chars) /\ Len(ed.text) \in Nat
      /\ ed.loaded \in Files
  BY <1>3, LenProperties DEF Editors
<1>6. low \in Nat /\ low <= Len(text) /\ low <= ed.low
  BY <1>5
<1> HIDE DEF low
<1>7. e \in Editors
  BY <1>3, <1>5, <1>6 DEF Editors
<1>8. /\ e.on = ed.on /\ e.text = text /\ e.cursor = cursor /\ e.low = low
      /\ e.loaded = ed.loaded /\ e.disturbed = ed.disturbed
  BY <1>3 DEF Editors
<1> HIDE DEF e
<1>9. EditorSound(e, files)
  <2> DEFINE file == files[ed.loaded]
  <2>1. file \in Seq(Chars) /\ Len(file) \in Nat
    BY <1>3, <1>5, LenProperties DEF Drives
  <2>2. /\ ed.low <= Len(ed.text) /\ ed.low <= Len(file)
        /\ \A i \in 1 .. ed.low : ed.text[i] = file[i]
    BY <1>3 DEF EditorSound, Agree
  <2> HIDE DEF file
  <2>3. low <= Len(file)
    BY <1>5, <1>6, <2>1, <2>2
  <2>4. \A i \in 1 .. low : text[i] = file[i]
    BY <1>5, <1>6, <2>2
  <2>5. Agree(text, file, low)
    BY <1>6, <2>3, <2>4 DEF Agree
  <2> QED
    BY <1>5, <1>6, <1>8, <2>5 DEF EditorSound, file
<1>10. FilesType'
  <2>1. ~ (e.on /\ ~e.disturbed) \/ e.loaded = File(cwd)
    BY <1>3, <1>8
  <2>2. [ed |-> e, cwd |-> cwd, heap |-> heap] \in Worlds(files)
    BY <1>3, <1>7, <1>9, <2>1, IsWorld
  <2>3. World' = [ed |-> e, cwd |-> cwd, heap |-> heap]
    BY <1>4 DEF World
  <2>4. Worlds(files)' = Worlds(files)
    BY <1>4 DEF Worlds, EditorSound
  <2> QED
    BY <1>3, <1>4, <2>2, <2>3, <2>4 DEF FilesType, Drives
<1> QED
  BY <1>1, <1>2, <1>10 DEF IInv

LEMMA EditorTypeInv ==
  ASSUME IInv, EditorType PROVE IInv'
<1> DEFINE text == ed.text
           n == Len(ed.text)
<1>1. /\ ed.on /\ text \in Seq(Chars) /\ n \in Nat /\ n <= EditLimit
      /\ ed.cursor = n /\ ed.low \in Nat /\ ed.low <= n
  <2>1. ed \in Editors /\ EditorSound(ed, files) /\ ed.on
    BY DEF IInv, FilesType, World, Worlds, EditorType
  <2> QED
    BY <2>1, LenProperties DEF Editors, EditorSound
<1>2. PICK c \in Chars :
        IF n < EditLimit THEN EditorKey(Inserted(c), ed.cursor + 1)
        ELSE EditorKey(text, ed.cursor)
  BY DEF EditorType
<1>3. Inserted(c) = Append(text, c)
  <2>1. SubSeq(text, 1, n) = text
    BY <1>1, SubSeqFull
  <2>2. SubSeq(text, n + 1, n) = <<>>
    BY <1>1, SubSeqEmpty
  <2>3. Append(text, c) = text \o <<c>>
    BY <1>1, AppendIsConcat
  <2>4. Append(text, c) \in Seq(Chars)
    BY <1>1, AppendProperties
  <2>5. Append(text, c) \o <<>> = Append(text, c)
    BY <2>4, ConcatEmptySeq
  <2>6. Inserted(c) = (SubSeq(text, 1, n) \o <<c>>) \o SubSeq(text, n + 1, n)
    BY <1>1 DEF Inserted
  <2> QED
    BY <2>1, <2>2, <2>3, <2>5, <2>6
<1>4. CASE n < EditLimit
  <2>1. /\ Append(text, c) \in Seq(Chars) /\ Len(Append(text, c)) = n + 1
        /\ \A i \in 1 .. n : Append(text, c)[i] = text[i]
    BY <1>1, AppendProperties
  <2>2. EditorKey(Append(text, c), n + 1) /\ n + 1 <= EditLimit
    BY <1>1, <1>2, <1>3, <1>4, ShellAssumption
  <2>3. \A i \in 1 .. Len(Append(text, c)) : i <= ed.low => Append(text, c)[i] = text[i]
    BY <1>1, <2>1
  <2> QED
    BY <1>1, <2>1, <2>2, <2>3, EditorKeyInv
<1>5. CASE ~ (n < EditLimit)
  <2>1. EditorKey(text, n)
    BY <1>1, <1>2, <1>5
  <2> QED
    BY <1>1, <2>1, EditorKeyInv
<1> QED
  BY <1>4, <1>5

LEMMA EditorBackspaceInv ==
  ASSUME IInv, EditorBackspace PROVE IInv'
<1> DEFINE text == ed.text
           n == Len(ed.text)
<1>1. /\ ed.on /\ text \in Seq(Chars) /\ n \in Nat /\ n <= EditLimit
      /\ ed.cursor = n /\ ed.low \in Nat /\ ed.low <= n
  <2>1. ed \in Editors /\ EditorSound(ed, files) /\ ed.on
    BY DEF IInv, FilesType, World, Worlds, EditorBackspace
  <2> QED
    BY <2>1, LenProperties DEF Editors, EditorSound
<1>2. CASE n > 0
  <2> DEFINE shorter == SubSeq(text, 1, n - 1)
  <2>1. EditorKey(shorter \o SubSeq(text, n + 1, n), n - 1)
    BY <1>1, <1>2 DEF EditorBackspace
  <2>2. \A i \in 1 .. n - 1 : text[i] \in Chars
    BY <1>1, ElementOfSeq
  <2>3. n - 1 \in Nat
    BY <1>1, <1>2
  <2>4. /\ shorter \in Seq(Chars) /\ Len(shorter) = n - 1
        /\ \A i \in 1 .. n - 1 : shorter[i] = text[i]
    <3> DEFINE m == n - 1
    <3>1. m \in Nat /\ \A i \in 1 .. m : text[i] \in Chars
      BY <2>2, <2>3
    <3> HIDE DEF m
    <3>2. /\ SubSeq(text, 1, m) \in Seq(Chars) /\ Len(SubSeq(text, 1, m)) = m
          /\ \A i \in 1 .. m : SubSeq(text, 1, m)[i] = text[i]
      BY <3>1, SubSeqProperties
    <3> QED
      BY <3>2 DEF m
  <2>5. SubSeq(text, n + 1, n) = <<>>
    BY <1>1, SubSeqEmpty
  <2>6. shorter \o <<>> = shorter
    BY <2>4, ConcatEmptySeq
  <2>7. EditorKey(shorter, n - 1)
    BY <2>1, <2>5, <2>6
  <2>8. Len(shorter) <= EditLimit
    BY <1>1, <2>4, ShellAssumption
  <2> HIDE DEF shorter
  <2> QED
    BY <1>1, <2>3, <2>4, <2>7, <2>8, EditorKeyInv
<1>3. CASE ~ (n > 0)
  <2>1. EditorKey(text, n)
    BY <1>1, <1>3 DEF EditorBackspace
  <2> QED
    BY <1>1, <2>1, EditorKeyInv
<1> QED
  BY <1>2, <1>3

\* Nothing changes when no variable does.
LEMMA UnchangedInv ==
  ASSUME IInv, UNCHANGED vars PROVE IInv'
<1>1. ScreenType'
  BY DEF IInv, ScreenType, vars
<1>2. HistoryType'
  BY DEF IInv, HistoryType, vars
<1>3. FilesType'
  BY FilesKept DEF IInv, vars
<1> QED
  BY <1>1, <1>2, <1>3 DEF IInv

LEMMA EditorArrowInv ==
  ASSUME IInv, EditorArrow PROVE IInv'
<1>1. \A key \in SpecialKeys \ {"escape"} : key \notin {"left", "right"}
  BY DEF SpecialKeys
<1>2. UNCHANGED vars
  BY <1>1, Zenon DEF EditorArrow
<1> QED
  BY <1>2, UnchangedInv

LEMMA EscapeInv ==
  ASSUME IInv, Escape PROVE IInv'
<1>1. /\ files \in Drives /\ ed \in Editors /\ cwd \in Dirs /\ HeapSound(heap)
  BY DEF IInv, FilesType, World, Worlds
<1>2. ScreenType'
  <2>1. <<"text", Newline>> \in Seq(Printable)
    <3>1. "text" \in Printable /\ Newline \in Printable
      BY DEF Printable, Marks
    <3> QED
      BY <3>1
  <2>2. Put(Cleared, <<"text", Newline>>) \in Consoles
    BY <2>1, ClearedType, PutType
  <2> QED
    BY <2>2, ShownType DEF Escape
<1>3. HistoryType'
  BY DEF IInv, HistoryType, Escape
<1>4. files' \in Drives /\ report' \in Reports
  <2>1. PICK full \in BOOLEAN :
          LET opened == ~OpenFails(World, ed.name)
              saved == opened /\ ~full /\ ed.text # <<>>
          IN /\ files' = SavedFiles(opened /\ ~full)
             /\ report' = IF saved THEN "saved" ELSE "error"
    BY DEF Escape
  <2>2. ed.text \in Seq(Chars)
    BY <1>1 DEF Editors
  <2>3. files' \in {files, [files EXCEPT ![SaveTarget] = ed.text]}
    BY <2>1 DEF SavedFiles
  <2>4. [files EXCEPT ![SaveTarget] = ed.text] \in Drives
    BY <1>1, <2>2 DEF Drives
  <2> QED
    BY <1>1, <2>1, <2>3, <2>4 DEF Reports
<1>5. World' \in Worlds(files')
  <2>1. HeapSound(heap')
    <3>1. World.heap = heap
      BY DEF World
    <3>2. HeapSound(Opening(World, ed.name))
      BY <1>1, <3>1, OpeningSound
    <3> QED
      BY <3>2 DEF Escape
  <2>2. ed' = Closed /\ cwd' = cwd
    BY DEF Escape
  <2>3. [ed |-> Closed, cwd |-> cwd, heap |-> heap'] \in Worlds(files')
    BY <1>1, <1>4, <2>1, ClosedIsWorld
  <2> QED
    BY <2>2, <2>3 DEF World
<1>6. FilesType'
  <2>1. Worlds(files)' = Worlds(files')
    BY DEF Worlds, EditorSound
  <2> QED
    BY <1>4, <1>5, <2>1 DEF FilesType, Drives
<1> QED
  BY <1>2, <1>3, <1>6 DEF IInv

LEMMA StepInv == IInv /\ [Next]_vars => IInv'
<1> SUFFICES ASSUME IInv, [Next]_vars PROVE IInv'
  OBVIOUS
<1>1. CASE UNCHANGED vars
  BY <1>1, UnchangedInv
<1> QED
  BY <1>1, TypeInv, BackspaceInv, EnterInv, UpInv, DownInv, EditorTypeInv,
     EditorBackspaceInv, EditorArrowInv, EscapeInv DEF Next

LEMMA Invariant == Spec => []IInv
BY InitInv, StepInv, PTL DEF Spec

-----------------------------------------------------------------------------
(***************************************************************************)
(* What follows from it.                                                   *)
(***************************************************************************)
\* The cursor stays on the screen and the index in the history, the line, the
\* history and the text in their buffers, whatever is typed and run.
THEOREM TypeCorrect == Spec => []TypeOK
<1>1. IInv => TypeOK
  <2> SUFFICES ASSUME IInv PROVE TypeOK
    OBVIOUS
  <2>1. /\ con.x \in 0 .. Cols - 1 /\ con.y \in 0 .. Rows - 1
        /\ con.cells \in [0 .. Rows - 1 -> [0 .. Cols - 1 -> SUBSET (Chars \cup {"prompt", "text"})]]
        /\ start \in 0 .. Cols - 1
    BY DEF IInv, ScreenType, Consoles, CellRows, Marks
  <2>2. /\ line \in Lines /\ history \in BoundedSeq(Lines, HistorySize)
        /\ index \in -1 .. Len(history) - 1
    BY BoundedSequences, ShellAssumption DEF IInv, HistoryType
  <2>3. /\ ed \in Editors /\ EditorSound(ed, files) /\ cwd \in Dirs /\ HeapSound(heap)
        /\ files \in Drives /\ report \in Reports
    BY DEF IInv, FilesType, World, Worlds
  <2>4. /\ ed.on \in BOOLEAN /\ ed.cursor \in Nat /\ ed.low \in Nat /\ Len(ed.text) \in Nat
    BY <2>3, LenProperties DEF Editors
  <2>5. /\ Len(ed.text) <= EditLimit /\ ed.cursor \in 0 .. Len(ed.text)
        /\ ed.low \in 0 .. Len(ed.text)
    BY <2>3, <2>4 DEF EditorSound
  <2>6. heap.offset \in 0 .. HeapSize /\ DOMAIN files = Files
    BY <2>3 DEF HeapSound, Heaps, Drives
  <2> QED
    BY <2>1, <2>2, <2>3, <2>4, <2>5, <2>6 DEF TypeOK
<1> QED
  BY <1>1, Invariant, PTL

\* history holds the lines entered last, in their order, for every length of it:
\* shifting a full buffer by one and appending is keeping the last of them.
THEOREM HistoryIsRecentHolds == Spec => []HistoryIsRecent
<1>1. IInv => HistoryIsRecent
  BY DEF IInv, HistoryType, HistoryIsRecent
<1> QED
  BY <1>1, Invariant, PTL

\* Whatever commands and scripts ask of the heap, kmalloc's areas are disjoint and
\* inside it, the one that fills it up included.
THEOREM HeapAreasDisjointHolds == Spec => []HeapAreasDisjoint
<1>1. IInv => HeapAreasDisjoint
  BY HeapSoundDisjoint DEF IInv, FilesType, World, Worlds, HeapAreasDisjoint
<1> QED
  BY <1>1, Invariant, PTL

\* The text in the editor begins as the file that it was loaded from, up to where
\* it has been rubbed out, whatever ran in between.
THEOREM TextExtendsFileHolds == Spec => []TextExtendsFile
<1>1. IInv => TextExtendsFile
  <2> SUFFICES ASSUME IInv, ed.on
               PROVE  SubSeq(ed.text, 1, ed.low) = SubSeq(files[ed.loaded], 1, ed.low)
    BY DEF TextExtendsFile
  <2>1. files \in Drives /\ ed \in Editors /\ EditorSound(ed, files)
    BY DEF IInv, FilesType, World, Worlds
  <2>2. /\ ed.text \in Seq(Chars) /\ files[ed.loaded] \in Seq(Chars) /\ ed.low \in Nat
    BY <2>1 DEF Editors, Drives
  <2>3. Agree(ed.text, files[ed.loaded], ed.low)
    BY <2>1 DEF EditorSound
  <2> QED
    BY <2>2, <2>3, AgreeSubSeq
<1> QED
  BY <1>1, Invariant, PTL

\* Only leaving the editor changes a file, and it changes the one that was loaded
\* unless a script went on after it had opened the editor.
THEOREM OnlyTheEditedFileHolds == Spec => OnlyTheEditedFile
<1> DEFINE Allowed ==
      files' # files =>
        ed.on /\ (~ed.disturbed => files' = [files EXCEPT ![ed.loaded] = ed.text])
<1>1. IInv /\ [Next]_vars => [Allowed]_vars
  <2> SUFFICES ASSUME IInv, Next, files' # files PROVE Allowed
    BY DEF vars
  <2>1. Escape
    BY DEF Next, Type, Backspace, Enter, Up, Down, EditorType, EditorBackspace, EditorArrow,
           EditorKey, vars
  <2>2. ed.on /\ \E full \in BOOLEAN : \E opened \in BOOLEAN : files' = SavedFiles(opened)
    BY <2>1 DEF Escape
  <2>3. files' = [files EXCEPT ![SaveTarget] = ed.text]
    BY <2>2 DEF SavedFiles
  <2>4. ~ed.disturbed => ed.loaded = SaveTarget
    BY <2>2 DEF IInv, FilesType, World, Worlds, SaveTarget
  <2> QED
    BY <2>2, <2>3, <2>4
<1> QED
  BY <1>1, Invariant, PTL DEF Spec, OnlyTheEditedFile

\* What the editor says when it is left is true of the files, with the drive full
\* or the heap used up too; an empty text is the exception.
THEOREM ReportIsTrueHolds == Spec => ReportIsTrue
<1> DEFINE Truthful ==
      ed.on /\ ~ed'.on =>
        \/ report' = "saved" /\ \E f \in Files : files' = [files EXCEPT ![f] = ed.text]
        \/ report' = "error" /\ (files' = files \/ ed.text = <<>>)
<1>1. IInv /\ [Next]_vars => [Truthful]_vars
  <2> SUFFICES ASSUME IInv, Next, ed.on, ~ed'.on
               PROVE  \/ report' = "saved" /\ \E f \in Files : files' = [files EXCEPT ![f] = ed.text]
                      \/ report' = "error" /\ (files' = files \/ ed.text = <<>>)
    OBVIOUS
  <2>1. ed \in Editors /\ cwd \in Dirs
    BY DEF IInv, FilesType, World, Worlds
  <2>2. Escape
    <3>1. ASSUME NEW text, NEW cursor, EditorKey(text, cursor) PROVE ed'.on = ed.on
      BY <2>1, <3>1 DEF EditorKey, Editors
    <3>2. ~ (EditorType \/ EditorBackspace)
      BY <3>1 DEF EditorType, EditorBackspace
    <3>3. ~EditorArrow
      BY <3>1 DEF EditorArrow, vars
    <3> QED
      BY <3>2, <3>3 DEF Next, Type, Backspace, Enter, Up, Down
  <2>3. PICK full \in BOOLEAN :
          LET opened == ~OpenFails(World, ed.name)
              saved == opened /\ ~full /\ ed.text # <<>>
          IN /\ files' = SavedFiles(opened /\ ~full)
             /\ report' = IF saved THEN "saved" ELSE "error"
    BY <2>2 DEF Escape
  <2>4. SaveTarget \in Files
    BY <2>1 DEF SaveTarget, Files
  <2> QED
    BY <2>3, <2>4 DEF SavedFiles
<1> QED
  BY <1>1, Invariant, PTL DEF Spec, ReportIsTrue

-----------------------------------------------------------------------------
(***************************************************************************)
(* Places on the screen: place k is in column ColOf(k) of the row RowOf(k) *)
(* below the row that the places are counted from.                         *)
(***************************************************************************)
RowOf(k) == k \div Cols
ColOf(k) == k % Cols

LEMMA PlaceIs ==
  ASSUME NEW k \in Nat
  PROVE  /\ k = Cols * RowOf(k) + ColOf(k)
         /\ RowOf(k) \in Nat /\ ColOf(k) \in 0 .. Cols - 1
<1>1. \A c \in Nat \ {0} : /\ k = c * (k \div c) + (k % c)
                           /\ k \div c \in Nat /\ k % c \in 0 .. c - 1
  OBVIOUS
<1> QED
  BY <1>1, ScreenAssumption DEF RowOf, ColOf

LEMMA RowsOrdered ==
  ASSUME NEW a \in Int, NEW b \in Int, NEW x \in 0 .. Cols - 1, NEW y \in 0 .. Cols - 1,
         a < b
  PROVE  Cols * a + x < Cols * b + y
<1>1. a + 1 <= b /\ Cols \in Nat
  BY ScreenAssumption
<1>2. Cols * (a + 1) <= Cols * b
  BY <1>1
<1>3. Cols * (a + 1) = Cols * a + Cols
  BY <1>1
<1>4. Cols * a \in Int /\ Cols * b \in Int
  BY <1>1
<1> QED
  BY <1>1, <1>2, <1>3, <1>4

LEMMA PlaceOnly ==
  ASSUME NEW k \in Nat, NEW a \in Int, NEW x \in 0 .. Cols - 1, k = Cols * a + x
  PROVE  RowOf(k) = a /\ ColOf(k) = x
<1>1. k = Cols * RowOf(k) + ColOf(k) /\ RowOf(k) \in Int /\ ColOf(k) \in 0 .. Cols - 1
  BY PlaceIs
<1>2. ~ (RowOf(k) < a)
  BY <1>1, RowsOrdered
<1>3. ~ (a < RowOf(k))
  BY <1>1, RowsOrdered
<1>4. RowOf(k) = a
  BY <1>1, <1>2, <1>3
<1>5. Cols * a \in Int
  BY ScreenAssumption
<1> QED
  BY <1>1, <1>4, <1>5

LEMMA NextPlace ==
  ASSUME NEW k \in Nat
  PROVE  IF ColOf(k) = Cols - 1 THEN RowOf(k + 1) = RowOf(k) + 1 /\ ColOf(k + 1) = 0
         ELSE RowOf(k + 1) = RowOf(k) /\ ColOf(k + 1) = ColOf(k) + 1
<1> DEFINE q == RowOf(k)
           x == ColOf(k)
<1>1. k = Cols * q + x /\ q \in Nat /\ x \in 0 .. Cols - 1
  BY PlaceIs
<1>2. Cols * q \in Int /\ Cols * (q + 1) = Cols * q + Cols /\ Cols \in Nat \ {0}
  BY <1>1, ScreenAssumption
<1> HIDE DEF q, x
<1>3. CASE x = Cols - 1
  <2>1. k + 1 = Cols * (q + 1) + 0
    BY <1>1, <1>2, <1>3
  <2>2. q + 1 \in Int /\ 0 \in 0 .. Cols - 1 /\ k + 1 \in Nat
    BY <1>1, <1>2
  <2>3. RowOf(k + 1) = q + 1 /\ ColOf(k + 1) = 0
    BY <2>1, <2>2, PlaceOnly
  <2> QED
    BY <1>3, <2>3 DEF q, x
<1>4. CASE x # Cols - 1
  <2>1. k + 1 = Cols * q + (x + 1)
    BY <1>1, <1>2
  <2>2. q \in Int /\ x + 1 \in 0 .. Cols - 1 /\ k + 1 \in Nat
    BY <1>1, <1>2, <1>4
  <2>3. RowOf(k + 1) = q /\ ColOf(k + 1) = x + 1
    BY <2>1, <2>2, PlaceOnly
  <2> QED
    BY <1>4, <2>3 DEF q, x
<1> QED
  BY <1>3, <1>4

LEMMA FirstPlaces ==
  ASSUME NEW k \in 0 .. Cols - 1 PROVE RowOf(k) = 0 /\ ColOf(k) = k
<1>1. k = Cols * 0 + k /\ k \in Nat
  BY ScreenAssumption
<1> QED
  BY <1>1, PlaceOnly

\* Later places are on later rows, or behind on the same one.
LEMMA PlacesOrdered ==
  ASSUME NEW j \in Nat, NEW k \in Nat, j <= k
  PROVE  /\ RowOf(j) <= RowOf(k)
         /\ RowOf(j) = RowOf(k) => ColOf(j) <= ColOf(k)
         /\ j # k => ~ (RowOf(j) = RowOf(k) /\ ColOf(j) = ColOf(k))
<1>1. /\ j = Cols * RowOf(j) + ColOf(j) /\ RowOf(j) \in Int /\ ColOf(j) \in 0 .. Cols - 1
      /\ k = Cols * RowOf(k) + ColOf(k) /\ RowOf(k) \in Int /\ ColOf(k) \in 0 .. Cols - 1
  BY PlaceIs
<1>2. ~ (RowOf(k) < RowOf(j))
  BY <1>1, RowsOrdered
<1>3. Cols * RowOf(j) \in Int /\ Cols * RowOf(k) \in Int
  BY <1>1, ScreenAssumption
<1>4. RowOf(j) = RowOf(k) => ColOf(j) <= ColOf(k)
  BY <1>1, <1>3
<1> QED
  BY <1>1, <1>2, <1>4

\* A line and the prompt's end in front of it take no more rows than there are.
LEMMA LineFits ==
  ASSUME NEW s \in 0 .. Cols - 1, NEW n \in 0 .. LineSize
  PROVE  RowOf(s + n) < Rows
<1>1. s + n \in Nat /\ s + n <= Cols - 1 + LineSize
  BY ScreenAssumption, ShellAssumption
<1>2. /\ Cols * (Rows - 1) \in Int /\ Cols * Rows = Cols * (Rows - 1) + Cols
      /\ Cols * Rows \in Int
  BY ScreenAssumption
<1>3. s + n < Cols * Rows
  BY <1>1, <1>2, EchoAssumption, ScreenAssumption, ShellAssumption
<1>4. /\ s + n = Cols * RowOf(s + n) + ColOf(s + n)
      /\ RowOf(s + n) \in Nat /\ ColOf(s + n) \in 0 .. Cols - 1
  BY <1>1, PlaceIs
<1>5. ASSUME Rows < RowOf(s + n) PROVE FALSE
  <2>1. 0 \in 0 .. Cols - 1 /\ Rows \in Int /\ RowOf(s + n) \in Int
    BY <1>4, ScreenAssumption
  <2>2. Cols * Rows + 0 < Cols * RowOf(s + n) + ColOf(s + n)
    BY <1>4, <1>5, <2>1, RowsOrdered
  <2> QED
    BY <1>1, <1>2, <1>3, <1>4, <2>2
<1>6. ASSUME Rows = RowOf(s + n) PROVE FALSE
  <2>1. s + n = Cols * Rows + ColOf(s + n)
    BY <1>4, <1>6
  <2> QED
    BY <1>1, <1>2, <1>3, <1>4, <2>1, ScreenAssumption
<1> QED
  BY <1>4, <1>5, <1>6, ScreenAssumption

-----------------------------------------------------------------------------
(***************************************************************************)
(* What a character does to the screen.  The screen has scrolled by d rows *)
(* when c2 follows c, and marks were drawn where the cursor was.           *)
(***************************************************************************)
Advanced(c, c2, marks, d) ==
  /\ c2 \in Consoles /\ d \in {0, 1} /\ (d = 1 => c2.y = Rows - 1)
  /\ c.mark >= 0 => c2.mark = c.mark - d
  /\ \A r \in 0 .. Rows - 1, k \in 0 .. Cols - 1 :
       c2.cells[r][k] =
         IF r + d >= Rows THEN {}
         ELSE IF r + d = c.y /\ k = c.x THEN c.cells[r + d][k] \cup marks
         ELSE c.cells[r + d][k]

LEMMA CursorSet ==
  ASSUME NEW cells, NEW x, NEW y, NEW mark, NEW x2, NEW y2,
         NEW c, c = [cells |-> cells, x |-> x, y |-> y, mark |-> mark]
  PROVE  SetCursor(c, x2, y2) = [cells |-> cells, x |-> x2, y |-> y2, mark |-> mark]
<1> DEFINE c1 == [c EXCEPT !.x = x2]
<1>1. c1 = [cells |-> cells, x |-> x2, y |-> y, mark |-> mark]
  OBVIOUS
<1>2. SetCursor(c, x2, y2) = [c1 EXCEPT !.y = y2]
  BY DEF SetCursor
<1> HIDE DEF c1
<1>3. [c1 EXCEPT !.y = y2] = [cells |-> cells, x |-> x2, y |-> y2, mark |-> mark]
  BY <1>1
<1> QED
  BY <1>2, <1>3

LEMMA SettledIs ==
  ASSUME NEW cells \in CellRows, NEW x \in 0 .. Cols, NEW y \in 0 .. Rows,
         NEW mark \in -Rows .. Rows - 1, x = Cols => y < Rows,
         NEW c, c = [cells |-> cells, x |-> x, y |-> y, mark |-> mark]
  PROVE  \E d \in {0, 1} :
           /\ Settled(c).y = (IF x = Cols THEN y + 1 ELSE y) - d
           /\ Settled(c).x = IF x = Cols \/ d = 1 THEN 0 ELSE x
           /\ mark >= 0 => Settled(c).mark = mark - d
           /\ x < Cols /\ y < Rows => d = 0
           /\ d = 1 => Settled(c).y = Rows - 1
           /\ \A r \in 0 .. Rows - 1, k \in 0 .. Cols - 1 :
                Settled(c).cells[r][k] = IF r + d >= Rows THEN {} ELSE cells[r + d][k]
<1> DEFINE x2 == IF x = Cols THEN 0 ELSE x
           y2 == IF x = Cols THEN y + 1 ELSE y
           w == [cells |-> cells, x |-> x2, y |-> y2, mark |-> mark]
<1>1. y2 \in 0 .. Rows /\ x2 \in 0 .. Cols - 1
  BY ScreenAssumption
<1>2. Settled(c) = IF y2 >= Rows THEN Scrolled(w) ELSE w
  <2>1. CASE x = Cols
    <3> DEFINE v == SetCursor(c, 0, c.y + 1)
    <3>1. v = [cells |-> cells, x |-> 0, y |-> y + 1, mark |-> mark]
      <4>1. c.y = y
        OBVIOUS
      <4> QED
        BY <4>1, CursorSet
    <3>2. Settled(c) = IF v.y >= Rows THEN Scrolled(v) ELSE v
      BY <2>1, ScreenAssumption DEF Settled, SetCursor
    <3> HIDE DEF v
    <3>3. v = w
      BY <2>1, <3>1
    <3> QED
      BY <3>2, <3>3
  <2>2. CASE x # Cols
    <3>1. c = w /\ ~ (c.x >= Cols) /\ c.y = y2
      BY <2>2, ScreenAssumption
    <3> HIDE DEF w
    <3> QED
      BY <3>1 DEF Settled
  <2> QED
    BY <2>1, <2>2
<1>3. CASE y2 = Rows
  <2>1. Settled(c) = Scrolled(w)
    BY <1>2, <1>3, ScreenAssumption
  <2>2. /\ Settled(c).y = y2 - 1 /\ Settled(c).x = 0
        /\ mark >= 0 => Settled(c).mark = mark - 1
    BY <1>3, <2>1, ScreenAssumption DEF Scrolled
  <2> DEFINE up == [r \in 0 .. Rows - 1 |->
                      IF r < Rows - 1 THEN cells[r + 1] ELSE [k \in 0 .. Cols - 1 |-> {}]]
  <2>3. Settled(c).cells = up
    <3>1. Cleared.cells = [r \in 0 .. Rows - 1 |-> [k \in 0 .. Cols - 1 |-> {}]]
      BY DEF Cleared
    <3>2. Scrolled(w).cells = [r \in 0 .. Rows - 1 |->
                                 IF r < Rows - 1 THEN w.cells[r + 1] ELSE Cleared.cells[r]]
      BY DEF Scrolled
    <3>3. w.cells = cells
      OBVIOUS
    <3> QED
      BY <2>1, <3>1, <3>2, <3>3
  <2>5. ASSUME NEW r \in 0 .. Rows - 1, NEW k \in 0 .. Cols - 1
        PROVE  up[r][k] = IF r + 1 >= Rows THEN {} ELSE cells[r + 1][k]
    BY ScreenAssumption
  <2> HIDE DEF up
  <2>6. \A r \in 0 .. Rows - 1, k \in 0 .. Cols - 1 :
          Settled(c).cells[r][k] = IF r + 1 >= Rows THEN {} ELSE cells[r + 1][k]
    BY <2>3, <2>5
  <2>4. ~ (x < Cols /\ y < Rows)
    BY <1>3, ScreenAssumption
  <2> WITNESS 1 \in {0, 1}
  <2> QED
    BY <1>1, <1>3, <2>2, <2>4, <2>6
<1>4. CASE y2 # Rows
  <2>1. Settled(c) = w
    BY <1>1, <1>2, <1>4, ScreenAssumption
  <2>2. \A r \in 0 .. Rows - 1, k \in 0 .. Cols - 1 :
          Settled(c).cells[r][k] = IF r + 0 >= Rows THEN {} ELSE cells[r + 0][k]
    BY <2>1, ScreenAssumption
  <2> WITNESS 0 \in {0, 1}
  <2> QED
    BY <1>1, <2>1, <2>2, ScreenAssumption
<1> QED
  BY <1>3, <1>4

\* A character is drawn where the cursor is, and the cursor goes to the next place.
LEMMA PutGlyph ==
  ASSUME NEW c \in Consoles, NEW char \in Printable \ {Newline, Rubout}
  PROVE  \E d \in {0, 1} :
           /\ Advanced(c, PutChar(c, char), Glyphs(char), d)
           /\ PutChar(c, char).y = (IF c.x = Cols - 1 THEN c.y + 1 ELSE c.y) - d
           /\ PutChar(c, char).x = IF c.x = Cols - 1 THEN 0 ELSE c.x + 1
<1>1. PICK cells \in CellRows, x \in 0 .. Cols - 1, y \in 0 .. Rows - 1,
           mark \in -Rows .. Rows - 1 :
        c = [cells |-> cells, x |-> x, y |-> y, mark |-> mark]
  BY DEF Consoles
<1> DEFINE drawn == [cells EXCEPT ![y][x] = @ \cup Glyphs(char)]
           m == [cells |-> drawn, x |-> x + 1, y |-> y, mark |-> mark]
<1>2. Glyphs(char) \in SUBSET Marks /\ cells[y][x] \in SUBSET Marks
  BY DEF Glyphs, Printable, CellRows
<1>3. drawn \in CellRows
  BY <1>2 DEF CellRows
<1>4. \A r \in 0 .. Rows - 1, k \in 0 .. Cols - 1 :
        drawn[r][k] = IF r = y /\ k = x THEN cells[r][k] \cup Glyphs(char) ELSE cells[r][k]
  BY DEF CellRows
<1>5. PutChar(c, char) = Settled(m)
  <2>1. Moved(c, char) = m
    BY <1>1 DEF Moved
  <2> QED
    BY <2>1 DEF PutChar
<1>6. x + 1 \in 0 .. Cols /\ y \in 0 .. Rows /\ (x + 1 = Cols => y < Rows)
  BY ScreenAssumption
<1>7. c.cells = cells /\ c.x = x /\ c.y = y /\ c.mark = mark
  BY <1>1
<1> HIDE DEF drawn
<1>8. PICK d \in {0, 1} :
           /\ Settled(m).y = (IF x + 1 = Cols THEN y + 1 ELSE y) - d
           /\ Settled(m).x = IF x + 1 = Cols \/ d = 1 THEN 0 ELSE x + 1
           /\ mark >= 0 => Settled(m).mark = mark - d
           /\ x + 1 < Cols /\ y < Rows => d = 0
           /\ d = 1 => Settled(m).y = Rows - 1
           /\ \A r \in 0 .. Rows - 1, k \in 0 .. Cols - 1 :
                Settled(m).cells[r][k] = IF r + d >= Rows THEN {} ELSE drawn[r + d][k]
  <2> HIDE DEF m
  <2>1. m = [cells |-> drawn, x |-> x + 1, y |-> y, mark |-> mark]
    BY DEF m
  <2> QED
    BY <1>3, <1>6, <2>1, SettledIs
<1> HIDE DEF m
<1>9. PutChar(c, char) \in Consoles
  BY PutCharType
<1>10. ASSUME NEW r \in 0 .. Rows - 1, NEW k \in 0 .. Cols - 1
       PROVE  PutChar(c, char).cells[r][k] =
                IF r + d >= Rows THEN {}
                ELSE IF r + d = c.y /\ k = c.x THEN c.cells[r + d][k] \cup Glyphs(char)
                ELSE c.cells[r + d][k]
  <2>1. PutChar(c, char).cells[r][k] = IF r + d >= Rows THEN {} ELSE drawn[r + d][k]
    BY <1>5, <1>8
  <2>2. CASE r + d >= Rows
    BY <2>1, <2>2
  <2>3. CASE ~ (r + d >= Rows)
    <3>1. r + d \in 0 .. Rows - 1
      BY <2>3, ScreenAssumption
    <3> QED
      BY <1>4, <1>7, <2>1, <2>3, <3>1
  <2> QED
    BY <2>2, <2>3
<1>11. Advanced(c, PutChar(c, char), Glyphs(char), d)
  BY <1>5, <1>7, <1>8, <1>9, <1>10 DEF Advanced
<1>12. /\ PutChar(c, char).y = (IF c.x = Cols - 1 THEN c.y + 1 ELSE c.y) - d
       /\ PutChar(c, char).x = IF c.x = Cols - 1 THEN 0 ELSE c.x + 1
  BY <1>5, <1>7, <1>8, ScreenAssumption
<1> QED
  BY <1>11, <1>12

LEMMA PutNewline ==
  ASSUME NEW c \in Consoles
  PROVE  \E d \in {0, 1} :
           /\ Advanced(c, PutChar(c, Newline), {}, d)
           /\ PutChar(c, Newline).y = c.y + 1 - d
           /\ PutChar(c, Newline).x = 0
<1>1. PICK cells \in CellRows, x \in 0 .. Cols - 1, y \in 0 .. Rows - 1,
           mark \in -Rows .. Rows - 1 :
        c = [cells |-> cells, x |-> x, y |-> y, mark |-> mark]
  BY DEF Consoles
<1> DEFINE m == [cells |-> cells, x |-> 0, y |-> y + 1, mark |-> mark]
<1>2. PutChar(c, Newline) = Settled(m)
  <2>1. Moved(c, Newline) = SetCursor(c, 0, c.y + 1)
    BY DEF Moved, SetCursor, Newline, Rubout
  <2>2. SetCursor(c, 0, c.y + 1) = m
    <3>1. c.y = y
      BY <1>1
    <3> QED
      BY <1>1, <3>1, CursorSet
  <2> QED
    BY <2>1, <2>2 DEF PutChar
<1>3. 0 \in 0 .. Cols /\ y + 1 \in 0 .. Rows /\ 0 # Cols
  BY ScreenAssumption
<1>4. c.cells = cells /\ c.x = x /\ c.y = y /\ c.mark = mark
  BY <1>1
<1>5. PICK d \in {0, 1} :
           /\ Settled(m).y = y + 1 - d
           /\ Settled(m).x = 0
           /\ mark >= 0 => Settled(m).mark = mark - d
           /\ d = 1 => Settled(m).y = Rows - 1
           /\ \A r \in 0 .. Rows - 1, k \in 0 .. Cols - 1 :
                Settled(m).cells[r][k] = IF r + d >= Rows THEN {} ELSE cells[r + d][k]
  <2> HIDE DEF m
  <2>1. m = [cells |-> cells, x |-> 0, y |-> y + 1, mark |-> mark]
    BY DEF m
  <2>2. \E d \in {0, 1} :
           /\ Settled(m).y = (IF 0 = Cols THEN y + 1 + 1 ELSE y + 1) - d
           /\ Settled(m).x = IF 0 = Cols \/ d = 1 THEN 0 ELSE 0
           /\ mark >= 0 => Settled(m).mark = mark - d
           /\ 0 < Cols /\ y + 1 < Rows => d = 0
           /\ d = 1 => Settled(m).y = Rows - 1
           /\ \A r \in 0 .. Rows - 1, k \in 0 .. Cols - 1 :
                Settled(m).cells[r][k] = IF r + d >= Rows THEN {} ELSE cells[r + d][k]
    BY <1>3, <2>1, SettledIs
  <2> QED
    BY <1>3, <2>2
<1> HIDE DEF m
<1>6. PutChar(c, Newline) \in Consoles
  BY PutCharType DEF Printable
<1>7. Advanced(c, PutChar(c, Newline), {}, d)
  BY <1>2, <1>4, <1>5, <1>6 DEF Advanced
<1> QED
  BY <1>2, <1>4, <1>5, <1>7

\* The cursor goes back a place, and what was there is gone.
LEMMA PutRubout ==
  ASSUME NEW c \in Consoles, ~ (c.x = 0 /\ c.y = 0)
  PROVE  LET c2 == PutChar(c, Rubout)
         IN /\ c2 \in Consoles /\ c2.mark = c.mark
            /\ IF c.x > 0 THEN c2.x = c.x - 1 /\ c2.y = c.y
               ELSE c2.x = Cols - 1 /\ c2.y = c.y - 1
            /\ \A r \in 0 .. Rows - 1, k \in 0 .. Cols - 1 :
                 c2.cells[r][k] = IF r = c2.y /\ k = c2.x THEN {} ELSE c.cells[r][k]
<1>1. PICK cells \in CellRows, x \in 0 .. Cols - 1, y \in 0 .. Rows - 1,
           mark \in -Rows .. Rows - 1 :
        c = [cells |-> cells, x |-> x, y |-> y, mark |-> mark]
  BY DEF Consoles
<1> DEFINE x2 == IF x > 0 THEN x - 1 ELSE Cols - 1
           y2 == IF x > 0 THEN y ELSE y - 1
           cleared == [cells EXCEPT ![y2][x2] = {}]
           b == [cells |-> cells, x |-> x2, y |-> y2, mark |-> mark]
           m == [cells |-> cleared, x |-> x2, y |-> y2, mark |-> mark]
<1>2. x2 \in 0 .. Cols - 1 /\ y2 \in 0 .. Rows - 1
  BY <1>1, ScreenAssumption
<1>3. StepBack(c) = [b EXCEPT !.cells[b.y][b.x] = {}]
  <2>1. CASE x > 0
    <3>1. [c EXCEPT !.x = @ - 1] = b
      BY <1>1, <2>1
    <3> HIDE DEF b
    <3> QED
      BY <1>1, <2>1, <3>1 DEF StepBack
  <2>2. CASE ~ (x > 0)
    <3>1. SetCursor(c, Cols - 1, c.y - 1) = b
      <4>1. c.y = y /\ x2 = Cols - 1 /\ y2 = y - 1
        BY <1>1, <2>2
      <4>2. SetCursor(c, Cols - 1, y - 1)
              = [cells |-> cells, x |-> Cols - 1, y |-> y - 1, mark |-> mark]
        BY <1>1, CursorSet
      <4> QED
        BY <4>1, <4>2
    <3> HIDE DEF b
    <3> QED
      BY <1>1, <2>2, <3>1 DEF StepBack, SetCursor
  <2> QED
    BY <2>1, <2>2
<1>4. [b EXCEPT !.cells[b.y][b.x] = {}] = m
  OBVIOUS
<1>5. PutChar(c, Rubout) = m
  <2>1. Moved(c, Rubout) = m
    BY <1>3, <1>4 DEF Moved, Newline, Rubout
  <2>2. Settled(m) = m
    <3>1. ~ (m.x >= Cols) /\ ~ (m.y >= Rows)
      BY <1>2, ScreenAssumption
    <3> HIDE DEF m
    <3> QED
      BY <3>1 DEF Settled
  <2> HIDE DEF m
  <2> QED
    BY <2>1, <2>2 DEF PutChar
<1>6. \A r \in 0 .. Rows - 1, k \in 0 .. Cols - 1 :
        cleared[r][k] = IF r = y2 /\ k = x2 THEN {} ELSE cells[r][k]
  BY <1>2 DEF CellRows
<1>7. PutChar(c, Rubout) \in Consoles
  BY PutCharType DEF Printable
<1> HIDE DEF cleared
<1>8. m.cells = cleared /\ m.x = x2 /\ m.y = y2 /\ m.mark = mark
  OBVIOUS
<1> HIDE DEF m
<1> QED
  BY <1>1, <1>5, <1>6, <1>7, <1>8

-----------------------------------------------------------------------------
(***************************************************************************)
(* The line on the screen.  It is counted from row b, s places in, and the *)
(* cursor is n places behind; e is 0 if row b was empty there to begin     *)
(* with, and 1 if something was left on it.                                *)
(***************************************************************************)
After(c, r, k) == r > c.y \/ (r = c.y /\ k >= c.x)
EchoAt(c, b, e, s, n) ==
  /\ c \in Consoles
  /\ c.y = b + RowOf(s + n) /\ c.x = ColOf(s + n)
  /\ \A r \in 0 .. Rows - 1, k \in 0 .. Cols - 1 :
       r >= b + e /\ After(c, r, k) => c.cells[r][k] = {}
\* The first n characters of l are on the screen.
Shown(c, b, s, l, n) ==
  \A i \in 1 .. n : c.cells[b + RowOf(s + i - 1)][ColOf(s + i - 1)] = Glyphs(l[i])

LEMMA EchoTyped ==
  ASSUME NEW c, NEW b \in 0 .. Rows - 1, NEW e \in {0, 1}, NEW s \in Nat, NEW n \in Nat,
         EchoAt(c, b, e, s, n), RowOf(s + n + 1) < Rows,
         NEW char \in Printable \ {Newline, Rubout}
  PROVE  \E d \in {0, 1} : /\ Advanced(c, PutChar(c, char), Glyphs(char), d)
                           /\ b - d \in 0 .. Rows - 1
                           /\ EchoAt(PutChar(c, char), b - d, e, s, n + 1)
<1> DEFINE c2 == PutChar(c, char)
<1>1. c \in Consoles /\ c.y = b + RowOf(s + n) /\ c.x = ColOf(s + n)
  BY DEF EchoAt
<1>2. c.x \in 0 .. Cols - 1 /\ c.y \in 0 .. Rows - 1
  BY <1>1 DEF Consoles
<1>3. PICK d \in {0, 1} :
           /\ Advanced(c, c2, Glyphs(char), d)
           /\ c2.y = (IF c.x = Cols - 1 THEN c.y + 1 ELSE c.y) - d
           /\ c2.x = IF c.x = Cols - 1 THEN 0 ELSE c.x + 1
  BY <1>1, PutGlyph
<1> HIDE DEF c2
<1>4. /\ RowOf(s + n) \in Nat /\ RowOf(s + n + 1) \in Nat
      /\ IF ColOf(s + n) = Cols - 1
         THEN RowOf(s + n + 1) = RowOf(s + n) + 1 /\ ColOf(s + n + 1) = 0
         ELSE RowOf(s + n + 1) = RowOf(s + n) /\ ColOf(s + n + 1) = ColOf(s + n) + 1
  <2>1. s + n \in Nat /\ s + n + 1 \in Nat
    OBVIOUS
  <2> QED
    BY <2>1, PlaceIs, NextPlace
<1>5. c2 \in Consoles /\ c2.y \in 0 .. Rows - 1 /\ c2.x \in 0 .. Cols - 1
  BY <1>3 DEF Advanced, Consoles
<1>6. c2.y = b - d + RowOf(s + n + 1) /\ c2.x = ColOf(s + n + 1)
  BY <1>1, <1>2, <1>3, <1>4, ScreenAssumption
<1>7. b - d \in 0 .. Rows - 1
  <2>1. CASE d = 0
    BY <2>1
  <2>2. CASE d = 1
    <3>1. c2.y = Rows - 1
      BY <1>3, <2>2 DEF Advanced
    <3> QED
      BY <1>4, <1>6, <2>2, <3>1, ScreenAssumption
  <2> QED
    BY <2>1, <2>2
<1>8. ASSUME NEW r \in 0 .. Rows - 1, NEW k \in 0 .. Cols - 1,
             r >= b - d + e, After(c2, r, k)
      PROVE  c2.cells[r][k] = {}
  <2>1. CASE r + d >= Rows
    BY <1>3, <2>1 DEF Advanced
  <2>2. CASE ~ (r + d >= Rows)
    <3>1. r + d \in 0 .. Rows - 1 /\ r + d >= b + e
      BY <1>8, <2>2, ScreenAssumption
    <3>2. After(c, r + d, k) /\ ~ (r + d = c.y /\ k = c.x)
      BY <1>2, <1>3, <1>8, ScreenAssumption DEF After
    <3>3. c2.cells[r][k] = c.cells[r + d][k]
      BY <1>3, <2>2, <3>2 DEF Advanced
    <3>4. c.cells[r + d][k] = {}
      BY <3>1, <3>2 DEF EchoAt
    <3> QED
      BY <3>3, <3>4
  <2> QED
    BY <2>1, <2>2
<1>9. EchoAt(c2, b - d, e, s, n + 1)
  <2>1. s + (n + 1) = s + n + 1
    OBVIOUS
  <2> QED
    BY <1>5, <1>6, <1>8, <2>1 DEF EchoAt
<1> QED
  BY <1>3, <1>7, <1>9 DEF c2

\* What was on the screen stays, and the character that is typed joins it.
Joined(c, b, s, l, n, marks) ==
  Shown(c, b, s, l, n) /\ c.cells[b + RowOf(s + n)][ColOf(s + n)] = marks

LEMMA ShownTyped ==
  ASSUME NEW c, NEW c2, NEW b \in 0 .. Rows - 1, NEW d \in {0, 1}, NEW s \in Nat, NEW n \in Nat,
         EchoAt(c, b, 0, s, n), NEW marks, Advanced(c, c2, marks, d), b - d \in Nat,
         NEW l, Shown(c, b, s, l, n)
  PROVE  Joined(c2, b - d, s, l, n, marks)
<1>1. c \in Consoles /\ c.y = b + RowOf(s + n) /\ c.x = ColOf(s + n)
  BY DEF EchoAt
<1>2. c.x \in 0 .. Cols - 1 /\ c.y \in 0 .. Rows - 1 /\ RowOf(s + n) \in Nat
  BY <1>1, PlaceIs DEF Consoles
<1>5. \A r \in 0 .. Rows - 1, k \in 0 .. Cols - 1 :
        ~ (r + d >= Rows) =>
          c2.cells[r][k] = IF r + d = c.y /\ k = c.x THEN c.cells[r + d][k] \cup marks
                           ELSE c.cells[r + d][k]
  BY DEF Advanced
<1>3. ASSUME NEW i \in 1 .. n
      PROVE  c2.cells[b - d + RowOf(s + i - 1)][ColOf(s + i - 1)] = Glyphs(l[i])
  <2> DEFINE r == b - d + RowOf(s + i - 1)
             k == ColOf(s + i - 1)
  <2>1. s + i - 1 \in Nat /\ s + n \in Nat /\ s + i - 1 <= s + n /\ s + i - 1 # s + n
    OBVIOUS
  <2>2. /\ RowOf(s + i - 1) <= RowOf(s + n)
        /\ ~ (RowOf(s + i - 1) = RowOf(s + n) /\ k = ColOf(s + n))
    BY <2>1, PlacesOrdered
  <2>3. RowOf(s + i - 1) \in Nat /\ k \in 0 .. Cols - 1
    BY <2>1, PlaceIs
  <2>4. r \in 0 .. Rows - 1 /\ ~ (r + d >= Rows) /\ r + d = b + RowOf(s + i - 1)
    BY <1>1, <1>2, <2>2, <2>3, ScreenAssumption
  <2>5. ~ (r + d = c.y /\ k = c.x)
    BY <1>1, <1>2, <2>2, <2>3, <2>4
  <2> HIDE DEF r, k
  <2>6. c2.cells[r][k] = c.cells[r + d][k]
    BY <1>5, <2>3, <2>4, <2>5
  <2>7. c.cells[r + d][k] = Glyphs(l[i])
    BY <2>4 DEF Shown, k
  <2> QED
    BY <2>6, <2>7 DEF r, k
<1>4. c2.cells[b - d + RowOf(s + n)][ColOf(s + n)] = marks
  <2> DEFINE r == b - d + RowOf(s + n)
  <2>1. r \in 0 .. Rows - 1 /\ r + d = c.y /\ ~ (r + d >= Rows)
    BY <1>1, <1>2, ScreenAssumption
  <2> HIDE DEF r
  <2>2. c2.cells[r][c.x] = c.cells[c.y][c.x] \cup marks
    BY <1>2, <1>5, <2>1
  <2>3. After(c, c.y, c.x) /\ c.y >= b + 0
    BY <1>1, <1>2 DEF After
  <2>4. c.cells[c.y][c.x] = {}
    BY <1>2, <2>3 DEF EchoAt
  <2> QED
    BY <1>1, <2>2, <2>4 DEF r
<1> QED
  BY <1>3, <1>4 DEF Joined, Shown

LEMMA EchoRubout ==
  ASSUME NEW c, NEW b \in 0 .. Rows - 1, NEW e \in {0, 1}, NEW s \in Nat, NEW n \in Nat \ {0},
         EchoAt(c, b, e, s, n)
  PROVE  /\ EchoAt(PutChar(c, Rubout), b, e, s, n - 1)
         /\ PutChar(c, Rubout).mark = c.mark
         /\ \A l : Shown(c, b, s, l, n - 1) => Shown(PutChar(c, Rubout), b, s, l, n - 1)
<1> DEFINE c2 == PutChar(c, Rubout)
           p == s + n - 1
<1>0. p \in Nat /\ p + 1 = s + n /\ s + (n - 1) = p
  OBVIOUS
<1> HIDE DEF p
<1>1. c \in Consoles /\ c.y = b + RowOf(p + 1) /\ c.x = ColOf(p + 1)
  BY <1>0 DEF EchoAt
<1>2. c.x \in 0 .. Cols - 1 /\ c.y \in 0 .. Rows - 1
  BY <1>1 DEF Consoles
<1>3. /\ RowOf(p) \in Nat /\ RowOf(p + 1) \in Nat /\ ColOf(p) \in 0 .. Cols - 1
      /\ p + 1 = Cols * RowOf(p + 1) + ColOf(p + 1)
      /\ IF ColOf(p) = Cols - 1
         THEN RowOf(p + 1) = RowOf(p) + 1 /\ ColOf(p + 1) = 0
         ELSE RowOf(p + 1) = RowOf(p) /\ ColOf(p + 1) = ColOf(p) + 1
  BY <1>0, PlaceIs, NextPlace
<1>4. ~ (c.x = 0 /\ c.y = 0)
  BY <1>0, <1>1, <1>3, ScreenAssumption
<1>5. /\ c2 \in Consoles /\ c2.mark = c.mark
      /\ IF c.x > 0 THEN c2.x = c.x - 1 /\ c2.y = c.y
         ELSE c2.x = Cols - 1 /\ c2.y = c.y - 1
      /\ \A r \in 0 .. Rows - 1, k \in 0 .. Cols - 1 :
           c2.cells[r][k] = IF r = c2.y /\ k = c2.x THEN {} ELSE c.cells[r][k]
  BY <1>1, <1>4, PutRubout
<1> HIDE DEF c2
<1>6. c2.y = b + RowOf(p) /\ c2.x = ColOf(p)
  BY <1>1, <1>2, <1>3, <1>5, ScreenAssumption
<1>7. ASSUME NEW r \in 0 .. Rows - 1, NEW k \in 0 .. Cols - 1, r >= b + e, After(c2, r, k)
      PROVE  c2.cells[r][k] = {}
  <2>1. (r = c2.y /\ k = c2.x) \/ After(c, r, k)
    BY <1>2, <1>5, <1>7, ScreenAssumption DEF After
  <2>2. After(c, r, k) => c.cells[r][k] = {}
    BY <1>7 DEF EchoAt
  <2> QED
    BY <1>5, <2>1, <2>2
<1>8. EchoAt(c2, b, e, s, n - 1)
  BY <1>0, <1>5, <1>6, <1>7 DEF EchoAt
<1>9. ASSUME NEW l, Shown(c, b, s, l, n - 1) PROVE Shown(c2, b, s, l, n - 1)
  <2> SUFFICES ASSUME NEW i \in 1 .. n - 1
               PROVE  c2.cells[b + RowOf(s + i - 1)][ColOf(s + i - 1)] = Glyphs(l[i])
    BY DEF Shown
  <2> DEFINE q == s + i - 1
  <2>1. q \in Nat /\ q <= p /\ q # p
    BY <1>0
  <2>2. c.cells[b + RowOf(q)][ColOf(q)] = Glyphs(l[i])
    BY <1>9, <2>1 DEF Shown
  <2> HIDE DEF q
  <2>3. /\ RowOf(q) <= RowOf(p) /\ ~ (RowOf(q) = RowOf(p) /\ ColOf(q) = ColOf(p))
        /\ RowOf(q) \in Nat /\ ColOf(q) \in 0 .. Cols - 1
    BY <1>0, <2>1, PlacesOrdered, PlaceIs
  <2>4. b + RowOf(q) \in 0 .. Rows - 1
    BY <1>1, <1>2, <1>3, <2>3, ScreenAssumption
  <2>5. c2.cells[b + RowOf(q)][ColOf(q)] = c.cells[b + RowOf(q)][ColOf(q)]
    BY <1>3, <1>5, <1>6, <2>3, <2>4
  <2> QED
    BY <2>2, <2>5 DEF q
<1> QED
  BY <1>5, <1>8, <1>9 DEF c2

\* The line l is behind the prompt on the screen; if it was redisplayed there (rec),
\* only the cursor is behind it for certain.
EchoState(c, s, l, rec) ==
  \E b \in 0 .. Rows - 1 :
    /\ EchoAt(c, b, IF rec THEN 1 ELSE 0, s, Len(l))
    /\ ~rec => c.mark = b /\ Shown(c, b, s, l, Len(l))

LEMMA EchoTypedLine ==
  ASSUME NEW c, NEW s \in 0 .. Cols - 1, NEW l \in Seq(Chars), Len(l) < LineSize,
         NEW rec \in BOOLEAN, EchoState(c, s, l, rec), NEW char \in Chars
  PROVE  EchoState(PutChar(c, char), s, Append(l, char), rec)
<1> DEFINE n == Len(l)
           e == IF rec THEN 1 ELSE 0
           c2 == PutChar(c, char)
<1>1. n \in Nat /\ n + 1 \in 0 .. LineSize /\ s \in Nat /\ e \in {0, 1}
  BY LenProperties, ShellAssumption
<1>2. char \in Printable \ {Newline, Rubout}
  BY EchoAssumption DEF Printable, Marks
<1>3. /\ Len(Append(l, char)) = n + 1 /\ Append(l, char)[n + 1] = char
      /\ \A i \in 1 .. n : Append(l, char)[i] = l[i]
  BY AppendProperties
<1>4. PICK b \in 0 .. Rows - 1 :
        EchoAt(c, b, e, s, n) /\ (~rec => c.mark = b /\ Shown(c, b, s, l, n))
  BY DEF EchoState
<1>5. RowOf(s + n + 1) < Rows
  <2>1. s + (n + 1) = s + n + 1
    BY <1>1
  <2> HIDE DEF n
  <2> QED
    BY <1>1, <2>1, LineFits
<1> HIDE DEF n, e, c2
<1>6. PICK d \in {0, 1} : /\ Advanced(c, c2, Glyphs(char), d)
                          /\ b - d \in 0 .. Rows - 1
                          /\ EchoAt(c2, b - d, e, s, n + 1)
  BY <1>1, <1>2, <1>4, <1>5, EchoTyped DEF c2
<1>7. ASSUME ~rec PROVE c2.mark = b - d /\ Shown(c2, b - d, s, Append(l, char), n + 1)
  <2>1. c2.mark = b - d
    BY <1>4, <1>6, <1>7, ScreenAssumption DEF Advanced
  <2>2. /\ EchoAt(c, b, 0, s, n) /\ Shown(c, b, s, l, n) /\ b - d \in Nat
        /\ s \in Nat /\ n \in Nat /\ b \in 0 .. Rows - 1
        /\ Advanced(c, c2, Glyphs(char), d)
    BY <1>1, <1>4, <1>6, <1>7, ScreenAssumption DEF e
  <2>3. /\ Shown(c2, b - d, s, l, n)
        /\ c2.cells[b - d + RowOf(s + n)][ColOf(s + n)] = Glyphs(char)
    <3>1. Joined(c2, b - d, s, l, n, Glyphs(char))
      BY <2>2, ShownTyped
    <3> QED
      BY <3>1 DEF Joined
  <2>4. ASSUME NEW i \in 1 .. n + 1
        PROVE  c2.cells[b - d + RowOf(s + i - 1)][ColOf(s + i - 1)]
                 = Glyphs(Append(l, char)[i])
    <3>1. CASE i = n + 1
      <4>1. s + i - 1 = s + n
        BY <1>1, <3>1
      <4> QED
        BY <1>3, <2>3, <3>1, <4>1
    <3>2. CASE i # n + 1
      <4>1. i \in 1 .. n
        BY <1>1, <3>2
      <4> QED
        BY <1>3, <2>3, <4>1 DEF Shown
    <3> QED
      BY <3>1, <3>2
  <2> QED
    BY <2>1, <2>4 DEF Shown
<1> QED
  BY <1>3, <1>6, <1>7 DEF EchoState, c2, e

LEMMA EchoRubbedOut ==
  ASSUME NEW c, NEW s \in 0 .. Cols - 1, NEW l \in Seq(Chars), l # <<>>, Len(l) <= LineSize,
         NEW rec \in BOOLEAN, EchoState(c, s, l, rec)
  PROVE  EchoState(Put(c, RubOut), s, Front(l), rec)
<1> DEFINE n == Len(l)
           e == IF rec THEN 1 ELSE 0
<1>1. n \in Nat \ {0} /\ n \in 0 .. LineSize /\ n - 1 \in Nat /\ s \in Nat /\ e \in {0, 1}
  BY LenProperties, EmptySeq, ShellAssumption
<1>2. Len(Front(l)) = n - 1 /\ \A i \in 1 .. n - 1 : Front(l)[i] = l[i]
  <2> DEFINE m == n - 1
  <2>1. m \in Nat /\ \A i \in 1 .. m : l[i] \in Chars
    BY <1>1, ElementOfSeq
  <2> HIDE DEF m
  <2>2. Len(SubSeq(l, 1, m)) = m /\ \A i \in 1 .. m : SubSeq(l, 1, m)[i] = l[i]
    BY <2>1, SubSeqProperties
  <2> QED
    BY <2>2 DEF Front, m
<1>3. PICK b \in 0 .. Rows - 1 :
        EchoAt(c, b, e, s, n) /\ (~rec => c.mark = b /\ Shown(c, b, s, l, n))
  BY DEF EchoState
<1>4. RowOf(s + (n - 1) + 1) < Rows
  <2>1. s + n = s + (n - 1) + 1
    BY <1>1
  <2> HIDE DEF n
  <2> QED
    BY <1>1, <2>1, LineFits
<1> DEFINE c1 == PutChar(c, Rubout)
           c2 == PutChar(c1, Space)
           c3 == PutChar(c2, Rubout)
<1>5. Put(c, RubOut) = c3
  <2>1. c \in Consoles
    BY <1>3 DEF EchoAt
  <2>2. RubOut \in Seq(Printable) /\ Len(RubOut) = 3
    BY DEF RubOut, Printable
  <2>3. PICK g \in [0 .. Len(RubOut) -> Consoles] :
          /\ g[0] = c /\ Put(c, RubOut) = g[Len(RubOut)]
          /\ \A i \in 0 .. Len(RubOut) - 1 : g[i + 1] = PutChar(g[i], RubOut[i + 1])
    BY <2>1, <2>2, PutSteps
  <2>4. g[0 + 1] = PutChar(g[0], RubOut[0 + 1]) /\ g[1 + 1] = PutChar(g[1], RubOut[1 + 1])
        /\ g[2 + 1] = PutChar(g[2], RubOut[2 + 1])
    BY <2>2, <2>3
  <2>5. RubOut[1] = Rubout /\ RubOut[2] = Space /\ RubOut[3] = Rubout
    BY DEF RubOut
  <2> QED
    BY <2>2, <2>3, <2>4, <2>5
<1> HIDE DEF n, e
<1>6. /\ EchoAt(c1, b, e, s, n - 1) /\ c1.mark = c.mark
      /\ \A m : Shown(c, b, s, m, n - 1) => Shown(c1, b, s, m, n - 1)
  BY <1>1, <1>3, EchoRubout
<1> HIDE DEF c1
<1>7. PICK d \in {0, 1} : /\ Advanced(c1, c2, Glyphs(Space), d)
                          /\ b - d \in 0 .. Rows - 1
                          /\ EchoAt(c2, b - d, e, s, n - 1 + 1)
  <2>1. Space \in Printable \ {Newline, Rubout}
    BY DEF Printable, Space, Newline, Rubout
  <2> QED
    BY <1>1, <1>4, <1>6, <2>1, EchoTyped
<1> HIDE DEF c2
<1>8. /\ EchoAt(c3, b - d, e, s, n - 1) /\ c3.mark = c2.mark
      /\ \A m : Shown(c2, b - d, s, m, n - 1) => Shown(c3, b - d, s, m, n - 1)
  <2>1. n - 1 + 1 = n
    BY <1>1
  <2>2. EchoAt(c2, b - d, e, s, n)
    BY <1>7, <2>1
  <2> QED
    BY <1>1, <1>7, <2>2, EchoRubout
<1> HIDE DEF c3
<1>9. ASSUME ~rec PROVE c3.mark = b - d /\ Shown(c3, b - d, s, Front(l), n - 1)
  <2>1. c3.mark = b - d
    BY <1>3, <1>6, <1>7, <1>8, <1>9, ScreenAssumption DEF Advanced
  <2>2. Shown(c, b, s, l, n - 1)
    BY <1>1, <1>3, <1>9 DEF Shown
  <2>3. /\ EchoAt(c1, b, 0, s, n - 1) /\ Shown(c1, b, s, l, n - 1) /\ b - d \in Nat
        /\ s \in Nat /\ n - 1 \in Nat /\ b \in 0 .. Rows - 1
        /\ Advanced(c1, c2, Glyphs(Space), d)
    BY <1>1, <1>3, <1>6, <1>7, <1>9, <2>2, ScreenAssumption DEF e
  <2>4. Shown(c2, b - d, s, l, n - 1)
    <3>1. Joined(c2, b - d, s, l, n - 1, Glyphs(Space))
      BY <2>3, ShownTyped
    <3> QED
      BY <3>1 DEF Joined
  <2>5. Shown(c3, b - d, s, l, n - 1)
    BY <1>8, <2>4
  <2> QED
    BY <1>2, <2>1, <2>5 DEF Shown
<1> QED
  BY <1>2, <1>5, <1>7, <1>8, <1>9 DEF EchoState, e

-----------------------------------------------------------------------------
(***************************************************************************)
(* What lines, blanks and new lines leave of the screen.                   *)
(***************************************************************************)
Empty(c, first) ==
  c \in Consoles /\ \A r \in 0 .. Rows - 1, k \in 0 .. Cols - 1 :
                      r >= first => c.cells[r][k] = {}
Fresh(c) == Empty(c, c.y) /\ c.x = 0

\* The cursor follows a line that is printed where something else was.
LEMMA EchoReprinted ==
  ASSUME NEW c, NEW b \in 0 .. Rows - 1, NEW s \in 0 .. Cols - 1, NEW l \in Lines,
         EchoAt(c, b, 1, s, 0)
  PROVE  EchoState(Put(c, l), s, l, TRUE)
<1>1. l \in Seq(Chars) /\ Len(l) \in Nat /\ Len(l) <= LineSize
  BY LinesAre, LenProperties
<1>2. Chars \subseteq Printable \ {Newline, Rubout}
  BY EchoAssumption DEF Printable, Marks
<1>3. l \in Seq(Printable) /\ \A i \in 1 .. Len(l) : l[i] \in Printable \ {Newline, Rubout}
  <2>1. l \in Seq(Printable)
    BY <1>1, <1>2, SeqMonotonic
  <2>2. \A i \in 1 .. Len(l) : l[i] \in Chars
    BY <1>1, ElementOfSeq
  <2> QED
    BY <1>2, <2>1, <2>2
<1> DEFINE n == Len(l)
<1> HIDE DEF n
<1>4. PICK g \in [0 .. n -> Consoles] :
        /\ g[0] = c /\ Put(c, l) = g[n]
        /\ \A i \in 0 .. n - 1 : g[i + 1] = PutChar(g[i], l[i + 1])
  BY <1>3, PutSteps DEF EchoAt, n
<1> DEFINE Done == {i \in Nat : i <= n => \E a \in 0 .. Rows - 1 : EchoAt(g[i], a, 1, s, i)}
<1>5. 0 \in Done
  BY <1>4
<1>6. ASSUME NEW i \in Nat, i \in Done PROVE i + 1 \in Done
  <2> SUFFICES ASSUME i + 1 <= n PROVE \E a \in 0 .. Rows - 1 : EchoAt(g[i + 1], a, 1, s, i + 1)
    OBVIOUS
  <2>1. i <= n /\ i \in 0 .. n - 1 /\ i + 1 \in 1 .. n /\ i + 1 \in 0 .. LineSize
    BY <1>1, ShellAssumption DEF n
  <2>2. PICK a \in 0 .. Rows - 1 : EchoAt(g[i], a, 1, s, i)
    BY <1>6, <2>1
  <2>3. RowOf(s + i + 1) < Rows
    <3>1. s + (i + 1) = s + i + 1
      OBVIOUS
    <3> QED
      BY <2>1, <3>1, LineFits
  <2>4. g[i + 1] = PutChar(g[i], l[i + 1]) /\ l[i + 1] \in Printable \ {Newline, Rubout}
    BY <1>3, <1>4, <2>1 DEF n
  <2>5. s \in Nat /\ 1 \in {0, 1}
    OBVIOUS
  <2>6. PICK d \in {0, 1} : /\ a - d \in 0 .. Rows - 1
                            /\ EchoAt(PutChar(g[i], l[i + 1]), a - d, 1, s, i + 1)
    BY <2>2, <2>3, <2>4, <2>5, EchoTyped
  <2> QED
    BY <2>4, <2>6
<1>7. n \in Done
  <2> HIDE DEF Done
  <2>1. Nat \subseteq Done
    BY <1>5, <1>6, NumbersByInduction
  <2> QED
    BY <1>1, <2>1 DEF n
<1>8. PICK a \in 0 .. Rows - 1 : EchoAt(g[n], a, 1, s, n)
  BY <1>1, <1>7 DEF n
<1> QED
  BY <1>4, <1>8 DEF EchoState, n

\* A row that was empty stays empty when blanks are printed, and when it is scrolled.
LEMMA BlanksKeepEmpty ==
  ASSUME NEW c, NEW first \in Nat, Empty(c, first), NEW text \in Seq({Space})
  PROVE  Empty(Put(c, text), first)
<1>1. Space \in Printable \ {Newline, Rubout} /\ Glyphs(Space) = {}
  BY DEF Printable, Space, Newline, Rubout, Glyphs
<1>2. ASSUME NEW c1, Empty(c1, first) PROVE Empty(PutChar(c1, Space), first)
  <2>1. PICK d \in {0, 1} : Advanced(c1, PutChar(c1, Space), {}, d)
    BY <1>1, <1>2, PutGlyph DEF Empty
  <2>2. ASSUME NEW r \in 0 .. Rows - 1, NEW k \in 0 .. Cols - 1, r >= first
        PROVE  PutChar(c1, Space).cells[r][k] = {}
    <3>1. CASE r + d >= Rows
      BY <2>1, <3>1 DEF Advanced
    <3>2. CASE ~ (r + d >= Rows)
      <4>1. r + d \in 0 .. Rows - 1 /\ r + d >= first
        BY <2>2, <3>2, ScreenAssumption
      <4>2. c1.cells[r + d][k] = {}
        BY <1>2, <4>1 DEF Empty
      <4> QED
        BY <2>1, <3>2, <4>2 DEF Advanced
    <3> QED
      BY <3>1, <3>2
  <2> QED
    BY <2>1, <2>2 DEF Empty, Advanced
<1>3. /\ text \in Seq(Printable) /\ Len(text) \in Nat
      /\ \A i \in 1 .. Len(text) : text[i] = Space
  <2>1. {Space} \subseteq Printable
    BY <1>1
  <2> QED
    BY <2>1, SeqMonotonic, LenProperties, ElementOfSeq
<1> DEFINE n == Len(text)
<1> HIDE DEF n
<1>4. PICK g \in [0 .. n -> Consoles] :
        /\ g[0] = c /\ Put(c, text) = g[n]
        /\ \A i \in 0 .. n - 1 : g[i + 1] = PutChar(g[i], text[i + 1])
  BY <1>3, PutSteps DEF Empty, n
<1> DEFINE Done == {i \in Nat : i <= n => Empty(g[i], first)}
<1>5. 0 \in Done
  BY <1>4
<1>6. ASSUME NEW i \in Nat, i \in Done PROVE i + 1 \in Done
  <2> SUFFICES ASSUME i + 1 <= n PROVE Empty(g[i + 1], first)
    OBVIOUS
  <2>1. i <= n /\ i \in 0 .. n - 1 /\ i + 1 \in 1 .. n
    BY <1>3 DEF n
  <2>2. g[i + 1] = PutChar(g[i], Space)
    BY <1>3, <1>4, <2>1 DEF n
  <2> QED
    BY <1>2, <1>6, <2>1, <2>2
<1>7. n \in Done
  <2> HIDE DEF Done
  <2>1. Nat \subseteq Done
    BY <1>5, <1>6, NumbersByInduction
  <2> QED
    BY <1>3, <2>1 DEF n
<1> QED
  BY <1>3, <1>4, <1>7 DEF n

LEMMA FreshLine ==
  ASSUME NEW c, Empty(c, c.y + 1)
  PROVE  Fresh(PutChar(c, Newline))
<1> DEFINE c2 == PutChar(c, Newline)
<1>1. c \in Consoles /\ c.y \in 0 .. Rows - 1 /\ c.x \in 0 .. Cols - 1
  BY DEF Empty, Consoles
<1>2. PICK d \in {0, 1} : Advanced(c, c2, {}, d) /\ c2.y = c.y + 1 - d /\ c2.x = 0
  BY <1>1, PutNewline
<1> HIDE DEF c2
<1>3. ASSUME NEW r \in 0 .. Rows - 1, NEW k \in 0 .. Cols - 1, r >= c2.y
      PROVE  c2.cells[r][k] = {}
  <2>1. CASE r + d >= Rows
    BY <1>2, <2>1 DEF Advanced
  <2>2. CASE ~ (r + d >= Rows)
    <3>1. r + d \in 0 .. Rows - 1 /\ r + d >= c.y + 1
      BY <1>1, <1>2, <1>3, <2>2, ScreenAssumption
    <3>2. c.cells[r + d][k] = {}
      BY <3>1 DEF Empty
    <3> QED
      BY <1>2, <2>2, <3>2 DEF Advanced
  <2> QED
    BY <2>1, <2>2
<1> QED
  BY <1>2, <1>3 DEF Fresh, Empty, Advanced, c2

LEMMA FreshBelow ==
  ASSUME NEW c, Fresh(c) PROVE Empty(c, c.y + 1)
<1>1. c.y \in 0 .. Rows - 1
  BY DEF Fresh, Empty, Consoles
<1> QED
  BY <1>1 DEF Fresh, Empty

LEMMA NewlinesFresh ==
  ASSUME NEW c, Empty(c, c.y + 1), NEW text \in Seq({Newline}), text # <<>>
  PROVE  Fresh(Put(c, text))
<1>1. /\ text \in Seq(Printable) /\ Len(text) \in Nat \ {0}
      /\ \A i \in 1 .. Len(text) : text[i] = Newline
  <2>1. {Newline} \subseteq Printable
    BY DEF Printable
  <2> QED
    BY <2>1, SeqMonotonic, LenProperties, ElementOfSeq, EmptySeq
<1> DEFINE n == Len(text)
<1> HIDE DEF n
<1>2. PICK g \in [0 .. n -> Consoles] :
        /\ g[0] = c /\ Put(c, text) = g[n]
        /\ \A i \in 0 .. n - 1 : g[i + 1] = PutChar(g[i], text[i + 1])
  BY <1>1, PutSteps DEF Empty, n
<1> DEFINE Done == {i \in Nat : i <= n => Empty(g[i], g[i].y + 1) /\ (i > 0 => Fresh(g[i]))}
<1>3. 0 \in Done
  BY <1>2
<1>4. ASSUME NEW i \in Nat, i \in Done PROVE i + 1 \in Done
  <2> SUFFICES ASSUME i + 1 <= n PROVE Empty(g[i + 1], g[i + 1].y + 1) /\ Fresh(g[i + 1])
    OBVIOUS
  <2>1. i <= n /\ i \in 0 .. n - 1 /\ i + 1 \in 1 .. n
    BY <1>1 DEF n
  <2>2. g[i + 1] = PutChar(g[i], Newline)
    BY <1>1, <1>2, <2>1 DEF n
  <2>3. Empty(g[i], g[i].y + 1)
    BY <1>4, <2>1
  <2> QED
    BY <2>2, <2>3, FreshLine, FreshBelow
<1>5. n \in Done
  <2> HIDE DEF Done
  <2>1. Nat \subseteq Done
    BY <1>3, <1>4, NumbersByInduction
  <2> QED
    BY <1>1, <2>1 DEF n
<1> QED
  BY <1>1, <1>2, <1>5 DEF n

LEMMA PromptTyped ==
  ASSUME NEW c, NEW b \in 0 .. Rows - 1, NEW k \in {0, 1}, EchoAt(c, b, 0, 0, k), c.mark = b
  PROVE  \E a \in 0 .. Rows - 1 : /\ EchoAt(PutChar(c, "prompt"), a, 0, 0, k + 1)
                                  /\ PutChar(c, "prompt").mark = a
<1>1. "prompt" \in Printable \ {Newline, Rubout}
  BY DEF Printable, Marks, Newline, Rubout
<1>2. RowOf(0 + k + 1) < Rows
  <2>1. 0 + k + 1 \in 0 .. Cols - 1
    BY EchoAssumption, ScreenAssumption
  <2> QED
    BY <2>1, FirstPlaces, ScreenAssumption
<1>3. 0 \in {0, 1} /\ 0 \in Nat /\ k \in Nat
  OBVIOUS
<1>4. PICK d \in {0, 1} : /\ Advanced(c, PutChar(c, "prompt"), Glyphs("prompt"), d)
                          /\ b - d \in 0 .. Rows - 1
                          /\ EchoAt(PutChar(c, "prompt"), b - d, 0, 0, k + 1)
  BY <1>1, <1>2, <1>3, EchoTyped
<1>5. PutChar(c, "prompt").mark = b - d
  BY <1>4, ScreenAssumption DEF Advanced
<1> QED
  BY <1>4, <1>5

\* A prompt on an empty row: nothing is typed behind it yet.
LEMMA EchoPrompted ==
  ASSUME NEW c, Fresh(c), NEW dir
  PROVE  EchoState(Prompted(c, dir), Prompted(c, dir).x, <<>>, FALSE)
<1>1. c \in Consoles /\ c.x = 0 /\ c.y \in 0 .. Rows - 1
  BY DEF Fresh, Empty, Consoles
<1> DEFINE f == Forget(c)
           p == Prompted(c, dir)
<1>2. /\ f \in Consoles /\ f.x = 0 /\ f.y = c.y /\ f.mark = c.y
      /\ \A r \in 0 .. Rows - 1 : r >= c.y => f.cells[r] = c.cells[r]
  BY <1>1, ForgetIs
<1>3. p = Put(f, Prompt(dir))
  BY DEF Prompted
<1> HIDE DEF f, p
<1>4. EchoAt(f, c.y, 0, 0, 0)
  <2>1. RowOf(0 + 0) = 0 /\ ColOf(0 + 0) = 0
    <3>1. 0 \in 0 .. Cols - 1 /\ 0 + 0 = 0
      BY ScreenAssumption
    <3> QED
      BY <3>1, FirstPlaces
  <2>2. \A r \in 0 .. Rows - 1, k \in 0 .. Cols - 1 : r >= c.y => f.cells[r][k] = {}
    BY <1>2 DEF Fresh, Empty
  <2>3. \A r : r >= c.y + 0 <=> r >= c.y
    BY <1>1
  <2> QED
    BY <1>1, <1>2, <2>1, <2>2, <2>3 DEF EchoAt
<1>5. PICK b1 \in 0 .. Rows - 1 : /\ EchoAt(PutChar(f, "prompt"), b1, 0, 0, 0 + 1)
                                  /\ PutChar(f, "prompt").mark = b1
  BY <1>1, <1>2, <1>4, PromptTyped
<1> DEFINE p1 == PutChar(f, "prompt")
<1> HIDE DEF p1
<1>6. PICK b2 \in 0 .. Rows - 1 : /\ EchoAt(PutChar(p1, "prompt"), b2, 0, 0, 1 + 1)
                                  /\ PutChar(p1, "prompt").mark = b2
  BY <1>5, PromptTyped DEF p1
<1>7. p = p1 \/ p = PutChar(p1, "prompt")
  <2>1. PICK g \in [0 .. Len(Prompt(dir)) -> Consoles] :
          /\ g[0] = f /\ p = g[Len(Prompt(dir))]
          /\ \A i \in 0 .. Len(Prompt(dir)) - 1 : g[i + 1] = PutChar(g[i], Prompt(dir)[i + 1])
    BY <1>2, <1>3, PromptType, PutSteps
  <2>2. CASE dir = "root"
    <3>1. Len(Prompt(dir)) = 1 /\ Prompt(dir)[1] = "prompt"
      BY <2>2 DEF Prompt
    <3>2. g[0 + 1] = PutChar(g[0], Prompt(dir)[0 + 1])
      BY <2>1, <3>1
    <3> QED
      BY <2>1, <3>1, <3>2 DEF p1
  <2>3. CASE dir # "root"
    <3>1. /\ Len(Prompt(dir)) = 2
          /\ Prompt(dir)[1] = "prompt" /\ Prompt(dir)[2] = "prompt"
      BY <2>3 DEF Prompt
    <3>2. /\ g[0 + 1] = PutChar(g[0], Prompt(dir)[0 + 1])
          /\ g[1 + 1] = PutChar(g[1], Prompt(dir)[1 + 1])
      BY <2>1, <3>1
    <3> QED
      BY <2>1, <3>1, <3>2 DEF p1
  <2> QED
    BY <2>2, <2>3
<1>8. PICK k \in {1, 2}, b \in 0 .. Rows - 1 : EchoAt(p, b, 0, 0, k) /\ p.mark = b
  BY <1>5, <1>6, <1>7 DEF p1
<1>9. 0 + k = k /\ k + 0 = k /\ ColOf(k) = k
  <2>1. k \in 0 .. Cols - 1
    BY EchoAssumption, ScreenAssumption
  <2> QED
    BY <2>1, FirstPlaces
<1>10. EchoAt(p, b, 0, k, 0) /\ p.x = k
  BY <1>8, <1>9 DEF EchoAt
<1>11. Len(<<>>) = 0 /\ Shown(p, b, k, <<>>, 0)
  BY DEF Shown
<1> QED
  BY <1>8, <1>10, <1>11 DEF EchoState, p

LEMMA EchoBelow ==
  ASSUME NEW c, NEW s \in 0 .. Cols - 1, NEW l \in Lines, NEW rec \in BOOLEAN,
         EchoState(c, s, l, rec)
  PROVE  Empty(c, c.y + 1)
<1>1. PICK b \in 0 .. Rows - 1 : EchoAt(c, b, IF rec THEN 1 ELSE 0, s, Len(l))
  BY DEF EchoState
<1>2. s + Len(l) \in Nat
  BY LinesAre, LenProperties
<1>3. RowOf(s + Len(l)) \in Nat
  BY <1>2, PlaceIs
<1>4. c \in Consoles /\ c.y = b + RowOf(s + Len(l)) /\ c.y \in 0 .. Rows - 1
  BY <1>1 DEF EchoAt, Consoles
<1>5. ASSUME NEW r \in 0 .. Rows - 1, NEW k \in 0 .. Cols - 1, r >= c.y + 1
      PROVE  c.cells[r][k] = {}
  <2>1. r >= b + (IF rec THEN 1 ELSE 0) /\ After(c, r, k)
    BY <1>3, <1>4, <1>5 DEF After
  <2> QED
    BY <1>1, <2>1 DEF EchoAt
<1> QED
  BY <1>4, <1>5 DEF Empty

LEMMA EchoRedisplayed ==
  ASSUME con \in Consoles, start \in 0 .. Cols - 1, Empty(con, con.y + 1),
         NEW l \in Lines, Redisplay(l)
  PROVE  EchoState(con', start, l, TRUE)
<1> DEFINE blank == [i \in 1 .. Blanks |-> Space]
           c1 == SetCursor(con, start, con.y)
           c2 == Put(c1, blank)
           c3 == SetCursor(c2, start, con.y)
<1>0. con.y \in 0 .. Rows - 1
  BY DEF Consoles
<1>1. ASSUME NEW c \in Consoles
      PROVE  /\ SetCursor(c, start, con.y) \in Consoles
             /\ SetCursor(c, start, con.y).cells = c.cells
             /\ SetCursor(c, start, con.y).x = start /\ SetCursor(c, start, con.y).y = con.y
  BY <1>0 DEF SetCursor, Consoles
<1>2. blank \in Seq({Space})
  <2>1. blank \in [1 .. Blanks -> {Space}]
    OBVIOUS
  <2> QED
    BY <2>1, SeqDef, ShellAssumption
<1>3. con' = Put(c3, l)
  BY DEF Redisplay
<1> HIDE DEF blank
<1>4. Empty(c1, con.y + 1)
  BY <1>1 DEF Empty
<1> HIDE DEF c1
<1>5. Empty(c2, con.y + 1)
  <2>1. con.y + 1 \in Nat
    BY <1>0
  <2> QED
    BY <1>2, <1>4, <2>1, BlanksKeepEmpty
<1> HIDE DEF c2
<1>6. EchoAt(c3, con.y, 1, start, 0)
  <2>1. c2 \in Consoles /\ \A r \in 0 .. Rows - 1, k \in 0 .. Cols - 1 :
                             r >= con.y + 1 => c2.cells[r][k] = {}
    BY <1>5 DEF Empty
  <2>2. c3 \in Consoles /\ c3.cells = c2.cells /\ c3.x = start /\ c3.y = con.y
    BY <1>1, <2>1
  <2>3. RowOf(start + 0) = 0 /\ ColOf(start + 0) = start
    <3>1. start + 0 = start
      OBVIOUS
    <3> QED
      BY <3>1, FirstPlaces
  <2> HIDE DEF c3
  <2> QED
    BY <1>0, <2>1, <2>2, <2>3 DEF EchoAt
<1> HIDE DEF c3
<1> QED
  BY <1>0, <1>3, <1>6, EchoReprinted

-----------------------------------------------------------------------------
(***************************************************************************)
(* The invariant of the screen.  With the editor open nothing was typed    *)
(* yet behind the prompt that its end will show.                           *)
(***************************************************************************)
EchoInv == /\ recalled \in BOOLEAN
           /\ IF ed.on THEN line = <<>> ELSE EchoState(con, start, line, recalled)

LEMMA EchoShown ==
  ASSUME NEW c, Fresh(c), NEW dir, ShowPrompt(c, dir), line' = <<>>
  PROVE  EchoInv'
<1>1. /\ con' = Prompted(c, dir) /\ start' = Prompted(c, dir).x /\ recalled' = FALSE
  BY DEF ShowPrompt
<1>2. EchoState(con', start', <<>>, FALSE)
  BY <1>1, EchoPrompted
<1>3. EchoState(con', start', line', recalled')
  BY <1>1, <1>2
<1>4. EchoState(con, start, line, recalled)' = EchoState(con', start', line', recalled')
  BY DEF EchoState, EchoAt, Shown, After
<1> QED
  BY <1>1, <1>3, <1>4 DEF EchoInv

LEMMA EchoInit == Init => EchoInv
<1> SUFFICES ASSUME Init PROVE EchoInv
  OBVIOUS
<1>1. Fresh(Cleared)
  <2>1. \A r \in 0 .. Rows - 1, k \in 0 .. Cols - 1 : Cleared.cells[r][k] = {}
    BY DEF Cleared
  <2>2. Cleared.x = 0
    BY DEF Cleared
  <2> QED
    BY <2>1, <2>2, ClearedType DEF Fresh, Empty
<1>2. EchoState(con, start, <<>>, FALSE)
  BY <1>1, EchoPrompted DEF Init
<1> QED
  BY <1>2 DEF Init, EchoInv, Closed

LEMMA EchoPrimed ==
  ASSUME recalled' \in BOOLEAN, ed' = ed, ~ed.on,
         EchoState(con', start', line', recalled')
  PROVE  EchoInv'
<1>1. EchoState(con, start, line, recalled)' = EchoState(con', start', line', recalled')
  BY DEF EchoState, EchoAt, Shown, After
<1> QED
  BY <1>1 DEF EchoInv

LEMMA EchoType ==
  ASSUME IInv, EchoInv, Type PROVE EchoInv'
<1>1. line \in Seq(Chars) /\ start \in 0 .. Cols - 1 /\ Len(line) < LineSize
  BY LinesAre DEF IInv, ScreenType, HistoryType, Type, Room
<1>2. PICK c \in Chars : line' = Append(line, c) /\ con' = PutChar(con, c)
  BY DEF Type
<1>3. ~ed.on /\ ed' = ed /\ start' = start /\ recalled' = recalled
  BY DEF Type
<1>4. EchoState(con', start', line', recalled')
  BY <1>1, <1>2, <1>3, EchoTypedLine DEF EchoInv
<1> QED
  BY <1>3, <1>4, EchoPrimed DEF EchoInv

LEMMA EchoBackspace ==
  ASSUME IInv, EchoInv, Backspace PROVE EchoInv'
<1>1. line \in Seq(Chars) /\ start \in 0 .. Cols - 1 /\ line # <<>> /\ Len(line) <= LineSize
  BY LinesAre DEF IInv, ScreenType, HistoryType, Backspace
<1>2. /\ ~ed.on /\ ed' = ed /\ start' = start /\ recalled' = recalled
      /\ line' = Front(line) /\ con' = Put(con, RubOut)
  BY DEF Backspace
<1>3. EchoState(con', start', line', recalled')
  BY <1>1, <1>2, EchoRubbedOut DEF EchoInv
<1> QED
  BY <1>2, <1>3, EchoPrimed DEF EchoInv

LEMMA EchoEnter ==
  ASSUME IInv, EchoInv, Enter PROVE EchoInv'
<1> DEFINE w == IF line = <<>> THEN World ELSE Run(World, Meaning[line])
<1>1. PICK n \in 0 .. MaxOutput :
        LET printed == Put(con, <<Newline>> \o NewLines(n) \o <<Newline>>)
        IN /\ SetWorld(w)
           /\ IF w.ed.on THEN con' = Redrawn /\ UNCHANGED <<start, recalled>>
              ELSE ShowPrompt(printed, w.cwd)
  BY DEF Enter
<1>2. line' = <<>> /\ ed' = w.ed
  BY <1>1 DEF Enter, SetWorld
<1> HIDE DEF w
<1>3. CASE w.ed.on
  <2>1. recalled' = recalled
    BY <1>1, <1>3
  <2> QED
    BY <1>2, <1>3, <2>1 DEF EchoInv
<1>4. CASE ~w.ed.on
  <2>1. Empty(con, con.y + 1)
    BY EchoBelow DEF IInv, ScreenType, HistoryType, EchoInv, Enter
  <2>2. n \in Nat
    BY ShellAssumption
  <2> DEFINE text == <<Newline>> \o NewLines(n) \o <<Newline>>
  <2>3. text \in Seq({Newline}) /\ text # <<>>
    <3>1. <<Newline>> \in Seq({Newline}) /\ Len(<<Newline>>) = 1
      OBVIOUS
    <3>2. NewLines(n) \in Seq({Newline})
      <4>1. NewLines(n) \in [1 .. n -> {Newline}]
        BY DEF NewLines
      <4> QED
        BY <2>2, <4>1, SeqDef
    <3>3. <<Newline>> \o NewLines(n) \in Seq({Newline})
      BY <3>1, <3>2, ConcatProperties
    <3>4. /\ text \in Seq({Newline})
          /\ Len(text) = Len(<<Newline>> \o NewLines(n)) + Len(<<Newline>>)
      BY <3>1, <3>3, ConcatProperties
    <3>5. Len(text) # 0
      BY <3>1, <3>3, <3>4, LenProperties
    <3> QED
      BY <3>4, <3>5, EmptySeq
  <2>4. Fresh(Put(con, text))
    <3> HIDE DEF text
    <3> QED
      BY <2>1, <2>3, NewlinesFresh
  <2>5. ShowPrompt(Put(con, text), w.cwd)
    BY <1>1, <1>4
  <2> HIDE DEF text
  <2> QED
    BY <1>2, <2>4, <2>5, EchoShown
<1> QED
  BY <1>3, <1>4

LEMMA EchoRecalled ==
  ASSUME IInv, EchoInv, ~ed.on, NEW l \in Lines, Redisplay(l), UNCHANGED <<ed, start>>
  PROVE  EchoInv'
<1>1. con \in Consoles /\ start \in 0 .. Cols - 1 /\ Empty(con, con.y + 1)
  BY EchoBelow DEF IInv, ScreenType, HistoryType, EchoInv
<1>2. line' = l /\ recalled' = TRUE /\ start' = start /\ ed' = ed
  BY DEF Redisplay
<1>3. EchoState(con', start', line', recalled')
  BY <1>1, <1>2, EchoRedisplayed
<1> QED
  BY <1>2, <1>3, EchoPrimed

LEMMA EchoUpDown ==
  ASSUME IInv, EchoInv, Up \/ Down PROVE EchoInv'
<1>1. ~ed.on /\ UNCHANGED <<ed, start>>
  BY DEF Up, Down
<1>2. PICK l : Redisplay(l) /\ l = line'
  BY DEF Up, Down, Redisplay
<1>3. l \in Lines
  <2>1. IInv'
    BY UpInv, DownInv
  <2>2. line' \in Lines
    BY <2>1 DEF IInv, HistoryType, Lines
  <2> QED
    BY <1>2, <2>2
<1> QED
  BY <1>1, <1>2, <1>3, EchoRecalled

LEMMA EchoEscape ==
  ASSUME IInv, EchoInv, Escape PROVE EchoInv'
<1>1. ed.on /\ line' = <<>>
  BY DEF Escape, EchoInv
<1> DEFINE c1 == PutChar(Cleared, "text")
           text == <<"text", Newline>>
<1>2. Cleared \in Consoles /\ Cleared.x = 0 /\ Cleared.y = 0
  BY ClearedType DEF Cleared
<1>3. "text" \in Printable \ {Newline, Rubout} /\ Newline \in Printable
  BY DEF Printable, Marks, Newline, Rubout
<1>4. Put(Cleared, text) = PutChar(c1, Newline)
  <2>1. text \in Seq(Printable) /\ Len(text) = 2 /\ text[1] = "text" /\ text[2] = Newline
    BY <1>3
  <2>2. PICK g \in [0 .. Len(text) -> Consoles] :
          /\ g[0] = Cleared /\ Put(Cleared, text) = g[Len(text)]
          /\ \A i \in 0 .. Len(text) - 1 : g[i + 1] = PutChar(g[i], text[i + 1])
    <3> HIDE DEF text
    <3> QED
      BY <1>2, <2>1, PutSteps
  <2> HIDE DEF text
  <2>3. g[0 + 1] = PutChar(g[0], text[0 + 1]) /\ g[1 + 1] = PutChar(g[1], text[1 + 1])
    BY <2>1, <2>2
  <2> QED
    BY <2>1, <2>2, <2>3
<1>5. Empty(c1, c1.y + 1)
  <2>1. PICK d \in {0, 1} :
           /\ Advanced(Cleared, c1, Glyphs("text"), d)
           /\ c1.y = (IF Cleared.x = Cols - 1 THEN Cleared.y + 1 ELSE Cleared.y) - d
    BY <1>2, <1>3, PutGlyph
  <2> HIDE DEF c1
  <2>2. c1 \in Consoles /\ c1.y \in 0 .. Rows - 1
    BY <2>1 DEF Advanced, Consoles
  <2>3. c1.y = 0 /\ d = 0
    BY <1>2, <2>1, <2>2, EchoAssumption, ScreenAssumption
  <2>4. ASSUME NEW r \in 0 .. Rows - 1, NEW k \in 0 .. Cols - 1, r >= 1
        PROVE  c1.cells[r][k] = {}
    <3>1. ~ (r + d >= Rows) /\ r + d = r /\ r # Cleared.y
      BY <1>2, <2>3, <2>4, ScreenAssumption
    <3>2. c1.cells[r][k] = Cleared.cells[r][k]
      BY <2>1, <3>1 DEF Advanced
    <3> QED
      BY <3>2 DEF Cleared
  <2> QED
    BY <2>2, <2>3, <2>4 DEF Empty
<1>6. Fresh(Put(Cleared, text))
  <2> HIDE DEF c1, text
  <2> QED
    BY <1>4, <1>5, FreshLine
<1>7. ShowPrompt(Put(Cleared, text), cwd)
  BY DEF Escape
<1> HIDE DEF text
<1> QED
  BY <1>1, <1>6, <1>7, EchoShown

LEMMA EchoEditing ==
  ASSUME IInv, EchoInv, EditorType \/ EditorBackspace \/ EditorArrow \/ UNCHANGED vars
  PROVE  EchoInv'
<1>1. CASE UNCHANGED vars
  <2>1. UNCHANGED <<con, start, line, recalled, ed>>
    BY <1>1 DEF vars
  <2> QED
    BY <2>1 DEF EchoInv, EchoState, EchoAt, Shown, After
<1>2. ASSUME ed.on, UNCHANGED <<line, recalled>>, ed'.on = ed.on PROVE EchoInv'
  BY <1>2 DEF EchoInv
<1>3. ASSUME ed.on, NEW text, NEW cursor, EditorKey(text, cursor) PROVE EchoInv'
  <2>1. ed'.on = ed.on /\ UNCHANGED <<line, recalled>>
    BY <1>3 DEF EditorKey, IInv, FilesType, World, Worlds, Editors
  <2> QED
    BY <1>2, <1>3, <2>1
<1> QED
  BY <1>1, <1>3 DEF EditorType, EditorBackspace, EditorArrow

LEMMA EchoStep == IInv /\ EchoInv /\ [Next]_vars => EchoInv'
BY EchoType, EchoBackspace, EchoEnter, EchoUpDown, EchoEscape, EchoEditing DEF Next

LEMMA EchoInvariant == Spec => [](IInv /\ EchoInv)
BY InitInv, StepInv, EchoInit, EchoStep, PTL DEF Spec

\* What is echoed is what Enter will run: with no line recalled since the prompt,
\* the characters of the line, and nothing else, follow the prompt on the screen,
\* whatever was typed and rubbed out, across wrapped rows and scrolling, and the
\* cursor is behind the last of them.
THEOREM EchoShowsLineHolds == Spec => []EchoShowsLine
<1>1. IInv /\ EchoInv => EchoShowsLine
  <2> SUFFICES ASSUME IInv, EchoInv, ~ed.on, ~recalled PROVE EchoShowsLine
    BY DEF EchoShowsLine
  <2> DEFINE n == Len(line)
  <2>1. n \in Nat /\ start \in 0 .. Cols - 1 /\ start \in Nat
    BY LinesAre, LenProperties DEF IInv, ScreenType, HistoryType
  <2>2. PICK b \in 0 .. Rows - 1 : EchoAt(con, b, 0, start, n) /\ con.mark = b
                                   /\ Shown(con, b, start, line, n)
    BY DEF EchoInv, EchoState
  <2> HIDE DEF n
  <2>3. con.y = b + RowOf(start + n) /\ con.x = ColOf(start + n)
    BY <2>2 DEF EchoAt
  <2>4. start + (n + 1) - 1 = start + n
    BY <2>1
  <2>5. ASSUME NEW i \in 1 .. Cols * Rows - start,
               b + RowOf(start + i - 1) \in 0 .. Rows - 1
        PROVE  con.cells[b + RowOf(start + i - 1)][ColOf(start + i - 1)]
                 = IF i <= n THEN Glyphs(line[i]) ELSE {}
    <3>0. i \in Nat /\ start + i - 1 \in Nat
      <4>1. Cols * Rows - start \in Int
        BY <2>1, ScreenAssumption
      <4> QED
        BY <2>1, <4>1
    <3>1. CASE i <= n
      <4>1. i \in 1 .. n
        BY <2>1, <3>0, <3>1
      <4> QED
        BY <2>2, <3>1, <4>1 DEF Shown
    <3>2. CASE ~ (i <= n)
      <4> DEFINE q == start + i - 1
                 r == b + RowOf(q)
      <4>1. q \in Nat /\ start + n \in Nat /\ start + n <= q
        BY <2>1, <3>0, <3>2
      <4> HIDE DEF q
      <4>2. /\ RowOf(start + n) <= RowOf(q)
            /\ RowOf(start + n) = RowOf(q) => ColOf(start + n) <= ColOf(q)
            /\ RowOf(start + n) \in Nat /\ RowOf(q) \in Nat
            /\ ColOf(q) \in 0 .. Cols - 1 /\ ColOf(start + n) \in 0 .. Cols - 1
        BY <4>1, PlacesOrdered, PlaceIs
      <4>3. r \in 0 .. Rows - 1 /\ r >= b + 0 /\ After(con, r, ColOf(q))
        BY <2>2, <2>3, <2>5, <4>2 DEF After, q
      <4> HIDE DEF r
      <4>4. con.cells[r][ColOf(q)] = {}
        BY <2>2, <4>2, <4>3 DEF EchoAt
      <4> QED
        BY <3>2, <4>4 DEF r, q
    <3> QED
      BY <3>1, <3>2
  <2> QED
    BY <2>2, <2>3, <2>4, <2>5 DEF EchoShowsLine, RowOf, ColOf, n
<1> QED
  BY <1>1, EchoInvariant, PTL
=============================================================================
