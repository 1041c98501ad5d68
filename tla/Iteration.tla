----------------------------- MODULE Iteration -----------------------------
(***************************************************************************)
(* Induction over the natural numbers, and what follows from it about      *)
(* the folds and the functions defined step by step that the models use,   *)
(* about quotients, and about what a finite set can hold.                  *)
(***************************************************************************)
EXTENDS Integers, Sequences, SequencesExt, SequenceTheorems, FiniteSetTheorems,
        WellFoundedInduction, TLAPS

-----------------------------------------------------------------------------
(***************************************************************************)
(* What a fold keeps is proved by induction on how far it has got; the     *)
(* induction is the well-foundedness of <.                                 *)
(***************************************************************************)
LessThan == {p \in Nat \X Nat : p[1] < p[2]}

LEMMA LessThanWellFounded == IsWellFoundedOn(LessThan, Nat)
BY NatLessThanWellFounded, Zenon DEF OpToRel, LessThan

\* A set that has 0, and with each number the next one, has them all.
LEMMA NumbersByInduction ==
  ASSUME NEW S, 0 \in S, \A n \in Nat : n \in S => n + 1 \in S
  PROVE  Nat \subseteq S
<1> DEFINE T == Nat \ S
<1>1. SUFFICES ASSUME T # {} PROVE FALSE
  OBVIOUS
<1>2. PICK x \in T : \A y \in T : ~ (<<y, x>> \in LessThan)
  <2>1. T \subseteq Nat
    OBVIOUS
  <2> HIDE DEF T
  <2> QED
    BY <1>1, <2>1, WFMin, LessThanWellFounded
<1>3. x \in Nat /\ x # 0 /\ x - 1 \in Nat /\ x - 1 < x
  OBVIOUS
<1>4. <<x - 1, x>> \in LessThan
  BY <1>3 DEF LessThan
<1>5. x - 1 \in S
  BY <1>2, <1>3, <1>4
<1> QED
  BY <1>3, <1>5

LEMMA MaxIs ==
  ASSUME NEW m \in Nat, NEW s \in SUBSET (1 .. m), m \in s
  PROVE  Max(s) = m
<1>1. m \in s /\ \A y \in s : m >= y
  OBVIOUS
<1>2. \A x \in s : (\A y \in s : x >= y) => x = m
  BY <1>1
<1> QED
  BY <1>1, <1>2 DEF Max

\* The equation of a fold over the first m elements: step[<<v, i>>] is what element
\* i makes of the value v.
Solves(f, m, base, step) ==
  \A s \in SUBSET (1 .. m) :
    IF s = {} THEN f[s] = base
    ELSE Max(s) \in 1 .. m /\ f[s] = step[<<f[s \ {Max(s)}], Max(s)>>]
Solvable(T, m, base, step) ==
  \E f \in [SUBSET (1 .. m) -> T] : Solves(f, m, base, step)

LEMMA SolvedOnce ==
  ASSUME NEW T, NEW base \in T, NEW step PROVE Solvable(T, 0, base, step)
<1> DEFINE f == [s \in SUBSET (1 .. 0) |-> base]
<1>1. \A s \in SUBSET (1 .. 0) : s = {} /\ f[s] = base
  <2>1. 1 .. 0 = {}
    OBVIOUS
  <2> QED
    BY <2>1
<1>2. f \in [SUBSET (1 .. 0) -> T]
  OBVIOUS
<1> HIDE DEF f
<1>3. Solves(f, 0, base, step)
  BY <1>1 DEF Solves
<1> QED
  BY <1>2, <1>3 DEF Solvable

LEMMA SolvedNext ==
  ASSUME NEW T, NEW n \in Nat, NEW base \in T, NEW step \in [T \X (1 .. n) -> T],
         NEW m \in Nat, m + 1 <= n, Solvable(T, m, base, step)
  PROVE  Solvable(T, m + 1, base, step)
<1>1. PICK f \in [SUBSET (1 .. m) -> T] : Solves(f, m, base, step)
  BY DEF Solvable
<1> DEFINE g == [s \in SUBSET (1 .. m + 1) |->
                   IF m + 1 \in s THEN step[<<f[s \ {m + 1}], m + 1>>] ELSE f[s]]
<1>2. ASSUME NEW s \in SUBSET (1 .. m + 1)
      PROVE  s \ {m + 1} \in SUBSET (1 .. m) /\ (m + 1 \notin s => s \in SUBSET (1 .. m))
  OBVIOUS
<1>3. ASSUME NEW t \in SUBSET (1 .. m) PROVE t \in SUBSET (1 .. m + 1) /\ g[t] = f[t]
  OBVIOUS
<1>4. g \in [SUBSET (1 .. m + 1) -> T]
  <2>1. m + 1 \in 1 .. n
    OBVIOUS
  <2> QED
    BY <1>2, <2>1
<1>5. ASSUME NEW s \in SUBSET (1 .. m + 1)
      PROVE  IF s = {} THEN g[s] = base
             ELSE Max(s) \in 1 .. m + 1 /\ g[s] = step[<<g[s \ {Max(s)}], Max(s)>>]
  <2>1. CASE m + 1 \in s
    <3>1. Max(s) = m + 1
      BY <2>1, MaxIs
    <3>2. g[s] = step[<<f[s \ {m + 1}], m + 1>>]
      BY <2>1
    <3>3. g[s \ {m + 1}] = f[s \ {m + 1}]
      BY <1>2, <1>3
    <3> QED
      BY <2>1, <3>1, <3>2, <3>3
  <2>2. CASE m + 1 \notin s
    <3>1. s \in SUBSET (1 .. m) /\ g[s] = f[s]
      BY <1>2, <1>3, <2>2
    <3>2. IF s = {} THEN f[s] = base
          ELSE Max(s) \in 1 .. m /\ f[s] = step[<<f[s \ {Max(s)}], Max(s)>>]
      BY <1>1, <3>1 DEF Solves
    <3>3. g[s \ {Max(s)}] = f[s \ {Max(s)}]
      BY <1>3, <3>1
    <3> QED
      BY <3>1, <3>2, <3>3
  <2> QED
    BY <2>1, <2>2
<1> HIDE DEF g
<1>6. Solves(g, m + 1, base, step)
  BY <1>5 DEF Solves
<1> QED
  BY <1>4, <1>6 DEF Solvable

LEMMA FoldExists ==
  ASSUME NEW T, NEW n \in Nat, NEW base \in T, NEW step \in [T \X (1 .. n) -> T]
  PROVE  Solvable(T, n, base, step)
<1> DEFINE Done == {m \in Nat : m <= n => Solvable(T, m, base, step)}
<1>1. 0 \in Done
  BY SolvedOnce
<1>2. ASSUME NEW m \in Nat, m \in Done PROVE m + 1 \in Done
  <2>1. CASE m + 1 <= n
    <3>1. Solvable(T, m, base, step)
      BY <1>2, <2>1
    <3> QED
      BY <2>1, <3>1, SolvedNext
  <2>2. CASE ~ (m + 1 <= n)
    BY <2>2
  <2> QED
    BY <2>1, <2>2
<1>3. n \in Done
  <2> HIDE DEF Done
  <2> QED
    BY <1>1, <1>2, NumbersByInduction
<1> QED
  BY <1>3

\* f is such a fold as long as its values stay in T.
Follows(f, T, n, base, step) ==
  \A s \in SUBSET (1 .. n) :
    IF s = {} THEN f[s] = base
    ELSE f[s \ {Max(s)}] \in T => f[s] = step[<<f[s \ {Max(s)}], Max(s)>>]

Stepwise(f, T, n, base, step) ==
  /\ f[1 .. 0] = base
  /\ \A m \in 0 .. n : f[1 .. m] \in T
  /\ \A m \in 0 .. n - 1 : f[1 .. m + 1] = step[<<f[1 .. m], m + 1>>]

\* What element after element keeps, the fold of all of them keeps.
LEMMA FoldKeeps ==
  ASSUME NEW T, NEW n \in Nat, NEW base \in T, NEW step \in [T \X (1 .. n) -> T],
         NEW f, Follows(f, T, n, base, step)
  PROVE  Stepwise(f, T, n, base, step)
<1> DEFINE Done == {m \in Nat : m <= n => f[1 .. m] \in T}
<1>0. f[1 .. 0] = base
  <2>1. 1 .. 0 = {} /\ {} \in SUBSET (1 .. n)
    OBVIOUS
  <2>2. f[{}] = base
    BY <2>1 DEF Follows
  <2> QED
    BY <2>1, <2>2
<1>1. 0 \in Done
  BY <1>0
<1>2. ASSUME NEW m \in Nat, m + 1 <= n, f[1 .. m] \in T
      PROVE  f[1 .. m + 1] = step[<<f[1 .. m], m + 1>>] /\ f[1 .. m + 1] \in T
  <2>1. 1 .. m + 1 \in SUBSET (1 .. n) /\ m + 1 \in 1 .. m + 1 /\ m + 1 \in 1 .. n
    BY <1>2
  <2>2. Max(1 .. m + 1) = m + 1
    BY <2>1, MaxIs
  <2>3. (1 .. m + 1) \ {m + 1} = 1 .. m
    OBVIOUS
  <2>4. f[1 .. m + 1] = step[<<f[1 .. m], m + 1>>]
    BY <1>2, <2>1, <2>2, <2>3 DEF Follows
  <2> QED
    BY <1>2, <2>1, <2>4
<1>3. ASSUME NEW m \in Nat, m \in Done PROVE m + 1 \in Done
  <2>1. SUFFICES ASSUME m + 1 <= n PROVE f[1 .. m + 1] \in T
    OBVIOUS
  <2>2. f[1 .. m] \in T
    BY <1>3, <2>1
  <2> QED
    BY <1>2, <2>1, <2>2
<1>4. Nat \subseteq Done
  <2> HIDE DEF Done
  <2> QED
    BY <1>1, <1>3, NumbersByInduction
<1>5. \A m \in 0 .. n : f[1 .. m] \in T
  BY <1>4
<1>6. ASSUME NEW m \in 0 .. n - 1 PROVE f[1 .. m + 1] = step[<<f[1 .. m], m + 1>>]
  BY <1>2, <1>5
<1> QED
  BY <1>0, <1>5, <1>6 DEF Stepwise

-----------------------------------------------------------------------------
(***************************************************************************)
(* A function on 0 .. n that is given its value at 0 and, from each value, *)
(* the next one.                                                           *)
(***************************************************************************)
Iterates(f, n, base, step) ==
  f = [k \in 0 .. n |-> IF k = 0 THEN base ELSE step[<<f[k - 1], k>>]]

\* There is such a function.
LEMMA IterationExists ==
  ASSUME NEW T, NEW n \in Nat, NEW base \in T, NEW step \in [T \X (1 .. n) -> T]
  PROVE  \E f \in [0 .. n -> T] : Iterates(f, n, base, step)
<1>1. PICK g \in [SUBSET (1 .. n) -> T] : Solves(g, n, base, step)
  BY FoldExists DEF Solvable
<1>2. Follows(g, T, n, base, step)
  BY <1>1 DEF Solves, Follows
<1>3. Stepwise(g, T, n, base, step)
  BY <1>2, FoldKeeps
<1> DEFINE f == [k \in 0 .. n |-> g[1 .. k]]
<1>4. f \in [0 .. n -> T]
  BY <1>3 DEF Stepwise
<1>5. ASSUME NEW k \in 0 .. n
      PROVE  f[k] = IF k = 0 THEN base ELSE step[<<f[k - 1], k>>]
  <2>1. CASE k = 0
    BY <1>3, <2>1 DEF Stepwise
  <2>2. CASE k # 0
    <3>1. k - 1 \in 0 .. n - 1 /\ k - 1 \in 0 .. n /\ (k - 1) + 1 = k
      BY <2>2
    <3>2. g[1 .. (k - 1) + 1] = step[<<g[1 .. (k - 1)], (k - 1) + 1>>]
      BY <1>3, <3>1 DEF Stepwise
    <3> QED
      BY <2>2, <3>1, <3>2
  <2> QED
    BY <2>1, <2>2
<1>6. f = [k \in 0 .. n |-> IF k = 0 THEN base ELSE step[<<f[k - 1], k>>]]
  <2>1. f = [k \in 0 .. n |-> f[k]]
    OBVIOUS
  <2> HIDE DEF f
  <2> QED
    BY <1>5, <2>1
<1> HIDE DEF f
<1> QED
  BY <1>4, <1>6 DEF Iterates

\* What each value passes on to the next one, all of them have.
LEMMA PassedOn ==
  ASSUME NEW T, NEW n \in Nat, NEW f, f[0] \in T,
         \A k \in 1 .. n : f[k - 1] \in T => f[k] \in T
  PROVE  \A k \in 0 .. n : f[k] \in T
<1> DEFINE S == {m \in Nat : m <= n => f[m] \in T}
<1>1. 0 \in S
  OBVIOUS
<1>2. ASSUME NEW m \in Nat, m \in S PROVE m + 1 \in S
  <2>1. SUFFICES ASSUME m + 1 <= n PROVE f[m + 1] \in T
    OBVIOUS
  <2>2. m + 1 \in 1 .. n /\ (m + 1) - 1 = m /\ f[m] \in T
    BY <1>2, <2>1
  <2> QED
    BY <2>2
<1>3. Nat \subseteq S
  <2> HIDE DEF S
  <2> QED
    BY <1>1, <1>2, NumbersByInduction
<1> QED
  BY <1>3

-----------------------------------------------------------------------------
(***************************************************************************)
(* Division of a position by the size of a part.                           *)
(***************************************************************************)
LEMMA ProductMonotonic ==
  ASSUME NEW c \in Nat \ {0}, NEW a \in Nat, NEW b \in Nat, a <= b
  PROVE  c * a <= c * b
OBVIOUS

LEMMA QuotientBounds ==
  ASSUME NEW c \in Nat \ {0}, NEW p \in Nat
  PROVE  p \div c \in Nat /\ c * (p \div c) <= p /\ p < c * ((p \div c) + 1)
OBVIOUS

\* Position p lies in part q.
LEMMA QuotientIs ==
  ASSUME NEW c \in Nat \ {0}, NEW p \in Nat, NEW q \in Nat, c * q <= p, p < c * (q + 1)
  PROVE  p \div c = q
<1> DEFINE d == p \div c
<1>1. d \in Nat /\ c * d <= p /\ p < c * (d + 1)
  BY QuotientBounds
<1> HIDE DEF d
<1>2. CASE d < q
  <2>1. d + 1 <= q /\ d + 1 \in Nat
    BY <1>1, <1>2
  <2>2. c * (d + 1) <= c * q
    BY <2>1, ProductMonotonic
  <2>3. c * q \in Nat /\ c * (d + 1) \in Nat
    BY <2>1
  <2> QED
    BY <1>1, <2>2, <2>3
<1>3. CASE q < d
  <2>1. q + 1 <= d /\ q + 1 \in Nat
    BY <1>1, <1>3
  <2>2. c * (q + 1) <= c * d
    BY <1>1, <2>1, ProductMonotonic
  <2>3. c * d \in Nat /\ c * (q + 1) \in Nat
    BY <1>1, <2>1
  <2> QED
    BY <1>1, <2>2, <2>3
<1> QED
  BY <1>1, <1>2, <1>3 DEF d

\* Numbers from 0 that go in parts of c: so many parts hold n of them.
LEMMA QuotientRoundedUp ==
  ASSUME NEW c \in Nat \ {0}, NEW n \in Nat \ {0}
  PROVE  LET last == (n + c - 1) \div c IN
           /\ last \in Nat /\ last >= 1
           /\ \A k \in 0 .. n - 1 : k \div c + 1 <= last
<1> DEFINE last == (n + c - 1) \div c
<1>1. last \in Nat /\ c * last <= n + c - 1 /\ n + c - 1 < c * (last + 1)
  <2>1. n + c - 1 \in Nat
    OBVIOUS
  <2> QED
    BY <2>1, QuotientBounds
<1> HIDE DEF last
<1>2. last >= 1
  <2>1. CASE last = 0
    <3>1. n + c - 1 < c * 1
      BY <1>1, <2>1
    <3> QED
      BY <3>1
  <2> QED
    BY <1>1, <2>1
<1>3. ASSUME NEW k \in 0 .. n - 1 PROVE k \div c + 1 <= last
  <2> DEFINE q == k \div c
  <2>1. q \in Nat /\ c * q <= k
    BY QuotientBounds
  <2> HIDE DEF q
  <2>2. SUFFICES ASSUME ~ (q + 1 <= last) PROVE FALSE
    BY DEF q
  <2>3. last <= q
    BY <1>1, <2>1, <2>2
  <2>4. c * last <= c * q
    BY <1>1, <2>1, <2>3, ProductMonotonic
  <2>5. c * (last + 1) = c * last + c /\ c * last \in Nat /\ c * q \in Nat
    BY <1>1, <2>1
  <2> QED
    BY <1>1, <2>1, <2>4, <2>5
<1> QED
  BY <1>1, <1>2, <1>3 DEF last

-----------------------------------------------------------------------------
(***************************************************************************)
(* Steps down from a number inside a finite set: there are not more of     *)
(* them than elements.                                                     *)
(***************************************************************************)
LEMMA StepsDown ==
  ASSUME NEW L, IsFiniteSet(L), NEW h \in [L -> Nat],
         \A x \in L : h[x] # 0 => \E y \in L : h[y] = h[x] - 1, NEW i \in L
  PROVE  h[i] < Cardinality(L)
<1> DEFINE n == h[i]
           R == {h[x] : x \in L}
           S == {m \in Nat : m <= n => n - m \in R}
<1>1. n \in Nat /\ n \in R /\ R \subseteq Nat
  OBVIOUS
<1>2. \A m \in R : m # 0 => m - 1 \in R
  OBVIOUS
<1>3. R \in SUBSET Nat /\ IsFiniteSet(R) /\ Cardinality(R) <= Cardinality(L)
      /\ Cardinality(R) \in Nat /\ Cardinality(L) \in Nat
  <2>1. h \in Surjection(L, R)
    BY DEF Surjection
  <2> HIDE DEF R
  <2> QED
    BY <1>1, <2>1, FS_Surjection, FS_CardinalityType
<1> HIDE DEF n, R
<1>4. Nat \subseteq S
  <2>1. 0 \in S
    BY <1>1
  <2>2. ASSUME NEW m \in Nat, m \in S PROVE m + 1 \in S
    <3>1. ASSUME m + 1 <= n PROVE n - (m + 1) \in R
      <4>1. n - m \in R /\ n - m # 0 /\ (n - m) - 1 = n - (m + 1)
        BY <1>1, <2>2, <3>1
      <4> QED
        BY <1>2, <4>1
    <3> QED
      BY <3>1
  <2> HIDE DEF S
  <2> QED
    BY <2>1, <2>2, NumbersByInduction
<1>5. ASSUME NEW m \in 0 .. n PROVE m \in R
  <2>1. n - m \in Nat /\ n - m <= n /\ n - (n - m) = m
    BY <1>1
  <2>2. n - m \in S
    BY <1>4, <2>1
  <2> QED
    BY <2>1, <2>2
<1>6. Cardinality(0 .. n) = n + 1
  BY <1>1, FS_Interval
<1>7. 0 .. n \subseteq R
  BY <1>5
<1>8. Cardinality(0 .. n) <= Cardinality(R)
  BY <1>3, <1>7, FS_Subset
<1>9. n < Cardinality(L)
  BY <1>1, <1>3, <1>6, <1>8
<1> QED
  BY <1>9 DEF n

-----------------------------------------------------------------------------
(***************************************************************************)
(* A sequence without its last element.                                    *)
(***************************************************************************)
LEMMA FrontIs ==
  ASSUME NEW S, NEW s \in Seq(S), s # <<>>
  PROVE  /\ Len(s) \in Nat /\ Len(s) > 0
         /\ Front(s) \in Seq(S) /\ Len(Front(s)) = Len(s) - 1
         /\ \A k \in 1 .. Len(s) - 1 : Front(s)[k] = s[k]
         /\ Last(s) \in S /\ Last(s) = s[Len(s)]
<1>1. Len(s) \in Nat /\ Len(s) > 0 /\ s \in [1 .. Len(s) -> S]
  BY LenProperties, EmptySeq
<1>2. /\ SubSeq(s, 1, Len(s) - 1) \in Seq(S) /\ Len(SubSeq(s, 1, Len(s) - 1)) = Len(s) - 1
      /\ \A k \in 1 .. Len(s) - 1 : SubSeq(s, 1, Len(s) - 1)[k] = s[k]
  BY <1>1
<1>3. s[Len(s)] \in S
  BY <1>1
<1> QED
  BY <1>1, <1>2, <1>3 DEF Front, Last
=============================================================================
