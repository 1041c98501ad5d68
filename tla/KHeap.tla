------------------------------- MODULE KHeap -------------------------------
(***************************************************************************)
(* The kernel heap (src/mm/memory.c): kmalloc hands out the next bytes of  *)
(* one array, rounded up to four, and kfree gives nothing back.            *)
(***************************************************************************)
EXTENDS Integers

CONSTANT HeapSize         \* sizeof(heap)

ASSUME HeapAssumption == HeapSize \in Nat /\ HeapSize % 4 = 0

\* The areas handed out so far, as <<address, size>>, are history.
FreshHeap == [offset |-> 0, areas |-> {}]

Fits(heap, size) == heap.offset + size < HeapSize
\* Mutant of Aligned: & ~3 without the + 3.
AlignedDown(n) == (n \div 4) * 4

Aligned(n) == ((n + 3) \div 4) * 4
Kmalloc(heap, size) ==
  IF Fits(heap, size)
  THEN [offset |-> Aligned(heap.offset + size),
        areas |-> heap.areas \cup {<<heap.offset, size>>}]
  ELSE heap

\* Nothing that kmalloc handed out overlaps anything else it handed out, or
\* leaves the array.
Within(a) == a[1] >= 0 /\ a[1] + a[2] <= HeapSize
Apart(a, b) == a[1] + a[2] <= b[1] \/ b[1] + b[2] <= a[1]
AreasDisjoint(heap) ==
  \A a \in heap.areas : Within(a) /\ \A b \in heap.areas : a = b \/ Apart(a, b)
=============================================================================
