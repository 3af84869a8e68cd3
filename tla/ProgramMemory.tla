---------------------------- MODULE ProgramMemory ----------------------------
(***************************************************************************)
(* The heap of one program as its system calls see it, in whole pages:       *)
(* malloc and free of lib/uheap.c under next fit, allocateMem and freeMem of *)
(* the kernel, and the page faults of the first accesses.  Blocks are        *)
(* intervals, so that the real heap of 131072 pages can be used; UHeap has    *)
(* the walk page by page.  No page is evicted: working sets are large.        *)
(***************************************************************************)
EXTENDS Integers, Sequences, FiniteSets, FiniteSetsExt
LOCAL INSTANCE SequencesExt

TablePages == 1024       \* pages in the region of one page table (4 MB)
NULL == -524288          \* address 0 in pages from USER_HEAP_START

\* got counts the frames the program has taken and not returned, disk its pages
\* in the page file, stack the pages of its stack, all beyond what it was loaded
\* with; ws has the working set's entries for the heap, data what is stored
\* there, by page and byte.
NewMemory(pages) ==
  [heap |-> pages, blocks |-> {}, start |-> 0, resident |-> {}, tables |-> {}, dtables |-> {}, got |-> 0, disk |-> 0,
   ws |-> <<>>, data |-> <<>>, stack |-> 0]

\* kilo bytes in pages
Pages(kb) == (kb + 3) \div 4
Regions(first, n) == (first \div TablePages)..((first + n - 1) \div TablePages)
Within(b, page) == b[1] <= page /\ page < b[1] + b[2]

\* Mutant: every search begins at the start of the heap.
nextFitAlgo_First(m, n) ==
  LET Vacant(t) == \A b \in m.blocks : b[1] + b[2] <= t \/ t + n <= b[1]
      starts == {0} \cup {b[1] + b[2] : b \in m.blocks}
      fits == {t \in starts : t + n <= m.heap /\ Vacant(t)}
  IN  IF fits = {} THEN NULL ELSE Min(fits)

\* The first free run from startAdd to the end, then from the start to startAdd.
nextFitAlgo(m, n) ==
  LET Vacant(t) == \A b \in m.blocks : b[1] + b[2] <= t \/ t + n <= b[1]
      starts == {m.start, 0} \cup {b[1] + b[2] : b \in m.blocks}
      upper == {t \in starts : t >= m.start /\ t + n <= m.heap /\ Vacant(t)}
      lower == {t \in starts : t + n <= m.start /\ Vacant(t)}
  IN  IF upper # {} THEN Min(upper) ELSE IF lower # {} THEN Min(lower) ELSE NULL

\* Frames for the tables of the page file, which are never returned.
allocateMem(m, first, n) ==
  [m EXCEPT !.disk = @ + n, !.dtables = @ \cup Regions(first, n),
            !.got = @ + Cardinality(Regions(first, n) \ m.dtables)]

malloc(m, n) ==
  LET t == nextFitAlgo(m, n)
  IN  [va |-> t,
       mem |-> IF t = NULL THEN m
               ELSE [allocateMem(m, t, n) EXCEPT !.blocks = @ \cup {<<t, n>>}, !.start = IF t + n >= m.heap THEN 0 ELSE t]]

\* The working set and what is stored, without the pages that go.
Forget(m, out) ==
  [m EXCEPT !.ws = FoldSet(LAMBDA p, w : RemoveFirst(w, p), @, out),
            !.data = [c \in {d \in DOMAIN @ : d[1] \notin out} |-> @[c]]]

\* Mutant: the tables that have become empty stay.
freeMem_KeepsTables(m, first, n) ==
  LET out == {p \in m.resident : Within(<<first, n>>, p)}
  IN  [Forget(m, out) EXCEPT !.disk = @ - n, !.resident = @ \ out, !.got = @ - Cardinality(out)]

\* The frames of the pages, the first entry of each page in the working set, and
\* the frames of the tables that become empty.
freeMem(m, first, n) ==
  LET out == {p \in m.resident : Within(<<first, n>>, p)}
      left == m.resident \ out
      empty == {r \in m.tables \cap Regions(first, n) : \A p \in left : p \div TablePages # r}
  IN  [Forget(m, out) EXCEPT !.disk = @ - n, !.resident = left, !.tables = @ \ empty,
                             !.got = @ - Cardinality(out) - Cardinality(empty)]

free(m, va) ==
  LET b == CHOOSE c \in m.blocks : c[1] = va
  IN  [freeMem(m, b[1], b[2]) EXCEPT !.blocks = @ \ {b}]

\* A first access takes a frame for the page, and one for its table, and an entry
\* of the working set.
Touch(m, page) ==
  IF page \in m.resident THEN m
  ELSE [m EXCEPT !.resident = @ \cup {page}, !.tables = @ \cup {page \div TablePages},
                 !.ws = Append(@, page), !.got = @ + 1 + IF page \div TablePages \in m.tables THEN 0 ELSE 1]
TouchAll(m, pages) == FoldSet(LAMBDA p, a : Touch(a, p), m, pages)
\* The next page of the stack: new in the page file too, its tables are there.
Deepen(m) == [m EXCEPT !.stack = @ + 1, !.got = @ + 1, !.disk = @ + 1]
\* The page is nowhere: the fault handler panics after it has mapped a frame.
Missing(m, page) == page \notin m.resident /\ \A b \in m.blocks : ~Within(b, page)
=============================================================================
