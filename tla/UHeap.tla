------------------------------- MODULE UHeap -------------------------------
(***************************************************************************)
(* The user heap: malloc and free of lib/uheap.c, with allocateMem and the *)
(* page-file part of freeMem (kern/memory_manager.c) that they call.       *)
(*                                                                         *)
(* [USER_HEAP_START, USER_HEAP_MAX) is the page numbers 0 .. NPages-1.     *)
(* Each program has a heap of its own; the disk frames of the page file    *)
(* are shared with the other environments, which take and return them      *)
(* between any two calls.                                                  *)
(***************************************************************************)
EXTENDS Integers, FiniteSets

CONSTANTS
    NPages,      \* pages of the user heap
    DiskFrames,  \* disk frames of the page file
    Sizes        \* request sizes, in pages, passed to malloc

ASSUME NPagesAssumption == NPages \in Nat \ {0}
ASSUME DiskFramesAssumption == DiskFrames \in Nat
ASSUME SizesAssumption == Sizes \subseteq Nat \ {0}

VARIABLES
    startAdd,    \* where the next search begins
    checkList,   \* page -> pages of the block that starts there, or 0
    uHeapArr,    \* page -> size of the record of the block there, or 0
    pf,          \* heap pages that are in the page file
    freeDisk,    \* length of disk_free_frame_list
    others,      \* disk frames in use by everything else
    live         \* ghost: blocks the program holds

heap == <<startAdd, checkList, uHeapArr, live>>
disk == <<pf, freeDisk, others>>
vars == <<heap, disk>>

Pages == 0 .. NPages - 1
Least(a, b) == IF a < b THEN a ELSE b

Init ==
    /\ startAdd = 0
    /\ checkList = [p \in Pages |-> 0]
    /\ uHeapArr = [p \in Pages |-> 0]
    /\ pf = {}
    /\ freeDisk = DiskFrames
    /\ others = 0
    /\ live = {}

-----------------------------------------------------------------------------
(* nextFitAlgo walks from startAdd to the end of the heap, then from its   *)
(* start to startAdd, and stops at the first free run that is long enough; *)
(* a run that crosses startAdd or the end of the heap is cut there.        *)

\* Page p is inside the block that starts at t.
Covers(t, p) == t <= p /\ p < t + checkList[t]

Vacant(t, n) == \A p \in t .. t + n - 1 : \A s \in Pages : ~Covers(s, p)

Upper(n) == {t \in startAdd .. NPages - n : Vacant(t, n)}
Lower(n) == {t \in 0 .. startAdd - n : Vacant(t, n)}

NextFit(t, n) ==
    \/ t \in Upper(n) /\ \A s \in Upper(n) : t <= s
    \/ Upper(n) = {} /\ t \in Lower(n) /\ \A s \in Lower(n) : t <= s

-----------------------------------------------------------------------------
\* allocateMem adds the pages to the page file one by one; when there is no
\* disk frame left, the error of pf_add_empty_env_page is ignored.
AllocateMem(t, n) ==
    LET k == Least(n, freeDisk)
    IN /\ pf' = pf \cup (t .. t + k - 1)
       /\ freeDisk' = freeDisk - k
       /\ UNCHANGED others

\* The n pages from t on become a block; the next search begins there.
Grant(t, n) ==
    /\ checkList' = [checkList EXCEPT ![t] = n]
    /\ AllocateMem(t, n)
    /\ uHeapArr' = [uHeapArr EXCEPT ![t] = n]
    /\ startAdd' = IF t + n >= NPages THEN 0 ELSE t
    /\ live' = live \cup {[first |-> t, size |-> n]}

\* A malloc that answers NULL changes nothing.
Malloc(n) == \E t \in Pages : NextFit(t, n) /\ Grant(t, n)

\* Mutant: pages that are not in the page file return a disk frame as well.
FreeMemAll(t, n) ==
    /\ pf' = pf \ (t .. t + n - 1)
    /\ freeDisk' = freeDisk + n
    /\ UNCHANGED others

\* Mutant: one page too many is removed.
FreeMemBeyond(t, n) ==
    LET gone == pf \cap (t .. t + n)
    IN /\ pf' = pf \ gone
       /\ freeDisk' = freeDisk + Cardinality(gone)
       /\ UNCHANGED others

\* freeMem removes the pages of the range that are in the page file.
FreeMem(t, n) ==
    LET gone == pf \cap (t .. t + n - 1)
    IN /\ pf' = pf \ gone
       /\ freeDisk' = freeDisk + Cardinality(gone)
       /\ UNCHANGED others

\* The program frees a block it holds; the record of its first page is the
\* only one that free can find.
Free(b) ==
    /\ FreeMem(b.first, uHeapArr[b.first])
    /\ uHeapArr' = [uHeapArr EXCEPT ![b.first] = 0]
    /\ checkList' = [checkList EXCEPT ![b.first] = 0]
    /\ live' = live \ {b}
    /\ UNCHANGED startAdd

\* Other environments use the same page file.
OthersTake ==
    /\ freeDisk > 0
    /\ freeDisk' = freeDisk - 1
    /\ others' = others + 1
    /\ UNCHANGED <<heap, pf>>

OthersReturn ==
    /\ others > 0
    /\ freeDisk' = freeDisk + 1
    /\ others' = others - 1
    /\ UNCHANGED <<heap, pf>>

Next ==
    \/ \E n \in Sizes : Malloc(n)
    \/ \E b \in live : Free(b)
    \/ OthersTake \/ OthersReturn

Spec == Init /\ [][Next]_vars

-----------------------------------------------------------------------------
(* Properties *)

\* Type invariant: sizes, page numbers and disk counts stay in their ranges.
TypeOK ==
    /\ startAdd \in Pages
    /\ checkList \in [Pages -> 0 .. NPages]
    /\ uHeapArr \in [Pages -> 0 .. NPages]
    /\ pf \subseteq Pages
    /\ freeDisk \in Nat
    /\ others \in Nat
    /\ live \subseteq [first : Pages, size : 1 .. NPages]

PagesOf(b) == b.first .. b.first + b.size - 1

\* Blocks that malloc handed out and that were not freed are inside the heap,
\* do not overlap, and both tables know their size, whatever mixture of malloc
\* and free came before.
BlocksApart ==
    /\ \A b \in live : /\ PagesOf(b) \subseteq Pages
                       /\ checkList[b.first] = b.size
                       /\ uHeapArr[b.first] = b.size
    /\ \A b, c \in live : b # c => PagesOf(b) \cap PagesOf(c) = {}
    /\ \A p \in Pages : checkList[p] > 0 => \E b \in live : b.first = p

\* The walk of nextFitAlgo begins at the first page of a block or at a free
\* page, never inside a block, and never so that it would run past the end of
\* the heap: its page count would go below zero otherwise.
StartAtBoundary ==
    /\ \A t \in Pages : Covers(t, startAdd) => t = startAdd
    /\ startAdd + checkList[startAdd] < NPages \/ startAdd = 0

\* The two tables of the heap describe blocks that are apart, and leave the next
\* search a place from which it can walk whole blocks (malloc and free of
\* lib/uheap.c): in range, BlocksApart and StartAtBoundary.
TablesSound == TypeOK /\ BlocksApart /\ StartAtBoundary

\* Disk frames are conserved and only blocks the program holds have pages in
\* the page file: free gives back exactly what malloc took, even when the page
\* file was full in the meantime.
DiskConserved ==
    /\ freeDisk + Cardinality(pf) + others = DiskFrames
    /\ \A p \in pf : \E b \in live : p \in PagesOf(b)

\* No call takes a page of a block that stays held out of the page file.
HeldPagesKept ==
    [][\A b \in live \cap live' : PagesOf(b) \cap pf \subseteq pf']_vars

=============================================================================
