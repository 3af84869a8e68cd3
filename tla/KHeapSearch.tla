---------------------------- MODULE KHeapSearch ----------------------------
(***************************************************************************)
(* The kernel heap with the search loop of nextFitAlgo (kern/kheap.c) as   *)
(* it is written, one iteration per step.  Module KHeap gives the outcome  *)
(* of the loop by the closed form FirstFit; the loop implements it.        *)
(***************************************************************************)
EXTENDS KHeap

VARIABLES
    i,           \* loop index: a page number, NPages stands for the heap's end
    x,           \* pages of the current free run
    y,           \* visits of startAdd
    from, upto   \* kHeapArr[IDX].first and .last while the search goes on

loop == <<i, x, y, from, upto>>
lvars == <<vars, loop>>

Leave == i' = 0 /\ x' = 0 /\ y' = 0 /\ from' = 0 /\ upto' = 0

LInit == Init /\ i = 0 /\ x = 0 /\ y = 0 /\ from = 0 /\ upto = 0

BeginSearch(n) ==
    /\ Kmalloc(n)
    /\ i' = IF strategy = "NEXTFIT" THEN startAdd ELSE i
    /\ UNCHANGED <<x, y, from, upto>>

\* The page an iteration looks at: the end of the heap wraps to its start.
Here == IF i = NPages THEN 0 ELSE i

\* Mutant: the visits of startAdd are not counted.
VisitsUncounted == y

Visits == IF Here = startAdd THEN y + 1 ELSE y

\* Back at startAdd for the second time without a run: return NULL.
LoopNull ==
    /\ proc = "search"
    /\ Visits = 2
    /\ x # size
    /\ proc' = "null"
    /\ Leave
    /\ UNCHANGED <<frames, records, strategy, size, run, short>>

get_frame_info == pt[Here]

\* Mutant: a used page does not reset the length of the run.
RunLengthNoReset == IF get_frame_info = NoFrame THEN x + 1 ELSE x

\* Pages of the free run that ends here; a used page ends it.
RunLength == IF get_frame_info = NoFrame THEN x + 1 ELSE 0
RunFrom == IF get_frame_info = NoFrame /\ x = 0 THEN Here ELSE from
RunUpto == IF get_frame_info = NoFrame THEN Here ELSE upto

LoopOn ==
    /\ proc = "search"
    /\ ~(Visits = 2 /\ x # size)
    /\ RunLength # size
    /\ i' = Here + 1
    /\ x' = RunLength /\ y' = Visits
    /\ from' = RunFrom /\ upto' = RunUpto
    /\ UNCHANGED vars

LoopFound ==
    /\ proc = "search"
    /\ ~(Visits = 2 /\ x # size)
    /\ RunLength = size
    /\ first' = RunFrom /\ last' = RunUpto /\ cur' = RunFrom
    /\ short' = (short \/ last' - first' + 1 # size)
    /\ proc' = "map"
    /\ Leave
    /\ UNCHANGED <<frames, records, strategy, size>>

LoopStep == LoopNull \/ LoopOn \/ LoopFound

AfterSearch ==
    /\ ReturnNull \/ MapPage \/ MapPanic \/ MapDone \/ UnmapPage \/ UnmapDone
    /\ UNCHANGED loop

LNext ==
    \/ \E n \in Sizes : BeginSearch(n)
    \/ LoopStep
    \/ AfterSearch
    \/ /\ \/ \E b \in live : Kfree(b)
          \/ \E b \in live : KfreeTable(b)
          \/ \E u \in UserPages : UserMap(u)
          \/ \E u \in UserPages : UserUnmap(u)
          \/ \E s \in Strategies : SetKHeapPlacementStrategy(s)
       /\ UNCHANGED loop

LSpec == LInit /\ [][LNext]_lvars

\* A call that has been made runs on: nothing preempts the kernel.
LFairSpec == LSpec /\ WF_lvars(LoopStep \/ AfterSearch)

-----------------------------------------------------------------------------
\* nextFitAlgo's loop, with its index, its run length and its count of visits,
\* implements the closed form: it finds the first run that fits and answers
\* NULL only where the closed form has none, in every heap that kmalloc, kfree
\* and panics leave behind.
ImplementsKHeap == Spec

\* A call of kmalloc whose search begins below KERNEL_HEAP_MAX returns, the
\* loop making one lap at most, and it answers NULL only when no hole fits but
\* one that lies across startAdd, which the code refuses (NullMeansNoHole).  One that begins at KERNEL_HEAP_MAX returns only if there
\* is a hole: its visits of startAdd are never counted.
KmallocReturns ==
    /\ (proc = "search" /\ startAdd # NPages) ~> (proc = "idle")
    /\ []NullMeansNoHole

=============================================================================
