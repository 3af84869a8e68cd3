---------------------------- MODULE UHeapSearch ----------------------------
(***************************************************************************)
(* The user heap with the search loop of nextFitAlgo (lib/uheap.c) as it   *)
(* is written, one iteration per step.  The program can be preempted in    *)
(* the loop: other environments use the page file, and the strategy can be *)
(* changed, between two iterations.  Module UHeap gives the outcome of the *)
(* loop by the closed form NextFit; the loop implements it.                *)
(***************************************************************************)
EXTENDS UHeap

VARIABLES
    strategy,    \* _UHeapPlacementStrategy
    pc,          \* "idle", "loop", or "null" when malloc answers NULL
    size,        \* pages asked for
    newAdd,      \* the page the walk has reached
    newSize,     \* pages of the current free run
    tmp,         \* where that run begins
    flag,        \* a run has begun
    spacePages   \* pages still to visit, unsigned

walk == <<newAdd, newSize, tmp, flag, spacePages>>
call == <<pc, size, walk>>
svars == <<vars, strategy, call>>

Strategies == {"NEXTFIT", "BESTFIT"}

Width == 2^20    \* stands for 2^32: far above every page count

\* The heap of a program has 2^17 pages, far fewer than a uint32 counts.
ASSUME WidthAssumption == Width \in Nat /\ NPages < Width

SInit ==
    /\ Init
    /\ strategy = "NEXTFIT"
    /\ pc = "idle" /\ size = 0
    /\ newAdd = 0 /\ newSize = 0 /\ tmp = 0 /\ flag = FALSE /\ spacePages = 0

\* The call returns: its locals are gone.
Leave ==
    /\ pc' = "idle" /\ size' = 0
    /\ newAdd' = 0 /\ newSize' = 0 /\ tmp' = 0 /\ flag' = FALSE
    /\ spacePages' = 0

\* Under another strategy malloc answers NULL at once and changes nothing.
CallMalloc(n) ==
    /\ pc = "idle"
    /\ strategy = "NEXTFIT"
    /\ pc' = "loop"
    /\ size' = n
    /\ newAdd' = startAdd /\ newSize' = 0 /\ tmp' = 0 /\ flag' = FALSE
    /\ spacePages' = NPages
    /\ UNCHANGED <<vars, strategy>>

\* Mutant: a run goes on across the end of the heap.
WalkOnNoCut(add, sz, fl, tm) ==
    /\ sz < size
    /\ newAdd' = IF add >= NPages THEN 0 ELSE add
    /\ newSize' = sz /\ flag' = fl
    /\ tmp' = tm
    /\ UNCHANGED <<vars, strategy, pc, size>>

\* Too few pages so far; at the end of the heap the walk begins again at its
\* start, with no run.
WalkOn(add, sz, fl, tm) ==
    /\ sz < size
    /\ \/ add < NPages /\ newAdd' = add /\ newSize' = sz /\ flag' = fl
       \/ add >= NPages /\ newAdd' = 0 /\ newSize' = 0 /\ flag' = FALSE
    /\ tmp' = tm
    /\ UNCHANGED <<vars, strategy, pc, size>>

\* Enough pages: the run is taken, and the call returns its first page.
Found(sz, tm) ==
    /\ sz >= size
    /\ Grant(tm, size)
    /\ Leave
    /\ UNCHANGED strategy

FreePage ==
    /\ pc = "loop" /\ spacePages # 0
    /\ checkList[newAdd] = 0
    /\ LET tm == IF flag THEN tmp ELSE newAdd
       IN \/ /\ spacePages' = spacePages - 1
             /\ WalkOn(newAdd + 1, newSize + 1, TRUE, tm)
          \/ Found(newSize + 1, tm)

\* Mutant: the pages of a block are not counted.
SkipBlockUncounted ==
    /\ pc = "loop" /\ spacePages # 0
    /\ checkList[newAdd] > 0
    /\ spacePages' = spacePages
    /\ WalkOn(newAdd + checkList[newAdd], 0, FALSE, tmp)

\* Mutant: only the first page of a block is skipped.
SkipBlockFirst ==
    /\ pc = "loop" /\ spacePages # 0
    /\ checkList[newAdd] > 0
    /\ spacePages' = spacePages - 1
    /\ WalkOn(newAdd + 1, 0, FALSE, tmp)

\* A block lies here: newSize is less than size, or the loop had ended.
SkipBlock ==
    /\ pc = "loop" /\ spacePages # 0
    /\ checkList[newAdd] > 0
    /\ spacePages' = (spacePages - checkList[newAdd]) % Width
    /\ WalkOn(newAdd + checkList[newAdd], 0, FALSE, tmp)

NoSpace ==
    /\ pc = "loop" /\ spacePages = 0
    /\ pc' = "null"
    /\ UNCHANGED <<vars, strategy, size, walk>>

ReturnNull ==
    /\ pc = "null"
    /\ Leave
    /\ UNCHANGED <<vars, strategy>>

CallFree(b) ==
    /\ pc = "idle"
    /\ Free(b)
    /\ UNCHANGED <<strategy, call>>

SetUHeapPlacementStrategy(s) ==
    /\ strategy' = s
    /\ UNCHANGED <<vars, call>>

LoopStep == FreePage \/ SkipBlock \/ NoSpace \/ ReturnNull

SNext ==
    \/ \E n \in Sizes : CallMalloc(n)
    \/ LoopStep
    \/ \E b \in live : CallFree(b)
    \/ (OthersTake \/ OthersReturn) /\ UNCHANGED <<strategy, call>>
    \/ \E s \in Strategies : SetUHeapPlacementStrategy(s)

\* The program gets the processor again and again (ReadyRuns of Sched).
SSpec == SInit /\ [][SNext]_svars /\ WF_svars(LoopStep)

-----------------------------------------------------------------------------
\* nextFitAlgo's loop, with its page count and its flag, implements the closed
\* form: malloc takes the first run from startAdd on that is long enough,
\* whatever others do to the page file meanwhile.
ImplementsUHeap == Spec

\* A search answers NULL only when no run, cut at startAdd and at the end of
\* the heap, is long enough.
NullMeansNoRun ==
    pc = "null" => Upper(size) \cup Lower(size) = {}

\* Every malloc comes to an answer, and to the right one: the page count never
\* goes below zero, so that the heap is walked once and no more, and NULL means
\* that no run is long enough (NullMeansNoRun).
MallocAnswers ==
    /\ (pc # "idle") ~> (pc = "idle")
    /\ []NullMeansNoRun
=============================================================================
