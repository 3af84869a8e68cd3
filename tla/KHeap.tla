------------------------------- MODULE KHeap -------------------------------
(***************************************************************************)
(* Physical frames and the kernel heap: kern/kheap.c together with the     *)
(* frame functions of kern/memory_manager.c that it calls.                 *)
(*                                                                         *)
(* The heap [KERNEL_HEAP_START, KERNEL_HEAP_MAX) is the page numbers       *)
(* 0 .. NPages-1; the address KERNEL_HEAP_MAX is the number NPages.        *)
(* The kernel is not preemptible, so only one call is in progress at a     *)
(* time, but its loops allocate and release one frame at a time: each      *)
(* iteration is a step, because allocate_frame may panic in the middle.    *)
(***************************************************************************)
EXTENDS Integers, Sequences

CONSTANTS
    NPages,      \* pages of the kernel heap
    Frames,      \* physical frames that can be allocated
    NoFrame,     \* an empty page table entry
    InitFreeList,\* free_frame_list when initialize_paging returns
    UserPages,   \* pages of user space that compete for the same frames
    Sizes,       \* request sizes, in pages, passed to kmalloc
    MaxAllocs    \* bound: records of kHeapArr (Mega in the code)

ASSUME NPagesAssumption == NPages \in Nat \ {0}
ASSUME FramesAssumption == NoFrame \notin Frames
ASSUME InitFreeListAssumption ==
    /\ InitFreeList \in Seq(Frames)
    /\ \A f \in Frames : \E i \in 1 .. Len(InitFreeList) : InitFreeList[i] = f
    /\ \A i, j \in 1 .. Len(InitFreeList) :
          InitFreeList[i] = InitFreeList[j] => i = j
ASSUME SizesAssumption == Sizes \subseteq Nat \ {0}
ASSUME MaxAllocsAssumption == MaxAllocs \in Nat

VARIABLES
    pt,          \* kernel page tables over the heap: page -> frame or NoFrame
    upt,         \* user page tables: user page -> frame or NoFrame
    freeList,    \* free_frame_list, head first
    references,  \* Frame_Info.references
    startAdd,    \* where the next search begins
    kHeapArr,    \* the records 0 .. IDX-1, as a sequence (IDX is its length)
    strategy,    \* _KHeapPlacementStrategy
    proc,        \* where the kernel is: in no call, or inside kmalloc, kfree
    size,        \* kHeapArr[IDX].size of the kmalloc in progress, in pages
    first, last, \* the run being mapped or unmapped
    cur,         \* the page its loop has reached
    live,        \* ghost: records whose block its caller still holds
    short        \* ghost: a granted run was not the pages asked for

frames == <<pt, upt, freeList, references>>
records == <<startAdd, kHeapArr, live>>
run == <<first, last, cur>>
vars == <<frames, records, strategy, proc, size, run, short>>

Pages == 0 .. NPages - 1
NoPage == -1
Strategies == {"NEXTFIT", "BESTFIT"}
Blocks == [first : Pages, last : Pages]
Procs == {"idle", "search", "map", "unmap", "null", "hung"}

Init ==
    /\ pt = [p \in Pages |-> NoFrame]
    /\ upt = [u \in UserPages |-> NoFrame]
    /\ references = [f \in Frames |-> 0]
    /\ freeList = InitFreeList
    /\ startAdd = 0
    /\ kHeapArr = << >>
    /\ strategy = "NEXTFIT"
    /\ proc = "idle"
    /\ size = 0
    /\ first = 0 /\ last = 0 /\ cur = 0
    /\ live = {}
    /\ short = FALSE

\* The call in progress returns: its locals are gone.
Return == proc' = "idle" /\ size' = 0 /\ first' = 0 /\ last' = 0 /\ cur' = 0

-----------------------------------------------------------------------------
(* nextFitAlgo: iteration k of the search looks at page At(k).  The loop   *)
(* stops at the first k at which the last n pages seen were all free.      *)

At(k) == (startAdd + k) % NPages

RunEndsAt(k, n) == \A j \in (k - n + 1) .. k : pt[At(j)] = NoFrame

\* From startAdd < MAX the search makes one lap.  From startAdd = MAX the
\* loop index never equals startAdd, so the second-visit test never fires
\* and the search has no last lap: after NPages + n iterations it repeats.
Iterations(n) ==
    (n - 1) .. (IF startAdd = NPages THEN NPages + n - 1 ELSE NPages - 1)

Fits(n) == {k \in Iterations(n) : RunEndsAt(k, n)}
FirstFit(k, n) == k \in Fits(n) /\ \A m \in Fits(n) : k <= m

-----------------------------------------------------------------------------
(* kmalloc *)

Kmalloc(n) ==
    /\ proc = "idle"
    /\ Len(kHeapArr) < MaxAllocs
    /\ proc' = IF strategy = "NEXTFIT" THEN "search" ELSE "null"
    /\ size' = n
    /\ UNCHANGED <<frames, records, strategy, run, short>>

SearchFits ==
    /\ proc = "search"
    /\ \E k \in Fits(size) :
          /\ FirstFit(k, size)
          /\ first' = At(k - size + 1)
          /\ last' = At(k)
    /\ cur' = first'
    /\ short' = (short \/ last' - first' + 1 # size)
    /\ proc' = "map"
    /\ UNCHANGED <<frames, records, strategy, size>>

SearchNull ==
    /\ proc = "search"
    /\ Fits(size) = {}
    /\ startAdd # NPages
    /\ proc' = "null"
    /\ UNCHANGED <<frames, records, strategy, size, run, short>>

SearchForever ==
    /\ proc = "search"
    /\ Fits(size) = {}
    /\ startAdd = NPages
    /\ proc' = "hung"
    /\ UNCHANGED <<frames, records, strategy, size, run, short>>

ReturnNull ==
    /\ proc = "null"
    /\ Return
    /\ UNCHANGED <<frames, records, strategy, short>>

\* allocate_frame takes the head of free_frame_list, map_frame counts one
\* reference to it.
TakeFrame ==
    /\ freeList # << >>
    /\ references' = [references EXCEPT ![Head(freeList)] = 1]
    /\ freeList' = Tail(freeList)

\* One iteration of the loop that backs the run with frames.
MapPage ==
    /\ proc = "map"
    /\ cur <= last
    /\ TakeFrame
    /\ pt' = [pt EXCEPT ![cur] = Head(freeList)]
    /\ cur' = cur + 1
    /\ UNCHANGED <<upt, records, strategy, proc, size, first, last, short>>

\* Mutant: the block is handed out although a frame is missing.
MapPanicGrants ==
    /\ proc = "map"
    /\ cur <= last
    /\ freeList = << >>
    /\ startAdd' = last + 1
    /\ kHeapArr' = Append(kHeapArr, [first |-> first, last |-> last])
    /\ live' = live \cup {Len(kHeapArr) + 1}
    /\ Return
    /\ UNCHANGED <<frames, strategy, short>>

\* allocate_frame panics: the pages mapped so far stay mapped, the record is
\* not counted, and the kernel goes on (scheduler or command prompt).
MapPanic ==
    /\ proc = "map"
    /\ cur <= last
    /\ freeList = << >>
    /\ Return
    /\ UNCHANGED <<frames, records, strategy, short>>

MapDone ==
    /\ proc = "map"
    /\ cur > last
    /\ startAdd' = last + 1
    /\ kHeapArr' = Append(kHeapArr, [first |-> first, last |-> last])
    /\ live' = live \cup {Len(kHeapArr) + 1}
    /\ Return
    /\ UNCHANGED <<frames, strategy, short>>

-----------------------------------------------------------------------------
(* kfree *)

Matches(va) == {i \in 1 .. Len(kHeapArr) : kHeapArr[i].first = va}
\* Mutant: the lookup stops at the first record, which may be stale.
FirstMatch(i, va) == i \in Matches(va) /\ \A j \in Matches(va) : i <= j

LastMatch(i, va) == i \in Matches(va) /\ \A j \in Matches(va) : j <= i

\* The last record with this first page is the one whose pages are unmapped.
KfreeAt(va) ==
    \/ Matches(va) = {} /\ UNCHANGED <<proc, run>>
    \/ \E i \in Matches(va) :
          /\ LastMatch(i, va)
          /\ proc' = "unmap"
          /\ first' = va /\ cur' = va
          /\ last' = kHeapArr[i].last

\* The holder of block b passes the address kmalloc returned to it.
Kfree(b) ==
    /\ proc = "idle"
    /\ KfreeAt(kHeapArr[b].first)
    /\ live' = live \ {b}
    /\ UNCHANGED <<frames, startAdd, kHeapArr, strategy, size, short>>

Backed(f) == {p \in Pages : p < startAdd /\ pt[p] = f}

kheap_virtual_address(f) ==
    IF f = NoFrame \/ Backed(f) = {} THEN NoPage
    ELSE CHOOSE p \in Backed(f) : \A q \in Backed(f) : p <= q

kheap_physical_address(p) == pt[p]

\* The holder of a page table knows its physical address only.
KfreeTable(b) ==
    /\ proc = "idle"
    /\ KfreeAt(kheap_virtual_address(
                   kheap_physical_address(kHeapArr[b].first)))
    /\ live' = live \ {b}
    /\ UNCHANGED <<frames, startAdd, kHeapArr, strategy, size, short>>

\* Mutant: the count is compared with zero before it is decremented.
ReleaseFrameEarly(f) ==
    /\ references' = [references EXCEPT ![f] = references[f] - 1]
    /\ freeList' = IF references[f] = 0 THEN <<f>> \o freeList ELSE freeList

\* unmap_frame: decrement_references, and free_frame at zero.
ReleaseFrame(f) ==
    /\ references' = [references EXCEPT ![f] = references[f] - 1]
    /\ freeList' = IF references[f] = 1 THEN <<f>> \o freeList ELSE freeList

UnmapPage ==
    /\ proc = "unmap"
    /\ cur <= last
    /\ \/ pt[cur] = NoFrame /\ UNCHANGED <<references, freeList>>
       \/ pt[cur] # NoFrame /\ ReleaseFrame(pt[cur])
    /\ pt' = [pt EXCEPT ![cur] = NoFrame]
    /\ cur' = cur + 1
    /\ UNCHANGED <<upt, records, strategy, proc, size, first, last, short>>

UnmapDone ==
    /\ proc = "unmap"
    /\ cur > last
    /\ Return
    /\ UNCHANGED <<frames, records, strategy, short>>

-----------------------------------------------------------------------------
(* The rest of the kernel between two heap calls. *)

\* allocate_frame and map_frame of a user page (placement of a page).
UserMap(u) ==
    /\ proc = "idle"
    /\ upt[u] = NoFrame
    /\ TakeFrame
    /\ upt' = [upt EXCEPT ![u] = Head(freeList)]
    /\ UNCHANGED <<pt, records, strategy, proc, size, run, short>>

UserUnmap(u) ==
    /\ proc = "idle"
    /\ upt[u] # NoFrame
    /\ ReleaseFrame(upt[u])
    /\ upt' = [upt EXCEPT ![u] = NoFrame]
    /\ UNCHANGED <<pt, records, strategy, proc, size, run, short>>

SetKHeapPlacementStrategy(s) ==
    /\ proc = "idle"
    /\ strategy' = s
    /\ UNCHANGED <<frames, records, proc, size, run, short>>

-----------------------------------------------------------------------------
\* The steps of a call once it has been made.
KernelStep ==
    \/ SearchFits \/ SearchNull \/ SearchForever \/ ReturnNull
    \/ MapPage \/ MapPanic \/ MapDone
    \/ UnmapPage \/ UnmapDone

Next ==
    \/ \E n \in Sizes : Kmalloc(n)
    \/ \E b \in live : Kfree(b)
    \/ \E b \in live : KfreeTable(b)
    \/ \E u \in UserPages : UserMap(u)
    \/ \E u \in UserPages : UserUnmap(u)
    \/ \E s \in Strategies : SetKHeapPlacementStrategy(s)
    \/ KernelStep

Spec == Init /\ [][Next]_vars

-----------------------------------------------------------------------------
(* Properties *)

\* Type invariant: page tables and free_frame_list hold frames, startAdd stays
\* inside the heap or at its end, a record's run is inside the heap, and only
\* counted records are held.
TypeOK ==
    /\ pt \in [Pages -> Frames \cup {NoFrame}]
    /\ upt \in [UserPages -> Frames \cup {NoFrame}]
    /\ freeList \in Seq(Frames)
    /\ references \in [Frames -> Nat]
    /\ startAdd \in 0 .. NPages
    /\ kHeapArr \in Seq(Blocks)
    /\ strategy \in Strategies
    /\ proc \in Procs
    /\ size \in Nat
    /\ proc = "search" => size # 0
    /\ first \in Pages /\ last \in Pages /\ cur \in 0 .. NPages
    /\ live \subseteq 1 .. Len(kHeapArr)
    /\ short \in BOOLEAN

Listed(f) == \E i \in 1 .. Len(freeList) : freeList[i] = f
MappedInHeap(f) == \E p \in Pages : pt[p] = f
MappedByUser(f) == \E u \in UserPages : upt[u] = f

\* No frame is lost and none is handed out twice, whatever sequence of
\* kmalloc, kfree, placement and panics came before: every frame is on
\* free_frame_list exactly when no page maps it and its count is zero, it is
\* there once, and a frame in use backs exactly one page.
FramesConserved ==
    /\ \A f \in Frames : Listed(f) <=> ~(MappedInHeap(f) \/ MappedByUser(f))
    /\ \A f \in Frames : references[f] = IF Listed(f) THEN 0 ELSE 1
    /\ \A i, j \in 1 .. Len(freeList) : freeList[i] = freeList[j] => i = j
    /\ \A p, q \in Pages : pt[p] = pt[q] /\ pt[p] # NoFrame => p = q
    /\ \A u, v \in UserPages :
          upt[u] = upt[v] /\ upt[u] # NoFrame => u = v
    /\ \A p \in Pages, u \in UserPages : pt[p] = upt[u] => pt[p] = NoFrame

PagesOf(b) == kHeapArr[b].first .. kHeapArr[b].last

\* As long as no search has been granted a run across the top of the heap,
\* blocks held by different callers of kmalloc are disjoint and every page
\* of a held block is mapped.
BlocksIsolated ==
    ~short =>
      /\ \A b \in live : \A p \in PagesOf(b) : pt[p] # NoFrame
      /\ \A b, c \in live : b # c => PagesOf(b) \cap PagesOf(c) = {}

\* Under the same proviso no step of the kernel, of another caller's kmalloc
\* or kfree included, changes the frames behind a block that stays held:
\* kfree finds the record of its own caller among stale ones.
HeldBlocksUntouched ==
    [][~short' => \A b \in live \cap live' : \A p \in PagesOf(b) :
                     pt'[p] = pt[p]]_vars

Hole(p, n) == p + n <= NPages /\ \A q \in p .. p + n - 1 : pt[q] = NoFrame

\* kmalloc answers NULL under NEXTFIT only when every hole that is large
\* enough lies across the place where the search began.
NullMeansNoHole ==
    proc = "null" /\ strategy = "NEXTFIT" =>
        \A p \in Pages :
            Hole(p, size) => p < startAdd /\ startAdd < p + size

-----------------------------------------------------------------------------
\* Invariants of the proof: what FramesConserved and BlocksIsolated need to be
\* inductive.  The pages of a run that are still to be mapped are free.
RunFree ==
    proc = "map" => \A p \in Pages : cur <= p /\ p <= last => pt[p] = NoFrame

\* The pages already mapped for a run belong to it; neither a run being mapped
\* nor one being unmapped meets a held block; and no record after that of a
\* held block has the same first page.
HeldInv ==
    ~short =>
      /\ \A b \in live : kHeapArr[b].first <= kHeapArr[b].last
      /\ \A b \in live : \A p \in PagesOf(b) : pt[p] # NoFrame
      /\ \A b, c \in live : \A p \in PagesOf(b) : p \in PagesOf(c) => b = c
      /\ \A b \in live : \A c \in 1 .. Len(kHeapArr) :
            b < c => kHeapArr[c].first # kHeapArr[b].first
      /\ proc \in {"map", "unmap"} =>
            /\ first <= last /\ first <= cur
            /\ \A b \in live : \A p \in PagesOf(b) : ~(first <= p /\ p <= last)
      /\ proc = "map" =>
            \A p \in Pages : first <= p /\ p < cur => pt[p] # NoFrame

IInv == TypeOK /\ FramesConserved /\ RunFree /\ HeldInv
=============================================================================
