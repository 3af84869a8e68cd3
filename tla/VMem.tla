-------------------------------- MODULE VMem -------------------------------
(***************************************************************************)
(* Demand paging of user pages: the fault handlers of kern/trap.c, with    *)
(* the frame lists, page tables and working sets of kern/memory_manager.c  *)
(* and the page file of kern/file_manager.c as far as they are involved.   *)
(*                                                                         *)
(* An entry into the kernel is one step.  A page is a pair <<e, p>> of an  *)
(* environment and a page of its address space.  The heap pages of an      *)
(* environment share one page table, which freeMem releases when it has no *)
(* present page left; the table of the stack stays.  Contents are reduced  *)
(* to whether a copy (a frame, a disk page) is the newest one.             *)
(***************************************************************************)
EXTENDS Queues, FiniteSets

CONSTANTS
    NEnvs,       \* environments
    Frames,      \* physical frames
    NoFrame,     \* no frame: a page table or directory entry that is 0
    Heap, Stack, \* pages of the heap and of the stack of an environment
    Top,         \* the stack page that env_create loads
    Touches,     \* the pages that each program uses
    WSMax,       \* page_WS_max_size of every environment
    Lengths,     \* values of _ModifiedBufferLength
    NoPage       \* an empty slot of the working set

ASSUME SizesAssumption ==
    /\ NEnvs \in Nat \ {0}
    /\ IsFiniteSet(Frames) /\ NoFrame \notin Frames
    /\ Cardinality(Frames) >= NEnvs
    /\ WSMax \in [1 .. NEnvs -> Nat \ {0}]
    /\ Lengths \subseteq Nat
ASSUME PagesAssumption ==
    /\ Heap \cap Stack = {}
    /\ Top \in Stack
    /\ NoPage \notin Heap \cup Stack
    /\ Touches \subseteq (1 .. NEnvs) \X (Heap \cup Stack)

VARIABLES
    free,        \* free_frame_list, head first
    modif,       \* modified_frame_list
    isBuffered,  \* frames whose isBuffered is 1
    table,       \* frame of the page table of an environment's heap, or NoFrame
    frame,       \* frame in the page-table entry of a page, or NoFrame
    present,     \* pages whose entry has PERM_PRESENT ...
    buffered,    \* ... PERM_BUFFERED
    used,        \* ... PERM_USED
    modified,    \* ... PERM_MODIFIED
    ws,          \* ptr_pageWorkingSet of every environment
    last,        \* page_last_WS_index of every environment
    pf,          \* pages that are in the page file
    alive,       \* environments that have not exited
    mbLen,       \* _ModifiedBufferLength
    newestDisk,  \* ghost: pages whose disk copy is the newest contents
    newestMem,   \* ghost: frames that hold the newest contents of their page
    dropped,     \* ghost: pages whose newest contents the kernel let go of
    down         \* the kernel's lists or pointers are broken

lists == <<free, modif, isBuffered>>
tables == <<table, frame, present, buffered, used, modified>>
sets == <<ws, last>>
ghosts == <<newestDisk, newestMem, dropped>>
vars == <<lists, tables, sets, pf, alive, mbLen, ghosts, down>>

Envs == 1 .. NEnvs
Pages == Heap \cup Stack
Slots(e) == 0 .. WSMax[e] - 1

\* The frames in any order: the first ones are in use.
Orders ==
    {s \in [1 .. Cardinality(Frames) -> Frames] :
        \A i, j \in DOMAIN s : s[i] = s[j] => i = j}

\* env_create has loaded one page, the top of the stack, for everybody; the
\* memset that clears it sets its used and its modified bit.
Init ==
    /\ \E s \in Orders :
          /\ free = SubSeq(s, NEnvs + 1, Len(s))
          /\ frame = [x \in Envs \X Pages |->
                         IF x[2] = Top THEN s[x[1]] ELSE NoFrame]
          /\ newestMem = {s[e] : e \in Envs}
    /\ modif = << >>
    /\ isBuffered = {}
    /\ table = [e \in Envs |-> NoFrame]
    /\ present = Envs \X {Top}
    /\ buffered = {}
    /\ used = present
    /\ modified = present
    /\ ws = [e \in Envs |-> [i \in Slots(e) |-> IF i = 0 THEN Top ELSE NoPage]]
    /\ last = [e \in Envs |-> 1 % WSMax[e]]
    /\ pf = present
    /\ alive = Envs
    /\ mbLen \in Lengths
    /\ newestDisk = Envs \X Pages
    /\ dropped = {}
    /\ down = FALSE

-----------------------------------------------------------------------------
(* User code. *)

Runs(e) == e \in alive /\ ~down

Read(e, p) ==
    /\ Runs(e) /\ <<e, p>> \in present
    /\ used' = used \cup {<<e, p>>}
    /\ UNCHANGED <<lists, table, frame, present, buffered, modified, sets,
                   pf, alive, mbLen, ghosts, down>>

Write(e, p) ==
    /\ Runs(e) /\ <<e, p>> \in present
    /\ used' = used \cup {<<e, p>>}
    /\ modified' = modified \cup {<<e, p>>}
    /\ newestMem' = newestMem \cup {frame[<<e, p>>]}
    /\ newestDisk' = newestDisk \ {<<e, p>>}
    /\ dropped' = dropped \ {<<e, p>>}
    /\ UNCHANGED <<lists, table, frame, present, buffered, sets,
                   pf, alive, mbLen, down>>

Exit(e) ==
    /\ Runs(e)
    /\ alive' = alive \ {e}
    /\ UNCHANGED <<lists, tables, sets, pf, mbLen, ghosts, down>>

\* sys_allocateMem for a page of the heap: an empty page in the page file.
AllocateMem(e, p) ==
    /\ Runs(e) /\ <<e, p>> \notin pf
    /\ pf' = pf \cup {<<e, p>>}
    /\ newestDisk' = newestDisk \cup {<<e, p>>}
    /\ dropped' = dropped \ {<<e, p>>}
    /\ UNCHANGED <<lists, tables, sets, alive, mbLen, newestMem, down>>

-----------------------------------------------------------------------------
(* allocate_frame takes the head of the list l, while the frames of b are  *)
(* buffered.  An empty list is a panic and the environment exits.  For a   *)
(* buffered head the kernel clears a page table entry through              *)
(* frame->environment, which nobody sets: it follows a NULL pointer.       *)

Ready(l, b) == l # << >> /\ Head(l) \notin b
NullEnvironment(l, b) == l # << >> /\ Head(l) \in b

\* The kernel follows a NULL pointer: nothing is said about what comes next.
Broken ==
    /\ down' = TRUE
    /\ UNCHANGED <<lists, tables, sets, pf, alive, mbLen, ghosts>>

\* table_fault_handler: kmalloc gives the table one frame.
TableFault(e, p) ==
    /\ Runs(e) /\ p \in Heap
    /\ table[e] = NoFrame
    /\ \/ /\ Ready(free, isBuffered)
          /\ table' = [table EXCEPT ![e] = Head(free)]
          /\ free' = Tail(free)
          /\ UNCHANGED <<modif, isBuffered, frame, present, buffered, used,
                         modified, sets, pf, alive, mbLen, ghosts, down>>
       \/ /\ free = << >>
          /\ alive' = alive \ {e}
          /\ UNCHANGED <<lists, tables, sets, pf, mbLen, ghosts, down>>
       \/ NullEnvironment(free, isBuffered) /\ Broken

Faults(e, p) ==
    /\ Runs(e) /\ <<e, p>> \notin present
    /\ p \in Heap => table[e] # NoFrame

Full(e) == \A i \in Slots(e) : ws[e][i] # NoPage
FirstEmpty(e, i) ==
    ws[e][i] = NoPage /\ \A j \in Slots(e) : j < i => ws[e][j] # NoPage

\* Pages that a fault may bring in: the others end the environment.
Allowed(e, p) == <<e, p>> \in pf \/ p \in Stack

\* Mutant: the page is mapped but not read from the page file.
MapNoRead(e, p, f) ==
    /\ frame' = [frame EXCEPT ![<<e, p>>] = f]
    /\ newestMem' = newestMem \ {f}

\* map_frame writes a new entry, pf_read_env_page fills the frame (which sets
\* its used bit) and clears its modified bit.
Map(e, p, f) ==
    /\ frame' = [frame EXCEPT ![<<e, p>>] = f]
    /\ newestMem' = IF <<e, p>> \in newestDisk
                    THEN newestMem \cup {f} ELSE newestMem \ {f}

-----------------------------------------------------------------------------
(* page_fault_handler with room in the working set: placement, whether the *)
(* page is buffered or not.                                                *)

Placement(e, p) ==
    /\ Ready(free, isBuffered) /\ Allowed(e, p)
    /\ Map(e, p, Head(free))
    /\ free' = Tail(free)
    /\ present' = present \cup {<<e, p>>}
    /\ buffered' = buffered \ {<<e, p>>}
    /\ used' = used \cup {<<e, p>>}
    /\ modified' = modified \ {<<e, p>>}
    /\ pf' = pf \cup {<<e, p>>}
    /\ \E i \in Slots(e) : FirstEmpty(e, i) /\ ws' = [ws EXCEPT ![e][i] = p]
    /\ last' = [last EXCEPT ![e] = (@ + 1) % WSMax[e]]
    /\ dropped' = dropped \cup ({<<e, p>>} \ newestDisk)
    /\ UNCHANGED <<modif, isBuffered, table, alive, mbLen, newestDisk, down>>

\* The page is not in the page file and not on the stack: the frame is mapped
\* already when the environment ends.
PlacementPanic(e, p) ==
    /\ Ready(free, isBuffered) /\ ~Allowed(e, p)
    /\ Map(e, p, Head(free))
    /\ free' = Tail(free)
    /\ present' = present \cup {<<e, p>>}
    /\ buffered' = buffered \ {<<e, p>>}
    /\ used' = used \ {<<e, p>>}
    /\ modified' = modified \ {<<e, p>>}
    /\ alive' = alive \ {e}
    /\ UNCHANGED <<modif, isBuffered, table, sets, pf, mbLen, newestDisk,
                   dropped, down>>

PlacementNoFrame(e) ==
    \/ /\ free = << >>
       /\ alive' = alive \ {e}
       /\ UNCHANGED <<lists, tables, sets, pf, mbLen, ghosts, down>>
    \/ NullEnvironment(free, isBuffered) /\ Broken

-----------------------------------------------------------------------------
(* page_fault_handler with a full working set.  The modified clock: one    *)
(* lap for a page that is neither used nor modified; then one for a page   *)
(* that is not used, clearing used bits on the way; and both again.        *)

Dist(e, i) == (i - last[e]) % WSMax[e]
Unused(e) == {i \in Slots(e) : <<e, ws[e][i]>> \notin used}
Unmodified(e) == {i \in Slots(e) : <<e, ws[e][i]>> \notin modified}

Candidates(e) ==
    IF Unused(e) \cap Unmodified(e) # {} THEN Unused(e) \cap Unmodified(e)
    ELSE IF Unused(e) # {} THEN Unused(e)
    ELSE IF Unmodified(e) # {} THEN Unmodified(e)
    ELSE Slots(e)

Victim(e, i) ==
    /\ i \in Candidates(e)
    /\ \A j \in Candidates(e) : Dist(e, i) <= Dist(e, j)

\* Slots whose used bit the second lap clears.
Cleared(e, i) ==
    IF Unused(e) \cap Unmodified(e) # {} THEN {}
    ELSE IF Unused(e) # {} THEN {j \in Slots(e) : Dist(e, j) < Dist(e, i)}
    ELSE Slots(e)

\* Mutant: a modified page goes to the free list as well.
FreeAfterAlways(v, f) == Append(free, f)

\* Adding v to the modified list brings the list to the buffer length.
Flushes(v) == v \in modified /\ mbLen = Len(modif) + 1

\* The victim v, in frame f, goes to the tail of one of the lists.  The flush
\* then moves every modified frame to the free list, oldest first, and writes
\* none of them: it takes the page from frame->va, which nobody sets, and
\* ignores that pf_update_env_page finds no page 0 in the page file.  It also
\* clears the modified bit of page 0, so the pages stay buffered and modified.
FreeAfter(v, f) ==
    CASE v \notin modified -> Append(free, f)
      [] Flushes(v)        -> free \o Append(modif, f)
      [] OTHER             -> free
ModifAfter(v, f) ==
    CASE v \notin modified -> modif
      [] Flushes(v)        -> << >>
      [] OTHER             -> Append(modif, f)

UsedAfter(e, i) == used \ {<<e, ws[e][j]>> : j \in Cleared(e, i)}

\* LIST_REMOVE of the frame g.
Without(l, g) == RemoveAt(l, CHOOSE i \in 1 .. Len(l) : l[i] = g)

\* The fault page is still in its frame: it is taken back from the list that
\* its modified bit names.  A modified page that was flushed is in the other
\* list: LIST_REMOVE joins its neighbours there, but changes the size, and at an
\* end of the list the head or the tail, of the list that it was given.
Reclaim(e, p, i) ==
    LET v == <<e, ws[e][i]>>
        f == frame[v]
        g == frame[<<e, p>>]
        wrong == <<e, p>> \in modified /\ ~In(g, ModifAfter(v, f))
    IN /\ <<e, p>> \in buffered
       /\ free' = IF <<e, p>> \in modified /\ ~wrong
                  THEN FreeAfter(v, f) ELSE Without(FreeAfter(v, f), g)
       /\ modif' = IF <<e, p>> \in modified /\ ~wrong
                   THEN Without(ModifAfter(v, f), g) ELSE ModifAfter(v, f)
       /\ down' = wrong
       /\ isBuffered' = (isBuffered \cup {f}) \ {g}
       /\ present' = (present \ {v}) \cup {<<e, p>>}
       /\ buffered' = (buffered \cup {v}) \ {<<e, p>>}
       /\ used' = UsedAfter(e, i)
       /\ ws' = [ws EXCEPT ![e][i] = p]
       /\ last' = [last EXCEPT ![e] = (i + 1) % WSMax[e]]
       /\ UNCHANGED <<table, frame, modified, pf, alive, mbLen, ghosts>>

\* The fault page is read from the page file into a frame of its own.
Load(e, p, i) ==
    LET v == <<e, ws[e][i]>>
        f == frame[v]
        l == FreeAfter(v, f)
    IN /\ <<e, p>> \notin buffered
       /\ Ready(l, isBuffered \cup {f})
       /\ Map(e, p, Head(l))
       /\ free' = Tail(l)
       /\ modif' = ModifAfter(v, f)
       /\ isBuffered' = isBuffered \cup {f}
       /\ present' = (present \ {v}) \cup {<<e, p>>}
       /\ buffered' = buffered \cup {v}
       /\ used' = UsedAfter(e, i) \cup ({<<e, p>>} \cap pf)
       /\ modified' = modified \ {<<e, p>>}
       /\ UNCHANGED <<table, mbLen, newestDisk, dropped, down>>
       /\ \/ /\ Allowed(e, p)
             /\ pf' = pf \cup {<<e, p>>}
             /\ ws' = [ws EXCEPT ![e][i] = p]
             /\ last' = [last EXCEPT ![e] = (i + 1) % WSMax[e]]
             /\ UNCHANGED alive
          \/ /\ ~Allowed(e, p)
             /\ alive' = alive \ {e}
             /\ ws' = [ws EXCEPT ![e][i] = NoPage]
             /\ last' = [last EXCEPT ![e] = (i + 1) % WSMax[e]]
             /\ UNCHANGED pf

\* allocate_frame panics after the victim has left: its slot stays empty.
EvictPanic(e, i) ==
    LET v == <<e, ws[e][i]>>
        f == frame[v]
    IN /\ free' = FreeAfter(v, f)
       /\ modif' = ModifAfter(v, f)
       /\ isBuffered' = isBuffered \cup {f}
       /\ used' = UsedAfter(e, i)
       /\ present' = present \ {v}
       /\ buffered' = buffered \cup {v}
       /\ ws' = [ws EXCEPT ![e][i] = NoPage]
       /\ last' = [last EXCEPT ![e] = (i + 1) % WSMax[e]]
       /\ alive' = alive \ {e}
       /\ UNCHANGED <<table, frame, modified, pf, mbLen, ghosts, down>>

Replacement(e, p, i) ==
    LET v == <<e, ws[e][i]>>
        l == FreeAfter(v, frame[v])
    IN \/ Reclaim(e, p, i)
       \/ Load(e, p, i)
       \/ <<e, p>> \notin buffered /\ l = << >> /\ EvictPanic(e, i)
       \/ /\ <<e, p>> \notin buffered
          /\ NullEnvironment(l, isBuffered \cup {frame[v]})
          /\ Broken

PageFault(e, p) ==
    /\ Faults(e, p)
    /\ \/ /\ ~Full(e)
          /\ Placement(e, p) \/ PlacementPanic(e, p) \/ PlacementNoFrame(e)
       \/ /\ Full(e)
          /\ \E i \in Slots(e) : Victim(e, i) /\ Replacement(e, p, i)

-----------------------------------------------------------------------------
(* freeMem, for one page of the heap. *)

\* The heap's table has no present page left: its frame goes back to the free
\* list, and with it go the entries of buffered pages.
TableEmpty(e, pages) == \A q \in Heap : <<e, q>> \notin pages

Release(e, p, l, pages) ==
    IF table[e] # NoFrame /\ TableEmpty(e, pages)
    THEN /\ free' = <<table[e]>> \o l
         /\ table' = [table EXCEPT ![e] = NoFrame]
         /\ frame' = [x \in Envs \X Pages |->
                         IF x[1] = e /\ x[2] \in Heap THEN NoFrame ELSE frame[x]]
         /\ buffered' = buffered \ ({e} \X Heap)
         /\ used' = used \ ({e} \X Heap)
         /\ modified' = modified \ ({e} \X Heap)
         /\ dropped' = (dropped \cup ((buffered \cap ({e} \X Heap)) \ newestDisk))
                       \ {<<e, p>>}
    ELSE /\ free' = l
         /\ frame' = [frame EXCEPT ![<<e, p>>] = NoFrame]
         /\ used' = used \ {<<e, p>>}
         /\ modified' = modified \ {<<e, p>>}
         /\ dropped' = dropped \ {<<e, p>>}
         /\ UNCHANGED <<table, buffered>>

\* Mutant: the page leaves memory but stays in the working set.
FreeMemKeepsSlot(e, p) ==
    /\ Runs(e) /\ <<e, p>> \in pf /\ p \in Heap
    /\ pf' = pf \ {<<e, p>>}
    /\ <<e, p>> \in present
    /\ present' = present \ {<<e, p>>}
    /\ Release(e, p, <<frame[<<e, p>>]>> \o free, present \ {<<e, p>>})
    /\ newestDisk' = newestDisk \cup {<<e, p>>}
    /\ newestMem' = newestMem \ {frame[<<e, p>>]}
    /\ UNCHANGED <<modif, isBuffered, ws, last, alive, mbLen, down>>

FreeMem(e, p) ==
    /\ Runs(e) /\ <<e, p>> \in pf /\ p \in Heap
    /\ pf' = pf \ {<<e, p>>}
    /\ \/ /\ <<e, p>> \in present
          /\ ws' = [ws EXCEPT ![e] =
                       [i \in Slots(e) |-> IF @[i] = p THEN NoPage ELSE @[i]]]
          /\ present' = present \ {<<e, p>>}
          /\ Release(e, p, <<frame[<<e, p>>]>> \o free, present \ {<<e, p>>})
          /\ UNCHANGED <<modif, isBuffered, down>>
       \/ /\ frame[<<e, p>>] = NoFrame
          /\ Release(e, p, free, present)
          /\ UNCHANGED <<modif, isBuffered, present, ws, down>>
       \/ \* unmap_frame frees the frame of a buffered page, which is in one
          \* of the lists: its links are overwritten.
          /\ <<e, p>> \in buffered
          /\ free' = <<frame[<<e, p>>]>> \o free
          /\ isBuffered' = isBuffered \ {frame[<<e, p>>]}
          /\ buffered' = buffered \ {<<e, p>>}
          /\ frame' = [frame EXCEPT ![<<e, p>>] = NoFrame]
          /\ modified' = modified \ {<<e, p>>}
          /\ down' = TRUE
          /\ UNCHANGED <<modif, table, present, used, ws, dropped>>
    /\ newestDisk' = newestDisk \cup {<<e, p>>}
    /\ newestMem' = newestMem \ {frame[<<e, p>>]}
    /\ UNCHANGED <<last, alive, mbLen>>

-----------------------------------------------------------------------------
Next ==
    \/ \E e \in Envs : Exit(e)
    \/ \E x \in Touches :
          Read(x[1], x[2]) \/ Write(x[1], x[2]) \/ PageFault(x[1], x[2])
    \/ \E x \in {y \in Touches : y[2] \in Heap} :
          \/ AllocateMem(x[1], x[2]) \/ FreeMem(x[1], x[2])
          \/ TableFault(x[1], x[2])

Spec == Init /\ [][Next]_vars

-----------------------------------------------------------------------------
(* Properties *)

\* Type invariant: lists, tables and working sets hold frames and pages.
TypeOK ==
    /\ free \in Seq(Frames) /\ modif \in Seq(Frames)
    /\ isBuffered \subseteq Frames
    /\ table \in [Envs -> Frames \cup {NoFrame}]
    /\ frame \in [Envs \X Pages -> Frames \cup {NoFrame}]
    /\ present \subseteq Envs \X Pages /\ buffered \subseteq Envs \X Pages
    /\ used \subseteq Envs \X Pages /\ modified \subseteq Envs \X Pages
    /\ DOMAIN ws = Envs /\ DOMAIN last = Envs
    /\ \A e \in Envs : /\ ws[e] \in [Slots(e) -> Pages \cup {NoPage}]
                       /\ last[e] \in Slots(e)
    /\ pf \subseteq Envs \X Pages
    /\ alive \subseteq Envs
    /\ mbLen \in Nat
    /\ newestDisk \subseteq Envs \X Pages /\ newestMem \subseteq Frames
    /\ dropped \subseteq Envs \X Pages
    /\ down \in BOOLEAN

\* No frame is in a list twice or in two lists.
FrameInOneList ==
    /\ Once(free) /\ Once(modif)
    /\ \A f \in Frames : ~(In(f, free) /\ In(f, modif))

\* As long as the kernel has not broken its own lists: a frame is in one list
\* at most, pages in memory and page tables have frames of their own, and none
\* of those is in a list.
FramesApart ==
    ~down =>
        /\ FrameInOneList
        /\ \A x \in present : frame[x] # NoFrame /\ ~In(frame[x], free \o modif)
        /\ \A e \in Envs : /\ ~In(table[e], free \o modif)
                           /\ \A x \in present : frame[x] # table[e]
        /\ \A x, y \in present \cup buffered : frame[x] = frame[y] => x = y

\* A buffered page keeps its frame, marked, in one of the lists: an unmodified
\* page in the free list, a modified one in the modified list or, only if there
\* is a buffer length at which that list is flushed, in the free list.
BufferedKept ==
    ~down =>
        \A x \in buffered :
            /\ x \notin present
            /\ frame[x] \in isBuffered
            /\ \/ In(frame[x], free) /\ (x \in modified => mbLen # 0)
               \/ In(frame[x], modif) /\ x \in modified

\* The modified list is flushed before it outgrows the buffer length.
ModifiedBounded == ~down => mbLen = 0 \/ Len(modif) < mbLen

\* Until the kernel breaks its own lists (by freeing a buffered page, by taking a
\* flushed page back through the modified list, or by following a NULL pointer):
\* no frame has two owners (FramesApart), no buffered page loses its frame, and
\* only a flush moves the frame of a modified page to the free list
\* (BufferedKept), which happens before the list outgrows its length
\* (ModifiedBounded; page_fault_handler, freeMem).
FramesSound == TypeOK /\ FramesApart /\ BufferedKept /\ ModifiedBounded

\* The working set of a living environment lists exactly its pages in memory,
\* each once, through every mixture of faults and frees.
WSMatches ==
    ~down =>
        \A e \in alive :
            /\ \A p \in Pages :
                  <<e, p>> \in present <=> \E i \in Slots(e) : ws[e][i] = p
            /\ \A i, j \in Slots(e) :
                  ws[e][i] = ws[e][j] /\ ws[e][i] # NoPage => i = j

\* What a living environment last wrote to a page is in the page's frame, or
\* in the page file if it has none; and it is in the page file too unless the
\* page is marked modified: the flush, which writes nothing, keeps that bit.
\* Pages that placement or the release of a table dropped are excepted.
ContentsKept ==
    ~down =>
        \A x \in pf \ dropped :
            x[1] \in alive =>
                /\ frame[x] # NoFrame => frame[x] \in newestMem
                /\ frame[x] = NoFrame \/ x \notin modified => x \in newestDisk

-----------------------------------------------------------------------------
\* "modified stack page(s) not restored correctly" is a failure of
\* user/tst_page_replacement_stack.c: a page in memory has what was written to
\* it last.
ReadsBack ==
    \A x \in present : x[1] \in alive => frame[x] \in newestMem
=============================================================================
