------------------------------- MODULE Tables -------------------------------
(***************************************************************************)
(* The address spaces of the environments on top of physical frames and    *)
(* the kernel heap: get_page_table, create_page_table, map_frame,          *)
(* unmap_frame and freeMem (kern/memory_manager.c), and everything that     *)
(* calls them from outside: the system call __sys_allocate_page, the        *)
(* prompt's aup and rut commands, sys_clear_ffl and page faults.            *)
(*                                                                         *)
(* A user address is a page <<r, s>>: entry s of the table for region r     *)
(* (4 MB) of a page directory.  Page tables are pages of the kernel heap,   *)
(* and the kernel knows a table by its frame: kheap_virtual_address looks   *)
(* for the heap page that maps it.  Working sets, replacement and buffered  *)
(* pages are the subject of VMem; every page touched here can be placed.    *)
(***************************************************************************)
EXTENDS Integers, Sequences, FiniteSets, FiniteSetsExt, SequencesExt

CONSTANTS
    Envs,          \* environments
    NRegions,      \* regions of user space
    NSlots,        \* entries of a page table (1024)
    NPages,        \* pages of the kernel heap
    Frames,        \* physical frames that initialize_paging leaves free
    NoFrame,       \* an entry of a directory or table that is 0
    MaxRemoved     \* bound on directory entries that are not present

\* A directory entry that is not present and still holds the address of the
\* frame that was the table.
NotPresent == Frames \X {0}

ASSUME TablesAssumption ==
    /\ {NRegions, NSlots, NPages} \subseteq Nat \ {0}
    /\ IsFiniteSet(Frames)
    /\ NoFrame \notin Frames /\ NotPresent \cap (Frames \cup {NoFrame}) = {}

VARIABLES
    mem            \* the kernel's memory: a record, see Init

Regions == 0 .. NRegions - 1
Slots == 0 .. NSlots - 1
UserPages == Regions \X Slots
HeapPages == 0 .. NPages - 1
NULL == -1

Empty == [s \in Slots |-> NoFrame]

\* Frames have no numbers here: the list begins in any order.
Init ==
  \E list \in [1 .. Cardinality(Frames) -> Frames] :
    /\ IsInjective(list)
    /\ mem = [ dir     |-> [e \in Envs |-> [r \in Regions |-> NoFrame]],
            tab        |-> [f \in Frames |-> Empty],   \* the entries of a frame that is a table
            freeList   |-> list,                       \* free_frame_list, head first
            references |-> [f \in Frames |-> 0],
            pt         |-> [p \in HeapPages |-> NoFrame],  \* kernel heap page -> frame
            startAdd   |-> 0,
            strategy   |-> "NEXTFIT",                  \* _KHeapPlacementStrategy
            status     |-> "ok" ]                      \* "panic" unwinds a call; "down": see Down

Ok(m) == m.status = "ok"
\* The rest of a function after a call that may have ended it.
Then(m, Rest(_)) == IF Ok(m) THEN Rest(m) ELSE m
Panic(m) == [m EXCEPT !.status = "panic"]
\* A NULL table was used, or a frame taken away from under a page or table.
Down(m) == [m EXCEPT !.status = "down"]

-----------------------------------------------------------------------------
(* Frames and the kernel heap, whose blocks are single pages here. *)

\* The caller finds the frame in Head(m.freeList) before the call.
allocate_frame(m) ==
    IF m.freeList = <<>> THEN Panic(m)
    ELSE [m EXCEPT !.freeList = Tail(@), !.references[Head(m.freeList)] = 0]

\* What a frame holds is not read again before it is cleared.
free_frame(m, f) == [m EXCEPT !.freeList = <<f>> \o @, !.references[f] = 0, !.tab[f] = Empty]

\* A count below 0 stands for 65535 and less: the kernel heap has too few pages
\* to bring it down to 1.
decrement_references(m, f) ==
    IF m.references[f] = 1 THEN free_frame(m, f) ELSE [m EXCEPT !.references[f] = @ - 1]

\* The next-fit search for one page; from KERNEL_HEAP_MAX it has no last lap.
FreeSteps(m) == {k \in 0 .. NPages - 1 : m.pt[(m.startAdd + k) % NPages] = NoFrame}
kmalloc(m) ==
    IF m.strategy # "NEXTFIT" THEN [mem |-> m, va |-> NULL]
    ELSE IF FreeSteps(m) = {} THEN [mem |-> IF m.startAdd = NPages THEN Down(m) ELSE m, va |-> NULL]
    ELSE LET p == (m.startAdd + Min(FreeSteps(m))) % NPages
         IN  [mem |-> Then(allocate_frame(m), LAMBDA a :
                        [a EXCEPT !.pt[p] = Head(m.freeList), !.references[Head(m.freeList)] = 1,
                                  !.startAdd = p + 1]),
              va |-> p]

kheap_virtual_address(m, f) ==
    LET backed == {p \in HeapPages : p < m.startAdd /\ m.pt[p] = f}
    IN  IF f = NoFrame \/ backed = {} THEN NULL ELSE Min(backed)

\* Every heap page that is mapped has a record in kHeapArr, a block of its own.
kfree(m, p) ==
    IF p = NULL \/ m.pt[p] = NoFrame THEN m
    ELSE [decrement_references(m, m.pt[p]) EXCEPT !.pt[p] = NoFrame]

-----------------------------------------------------------------------------
(* Page tables *)

\* What get_page_table stores in *ptr_page_table: the frame of the table, 0
\* with TABLE_NOT_EXIST or TABLE_IN_MEMORY, or nothing, because the directory
\* entry is not 0 and not present and fault_handler(NULL) is called.
get_page_table(m, e, r) ==
    LET entry == m.dir[e][r]
    IN  IF entry = NoFrame THEN [ret |-> "TABLE_NOT_EXIST", table |-> NoFrame]
        ELSE IF entry \in NotPresent THEN [ret |-> "FAULT", table |-> NoFrame]
        ELSE [ret |-> "TABLE_IN_MEMORY",
              table |-> IF kheap_virtual_address(m, entry) = NULL THEN NoFrame ELSE entry]

\* kmalloc is not tested for NULL: the entries of the table at address 0 are
\* cleared, which faults inside the kernel.
create_page_table(m, e, r) ==
    LET k == kmalloc(m)
    IN  Then(k.mem, LAMBDA a :
          IF k.va = NULL THEN Down(a)
          ELSE [a EXCEPT !.dir[e][r] = a.pt[k.va], !.tab[a.pt[k.va]] = Empty])

\* The frame of an entry, whether the caller may trust it or not.
EntryAt(m, e, p) == LET t == get_page_table(m, e, p[1]).table
                    IN  IF t = NoFrame THEN NoFrame ELSE m.tab[t][p[2]]

unmap_frame(m, e, p) ==
    LET g == get_page_table(m, e, p[1])
        f == EntryAt(m, e, p)
    IN  IF g.ret = "FAULT" THEN Down(m)
        ELSE IF f = NoFrame THEN m
        ELSE [decrement_references(m, f) EXCEPT !.tab[g.table][p[2]] = NoFrame]

\* Mutant: the new mapping is not counted.
EnterUncounted(m, e, p, f) == [m EXCEPT !.tab[m.dir[e][p[1]]][p[2]] = f]

Enter(m, e, p, f) == [m EXCEPT !.references[f] = @ + 1, !.tab[m.dir[e][p[1]]][p[2]] = f]

\* Mutant: what was mapped before is overwritten.
map_frame_Overwrites(m, e, f, p) ==
    LET g == get_page_table(m, e, p[1])
    IN  IF g.ret = "TABLE_NOT_EXIST" THEN Then(create_page_table(m, e, p[1]), LAMBDA a : Enter(a, e, p, f))
        ELSE IF g.table = NoFrame THEN Down(m)   \* fault_handler(NULL), or an entry of the table at 0
        ELSE IF EntryAt(m, e, p) = f THEN m
        ELSE Enter(m, e, p, f)

map_frame(m, e, f, p) ==
    LET g == get_page_table(m, e, p[1])
    IN  IF g.ret = "TABLE_NOT_EXIST" THEN Then(create_page_table(m, e, p[1]), LAMBDA a : Enter(a, e, p, f))
        ELSE IF g.table = NoFrame THEN Down(m)   \* fault_handler(NULL), or an entry of the table at 0
        ELSE IF EntryAt(m, e, p) = f THEN m
        ELSE Enter(unmap_frame(m, e, p), e, p, f)

\* Mutant: only the entry of the page itself decides.
freeMemPage_OneEntry(m, e, p) ==
    Then(unmap_frame(m, e, p), LAMBDA a :
      LET t == get_page_table(a, e, p[1]).table
      IN  IF t = NoFrame \/ a.tab[t][p[2]] # NoFrame THEN a
          ELSE [free_frame(a, t) EXCEPT !.dir[e][p[1]] = NoFrame])

\* One iteration of freeMem's loop: the page, then its table if no entry of it
\* is present.  The table's frame goes to the free list and its kernel heap
\* page stays mapped.
freeMemPage(m, e, p) ==
    Then(unmap_frame(m, e, p), LAMBDA a :
      LET t == get_page_table(a, e, p[1]).table
      IN  IF t = NoFrame \/ \E s \in Slots : a.tab[t][s] # NoFrame THEN a
          ELSE [free_frame(a, t) EXCEPT !.dir[e][p[1]] = NoFrame])

\* A range of user space is a first page and a length; pages are in order.
PageAt(i) == <<i \div NSlots, i % NSlots>>
RangePages(first, n) == [i \in 1..n |-> PageAt(first + i - 1)]
Ranges == {x \in (0 .. NRegions * NSlots - 1) \X (1 .. NRegions * NSlots) : x[1] + x[2] <= NRegions * NSlots}

freeMem(m, e, range) ==
    LET done[i \in 0 .. range[2]] ==   \* when i pages have been looked at
          IF i = 0 THEN m
          ELSE Then(done[i - 1], LAMBDA a : freeMemPage(a, e, PageAt(range[1] + i - 1)))
    IN  done[range[2]]

\* Mutant: the tables are counted from the start address on.
calculate_required_frames_NoRound(m, e, range) ==
    LET tables == {r \in Regions : /\ \E k \in 0 .. NRegions : r * NSlots <= range[1] + k * NSlots
                                                              /\ range[1] + k * NSlots < range[1] + range[2]
                                                              /\ (range[1] + k * NSlots) \div NSlots = r
                                   /\ get_page_table(m, e, r).table = NoFrame}
        pages == {i \in range[1] .. range[1] + range[2] - 1 : EntryAt(m, e, PageAt(i)) = NoFrame}
    IN  Cardinality(tables) + Cardinality(pages)

\* Tables and pages that a range of addresses needs and does not have.
calculate_required_frames(m, e, range) ==
    LET tables == {r \in Regions : /\ r * NSlots < range[1] + range[2] /\ (r + 1) * NSlots > range[1]
                                   /\ get_page_table(m, e, r).table = NoFrame}
        pages == {i \in range[1] .. range[1] + range[2] - 1 : EntryAt(m, e, PageAt(i)) = NoFrame}
    IN  Cardinality(tables) + Cardinality(pages)

-----------------------------------------------------------------------------
(* What frames are used for. *)

Present(m) == {er \in Envs \X Regions : m.dir[er[1]][er[2]] \in Frames}
TableOf(m, er) == m.dir[er[1]][er[2]]
\* <<environment, region, slot>> of every page the processor can reach.
Mapped(m) == {ers \in Envs \X Regions \X Slots :
                 /\ <<ers[1], ers[2]>> \in Present(m)
                 /\ m.tab[TableOf(m, <<ers[1], ers[2]>>)][ers[3]] # NoFrame}
FrameOf(m, ers) == m.tab[TableOf(m, <<ers[1], ers[2]>>)][ers[3]]
PageFrames(m) == {FrameOf(m, ers) : ers \in Mapped(m)}
TableFrames(m) == {TableOf(m, er) : er \in Present(m)}
FreeFrames(m) == {m.freeList[i] : i \in 1 .. Len(m.freeList)}
InUse(m) == PageFrames(m) \cup TableFrames(m)

-----------------------------------------------------------------------------
(* Calls.  A panic ends the call (and the calling environment, whose memory *)
(* nobody returns: see Sched); the kernel goes on with what has been done.  *)
Ends(m) == mem' = IF m.status = "panic" THEN [m EXCEPT !.status = "ok"] ELSE m

NewPage(m, e, p) == Then(allocate_frame(m), LAMBDA a : map_frame(a, e, Head(m.freeList), p))

\* The prompt's aup command.
command_allocuserpage(e, p) == Ends(NewPage(mem, e, p))

\* The page is cleared through USER_LIMIT, which the kernel's own table for
\* the region of its stack maps and unmaps; a wrong address or permission is
\* found after the frame has been allocated.
sys_allocate_page(e, p, valid) == Ends(IF valid THEN NewPage(mem, e, p) ELSE allocate_frame(mem))

\* A program uses an address: a table fault, then a page fault.
table_fault_handler(m, e, p) == IF m.dir[e][p[1]] \notin Frames THEN create_page_table(m, e, p[1]) ELSE m
page_fault_handler(m, e, p) == IF m.tab[m.dir[e][p[1]]][p[2]] = NoFrame THEN NewPage(m, e, p) ELSE m
Touch(m, e, p) == Then(table_fault_handler(m, e, p), LAMBDA a : page_fault_handler(a, e, p))
Access(e, p) == Ends(Touch(mem, e, p))

sys_freeMem(e, range) == Ends(freeMem(mem, e, range))

\* The prompt's rut command. The present bit is cleared and the address stays,
\* so that a second rut gives away whatever heap page maps the frame by then.
remove_table(m, e, r) ==
    LET entry == m.dir[e][r]
        Page(f) == kheap_virtual_address(m, f)
    IN  IF entry = NoFrame THEN m
        ELSE IF entry \in Frames
             THEN [kfree(m, Page(entry)) EXCEPT !.dir[e][r] = <<entry, 0>>, !.tab[entry] = Empty]
        ELSE IF Page(entry[1]) # NULL /\ entry[1] \in InUse(m) THEN Down(kfree(m, Page(entry[1])))
        ELSE kfree(m, Page(entry[1]))
command_remove_table(e, r) ==
    /\ mem.dir[e][r] \in Frames =>
          Cardinality({er \in Envs \X Regions : TableOf(mem, er) \in NotPresent}) < MaxRemoved
    /\ Ends(remove_table(mem, e, r))

\* Every frame is taken off the list and its address forgotten.
sys_clearFFL == mem.freeList # <<>> /\ mem' = [mem EXCEPT !.freeList = <<>>]

\* The kheap* commands of the prompt; only next fit is implemented.
setKHeapPlacementStrategy == mem' = [mem EXCEPT !.strategy = IF @ = "NEXTFIT" THEN "BESTFIT" ELSE "NEXTFIT"]

Next ==
    /\ Ok(mem)
    /\ \/ \E e \in Envs, p \in UserPages :
            \/ command_allocuserpage(e, p)
            \/ \E valid \in BOOLEAN : sys_allocate_page(e, p, valid)
            \/ Access(e, p)
       \/ \E e \in Envs, range \in Ranges : sys_freeMem(e, range)
       \/ \E e \in Envs, r \in Regions : command_remove_table(e, r)
       \/ sys_clearFFL
       \/ setKHeapPlacementStrategy

Spec == Init /\ [][Next]_mem

-----------------------------------------------------------------------------
(* Properties *)

\* The kernel heap knows where every table is.
Findable(m) == \A er \in Present(m) : kheap_virtual_address(m, TableOf(m, er)) # NULL

\* Address spaces are apart: no two pages, of one environment or of two, have
\* the same frame, no page is a page table, no two directory entries name one
\* table, no frame in use is in free_frame_list or in it twice, and each has
\* exactly one reference -- although freeMem returns tables behind the back of
\* the kernel heap, whose pages keep mapping frames that are pages of others.
\* This holds until a second rut of one table takes the frame away from a page
\* or table that has got it meanwhile (Down in remove_table).
SpacesApart ==
    Ok(mem) =>
      /\ Cardinality(InUse(mem)) = Cardinality(Mapped(mem)) + Cardinality(Present(mem))
      /\ InUse(mem) \cap FreeFrames(mem) = {}
      /\ Cardinality(FreeFrames(mem)) = Len(mem.freeList)
      /\ \A f \in InUse(mem) : mem.references[f] = 1
      /\ \A f \in FreeFrames(mem) : mem.references[f] <= 0

Lost(m) == Frames \ (InUse(m) \cup FreeFrames(m))

\* What each call loses that does not panic: aup, __sys_allocate_page with a
\* valid address, a page's first use and freeMem over any range lose no frame
\* that was free or in use, also when the page was mapped before or its table
\* had to be created. A refused __sys_allocate_page loses the frame it took,
\* and nothing else; rut loses the pages of the table, and the table only if
\* the kernel heap does not find it. (sys_clear_ffl loses every free frame.)
Keeps(m, except) == Ok(m) => Lost(m) \subseteq Lost(mem) \cup except
TablePages(m, e, r) == {FrameOf(m, ers) : ers \in {x \in Mapped(m) : x[1] = e /\ x[2] = r}}
Unfound(m, e, r) == {f \in {m.dir[e][r]} \cap Frames : kheap_virtual_address(m, f) = NULL}
NothingLost ==
    Ok(mem) =>
      /\ \A e \in Envs, p \in UserPages : Keeps(NewPage(mem, e, p), {}) /\ Keeps(Touch(mem, e, p), {})
      /\ \A e \in Envs, range \in Ranges : Keeps(freeMem(mem, e, range), {})
      /\ mem.freeList # <<>> => Keeps(allocate_frame(mem), {Head(mem.freeList)})
      /\ \A e \in Envs, r \in Regions :
            Keeps(remove_table(mem, e, r), TablePages(mem, e, r) \cup Unfound(mem, e, r))

\* freeMem removes exactly the range: none of its pages stays mapped, all
\* others keep their frames, and the tables that remain are those of the
\* regions outside the range and those with a page left in them -- as long as
\* the kernel heap finds the tables.
FreeMemExact ==
    Ok(mem) /\ Findable(mem) => \A e \in Envs, range \in Ranges :
      LET m == freeMem(mem, e, range)
          gone == {<<e>> \o RangePages(range[1], range[2])[i] : i \in 1 .. range[2]}
      IN  Ok(m) => /\ Mapped(m) = Mapped(mem) \ gone
                   /\ \A ers \in Mapped(m) : FrameOf(m, ers) = FrameOf(mem, ers)
                   /\ Present(m) = {er \in Present(mem) :
                         \/ \E ers \in Mapped(m) : er = <<ers[1], ers[2]>>
                         \/ \A ers \in gone : er # <<ers[1], ers[2]>>}

\* The number of frames calculate_required_frames announces is the number that
\* leave free_frame_list when every page of the range is then used, however the
\* range lies across the regions (for a removed table the call does not return).
UseAll(m, e, range) ==
    LET done[i \in 0 .. range[2]] ==
          IF i = 0 THEN m
          ELSE Then(done[i - 1], LAMBDA a : Touch(a, e, PageAt(range[1] + i - 1)))
    IN  done[range[2]]
RequiredFramesExact ==
    Ok(mem) /\ Findable(mem) => \A e \in Envs, range \in Ranges :
      LET m == UseAll(mem, e, range)
      IN  Ok(m) /\ (\A r \in Regions : mem.dir[e][r] \notin NotPresent) =>
            Len(mem.freeList) - Len(m.freeList) = calculate_required_frames(mem, e, range)
=============================================================================
