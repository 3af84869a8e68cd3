------------------------------- MODULE Loader ------------------------------
(***************************************************************************)
(* env_create (kern/user_environment.c): a program is loaded.  Pages of    *)
(* its segments go to memory as long as the working set has room; all of   *)
(* them go to the page file, page by page, with the first and the last     *)
(* page of the file data put together in a temporary page.  Every frame    *)
(* and every disk frame may be the last one: allocate_frame panics, and so *)
(* does env_create when the page file is full.                             *)
(*                                                                         *)
(* Addresses are unsigned numbers modulo Width.  Byte k of the file data   *)
(* of segment s is <<s, k>>.                                               *)
(***************************************************************************)
EXTENDS Integers, Sequences, FiniteSets

CONSTANTS
    P,           \* PAGE_SIZE
    Width,       \* 2^32: addresses wrap there
    TableSpan,   \* pages of one page table
    StackPage,   \* the page of the initial stack
    Programs,    \* programs: sequences of segments [va, file, mem]
    WSSizes,     \* values of page_WS_size
    DebugVA,     \* segment of which only Cap pages are loaded
    Cap,         \* 6 in the code
    TWSMax,      \* __TWS_MAX_SIZE
    NFrames,     \* free frames and disk frames before the call, at most
    NDisk

\* What the linker script of user programs and the memory layout guarantee: a
\* segment begins in a page after the end of those before it, one that does not
\* begin at a page boundary fills its first page, and all end below the stack.
ASSUME LoaderAssumption ==
    /\ P \in Nat \ {0} /\ TableSpan \in Nat \ {0}
    /\ Width \in Nat \ {0} /\ Width % P = 0
    /\ StackPage \in 0 .. Width \div P - 1
    /\ WSSizes \subseteq Nat \ {0}
    /\ Cap \in Nat /\ TWSMax \in Nat \ {0} /\ NFrames \in Nat /\ NDisk \in Nat
    /\ Programs \subseteq Seq([va : Nat, file : Nat, mem : Nat]) \ {<<>>}
    /\ \A g \in Programs : \A s \in 1 .. Len(g) :
          /\ g[s].file <= g[s].mem
          /\ g[s].va + g[s].mem <= StackPage * P
          /\ g[s].va % P # 0 => (g[s].va % P) + g[s].file > P
          /\ \A t \in 1 .. s - 1 :
                g[t].va + g[t].mem <= g[s].va - (g[s].va % P)

VARIABLES
    prog,        \* the program
    tpp,         \* it is the test program of which all pages are loaded
    wsMax,       \* page_WS_max_size
    pc,          \* what env_create does next
    seg,         \* the segment it has reached
    va,          \* the address its loop has reached
    src,         \* src_ptr, counted from the start of the file data
    hand,        \* a frame has been allocated and not been mapped yet
    pages,       \* allocated_pages of this segment
    left,        \* remaining_ws_pages
    ws,          \* working set: slot -> page or NoPage
    last,        \* page_last_WS_index
    lastTable,   \* lastTableNumber
    tws,         \* table_last_WS_index
    mapped,      \* pages in memory
    mem,         \* their contents
    modified,    \* pages with PERM_MODIFIED
    inFile,      \* pages in the page file
    file,        \* their contents
    tables,      \* page tables that exist
    diskTables,  \* disk page tables that exist
    diskDir,     \* the disk page directory exists
    frames,      \* free frames
    disk         \* free disk frames

segment == <<seg, va, src, hand, pages, left>>
program == <<prog, tpp, wsMax>>
tableWS == <<lastTable, tws>>
memory == <<ws, last, tableWS, mapped, mem, modified, tables>>
pfile == <<inFile, file, diskTables, diskDir, disk>>
vars == <<program, pc, segment, memory, pfile, frames>>

Pages == 0 .. Width \div P - 1
NoPage == -1
Zero == <<0, 0>>
Junk == <<0, 1>>     \* what a frame held before
Offsets == 0 .. P - 1
Blank == [o \in Offsets |-> Zero]

RoundDown(a) == a - (a % P)
RoundUp(a) == RoundDown((a + P - 1) % Width)
Page(a) == a \div P
Table(p) == p \div TableSpan

Seg == prog[seg]
EndOfFile == Seg.va + Seg.file

Init ==
    /\ prog \in Programs
    /\ tpp \in BOOLEAN
    /\ wsMax \in WSSizes
    /\ pc = "directory"
    /\ seg = 1 /\ va = 0 /\ src = 0 /\ hand = FALSE /\ pages = 0 /\ left = 0
    /\ ws = [i \in 0 .. wsMax - 1 |-> NoPage]
    /\ last = 0 /\ lastTable = -1 /\ tws = 0
    /\ mapped = {} /\ modified = {} /\ tables = {}
    /\ mem = [p \in Pages |-> [o \in Offsets |-> Junk]]
    /\ inFile = {} /\ diskTables = {} /\ diskDir = FALSE
    /\ file = mem
    /\ frames \in 0 .. NFrames
    /\ disk \in 0 .. NDisk

-----------------------------------------------------------------------------
(* initialize_environment: directory, working set and its table. *)

Room == wsMax - 1

Prepare ==
    /\ frames > 0
    /\ frames' = frames - 1
    /\ \/ pc = "directory" /\ pc' = "ws" /\ UNCHANGED <<segment, memory>>
       \/ pc = "ws" /\ pc' = "wstable" /\ UNCHANGED <<segment, memory>>
       \/ /\ pc = "wstable" /\ pc' = "map"
          /\ va' = RoundDown(Seg.va)
          /\ left' = Room
          /\ UNCHANGED <<seg, src, hand, pages, memory>>
    /\ UNCHANGED <<program, pfile>>

-----------------------------------------------------------------------------
(* program_segment_alloc_map_copy_workingset *)

SegmentRoom == 
    IF RoundDown(Seg.va) = DebugVA /\ ~tpp /\ left > Cap THEN Cap ELSE left

MoreToMap == va < RoundUp(Seg.va + Seg.mem) /\ pages < SegmentRoom

\* allocate_frame, for a page of the segment or for the stack.
TakePageFrame ==
    /\ (pc = "map" /\ MoreToMap) \/ pc = "stack"
    /\ ~hand /\ frames > 0
    /\ frames' = frames - 1
    /\ hand' = TRUE
    /\ UNCHANGED <<program, pc, seg, va, src, pages, left, memory, pfile>>

\* loadtime_map_frame creates the page table when there is none.
NeedsTable == pc \in {"map", "stack"} /\ hand /\ Table(Page(va)) \notin tables

CreateTable ==
    /\ NeedsTable /\ frames > 0
    /\ frames' = frames - 1
    /\ tables' = tables \cup {Table(Page(va))}
    /\ UNCHANGED <<program, pc, segment, ws, last, tableWS, mapped, mem,
                   modified, pfile>>

EnterWS(p) ==
    /\ ws' = [ws EXCEPT ![last] = p]
    /\ last' = (last + 1) % wsMax

\* addTableToTableWorkingSet, unless the page is in the table of the page
\* before; env_create panics when the table working set has become full.
EnterTableWS(t) ==
    \/ t = lastTable /\ UNCHANGED <<pc, tableWS>>
    \/ /\ t # lastTable
       /\ lastTable' = t
       /\ tws' = (tws + 1) % TWSMax
       /\ pc' = IF tws' = 0 THEN "panic" ELSE pc

\* Mutant: "*allocated_pages ++", which counts nothing.
MapPageNoCount ==
    /\ pc = "map" /\ hand /\ Table(Page(va)) \in tables
    /\ hand' = FALSE
    /\ mapped' = mapped \cup {Page(va)}
    /\ EnterWS(Page(va))
    /\ EnterTableWS(Table(Page(va)))
    /\ va' = va + P
    /\ UNCHANGED <<program, seg, src, left, pages, mem, modified, tables, pfile,
                   frames>>

MapPage ==
    /\ pc = "map" /\ hand /\ Table(Page(va)) \in tables
    /\ hand' = FALSE
    /\ mapped' = mapped \cup {Page(va)}
    /\ EnterWS(Page(va))
    /\ EnterTableWS(Table(Page(va)))
    /\ va' = va + P
    /\ pages' = pages + 1
    /\ UNCHANGED <<program, seg, src, left, mem, modified, tables, pfile,
                   frames>>

\* The file data is copied to the pages in memory, the rest is zeroed; bytes
\* before the segment keep what they were.
CopySegment ==
    /\ pc = "map" /\ ~hand /\ ~MoreToMap
    /\ LET end == RoundDown(Seg.va) + pages * P
           Byte(a, old) == IF a < Seg.va \/ a >= end THEN old
                           ELSE IF a < EndOfFile THEN <<seg, a - Seg.va>>
                           ELSE Zero
       IN mem' = [p \in Pages |->
                     [o \in Offsets |-> Byte(p * P + o, mem[p][o])]]
    /\ modified' = modified \cup
           {p \in Pages : Page(Seg.va) <= p /\ p < Page(Seg.va) + pages}
    /\ left' = left - pages
    /\ pages' = 0
    /\ pc' = "first"
    /\ UNCHANGED <<program, seg, va, src, hand, ws, last, tableWS, mapped,
                   tables,
                   pfile, frames>>

-----------------------------------------------------------------------------
(* The segment goes to the page file: pf_add_env_page of one page after    *)
(* the other.                                                              *)

Data(k) == <<seg, k>>

StartOfLast == RoundDown(EndOfFile)

\* Bytes that follow the file data up to the end of the segment; the
\* difference may be below zero.
RemainingLength == (Seg.va + Seg.mem - RoundUp(EndOfFile)) % Width

\* Mutant: the data starts at the beginning of the temporary page.
FirstPageNoOffset ==
    [o \in Offsets |-> IF Seg.va % P = 0 THEN Zero ELSE Data(o)]

\* The temporary page in front of the first page boundary.
FirstPage ==
    [o \in Offsets |->
        IF Seg.va % P = 0 \/ o < Seg.va % P THEN Zero ELSE Data(o - (Seg.va % P))]

LastPage ==
    [o \in Offsets |-> IF StartOfLast + o < EndOfFile THEN Data(src + o) ELSE Zero]

\* The page being written: its address and its contents.
Target ==
    CASE pc = "first" -> RoundDown(Seg.va)
      [] pc = "last" -> StartOfLast
      [] OTHER -> va
Contents ==
    CASE pc = "first" -> FirstPage
      [] pc = "middle" -> [o \in Offsets |-> Data(src + o)]
      [] pc = "last" -> LastPage
      [] OTHER -> Blank

Writing ==
    \/ pc \in {"first", "last"}
    \/ pc = "middle" /\ va < StartOfLast
    \/ pc = "rest" /\ va < RoundUp(EndOfFile) + RoundUp(RemainingLength)
    \/ pc = "stackfile"

\* get_disk_page_directory and get_disk_page_table take a frame each the first
\* time.
CreateDiskDirectory ==
    /\ Writing /\ ~diskDir /\ frames > 0
    /\ frames' = frames - 1
    /\ diskDir' = TRUE
    /\ UNCHANGED <<program, pc, segment, memory, inFile, file, diskTables, disk>>

CreateDiskTable ==
    /\ Writing /\ diskDir /\ Table(Page(Target)) \notin diskTables
    /\ frames > 0
    /\ frames' = frames - 1
    /\ diskTables' = diskTables \cup {Table(Page(Target))}
    /\ UNCHANGED <<program, pc, segment, memory, inFile, file, diskDir, disk>>

TableReady == diskDir /\ Table(Page(Target)) \in diskTables

\* pf_add_env_page: a new disk frame unless the page has one already.
pf_add_env_page ==
    /\ Writing /\ TableReady
    /\ Page(Target) \in inFile \/ disk > 0
    /\ disk' = IF Page(Target) \in inFile THEN disk ELSE disk - 1
    /\ inFile' = inFile \cup {Page(Target)}
    /\ file' = [file EXCEPT ![Page(Target)] = Contents]
    /\ UNCHANGED <<diskTables, diskDir>>

NoDiskFrame == TableReady /\ Page(Target) \notin inFile /\ disk = 0

WriteFirst ==
    /\ pc = "first"
    /\ pf_add_env_page
    /\ va' = RoundUp(Seg.va)
    /\ src' = RoundUp(Seg.va) - Seg.va
    /\ pc' = "middle"
    /\ UNCHANGED <<program, seg, hand, pages, left, memory, frames>>

\* Mutant: the loop does not advance.
WriteMiddleStays ==
    /\ pc = "middle"
    /\ pf_add_env_page
    /\ UNCHANGED <<program, pc, segment, memory, frames>>

WriteMiddle ==
    /\ pc = "middle"
    /\ pf_add_env_page
    /\ va' = va + P /\ src' = src + P
    /\ UNCHANGED <<program, pc, seg, hand, pages, left, memory, frames>>

WriteLast ==
    /\ pc = "last"
    /\ pf_add_env_page
    /\ va' = RoundUp(EndOfFile)
    /\ pc' = "rest"
    /\ UNCHANGED <<program, seg, src, hand, pages, left, memory, frames>>

WriteRest ==
    /\ pc = "rest"
    /\ pf_add_env_page
    /\ va' = va + P
    /\ UNCHANGED <<program, pc, seg, src, hand, pages, left, memory, frames>>

EndMiddle ==
    /\ pc = "middle" /\ ~Writing
    /\ pc' = "last"
    /\ UNCHANGED <<program, segment, memory, pfile, frames>>

\* PROGRAM_SEGMENT_NEXT finds one.
MoreSegments == seg < Len(prog)

\* PROGRAM_SEGMENT_FOREACH: the next segment, or the pages in memory are
\* declared clean and the stack comes.
EndSegment ==
    /\ pc = "rest" /\ ~Writing
    /\ \/ /\ MoreSegments
          /\ seg' = seg + 1
          /\ va' = RoundDown(prog[seg + 1].va)
          /\ pc' = "map"
          /\ UNCHANGED modified
       \/ /\ ~MoreSegments
          /\ modified' = modified \ {ws[i] : i \in DOMAIN ws}
          /\ va' = StackPage * P
          /\ pc' = "stack"
          /\ UNCHANGED seg
    /\ UNCHANGED <<program, src, hand, pages, left, ws, last, tableWS,
                   mapped, mem, tables, pfile, frames>>

-----------------------------------------------------------------------------
MapStack ==
    /\ pc = "stack" /\ hand /\ Table(StackPage) \in tables
    /\ hand' = FALSE
    /\ mapped' = mapped \cup {StackPage}
    /\ mem' = [mem EXCEPT ![StackPage] = Blank]
    /\ modified' = modified \cup {StackPage}
    /\ EnterWS(StackPage)
    /\ pc' = "stackfile"
    /\ UNCHANGED <<program, seg, va, src, pages, left, tableWS, tables, pfile,
                   frames>>

\* That the page file is full is not noticed here.
WriteStack ==
    /\ pc = "stackfile"
    /\ pf_add_env_page \/ (NoDiskFrame /\ UNCHANGED pfile)
    /\ pc' = "done"
    /\ UNCHANGED <<program, segment, memory, frames>>

\* allocate_frame finds no frame, or a page finds no place in the page file.
LoadPanic ==
    /\ \/ /\ frames = 0
          /\ \/ pc \in {"directory", "ws", "wstable"}
             \/ ((pc = "map" /\ MoreToMap) \/ pc = "stack") /\ ~hand
             \/ NeedsTable
             \/ Writing /\ ~TableReady
       \/ pc # "stackfile" /\ Writing /\ NoDiskFrame
    /\ pc' = "panic"
    /\ UNCHANGED <<program, segment, memory, pfile, frames>>

Next ==
    \/ Prepare \/ TakePageFrame \/ CreateTable \/ MapPage \/ CopySegment
    \/ CreateDiskDirectory \/ CreateDiskTable \/ WriteFirst \/ WriteMiddle
    \/ EndMiddle \/ WriteLast \/ WriteRest \/ EndSegment \/ MapStack \/ WriteStack \/ LoadPanic

\* The kernel is not preemptible: env_create runs on until it ends.
Spec == Init /\ [][Next]_vars /\ WF_vars(Next)

-----------------------------------------------------------------------------
(* Properties *)

\* Type invariant: the working set holds pages, its index stays inside it,
\* addresses stay below their limit and the free counts do not go below zero.
TypeOK ==
    /\ ws \in [0 .. wsMax - 1 -> Pages \cup {NoPage}]
    /\ last \in 0 .. wsMax - 1
    /\ va \in 0 .. Width - 1
    /\ mapped \subseteq Pages /\ inFile \subseteq Pages
    /\ left \in 0 .. wsMax
    /\ frames \in Nat /\ disk \in Nat

\* Addresses of a segment, and the byte the program expects at each.
Span(s) == prog[s].va .. prog[s].va + prog[s].mem - 1
Expected(s, a) ==
    IF a < prog[s].va + prog[s].file THEN <<s, a - prog[s].va>> ELSE Zero

\* When env_create returns, every byte of every segment is in the page file:
\* no segment's temporary or empty page has overwritten a page of another one.
FileHasProgram ==
    pc = "done" =>
        \A s \in DOMAIN prog : \A a \in Span(s) :
            /\ Page(a) \in inFile
            /\ file[Page(a)][a % P] = Expected(s, a)

\* A page in memory that is not marked modified may be evicted without being
\* written: its bytes are those of the page file.
CleanPagesMatch ==
    pc = "done" =>
        \A s \in DOMAIN prog : \A a \in Span(s) :
            Page(a) \in mapped \ modified =>
                mem[Page(a)][a % P] = file[Page(a)][a % P]

\* The working set of a new environment lists exactly its pages in memory, the
\* stack among them: the index has not run over an entry.
WSListsMemory ==
    pc = "done" =>
        /\ StackPage \in mapped
        /\ {ws[i] : i \in DOMAIN ws} \ {NoPage} = mapped

\* What env_create leaves in memory can be trusted: pages declared clean match
\* the page file (CleanPagesMatch), the working set is the memory
\* (WSListsMemory), and index and addresses have not left their ranges.
MemoryMatches == TypeOK /\ CleanPagesMatch /\ WSListsMemory

\* env_create ends: none of its loops runs away when a length is below zero.
CreationEnds == <>(pc \in {"done", "panic"})
=============================================================================
