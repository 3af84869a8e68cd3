# FOS kernel: TLA+ models, checks and proofs

FOS is a small x86 teaching kernel (`FOS_PROJECT_2022_Term2_Template/`). It
manages physical frames, a kernel heap, page tables, demand paging with a page
file, a user heap, environments (processes) and a round-robin scheduler, and it
has a command prompt, a C library and a collection of user programs. This
directory models the parts that keep state which several callers change and the
algorithms the others rest on, checks them with TLC on small instances, and
proves with TLAPS, for instances of any size, the safety of the kernel heap, the
scheduler, the user heap, demand paging, program loading, lists, page tables and
the way of a key to its reader.

File names below are relative to `FOS_PROJECT_2022_Term2_Template/`.

## The system

| component | state | operations | what makes it correct |
|---|---|---|---|
| physical frames (`kern/memory_manager.c`) | `free_frame_list`, `modified_frame_list`, `references`, `isBuffered` | `allocate_frame`, `free_frame`, `map_frame`, `unmap_frame` | a frame is in one list or behind one page; none is lost |
| kernel heap (`kern/kheap.c`) | `startAdd`, `IDX`, `kHeapArr`, the kernel's page tables | `kmalloc`, `kfree`, `kheap_virtual_address`, `kheap_physical_address` | blocks are apart, fully backed, and untouched while held; NULL means no room; calls return |
| page fault handler (`kern/trap.c`) | page-table entries, working sets, `page_last_WS_index` | `table_fault_handler`, `placement`, `page_fault_handler` | a working set is the pages in memory; what a program wrote is read back |
| page file (`kern/file_manager.c`) | `disk_free_frame_list`, disk page tables | `pf_add_*`, `pf_read_*`, `pf_update_*`, `pf_remove_*` | disk frames are conserved |
| user heap (`lib/uheap.c`) | `startAdd`, `checkList`, `uHeapArr` | `malloc`, `free` | blocks are apart; free returns what malloc took |
| program loading (`kern/user_environment.c`) | directory, page tables, working set, page file of a new environment | `env_create` and what it calls | every byte of the program is in the page file, pages in memory agree with it; loading ends |
| lists (`inc/queue.h`) | `lh_first`, `lh_last`, `size`, `___ptr_next`, `le_next`, `le_prev` | `LIST_INIT`, insertions, `LIST_REMOVE`, `LIST_FOREACH` | they are sequences, and a loop meets every element once |
| range calls (`kern/memory_manager.c`) | as above | `allocateMem`, `freeMem` | all pages of a block exist; memory and page file are both released |
| environments (`kern/user_environment.c`) | `envs[]`, `env_free_list`, `env_status` | `env_create`, `env_free`, `env_exit` | an environment is in one list; its status says which |
| scheduler (`kern/sched.c`) | the new, ready and exit queues, `curenv`, `scheduler_status` | `fos_scheduler`, clock interrupt, run, exit, kill | round robin without overtaking or starvation; the prompt opens only when nobody can run |
| panic (`kern/init.c`) | none of its own | `_panic` | ends the running environment, not the kernel |
| page tables (`kern/memory_manager.c`) | directories, tables in the kernel heap | `get_page_table`, `create_page_table`, `map_frame`, `unmap_frame`, `freeMem`, `calculate_required_frames`, `rut`, `aup` | address spaces are apart, no frame is lost, the announced number of frames is the number used |
| console (`kern/console.c`, `lib/console.c`, `lib/readline.c`) | the ring, shift state, the screen | keyboard and serial interrupts, `cons_getc`, `cga_putc`, `readline`, `atomic_readline` | nothing is lost or reordered; a line read atomically is one program's |
| command prompt (`kern/command_prompt.c`) | the line, the history, the completions | one branch per key, `execute_command` | what is executed is what is shown |
| boot (`boot/main.c`, `kern/helpers.c`, `kern/memory_manager.c`) | `ptr_free_mem`, the first directory, the frame array | `cmain`, `initialize_kernel_VM`, `turn_on_paging`, `initialize_paging` | the image is whole; what the kernel uses is mapped and not free |
| library (`lib/string.c`, `lib/printfmt.c`, `lib/printf.c`, `lib/disk.c`), backtrace (`kern/kdebug.c`) | none | pure routines | they compute what their callers rely on |
| system calls (`lib/syscall.c`, `kern/trap.c`, `kern/syscall.c`) | none of their own | stub, trap, switch | the right function gets the right arguments |
| user programs (`user/`) | arrays on the user heap, their interrupt flag | tests, sorting programs | the tests' assertions hold; dialogues are whole; memory is given back |

How they interact. Everything above runs inside one kernel that is not
preemptible: an interrupt, a system call, a fault or a command runs to its end
before the next begins. What is concurrent is the order in which environments
enter it. Inside one entry the hard cases come from *panics*: `_panic` does not
stop the machine but exits the running environment and schedules the next one,
so every multi-step operation (mapping a run of pages, evicting a page and
loading another, creating or killing an environment) can be left half done,
with the kernel going on. `allocate_frame` panics when there is no frame, so
almost every operation can.

Shared state: frames are shared by the kernel heap, page tables and user pages;
disk frames by all environments; the two link fields of an `Env` by all lists
of environments, and those of a `Frame_Info` by both frame lists.

The hazards this leads to are listed, with their source lines and the
properties that address them, in `PROJECT.json`.

## Modules

| module | models | source |
|---|---|---|
| `KHeap` | frames and the kernel heap, with user pages competing for frames | `kern/kheap.c`, `kern/memory_manager.c` |
| `KHeapSearch` | `KHeap` with the search loop of `nextFitAlgo` step by step; implements `KHeap` | `kern/kheap.c` |
| `KHeapProofs` | theorems about `KHeap` and `KHeapSearch` | |
| `Queues` | lists as sequences: membership, insertion, removal, moving all | `inc/queue.h`, `kern/sched.c` |
| `EnvLife` | abstract: the life of an environment, without queues | |
| `Sched` | environments and the round-robin scheduler; implements `EnvLife` | `kern/sched.c`, `kern/user_environment.c`, `kern/init.c`, `kern/command_prompt.c`, `kern/syscall.c` |
| `SchedProofs` | theorems about `Sched` and `EnvLife`, lemmas about `Queues` | |
| `UHeap` | the user heap over a shared page file | `lib/uheap.c`, `kern/memory_manager.c`, `kern/file_manager.c` |
| `UHeapSearch` | `UHeap` with the search loop of the library's `nextFitAlgo` step by step; implements `UHeap` | `lib/uheap.c` |
| `UHeapProofs` | theorems about `UHeap` and `UHeapSearch` | |
| `VMem` | demand paging, replacement, frame lists, `freeMem` in memory | `kern/trap.c`, `kern/memory_manager.c`, `kern/file_manager.c` |
| `VMemProofs` | theorems about `VMem` | |
| `Loader` | `env_create`: a program goes to memory and to the page file | `kern/user_environment.c`, `kern/file_manager.c`, `kern/memory_manager.c` |
| `LoaderProofs` | theorems about `Loader` | |
| `Lists` | abstract: lists as sequences, a loop as the elements still to be met | |
| `ListLinks` | the list macros, link by link; implements `Lists` | `inc/queue.h` |
| `ListProofs` | theorems about `ListLinks` and `Lists` | |
| `Tables` | page tables as blocks of the kernel heap, two address spaces | `kern/memory_manager.c`, `kern/kheap.c`, `kern/trap.c`, `kern/syscall.c`, `kern/command_prompt.c` |
| `TablesProofs` | theorems about `Tables` | |
| `Console` | keyboard, ring, screen as operators on the console's state | `kern/console.c` |
| `Prompt` | keys, the line editor of the prompt, two programs that read lines; extends `Console` | `kern/command_prompt.c`, `lib/readline.c`, `lib/console.c` |
| `PromptProofs` | theorems about `Console` and `Prompt` | |
| `Strings`, `Printfmt` | library routines as operators | `lib/string.c`, `lib/printfmt.c`, `lib/printf.c`, `kern/printf.c` |
| `Stabs`, `Disk`, `BootMem` | the backtrace, boot loader and disk driver, the first page tables | `kern/kdebug.c`, `boot/main.c`, `lib/disk.c`, `kern/helpers.c`, `kern/memory_manager.c` |
| `EnvIds` | ids, generations and `envid2env` | `kern/user_environment.c`, `kern/helpers.c`, `inc/environment_definitions.h` |
| `Syscalls` | the way of a system call from its stub to its case | `lib/syscall.c`, `kern/trap.c`, `kern/syscall.c`, `inc/syscall.h` |
| `Sorting` | quick sort, merge sort, the k-th element | `user/` |
| `Algorithms` | one call of any of these routines and the reference it is compared with; extends the six lines above | |
| `ProgramMemory` | the heap of one program in intervals, with the frames and disk pages it takes | `lib/uheap.c`, `kern/memory_manager.c`, `kern/trap.c` |
| `HeapTests`, `Sorters` | the tests and the sorting programs as lists of steps | `user/tst_*.c`, `user/*sort*.c`, `user/fos_*.c` |
| `Programs` | those programs at work, alone or in pairs under the clock; extends the three above | |
| `MCKHeap`, `MCSched`, `MCVMem`, `MCLoader`, `MCTables`, `MCPrompt`, `MCAlgorithms`, `MCPrograms` | values of constants for TLC | |

Definitions whose comment begins with "Mutant" are plausible mistakes in the
code next to them. They are used by no specification: each shows that a
property notices the mistake (`PROJECT.json`, `mutants`).

### KHeap

Addresses are page numbers `0 .. NPages-1`; `KERNEL_HEAP_MAX` is `NPages`. `pt`
is the kernel's page tables over the heap, `upt` those of user pages outside
it. `kHeapArr` holds the records `0 .. IDX-1`; records are never removed, as in
the code. `proc`, `size`, `first`, `last`, `cur` are the call in progress.

- `Kmalloc` makes the call; `SearchFits`, `SearchNull`, `SearchForever` are the
  outcomes of the search; `MapPage` is one iteration of the mapping loop,
  `MapPanic` the panic in it, `MapDone` the rest of the function.
- `Kfree` finds the last matching record; `UnmapPage` is one iteration.
  `KfreeTable` is a kfree through `kheap_virtual_address` of a physical
  address, as for page tables.
- `UserMap` and `UserUnmap` are placement and unmapping of user pages between
  two heap calls.

`live` (which blocks are held) and `short` (a run across the top has been
granted) are ghosts. The outcome of the search is the closed form
`FirstFit`: the first iteration at which the last `n` pages seen were free.
`KHeapSearch` adds the locals of the loop (`i`, the run length `x`, the visits
`y` of `startAdd`, the ends of the run) and takes one step per iteration; that
it implements `KHeap` says that the loop and the closed form agree in every
state the heap can reach. `freeMem`, which frees
the frame of a page table without telling the kernel heap, is an action of
`Tables`.

Three things the code does and the model shows, each with its proviso in the
properties: a run across the top of the heap is granted with `first` above
`last`, so that fewer pages are mapped than were asked for (`short`); a search
that begins at `KERNEL_HEAP_MAX` and finds no hole never ends
(`SearchForever`); and `kheap_virtual_address` stops at `startAdd`, so that it
misses blocks above it after the search has wrapped (`KfreeTable` then frees
nothing).

### Sched and EnvLife

Lists are sequences with the head first: `enqueue` inserts at the head and
`dequeue` takes the tail. One kernel entry is one step. `fos_scheduler(r, cur,
st)` is called with the queue, current environment and statuses its caller has
left; `Panic` is the tail of every handler that fails. `env_free` always panics
in this repository, so every kill takes its target out of its queue, then ends
the caller. `down` is set when the kernel follows a NULL `curenv`.

`EnvLife` says where an environment may be and how it may move, that at most
one runs, and that the processor is not idle while one is ready. `Sched`
implements it with `place[e]` computed from the lists (`ImplementsLife`).
A slot that a panic left in no list is `lost`.

### UHeap

`UHeap` grants a run by the closed form `NextFit`; `UHeapSearch` walks
the heap as the code does, with `spacePages` unsigned, and implements `UHeap`
(a walk is invisible there until it grants). `checkList[p]` is the size of the block at page `p`; `uHeapArr` is keyed by
first page because the code uses one record per page index. `others` stands for
all other users of the page file; they run between any two iterations of the
walk, because `malloc` is user code. `allocateMem` and `freeMem` are one step
each: the kernel does not interleave within them. `allocateMem` ignores a full
page file, and so does the model: a block may then have pages that are nowhere,
and its program ends at the first access to one.

### VMem

A page is a pair of environment and page number. Page-table entries are the
frame and four sets (`present`, `buffered`, `used`, `modified`). Contents are
reduced to whether a copy is the newest: `newestMem` (frames), `newestDisk`
(disk pages), and `dropped` for pages whose newest copy the code gives up
(placement of a buffered page, release of a table with buffered entries).
`Read` and `Write` are user code; `PageFault` is the whole handler. The
modified clock is given by its outcome: `Candidates` in the order of its four
laps, `Victim` the first from the hand on, `Cleared` the used bits it resets.
`down` is set where the code breaks its own lists or follows a NULL pointer:
`allocate_frame` of a buffered frame (`Frame_Info.environment` is never set),
`freeMem` of an evicted page, and the return of a flushed page (`Reclaim`).
Nothing is claimed after that.

An eviction that brings the modified list to its length flushes it (`Flushes`,
`FreeAfter`, `ModifAfter`) and the handler goes on. The loop writes nothing: it
takes the page from `frame->va`, which no code sets, `pf_update_env_page` does
not find page 0, and the error is ignored; it then clears the modified bit of
page 0, whose table exists in every program (`user/user.ld` puts a segment at
0x200000). So the frames go to the tail of the free list while their pages stay
buffered and modified. Such a page still has its contents (`ContentsKept`), but
a fault on it removes its frame from the free list through the head and the size
of the modified list, which is where the model stops.

With buffering enabled, every fault panics ("not required"); this, a fault
outside user space, and any other panic are `Exit`.

### Loader

Addresses are bytes modulo `Width`, which stands for 2^32; a page has `P`
bytes. Byte `k` of the file data of segment `s` is the value `<<s, k>>`, so a
byte that ends up in the wrong place, or that another page overwrites, is seen.
`pc` is the part of `env_create` that comes next: the directory and the shared
working set (`Prepare`), then for each segment the pages that go to memory
(`TakePageFrame`, `CreateTable`, `MapPage`, `CopySegment`) and the four parts
written to the page file (`WriteFirst`, `WriteMiddle`, `WriteLast`,
`WriteRest`), then the stack. Every allocation is a step of its own that may
find nothing left (`LoadPanic`). A working set fits into one page and the
kernel heap has room: `KHeap` is where it has not.

`LoaderAssumption` states what the linker script (`user/user.ld`) and the memory
layout give the loader: no segment has more file data than memory; a segment
that does not begin at a page boundary (the text, at 0x800020) fills its first
page (for a shorter one the last page would be put together from the wrong
place); segments come in ascending order and none begins in the page in which
an earlier one ends (symbols at 0x200000, text at 0x800020, data after
`ALIGN(0x1000)`); all end below the stack page, which lies below `Width`. Where
two segments shared a page, `CopySegment` and `WriteFirst` of the second would
overwrite the tail of the first.

### Lists and ListLinks

One action per macro. Callers insert an element that is in no list and remove
one from the list it is in (`MayInsert`, the guard of `LIST_REMOVE`): `OnePlace`
of `Sched` and `FramesApart` of `VMem` check that discipline on the callers'
side. While a loop runs, its body may remove the element it has
reached and put it into another list, as `sched_run_all` does.
`ImplementsLists` maps the links to sequences and the rest of the loop to what
follows `___ptr_next`. What following a link from an element meets is `Chain`:
the one sequence, no longer than there are elements (`Chains`), each of whose
elements links to the next and the last to `Null` (`Follows`). `Ends`, part of
`WellLinked`, says that there is one, so that no list is a circle.

### Tables

`mem` is the machine: `free_frame_list`, `references`, the kernel heap's own
page table and `startAdd`, the directories and the tables. A table is known by
its frame, as in the code: `get_page_table` asks `kheap_virtual_address` where
it is. Operators compute the state after a C function, so that a handler is one
action that composes them: `NewPage` (allocate and map), `Touch` (a table fault,
then a page fault), `freeMem` page by page (`done[i]` is the memory when `i`
pages of the range have been looked at), `sys_allocate_page`,
`command_allocuserpage`, `command_remove_table` (`rut`), `sys_clearFFL` (takes
every free frame). A panic ends the entry and leaves what was done
(`Ends`). The state is `down` once a NULL table is used: `kmalloc` answered
NULL in `create_page_table`, a table that is present was not found because the
search had wrapped, or a removed table faults inside the kernel
(`fault_handler(NULL)`). `rut` clears the present bit of a directory entry and
leaves the frame's address (`NotPresent`), and does not look at the bit: a second
`rut` frees whichever heap page maps that frame by then. As long as that frame
is in no use this only unmaps a heap page; when it has become somebody's page or
table, it is taken away from under it, and the state is `down` too
(`remove_table`). Nothing is claimed after that.

The heap pages of tables that `freeMem` released are never given back, and keep
mapping frames that belong to others: `SpacesApart` says that the address spaces
stay apart all the same, and the heap of 2 pages runs full in the model. A page
at `USER_LIMIT` is in the region of the kernel stack, whose table always exists.
`__sys_allocate_page` with a bad address or bad permissions has taken a frame
before it looks, and loses it; `rut` loses the pages of the table it removes.
`NothingLost` says of every call what it may lose, and that it loses no more.

### Console and Prompt

`Press`, `Release` and `SerialInput` are the devices; every other action is a
reader. `con` holds the ring with its two positions, the shift state and the
screen with its cursor (`con.screen`, all that output changes); `ed` the line of the prompt; `rd[p]` that of program `p`. One
key is one step of `command_prompt_readline`, with the drawing that follows it.
`con.unread` is a ghost, the characters in the ring as a sequence; a character
that fills the ring makes it look empty (`con.overrun`), and the properties hold
before. `ed.plain` says that no arrow or delete key was used: the code then
keeps buffer and screen in step, except that a completion without a match cuts
the last argument from the buffer only. Uninitialised locals (`last_c`,
`prefix_list_size`) are left over from the line before. `Beyond` stands for the
memory behind `command_history[]`, which down-arrow reads one entry too far.
`lastIndex` counts every character typed and no backspace takes one back, so that
after `BUFLEN` of them a key reads or writes behind `buf`, however short the
line: `PromptOverrun` is that key, and sets `mode` to `down`, after which nothing
is claimed.

### Algorithms

`Init` draws a job, the name of a routine with its arguments; one action per
routine computes the result; the invariants compare it with a definition of what
the routine is for. The definitions say what the code computes, with its faults:

- `ltostr` stops at a zero digit (105 is written as 5) and writes the most
  negative number as garbage that reads as 0; a number's sign stands before its
  padding and outside the width; `%-5d` pads on the left with `-`;
- the kernel's `cprintf` counts in the pointer and returns 0;
- `stab_binsearch` advances `addr`, a pointer, by four (`PtrStep`), so it is
  exact only when entries are further apart;
- `KthElement` is wrong when values repeat;
- `detect_memory` finds no memory when there is none above 16 MB and none
  extended; the first page tables are not cleared;
- `envid2env` of id 0 is the calling environment, whatever its own id;
- `ENVX` masks with `NENV - 1` although `NENV` (1266) is no power of two:
  see the run `env_ids`;
- eleven system calls have no case and answer `-E_INVAL` (all semaphores and
  shared objects among them), and three cases drop the result (`Unserved`,
  `Dropped`).

### Programs

A program is a list of steps (`HeapTests`, `Sorters`), translated from its
`_main`; `Programs` has an action per kind of step. A heap test runs alone on the
real heap of 131072 pages, which `ProgramMemory` keeps as intervals, with the
working set's entries and the values stored; each of its assertions on malloc and
free (addresses, frames, disk pages, entries of the working set, values read
back, accesses that must fault) is a comparison with the model, and a failed one
sets its status to `failed`. That the working set and the heap are as large as
the test wants, which the tests look at first, is assumed. `tst_free_1` looks for
block 1 in the working set when it has freed block 7, as the code does. The sorting programs run in pairs under the clock. `if` is the
interrupt flag: between `lock` and `unlock` steps the clock does not preempt.
Semaphores do nothing (the calls are not served). A `Merge` is one step. A
semi-random array of fewer than three elements divides by zero: the trap returns to the same
instruction, and the program hangs. `quicksort1` to `quicksort3` write
`Elements[N]`, which faults when `N` is a multiple of 1024.

`QSort` on an ascending or descending array, `factorial` and `fibonacci` call
themselves `n` deep (`Recurse`): every `CallsPerPage` calls touch a new page of
the stack, which takes a frame and a page of the page file and stays until the
program ends. On a semi-random array the depth is left open between none and
`n`. The merge sorts stay in the first page of the stack.

## Runs

| run | instance | checks | result |
|---|---|---|---|
| `kheap` | 5 pages, 4 frames, 1 user page, requests of 1, 2, 3, 6, 4 records | `FramesConserved`, `BlocksIsolated`, `HeldBlocksUntouched`, `ImplementsKHeap`, `KmallocReturns` | hold |
| `sched` | 4 environments | `QueuesSound`, `NoOvertaking`, `SelfCheckHolds`, `ReadyRuns`, `ImplementsLife` | hold |
| `uheap` | 5 pages, 3 disk frames, requests of 1, 2, 3, 6 | `TablesSound`, `DiskConserved`, `HeldPagesKept`, `ImplementsUHeap`, `MallocAnswers` | hold |
| `vmem` | 2 environments, 5 frames, working sets of 2 and 1, buffer lengths 0 and 2 | `FramesSound`, `WSMatches`, `ContentsKept` | hold |
| `loader` | 20 programs of three segments, pages of 4 bytes, working sets of 1, 2, 4 and 9, every number of free frames up to 24 and of disk frames up to 10 | `FileHasProgram`, `MemoryMatches`, `CreationEnds` | hold |
| `lists` | 3 lists, 3 elements | `WellLinked`, `ImplementsLists` | hold |
| `tables` | 2 environments with 2 regions of 3 pages, 4 frames, 2 heap pages, 1 directory entry not present | `SpacesApart`, `FreeMemExact`, `NothingLost`, `RequiredFramesExact` | hold |
| `prompt` | 2 programs, a ring of 3, a screen of 2 by 5, a line buffer of 4, 8 strokes, 3 commands | `KeyboardSound`, `LineAsShown`, `AtomicLine` | hold |
| `programs` | 6 tests and 2 programs alone, 8 pairs of programs, 2 rounds | `TestsPass`, `NothingKept`, `WholeDialogue`, `AllFinish` | hold |
| `algorithms` | 26804 calls | `LibraryExact`, `SymbolFound`, `BootSafe`, `IdNamesOne`, `CallsArrive`, `SortsAll` | hold |
| `vmem_lost` | as `vmem` | `ReadsBack` | violated |
| `env_ids` | 6 slots | `EveryIdFound` | violated |

Invariants that belong together are checked under one name: `QueuesSound`,
`TablesSound`, `FramesSound`, `MemoryMatches`, `WellLinked` and `KeyboardSound`
are a type invariant with the facts their comments name, `LineAsShown` includes
that the cursor and the editor stay in their bounds, `KmallocReturns` and
`MallocAnswers` join termination with the meaning of NULL, and `LibraryExact`
and `BootSafe` join the references of several routines.

Why the bounds are enough to see the interesting cases.

- `kheap`: five pages hold a block on both sides of a hole, a block that ends
  at the top (so the next search begins at `KERNEL_HEAP_MAX`) and a run across
  the top; a request of 6 pages can never fit; the user page can take the frame
  that makes the mapping loop panic halfway; four records allow two stale ones
  with the same first page beside two held blocks. `MaxAllocs` stands for the
  array's `Mega` entries; the code does not test it.
- `sched`: four environments are two that wait in order, one that runs and one
  being created or killed.
- `uheap`: fewer disk frames than heap pages, so the page file is full for the
  program alone as well as because of others; five pages hold two blocks with a
  hole between them and one behind, so that walks skip, wrap and fail.
- `loader`: the segments end before, at and after page boundaries, with and
  without zeroed memory behind the file data (so `remainingLength` is positive,
  zero and below zero), one has no file data at all, and they lie in two or
  three page tables; the largest working set holds everything, the smallest
  only the stack; the limit of 3 tables is reached by some programs.
- `lists`: three elements are a first, a middle and a last one; three lists are
  the one a loop runs over, the one it moves elements to, and another.
- `vmem`: five frames are fewer than pages and tables together, so allocation
  fails, buffered frames reach the head of the free list, and both programs
  compete. A working set of 2 has a hand to move; a length of 2 is reached by
  the modified list, while 0 (the default) never is. Frames are symmetric: the
  model compares them only for equality, and `Init` allows every order.
- `tables`: ranges of one to six pages begin and end inside a region, at its
  border and across it; two heap pages are fewer than the four tables; one
  removed table is enough for a second `rut` to meet its frame in other hands
  (`MaxRemoved` bounds the entries left behind); four frames are fewer than the tables and pages together. Frames and environments
  are symmetric: nothing compares them but for equality.
- `prompt`: a ring of 3 is filled by two strokes and a serial character; the
  cursor begins in the last row, so lines scroll; eight strokes, of which a
  letter, backspace and enter count one each and other keys two (`PlainKeys`),
  are enough for a recall or a completion that follows an edit, and for
  characters, backspaces and a last key that goes beyond a buffer of four.
  `KbdMax`, `MaxStrokes`,
  `MaxReads` and `MaxLines` bound the environment, not the code.
- `programs`: six pages make the leaking programs run out in the second round;
  one pair has 8 frames, so that a fault finds none. `CallsPerPage` is 512, so
  that 1024 calls need two pages of the stack; a call of `QSort` takes about 60
  bytes, and the real number is near 64. `MaxRounds` is when the user answers n.
- `algorithms`: every overlap of moves of up to 3 bytes; words of up to 3
  letters; every 8-bit number (`LongBits`); lines of up to 6 characters for 3
  arguments; symbol tables of 5 entries; segments that share sectors; arrays of
  up to 5 elements; memories in which the last page of the kernel falls at every
  place of a table's region; `NENV` = 6, no power of two, as 1266 is not;
  every system call.

Deadlock is not checked where the program may stop: an endless search, a
followed NULL pointer, the end of `env_create`, of a call or of all programs,
or the bounds of the user at the keyboard. `uheap` and `lists` check it.

### Fairness

- `KHeapSearch!LFairSpec`: weak fairness of the steps of a call in progress.
  Nothing preempts the kernel. `Loader!Spec`: the same for `env_create`.
- `Sched!FairSpec`: strong fairness of the clock interrupt, weak fairness of
  `SysEnableInterrupt`. The clock ticks for ever and a tick that arrives while
  interrupts are disabled stays pending at the interrupt controller; user
  programs disable interrupts around a piece of terminal input or output and
  enable them again (`lib/printf.c`, `lib/console.c`, `lib/readline.c`). Strong fairness is needed because the
  interrupt is enabled and disabled again by the running program.
- `UHeapSearch!SSpec`: weak fairness of the walk of `malloc`, which runs on
  whenever its program has the processor (`ReadyRuns` of `Sched`).

- `Programs!Spec`: strong fairness of the steps of each program, because the
  clock gives the processor to everyone again and again (`ReadyRuns` of
  `Sched`), a program that disabled interrupts goes on undisturbed, and the
  user answers a question. `AllFinish` excepts runs in which a program hangs.

No fairness is assumed of user programs in the other models, of commands, exits
or devices.

### What the violations show

Each is described with its source lines under `findings` in `PROJECT.json`.
`vmem_lost`: after a free made room in the working set, a fault on a page whose
modified frame is buffered reads the old contents from the page file. `env_ids`:
`envid2env` does not find environments whose slot has a bit outside `NENV - 1`.

Other disagreements between comments or tests and the code are part of the
models, where the passing properties name them as provisos (`~short`, `~down`,
`dropped`, `Findable`, `con.overrun`, `ed.plain`, `Unserved`, `Dropped`) and so
say what remains true in spite of them:

- `kern/kheap.c:126`, `:24`, `:25`: see KHeap above;
- `kern/memory_manager.c:750`: `allocateMem` ignores a full page file;
- `kern/memory_manager.c:778`: `freeMem` of an evicted page frees a frame that
  is still in a frame list;
- `kern/memory_manager.c:791`: `freeMem` returns a table's frame behind the back
  of the kernel heap;
- `kern/memory_manager.c:551`: the NULL of `kmalloc` is not tested;
- `kern/syscall.c:160`: a refused `__sys_allocate_page` loses its frame;
- `kern/command_prompt.c:630`: `rut` leaves the address of the table it frees,
  and a second one frees another's (`remove_table`);
- `kern/trap.c:574`: the flush writes nothing and moves the frames of modified
  pages to the free list, from which `:588` then removes them as if they were in
  the modified list;
- `kern/console.c:400`: a full ring looks empty;
- `kern/command_prompt.c:256`, `:382`: the history is read beyond its ends;
  `:361`: `lastIndex` never shrinks with backspace, and the final 0 of a short
  line is written behind `buf` (`:375`);
- `lib/printfmt.c:108` calls `-` the "flag to pad on the right", and the number
  routine uses it as the character to pad with on the left: `%-5d` of 7 is
  `----7`. `LibraryExact` claims nothing of numbers printed with that flag;
- `lib/string.c:246`: `ltostr` of 105 is `5`. `LibraryExact` is about numbers
  that have no zero before their last digit;
- `user/quicksort.c:174`: the division by zero; `user/quicksort1.c:34`:
  `Elements[N]`; the `Merge` of the merge sorts does not test the NULL of
  `malloc`;
- the routines listed under Algorithms.

## Proofs

Eight modules hold proofs. Each theorem holds for every value of the constants
that satisfies the assumptions named with it; TLC evaluates those assumptions in
the runs. A proof has one lemma per action, and under it one step per part of
the invariant that the action can disturb.

### Kernel heap: `KHeapProofs`

For every number of pages, set of frames, initial order of the free list, set of
user pages, request sizes and number of records:

- `FramesSafe`: `Spec => [](TypeOK /\ FramesConserved)`;
- `BlocksSafe`: `Spec => []BlocksIsolated`;
- `HeldBlocksSafe`: `Spec => HeldBlocksUntouched`;
- `LoopImplementsFirstFit`: `LSpec => ImplementsKHeap`;
- `NullSafe`: `LSpec => []NullMeansNoHole`, the safety half of
  `KmallocReturns`: after NULL no hole of the size asked for exists, except one
  that lies across `startAdd`, which the code refuses.

Assumptions: the heap has a page, `NoFrame` is no frame, the initial free list
holds every frame exactly once, requests are positive. A request of 0 is
excluded: `kmalloc(0)` would find an empty run.

The inductive invariant `IInv` adds to the type invariant and
`FramesConserved`:

- `RunFree`: the pages of a run still to be mapped are free. Without it
  `MapPage` could overwrite an entry and lose the frame in it.
- `HeldInv`: the pages of a run in progress are disjoint from held blocks; the
  pages mapped so far are mapped; and no record after that of a held block has
  the same first page. The last part is why `kfree`, which takes the last
  matching record, unmaps its caller's block and no other, although records of
  freed blocks remain.

A run is granted only if all its pages are free, hence it meets no held block;
mapping moves the head of the free list, which backs no page, behind a free
page; unmapping moves a frame with one reference back.

For the loop, `Searching(k)` says what its locals are when iteration `k`
begins: the page it looks at is the `k`-th from `startAdd` on, the last `x`
pages were free and the one before them was not, `startAdd` has been visited
once, and no earlier iteration completed a run. A run is complete for the first
time exactly at the iteration `FirstFit` names. Where the loop gives up depends
on `startAdd`: below the end of the heap the second visit comes after one lap
(`k = NPages`), which is all the closed form looks at; at `KERNEL_HEAP_MAX` the
loop never visits `startAdd` and has no last lap, but the pages it sees repeat
with period `NPages` (`AtPeriod`), so a run it finds at all it finds within the
bound of `Iterations`. A loop that spins is a stutter of `KHeap`; that it spins
only there is part of `KmallocReturns`, which TLC checks.

### Scheduler: `SchedProofs`

For every number of environments and every initial order of the free list:

- `ListsSafe`: `Spec => []QueuesSound`;
- `RoundRobinSafe`: `Spec => NoOvertaking`;
- `SelfCheckSafe`: `Spec => SelfCheckHolds`;
- `LifeImplemented`: `Spec => ImplementsLife`.

Assumptions: `NoEnv` is no environment, the initial free list holds every
environment once.

A handler changes the lists in stages: it takes an environment out of a list,
then the scheduler or a panic runs on what is left. The invariant is therefore
an operator, `Sound(f, n, r, x, c, st)`, of the values between two stages; there
is a lemma per stage (dequeue, enqueue, `fos_scheduler`, `Panic`), and the lemma
of an action chains them. `QueuesSound` is `Sound` of the variables with the
prompt rule, and it is inductive. What the stages need to know of sequences
(membership after an insertion, a removal or moving all; that elements stay
single; that the order of those who stay is kept) comes first in the module,
and `VMemProofs` has the same facts for its frame lists. The refinement is shown per environment: a step moves each one along an edge of
`EnvLife` or leaves it (`MovesOf`).

### User heap: `UHeapProofs`

For every heap size, number of disk frames and set of positive request sizes:

- `TablesSafe`: `Spec => []TablesSound`;
- `DiskSafe`: `Spec => []DiskConserved`;
- `HeldPagesSafe`: `Spec => HeldPagesKept`;
- `LoopImplementsNextFit`: `SSpec => ImplementsUHeap`;
- `NullSafe`: `SSpec => []NullMeansNoRun`, the safety half of `MallocAnswers`.

The last two assume that the heap has fewer pages than the unsigned counter of
the walk can count (`WidthAssumption`: 131072 pages against 2^32).

`TablesSound` is inductive. `DiskConserved` needs it: the pages `free` gives
back belong to no other block. For the walk, `Walking(a, z, s, sp, n)` says
that page `a` is inside no block that begins before it, that a run of `z` free
pages begins at `s` and reaches `a`, that no run of `n` begins at a page already
passed, and that `sp` is exactly what is left to visit: `NPages - (a -
startAdd)` before the walk has passed the end of the heap and `startAdd - a`
after it. The walk skips whole blocks, so `sp` stays at or above zero only
because `startAdd` is inside no block; that is the last part of `TablesSound`.

### Demand paging: `VMemProofs`

For every set of environments, pages and frames, every size of working sets and
length of the modified list:

- `FramesSafe`: `Spec => []FramesSound`;
- `WorkingSetsSafe`: `Spec => []WSMatches`;
- `ContentsSafe`: `Spec => []ContentsKept`.

Assumptions (`SizesAssumption`, `PagesAssumption`): working sets have a slot,
the frames are finite in number and there is one for the stack page of every
environment at the start, heap and stack pages are apart, `NoFrame` and `NoPage`
are no frame and no page.

The invariant is `TypeOK` and, while the kernel is not `down`, `Sane`. Its
parts: `Owns`, an operator of the values between the stages of a fault (evict,
take a frame, take a buffered one back, drop a table), which says that a
frame has one owner, that a buffered frame is marked and in a list, the free list
if its page is not modified, and that an entry without a frame is neither
present nor buffered; `Kept`, that the modified list is below its length and
that, where there is none and so never a flush, modified pages have their frames
in it; `WSOf`, that a working set lists the present pages of its
environment once each; and `Written`, which adds to `ContentsKept` that a page
outside the page file was never written and that frames are given only to pages
the page file has. `Written` is needed because a fault reads the page file
without asking whether its copy is the newest.

### Program loading: `LoaderProofs`

For every page size, width of addresses, program, size of working set and
number of free frames and disk frames under `LoaderAssumption` (see Loader):

- `FileSafe`: `Spec => []FileHasProgram`;
- `MemorySafe`: `Spec => []MemoryMatches`.

`IInv` follows `env_create`: `Entries` relates the index of the working set to
the pages loaded and to the entries still reserved (why there is one left for
the stack); `Place` says where each loop is; `Below` that every page in memory
is one the loops have passed, so that mapping never overwrites a page; `Copied`
and `Filed` that segments passed are whole, in memory as far as they are there
and in the page file, and the current one up to the address reached. A page
written for segment `s` lies at or behind the first page of `s`, hence behind
all earlier segments, which is why temporary and empty pages overwrite nothing.
`RestEnds` is the arithmetic of `WriteRest`: the end of its loop is computed
modulo `Width` and is right also when `remainingLength` is below zero. Facts
about quotients, remainders and rounding are lemmas at the start of the module.

### Lists: `ListProofs`

For every set of heads and every finite set of elements:

- `AlwaysWellLinked`: `Spec => []WellLinked`;
- `LinksImplementLists`: `Spec => ImplementsLists`.

Assumptions: `Null` is no element and no head; the elements are finite in number
(they are the entries of arrays).

`Linked(ls, nx, pv, fs, lt, sz)` says that the links are those of the sequences
`ls`: `le_next` and `le_prev` of the `i`-th element are the elements after and
before it, the heads point at the ends, sizes are lengths, and no element is
twice in `ls`. Every insertion is `InsertAt` a position and every removal
`RemoveAt` one, and `InsertLinked` and `RemoveLinked` show for all macros
together that the assignments to at most four pointers yield the links of the
new sequences. `IInv` is `Linked` of the sequences read off the links, with
`LoopInv`: `___ptr_next` is the element at some position of the list or its end,
and the loop's variable is the one in front of it or in the list no more, which
is why the body may remove it. That a chain of links determines its sequence
(`FollowsUnique`) is an induction along the links, done with the least number at
which two sequences differ.

### Page tables: `TablesProofs`

For every number of environments, regions, entries of a table, kernel heap pages
and frames:

- `AlwaysApart`: `Spec => []SpacesApart`;
- `NeverLost`: `Spec => []NothingLost`;
- `FreesExactly`: `Spec => []FreeMemExact`;
- `AnnouncesExactly`: `Spec => []RequiredFramesExact`.

Assumptions (`TablesAssumption`): there is a region, an entry and a heap page,
the frames are finite in number, and the marks for no frame and a removed table
are no frames.

The invariant is `Ok(mem) => Sound(mem)`, where `Sound` says: the memory has its
type; no two directory entries name one table (`TablesApart`), no two pages have
one frame (`PagesApart`), no page is a table (`NoPageIsTable`); tables and pages
have one reference and free frames none or, after a second `rut`, fewer
(`Counted`); no frame is in the free list twice (`NoRepeats`). The C functions
are composed of five changes, each with a lemma that it keeps `Sound`:
a frame is taken (`TookFrame`), and is then `Loose`, in no list and behind no
page; a table or a page is added or dropped (`AddedTable`, `AddedPage`,
`DroppedPage`, `DroppedTable`). A panic between two changes loses a loose frame
and nothing else. That the kernel heap keeps mapping the frames of tables
`freeMem` released does no harm because nothing in `Sound` looks at it;
`Findable` is where it matters.

The last two theorems are about loops over a range. `freeMem` and the use of
every page are recursive functions of the number of pages looked at; that such
functions exist and what holds of them after every page is shown with the least
number for which it fails. After `k` pages of `freeMem` exactly the pages
among them and the tables they emptied are gone; after `k` pages of use, the free
list is shorter by the pages and tables new among them, and the sets
`calculate_required_frames` counts grow by what one page adds.

### Keys and lines: `PromptProofs`

For any programs, keys, ring and screen, under the assumptions of `Console` and
`Prompt`:

- `AtomicSafe`: `Spec => AtomicLine`;
- `KeyboardSafe`: `Spec => []KeyboardSound`.

For the first, the invariant `AtomicRuns` is that a program that reads a line
atomically is the one that runs and has interrupts disabled; the clock action
needs them enabled, and no other step gives the processor to another program.

For the second, `Ring(st)` says that what is unread lies between the two
positions of the ring, in order, and leaves one cell (`InOrder`), unless the ring
has been full. It is an operator because a call of `cons_getc` passes many
states of the console: one per pending byte of either device, then the character
taken. The flags need a look ahead: between the press of a key and the reader's
poll they are not those of the keys that are down. `KInv` therefore says where
the pending bytes will lead them (`Leads`), and that there no escape is left and
every modifier is that of a key that is down (`Clean`). Bytes that arrive
prolong the path, a poll goes along it. `PromptAssumption` says that a key is a
scan code other than E0, with or without the escape E0 before it.

### Only model-checked

- Liveness (`ReadyRuns`, `CreationEnds`, `AllFinish`, and that calls return in
  `KmallocReturns` and `MallocAnswers`): out of the prover's reach. The safety
  halves of the last two are proved (`NullSafe`).
- `LineAsShown`: it compares the buffer with the screen, both of which every key
  changes by code of its own, through scrolling; its proof would be as long as
  those of all the other modules.
- The properties of `Algorithms`, which are about what recursive operators
  compute: induction over data.
- `TestsPass`, `NothingKept` and `WholeDialogue`, which are about given programs and their given
  arguments: the runs are those programs.

## Not modelled

- The table file (its functions have no live caller) and `LIST_CONCAT`.
- MLFQ: undefined behaviour in every call (arrays sized by themselves, ready
  queues replaced by uninitialised memory), so that no property can be stated.
- `realloc`, `smalloc`, `sget`, `moveMem` and priorities, which only panic, and
  the tests of `user/` for them, for semaphores and for other strategies.
- `free` of an address that `malloc` did not return (`lib/uheap.c:155` then passes
  an uninitialised size on).
- The removal of an environment's memory (`env_free`, `pf_free_env`,
  `free_environment`): `env_free` panics first, so the code after it is never
  reached.
- The clock chip: `kclock_resume` restores the counter's remainder and begins a
  full quantum when less than 10 is left; time is not modelled, only that the
  clock interrupts again. `env_sleep` is a busy wait on the time stamp counter.
- The assembly that enters protected mode and the kernel, the interrupt
  controller, descriptor tables, ELF headers beyond the segments.
- Whether the disk has taken the last sector when `ide_write` returns: the code
  does not wait behind it, the device of the model always has.
- The prompt's commands that only read or print; time stamps of working sets
  (LRU is not the algorithm in use).

## Plan

Done: `KHeap` with its search, `Sched` over `EnvLife`, `UHeap` with its search,
`VMem`, `Loader`, `ListLinks` over `Lists`, `Tables`, `Console` and `Prompt`,
each with proofs; `Algorithms` with its parts, `Programs` with its parts.

What would come next:

1. The routines of `Algorithms` that need no recursion (ids, system calls, the
   first page tables) as invariants of modules of their own, to prove them.
2. `Tables` over `KHeap`: the heap that holds the tables is a copy of the parts
   of `KHeap` that `Tables` needs, and could be an instance of it.
