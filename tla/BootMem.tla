------------------------------- MODULE BootMem -------------------------------
(***************************************************************************)
(* The kernel's memory at boot: detect_memory, check_boot_pgdir and         *)
(* turn_on_paging (kern/helpers.c), initialize_kernel_VM, the boot-time      *)
(* allocator and initialize_paging (kern/memory_manager.c).                  *)
(*                                                                         *)
(* Addresses are counted in half pages, so that an array can end inside a    *)
(* page; a physical address x is KERNEL_BASE + x for the kernel.  A machine  *)
(* is a record: end (of the kernel image), stack (ptr_stack_bottom),         *)
(* ext and other (what the CMOS says, in half pages), info (number of Frame_ *)
(* Info entries in a half page), diskArray and envsArray (sizes of the two   *)
(* other arrays), slots (entries of a page table), tables (of the kernel's   *)
(* space above KERNEL_BASE), and low, io, high (frames 16 MB, PHYS_IO_MEM,   *)
(* PHYS_EXTENDED_MEM).                                                       *)
(***************************************************************************)
EXTENDS Integers, TLC, FiniteSetsExt, SequencesExt

PAGE_SIZE == 2
STACK_PAGES == 2         \* KERNEL_STACK_SIZE
Pages(size) == (size + PAGE_SIZE - 1) \div PAGE_SIZE

\* Regions (entries of the page directory) below KERNEL_BASE; KERNEL_BASE + x
\* is in region BASE + x.
UENVS == 3
UVPT == 5
STACK == 6
VPT == 7
BASE == 8

\* The number of frames: what lies above 16 MB counts alone if there is any.
detect_memory(c) ==
  LET other == (c.other \div PAGE_SIZE) * PAGE_SIZE
      ext == (c.ext \div PAGE_SIZE) * PAGE_SIZE
      maxpa == IF other > 0 THEN other + c.low * PAGE_SIZE
               ELSE IF ext > 0 THEN c.high * PAGE_SIZE + ext ELSE 0
  IN  maxpa \div PAGE_SIZE

\* The boot state: ptr_free_mem, the page directory (region -> physical address
\* of the table, 0 if none), the entries <<region, slot>> -> frame of the tables
\* and the space handed out as <<first, size>>.
Zero(c) == [ptr |-> c.end, dir |-> [r \in 0..(BASE + c.tables - 1) |-> 0], entry |-> <<>>, taken |-> {}]

boot_allocate_space(b, size) ==
  LET at == Pages(b.ptr) * PAGE_SIZE
  IN  [b EXCEPT !.ptr = at + size, !.taken = @ \cup {<<at, size>>}]

boot_get_page_table(b, r) ==
  IF b.dir[r] # 0 THEN b
  ELSE [boot_allocate_space(b, PAGE_SIZE) EXCEPT !.dir[r] = Pages(b.ptr) * PAGE_SIZE]

\* Page i of the range; its table is made when it is first needed.
MapPage(c, b, first, phys, i) ==
  LET page == first + i
  IN  [boot_get_page_table(b, page \div c.slots) EXCEPT
         !.entry = (<<page \div c.slots, page % c.slots>> :> (phys + i)) @@ @]
boot_map_range(c, b, first, size, phys) ==
  FoldLeft(LAMBDA a, i : MapPage(c, a, first, phys, i), b, [i \in 1..Pages(size) |-> i - 1])

setup_listing_to_all_page_tables_entries(b, directory) == [b EXCEPT !.dir[VPT] = directory, !.dir[UVPT] = directory]

\* Mutant: the tables of the kernel's space are made when they are needed.
KernelTablesLate(c, b) == b
\* All tables above KERNEL_BASE, before anything is mapped there.
KernelTables(c, b) == FoldLeft(LAMBDA a, r : boot_get_page_table(a, r), b, [i \in 1..c.tables |-> BASE + i - 1])

initialize_kernel_VM(c, frames) ==
  LET start == boot_allocate_space(Zero(c), PAGE_SIZE)
      directory == Pages(c.end) * PAGE_SIZE
      stack == boot_map_range(c, start, (STACK + 1) * c.slots - STACK_PAGES, STACK_PAGES * PAGE_SIZE, c.stack \div PAGE_SIZE)
      tables == KernelTables(c, stack)
      infos == boot_allocate_space(tables, (frames + c.info - 1) \div c.info)
      disk == boot_allocate_space(infos, c.diskArray)
      listed == setup_listing_to_all_page_tables_entries(disk, directory)
      envs == boot_allocate_space(listed, c.envsArray)
      shared == boot_map_range(c, envs, UENVS * c.slots, c.envsArray, Pages(listed.ptr))
  IN  boot_map_range(c, shared, BASE * c.slots, shared.ptr, 0)

\* ~0 for an address that is not mapped.
check_va2pa(c, b, page) ==
  LET e == <<page \div c.slots, page % c.slots>>
  IN  IF b.dir[e[1]] = 0 \/ e \notin DOMAIN b.entry THEN -1 ELSE b.entry[e]

check_boot_pgdir(c, b) ==
  /\ \A i \in 0..(Pages(b.ptr) - 1) : check_va2pa(c, b, BASE * c.slots + i) = i
  /\ \A i \in 0..(STACK_PAGES - 1) :
       check_va2pa(c, b, (STACK + 1) * c.slots - STACK_PAGES + i) = c.stack \div PAGE_SIZE + i
  /\ \A r \in DOMAIN b.dir : b.dir[r] # 0 <=> r \in {VPT, UVPT, STACK, UENVS} \/ r >= BASE

\* The low regions that mirror the kernel's while the segments are reloaded;
\* the region of ptr_free_mem itself is not among them.
Mirrored(c, b) == 0..((b.ptr \div (PAGE_SIZE * c.slots)) - 1)
turn_on_paging(c, b) == [b EXCEPT !.dir = [r \in DOMAIN b.dir |-> IF r \in Mirrored(c, b) THEN 0 ELSE b.dir[r]]]

\* The frames of free_frame_list; the others have one reference.
initialize_paging(c, b, frames) == 3..(c.io - 1) \cup Pages(b.ptr)..(frames - 1)

\* FOS_initialize as far as memory is concerned.
boot(c) ==
  LET frames == detect_memory(c)
      b == initialize_kernel_VM(c, frames)
  IN  [vm |-> turn_on_paging(c, b), checked |-> check_boot_pgdir(c, b),
       free |-> initialize_paging(c, b, frames), frames |-> frames]
=============================================================================
