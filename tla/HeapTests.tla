------------------------------ MODULE HeapTests ------------------------------
(***************************************************************************)
(* The user programs tst_malloc_1..3, tst_free_1, tst_free_2 and             *)
(* tst_nextfit: what they call and what they assert.  Sizes are in kilo      *)
(* bytes, addresses in pages from USER_HEAP_START, frames and page-file      *)
(* pages as differences; Any where the test does not look.                   *)
(***************************************************************************)
EXTENDS Integers, Sequences

Any == -1
Mega == 1024
MegaPages == 256

\* ptr_allocations[...] = malloc(kb), expected at page at or (slack) one above.
Gets(kb, at, slack, pf, fr) == [op |-> "malloc", kb |-> kb, at |-> at, slack |-> slack, pf |-> pf, fr |-> fr]
\* The first access to these pages of the allocation, one after the other; found
\* counts for each the entries of the working set that name it.
Uses(k, offsets, fr, found) == [op |-> "touch", of |-> k, offsets |-> offsets, fr |-> fr, found |-> found]
\* Values stored in the allocation, at these pages and bytes, or read and compared.
Stores(k, cells) == [op |-> "store", of |-> k, cells |-> cells]
Holds(k, cells) == [op |-> "load", of |-> k, cells |-> cells]
\* free(ptr_allocations[k])
Frees(k, pf, fr) == [op |-> "free", of |-> k, pf |-> pf, fr |-> fr]
\* No entry of the working set names these pages.
Absent(k, offsets) == [op |-> "absent", of |-> k, offsets |-> offsets]
\* With sys_bypassPageFault, an access to the freed block must fault.
Faults(k, offsets) == [op |-> "denied", of |-> k, offsets |-> offsets]
\* Pages of the page file and frames against the counts taken at the beginning.
Totals(pf, fr) == [op |-> "totals", pf |-> pf, fr |-> fr]

tst_malloc_1 ==
  << Gets(2 * Mega - 1, 0, 1, 512, 1), Gets(2 * Mega - 1, 2 * MegaPages, 1, 512, 0), Gets(2, 4 * MegaPages, 1, 1, 1),
     Gets(2, 4 * MegaPages + 1, 1, 1, 0), Gets(7, 4 * MegaPages + 2, 1, 2, 0), Gets(3 * Mega - 1, 4 * MegaPages + 4, 1, 768, 0),
     Gets(2 * Mega - 1, 7 * MegaPages + 4, 1, 512, 1) >>

\* The first and the last element of each block, and what is in them.
byteArr == {<<0, 0, "minByte">>, <<511, 3071, "maxByte">>}
shortArr == {<<0, 0, "minShort">>, <<511, 3070, "maxShort">>}
intArr == {<<0, 0, "minInt">>, <<0, 2044, "maxInt">>}
structArr == {<<0, 0, "minByte">>, <<0, 2, "minShort">>, <<0, 4, "minInt">>,
              <<1, 3064, "maxByte">>, <<1, 3066, "maxShort">>, <<1, 3068, "maxInt">>}
tst_malloc_2 ==
  << Gets(2 * Mega - 1, Any, 0, Any, Any), Stores(0, byteArr), Gets(2 * Mega - 1, Any, 0, Any, Any), Stores(1, shortArr),
     Gets(2, Any, 0, Any, Any), Stores(2, intArr), Gets(7, Any, 0, Any, Any), Stores(3, structArr),
     Holds(0, byteArr), Holds(1, shortArr), Holds(2, intArr), Holds(3, structArr) >>

tst_malloc_3 ==
  << Gets(2 * Mega - 1, 0, 1, 512, Any), Uses(0, <<0, 511>>, 3, 2), Gets(2 * Mega - 1, 2 * MegaPages, 1, 512, Any), Uses(1, <<0, 511>>, 2, 2),
     Gets(2, 4 * MegaPages, 1, 1, Any), Uses(2, <<0, 0>>, 2, 2), Gets(2, 4 * MegaPages + 1, 1, 1, Any),
     Gets(7, 4 * MegaPages + 2, 1, 2, Any), Uses(4, <<0, 1>>, 2, 2), Gets(3 * Mega - 1, 4 * MegaPages + 4, 1, 768, Any),
     Gets(6 * Mega - 1, 7 * MegaPages + 4, 1, 1536, Any), Uses(6, <<0, 767, 1535>>, 5, 3),
     Gets(14, 13 * MegaPages + 4, 1, 4, Any), Uses(7, <<0, 3>>, 2, 2) >>

\* The allocations of tst_free_1 are those of tst_malloc_3, then everything is
\* freed out of order.  After the last free it is block 1 that is looked for.
tst_free_1_allocates == tst_malloc_3
tst_free_1 ==
  tst_free_1_allocates \o
  << Frees(0, 512, 2), Absent(0, {0, 511}), Frees(1, 512, 3), Absent(1, {0, 511}), Frees(6, 1536, 4), Absent(6, {0, 767, 1535}),
     Frees(4, 2, 2), Absent(4, {0, 1}), Frees(5, 768, 0), Frees(2, 1, 2), Absent(2, {0}), Frees(3, 1, 0),
     Frees(7, 4, 3), Absent(1, {0, 511}), Totals(Any, 4) >>

tst_free_2 ==
  << Gets(2 * Mega - 1, 0, Any, 512, Any), Gets(2 * Mega - 1, 2 * MegaPages, Any, 512, Any), Gets(2, 4 * MegaPages, Any, 1, Any),
     Gets(2, 4 * MegaPages + 1, Any, 1, Any), Gets(7, 4 * MegaPages + 2, Any, 2, Any), Gets(3 * Mega - 1, 4 * MegaPages + 4, Any, 768, Any),
     Gets(2 * Mega - 1, 7 * MegaPages + 4, Any, 512, Any),
     Frees(0, 512, Any), Faults(0, {0, 511}), Frees(1, 512, Any), Faults(1, {0, 511}), Frees(2, 1, Any), Faults(2, {0}),
     Frees(3, 1, Any), Faults(3, {0}), Frees(4, 2, Any), Faults(4, {0, 1}), Frees(5, 768, Any), Faults(5, {0, 767}),
     Frees(6, 512, Any), Faults(6, {0, 511}), Totals(Any, 3) >>

\* The heap is filled with 256 blocks of 2 MB, ten are freed, and next fit must
\* use the holes in order, come back to the first ones, and find none for 6 MB.
\* Of the 256 some addresses are looked at, and the pages and frames (of page
\* tables, one for every second block) in all.
tst_nextfit ==
  [i \in 1..256 |-> Gets(2 * Mega, IF i - 1 \in {0, 2, 8, 10, 15, 20, 25, 255} THEN (i - 1) * 2 * MegaPages ELSE Any, 0, Any, Any)] \o
  << Totals(256 * 512, 128) >> \o
  [i \in 1..10 |-> Frees(<<0, 2, 3, 5, 10, 12, 11, 20, 25, 255>>[i], Any, Any)] \o
  << Totals(246 * 512, 128),
     Gets(Mega - 1, 0, 0, 256, 0), Gets(1, MegaPages, 0, 1, 0), Gets(5 * Mega, 20 * MegaPages, 0, 1280, 0), Gets(Mega, 25 * MegaPages, 0, 256, 0),
     Frees(15, 512, 0),
     Gets(1, 30 * MegaPages, 0, 1, 0), Gets(Mega + 1016, 30 * MegaPages + 1, 0, 510, 0), Gets(512, 40 * MegaPages, 0, 128, 0),
     Gets(3 * Mega + 512, 4 * MegaPages, 0, 896, 0), Frees(24, 512, 0), Gets(4 * Mega - 1, 48 * MegaPages, 0, 1024, 0),
     [op |-> "null", kb |-> 6 * Mega] >>

Tests == [tst_malloc_1 |-> tst_malloc_1, tst_malloc_2 |-> tst_malloc_2, tst_malloc_3 |-> tst_malloc_3,
          tst_free_1 |-> tst_free_1, tst_free_2 |-> tst_free_2, tst_nextfit |-> tst_nextfit]
=============================================================================
