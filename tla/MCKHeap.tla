------------------------------ MODULE MCKHeap ------------------------------
(* The kernel heap on a few pages and frames.                              *)
EXTENDS KHeapSearch

\* initialize_paging inserts at the head, so the highest frame comes first.
MCInitFreeList == <<4, 3, 2, 1>>
=============================================================================
