------------------------------- MODULE MCVMem ------------------------------
(* Instance for TLC: a program with two heap pages and a working set of    *)
(* two, beside one with a single heap page and a working set of one.       *)
EXTENDS VMem, TLC

MCTouches == ({1} \X Pages) \cup ({2} \X {Top, CHOOSE h \in Heap : TRUE})
MCWSMax == <<2, 1>>

\* Frames are interchangeable.
Symmetry == Permutations(Frames)
=============================================================================
