------------------------------ MODULE MCTables ------------------------------
(* Two address spaces that compete for a few frames and kernel heap pages. *)
EXTENDS Tables

\* Frames have no numbers and environments no order.
MCSymmetry == Permutations(Frames) \cup Permutations(Envs)
=============================================================================
