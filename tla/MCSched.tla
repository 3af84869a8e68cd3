------------------------------ MODULE MCSched ------------------------------
(* Instance for TLC: four slots, in the order env_init links them. *)
EXTENDS Sched

MCInitFree == <<1, 2, 3, 4>>
=============================================================================
