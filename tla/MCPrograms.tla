----------------------------- MODULE MCPrograms ------------------------------
(* Every heap test alone on the real heap, sorting programs in pairs on a     *)
(* heap of six pages; one pair has so few frames that a fault finds none.      *)
EXTENDS Programs

UserHeap == 131072
Alone(name) == [names |-> <<name>>, heap |-> UserHeap, frames |-> 4096, numbers |-> {}]
Pair(one, two, frms) == [names |-> <<one, two>>, heap |-> 6, frames |-> frms,
                        numbers |-> CASE one = "mergesort_leakage" -> {2, 3} [] one = "quicksort" -> {2, 1025} [] OTHER -> {2, 1024, 1025}]

MCWorkloads ==
  {Alone(t) : t \in DOMAIN Tests \cup {"ef_mergesort_leakage", "ef_mergesort_noleakage"}} \cup
  {Pair("quicksort1", "quicksort2", 64), Pair("quicksort3", "quicksort_interrupt", 64), Pair("quicksort4", "quicksort_noleakage", 8),
   Pair("quicksort", "quicksort5", 64), Pair("quicksort_semaphore", "fos_factorial", 64), Pair("quicksort_freeheap", "fos_fibonacci", 64),
   Pair("mergesort_leakage", "mergesort_noleakage", 64), Pair("quicksort_heap", "quicksort_noleakage", 64)}
==============================================================================
