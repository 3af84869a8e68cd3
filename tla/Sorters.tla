------------------------------- MODULE Sorters -------------------------------
(***************************************************************************)
(* The sorting programs of user/ (quicksort*.c, mergesort_*.c,               *)
(* ef_mergesort_*.c) and the two calculators as sequences of steps.  Printing *)
(* is one step "say"; what the steps do is in Programs.  says is empty when   *)
(* the keyboard answers, otherwise it has the answers of each round.          *)
(***************************************************************************)
EXTENDS Sequences

Keyboard(steps) == [steps |-> steps, says |-> <<>>]
Locked(steps) == <<"lock">> \o steps \o <<"unlock">>
\* sys_waitSemaphore, sys_signalSemaphore
Guarded(steps) == <<"semaphore">> \o steps \o <<"semaphore">>

quicksort == Keyboard(<<"do", "ask", "malloc", "choose", "fill", "sort", "say", "free", "again", "while">>)

quicksort_freeheap == Keyboard(<<"do", "ask", "malloc", "choose", "fill", "sort", "say", "again", "while">>)

quicksort1 ==
  Keyboard(<<"do">> \o Locked(<<"ask", "malloc", "tail", "choose">>) \o <<"fill", "sort", "say", "free">> \o
           Locked(<<"again">>) \o <<"while">>)
quicksort2 == quicksort1
quicksort3 == quicksort1

quicksort4 ==
  Keyboard(<<"semaphore", "do">> \o Guarded(<<"ask", "malloc", "choose">>) \o <<"fill", "sort">> \o
           Guarded(<<"say">>) \o Guarded(<<"say">>) \o <<"free">> \o Guarded(<<"again">>) \o <<"while">>)
quicksort5 == quicksort4

quicksort_semaphore ==
  Keyboard(<<"semaphore", "do">> \o Guarded(<<"ask", "malloc", "choose">>) \o <<"fill", "sort">> \o
           Guarded(<<"say">>) \o Guarded(<<"say">>) \o Guarded(<<"again">>) \o <<"while">>)

quicksort_interrupt ==
  Keyboard(<<"do">> \o Locked(<<"ask", "malloc", "choose">>) \o <<"fill", "sort">> \o
           Locked(<<"say">>) \o Locked(<<"say">>) \o Locked(<<"again">>) \o <<"while">>)

\* Reads the choices again until they are among those offered; never frees.
quicksort_heap ==
  Keyboard(<<"do">> \o Locked(<<"ask", "malloc", "choose_strict">>) \o <<"fill", "sort">> \o
           Locked(<<"say">>) \o Locked(<<"say">>) \o Locked(<<"again_strict">>) \o <<"while">>)

quicksort_noleakage ==
  Keyboard(<<"do">> \o Locked(<<"ask", "malloc", "choose">>) \o <<"fill", "sort">> \o
           Locked(<<"say">>) \o Locked(<<"say">>) \o <<"free">> \o Locked(<<"again">>) \o <<"while">>)

mergesort_leakage ==
  Keyboard(<<"do">> \o Locked(<<"ask", "malloc", "choose_strict">>) \o <<"fill", "merge_leak">> \o
           Locked(<<"say">>) \o Locked(<<"say">>) \o <<"free">> \o Locked(<<"again_strict">>) \o <<"while">>)

mergesort_noleakage ==
  Keyboard(<<"do">> \o Locked(<<"ask", "malloc", "choose_strict">>) \o <<"fill", "merge">> \o
           Locked(<<"say">>) \o Locked(<<"say">>) \o <<"free">> \o Locked(<<"again_strict">>) \o <<"while">>)

\* The same with the answers in the program, by numOfRep.
ef_mergesort_leakage ==
  [mergesort_leakage EXCEPT !.says = << [n |-> 32, choice |-> "ordered", again |-> "y"], [n |-> 32, choice |-> "random", again |-> "n"] >>]
ef_mergesort_noleakage ==
  [mergesort_noleakage EXCEPT !.says = << [n |-> 2000, choice |-> "ordered", again |-> "n"] >>]

\* atomic_readline and atomic_cprintf disable and enable the interrupts themselves.
fos_factorial == Keyboard(Locked(<<"ask">>) \o <<"recurse">> \o Locked(<<"say">>))
fos_fibonacci == fos_factorial

Sorters ==
  [quicksort |-> quicksort, quicksort1 |-> quicksort1, quicksort2 |-> quicksort2, quicksort3 |-> quicksort3,
   quicksort4 |-> quicksort4, quicksort5 |-> quicksort5, quicksort_semaphore |-> quicksort_semaphore,
   quicksort_interrupt |-> quicksort_interrupt, quicksort_heap |-> quicksort_heap,
   quicksort_noleakage |-> quicksort_noleakage, quicksort_freeheap |-> quicksort_freeheap,
   mergesort_noleakage |-> mergesort_noleakage, mergesort_leakage |-> mergesort_leakage,
   ef_mergesort_leakage |-> ef_mergesort_leakage, ef_mergesort_noleakage |-> ef_mergesort_noleakage,
   fos_factorial |-> fos_factorial, fos_fibonacci |-> fos_fibonacci]

\* The programs that return what they allocate before they ask to repeat.
Freeing == {"quicksort", "quicksort1", "quicksort2", "quicksort3", "quicksort4", "quicksort5",
            "quicksort_noleakage", "mergesort_noleakage", "ef_mergesort_noleakage"}
==============================================================================
