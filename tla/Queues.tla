------------------------------- MODULE Queues ------------------------------
(***************************************************************************)
(* The kernel's lists (inc/queue.h) as kern/sched.c and                    *)
(* kern/memory_manager.c use them: a list is the sequence of its elements, *)
(* head first.  Module ListLinks shows that the links implement this.      *)
(***************************************************************************)
EXTENDS Integers, Sequences

In(e, q) == \E i \in 1 .. Len(q) : q[i] = e
Once(q) == \A i, j \in 1 .. Len(q) : q[i] = q[j] => i = j
Before(e, f, q) == \E i, j \in 1 .. Len(q) : i < j /\ q[i] = e /\ q[j] = f

\* LIST_INSERT_HEAD, LIST_REMOVE of the i-th element, and a loop that moves
\* every element of a list, from its head on, to the head of another one.
Push(e, q) == <<e>> \o q
RemoveAt(q, i) == [j \in 1 .. Len(q) - 1 |-> IF j < i THEN q[j] ELSE q[j + 1]]
MoveAll(from, to) ==
    [i \in 1 .. Len(from) + Len(to) |->
        IF i <= Len(from) THEN from[Len(from) + 1 - i] ELSE to[i - Len(from)]]
=============================================================================
