----------------------------- MODULE ListLinks -----------------------------
(***************************************************************************)
(* The macros of inc/queue.h, link by link.  One action per macro: no      *)
(* interrupt comes between its assignments, the kernel is not preemptible. *)
(***************************************************************************)
EXTENDS Naturals, Sequences, FiniteSets, SequencesExt

CONSTANTS Heads, Elems, Null

ASSUME ListsAssumption == Null \notin Elems \cup Heads /\ IsFiniteSet(Elems)

VARIABLES
    lh_first, lh_last, size,   \* per head
    ptr_next,                  \* ___ptr_next, per head
    le_next, le_prev,          \* per element
    loop, var                  \* as in Lists

heads == <<lh_first, lh_last, size>>
links == <<le_next, le_prev>>
foreach == <<loop, var, ptr_next>>
vars == <<heads, links, foreach>>

Ref == Elems \cup {Null}

Init ==
    /\ lh_first = [h \in Heads |-> Null]
    /\ lh_last = lh_first
    /\ ptr_next = lh_first
    /\ size = [h \in Heads |-> 0]
    /\ le_next = [e \in Elems |-> Null]
    /\ le_prev = le_next
    /\ loop = Null /\ var = Null

\* The i-th element of s, or Null before the first and behind the last.
At(s, i) == IF i \in 1 .. Len(s) THEN s[i] ELSE Null

\* The elements of s are those met from e on by following link to its end.
Follows(s, link, e) ==
    /\ e = At(s, 1)
    /\ \A i \in 1 .. Len(s) : link[s[i]] = At(s, i + 1)

Chains == BoundedSeq(Elems, Cardinality(Elems))
Chain(link, e) == CHOOSE s \in Chains : Follows(s, link, e)

Forward(h) == Chain(le_next, lh_first[h])
Backward(h) == Chain(le_prev, lh_last[h])

\* What callers make sure of: see Lists.
MayInsert(h, e) ==
    /\ \A g \in Heads : e \notin ToSet(Forward(g))
    /\ loop = Null \/ (e = var /\ h # loop)

-----------------------------------------------------------------------------
LIST_INIT(h) ==
    /\ loop = Null
    /\ lh_first' = [lh_first EXCEPT ![h] = Null]
    /\ lh_last' = [lh_last EXCEPT ![h] = Null]
    /\ size' = [size EXCEPT ![h] = 0]
    /\ UNCHANGED <<links, foreach>>

Grow(h) == size' = [size EXCEPT ![h] = @ + 1]

\* f with the link of x set to e; there is nothing to set when x is Null.
Set(f, x, e) == IF x = Null THEN f ELSE [f EXCEPT ![x] = e]

\* g with the pointer of the list set to e in case x is Null.
SetHead(g, h, x, e) == IF x = Null THEN [g EXCEPT ![h] = e] ELSE g

\* Mutant: LIST_LAST of an empty list is left alone.
LIST_INSERT_HEADNoLast(h, e) ==
    /\ MayInsert(h, e)
    /\ le_next' = [le_next EXCEPT ![e] = lh_first[h]]
    /\ le_prev' = [Set(le_prev, lh_first[h], e) EXCEPT ![e] = Null]
    /\ lh_first' = [lh_first EXCEPT ![h] = e]
    /\ Grow(h)
    /\ UNCHANGED <<lh_last, foreach>>

LIST_INSERT_HEAD(h, e) ==
    /\ MayInsert(h, e)
    /\ le_next' = [le_next EXCEPT ![e] = lh_first[h]]
    /\ le_prev' = [Set(le_prev, lh_first[h], e) EXCEPT ![e] = Null]
    /\ lh_last' = SetHead(lh_last, h, lh_first[h], e)
    /\ lh_first' = [lh_first EXCEPT ![h] = e]
    /\ Grow(h)
    /\ UNCHANGED foreach

LIST_INSERT_TAIL(h, e) ==
    /\ MayInsert(h, e)
    /\ le_prev' = [le_prev EXCEPT ![e] = lh_last[h]]
    /\ le_next' = [Set(le_next, lh_last[h], e) EXCEPT ![e] = Null]
    /\ lh_first' = SetHead(lh_first, h, lh_last[h], e)
    /\ lh_last' = [lh_last EXCEPT ![h] = e]
    /\ Grow(h)
    /\ UNCHANGED foreach

LIST_INSERT_AFTER(h, x, e) ==
    /\ MayInsert(h, e) /\ x \in ToSet(Forward(h))
    /\ le_prev' = [Set(le_prev, le_next[x], e) EXCEPT ![e] = x]
    /\ le_next' = [le_next EXCEPT ![e] = le_next[x], ![x] = e]
    /\ lh_last' = SetHead(lh_last, h, le_next[x], e)
    /\ Grow(h)
    /\ UNCHANGED <<lh_first, foreach>>

LIST_INSERT_BEFORE(h, x, e) ==
    /\ MayInsert(h, e) /\ x \in ToSet(Forward(h))
    /\ le_next' = [Set(le_next, le_prev[x], e) EXCEPT ![e] = x]
    /\ le_prev' = [le_prev EXCEPT ![e] = le_prev[x], ![x] = e]
    /\ lh_first' = SetHead(lh_first, h, le_prev[x], e)
    /\ Grow(h)
    /\ UNCHANGED <<lh_last, foreach>>

LIST_REMOVE(h, e) ==
    /\ e \in ToSet(Forward(h))
    /\ loop = Null \/ (loop = h /\ e = var)
    /\ le_prev' = [Set(le_prev, le_next[e], le_prev[e]) EXCEPT ![e] = Null]
    /\ le_next' = [Set(le_next, le_prev[e], le_next[e]) EXCEPT ![e] = Null]
    /\ lh_last' = SetHead(lh_last, h, le_next[e], le_prev[e])
    /\ lh_first' = SetHead(lh_first, h, le_prev[e], le_next[e])
    /\ size' = [size EXCEPT ![h] = @ - 1]
    /\ UNCHANGED foreach

-----------------------------------------------------------------------------
(* LIST_FOREACH: the condition saves the successor of var in ___ptr_next   *)
(* before the body may move var.                                           *)

LOOP_LIST_NEXT(e) == IF e = Null THEN Null ELSE le_next[e]

\* var becomes e and the condition of the loop is evaluated.
Test(h, e) ==
    /\ var' = e
    /\ ptr_next' = [ptr_next EXCEPT ![h] = LOOP_LIST_NEXT(e)]
    /\ loop' = IF ptr_next'[h] # Null \/ e # Null THEN h ELSE Null
    /\ UNCHANGED <<heads, links>>

Foreach(h) == loop = Null /\ Test(h, lh_first[h])

\* Mutant: the loop that is commented out in queue.h, which reads the link
\* after the body.
ForeachNextOld == loop # Null /\ Test(loop, LOOP_LIST_NEXT(var))

ForeachNext == loop # Null /\ Test(loop, ptr_next[loop])

\* The body returns, as find_env_in_queue does.
Leave ==
    /\ loop # Null
    /\ loop' = Null /\ var' = Null
    /\ UNCHANGED <<heads, links, ptr_next>>

Next ==
    \/ \E h \in Heads : LIST_INIT(h) \/ Foreach(h)
    \/ \E h \in Heads, e \in Elems :
          \/ LIST_INSERT_HEAD(h, e)
          \/ LIST_INSERT_TAIL(h, e)
          \/ LIST_REMOVE(h, e)
          \/ \E x \in Elems : LIST_INSERT_AFTER(h, x, e)
          \/ \E x \in Elems : LIST_INSERT_BEFORE(h, x, e)
    \/ ForeachNext \/ Leave

Spec == Init /\ [][Next]_vars

-----------------------------------------------------------------------------
(* Properties *)

\* Type invariant: links lead to elements or nowhere, LIST_SIZE never exceeds
\* the number of elements, and a loop is left with no element in hand.
TypeOK ==
    /\ lh_first \in [Heads -> Ref] /\ lh_last \in [Heads -> Ref]
    /\ ptr_next \in [Heads -> Ref]
    /\ le_next \in [Elems -> Ref] /\ le_prev \in [Elems -> Ref]
    /\ size \in [Heads -> 0 .. Cardinality(Elems)]
    /\ loop \in Heads \cup {Null} /\ var \in Ref
    /\ (loop = Null) = (var = Null)

\* dequeue (kern/sched.c) takes LIST_LAST: in every list the links back from
\* lh_last meet the same elements as the links on from lh_first, in reverse.
BackLinks == \A h \in Heads : Backward(h) = Reverse(Forward(h))

\* No list runs in a circle: LIST_FOREACH, which has no other end than Null,
\* comes to one.
Ends == \A h \in Heads : /\ \E s \in Chains : Follows(s, le_next, lh_first[h])
                         /\ \E s \in Chains : Follows(s, le_prev, lh_last[h])

\* LIST_SIZE, which the fault handler compares with the limits of the frame
\* lists, is the number of elements.
SizeMaintained == \A h \in Heads : size[h] = Len(Forward(h))

\* Both directions of links and the size agree in every list, whatever was
\* inserted and removed at its ends and in its middle (inc/queue.h).
WellLinked == TypeOK /\ Ends /\ BackLinks /\ SizeMaintained

Abstract == INSTANCE Lists WITH
    lists <- [h \in Heads |-> Forward(h)],
    todo <- IF loop = Null THEN <<>> ELSE Chain(le_next, ptr_next[loop])

\* The links implement sequences, and LIST_FOREACH meets every element once
\* although its body removes the element and puts it into another list.
ImplementsLists == Abstract!Spec
=============================================================================
