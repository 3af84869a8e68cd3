------------------------------- MODULE Lists -------------------------------
(***************************************************************************)
(* What the list macros of inc/queue.h promise, and what Sched and VMem    *)
(* take for granted: a list is a sequence, an element is in one list at    *)
(* most (all lists of a kind share the links inside the element), and      *)
(* LIST_FOREACH meets every element once, also when its body moves the     *)
(* element to another list.                                                *)
(***************************************************************************)
EXTENDS SequencesExt

CONSTANTS Heads, Elems, Null

VARIABLES
    lists,   \* head -> sequence of elements
    loop,    \* the list LIST_FOREACH runs over, or Null
    var,     \* its variable
    todo     \* elements it has yet to meet

vars == <<lists, loop, var, todo>>
loopVars == <<loop, var, todo>>

Init ==
    /\ lists = [h \in Heads |-> <<>>]
    /\ loop = Null /\ var = Null /\ todo = <<>>

In(e, h) == e \in ToSet(lists[h])
Unlisted(e) == \A h \in Heads : ~In(e, h)

\* A kernel loop touches the element it has reached, and puts it only into
\* other lists.
MayInsert(h, e) == Unlisted(e) /\ (loop = Null \/ (e = var /\ h # loop))

Clear(h) ==
    /\ loop = Null
    /\ lists' = [lists EXCEPT ![h] = <<>>]
    /\ UNCHANGED loopVars

\* The new element gets position i.
Insert(h, e, i) ==
    /\ MayInsert(h, e)
    /\ lists' = [lists EXCEPT ![h] = InsertAt(lists[h], i, e)]
    /\ UNCHANGED loopVars

Unlink(h, e) ==
    /\ loop = Null \/ (loop = h /\ e = var)
    /\ \E i \in DOMAIN lists[h] :
          /\ lists[h][i] = e
          /\ lists' = [lists EXCEPT ![h] = RemoveAt(lists[h], i)]
    /\ UNCHANGED loopVars

\* The loop goes on to the first element of s, or ends.
Visit(h, s) ==
    IF s = <<>> THEN loop' = Null /\ var' = Null /\ todo' = <<>>
    ELSE loop' = h /\ var' = Head(s) /\ todo' = Tail(s)

Foreach(h) ==
    /\ loop = Null
    /\ Visit(h, lists[h])
    /\ UNCHANGED lists

ForeachNext ==
    /\ loop # Null
    /\ Visit(loop, todo)
    /\ UNCHANGED lists

\* The body returns from the function.
Leave ==
    /\ loop # Null
    /\ loop' = Null /\ var' = Null /\ todo' = <<>>
    /\ UNCHANGED lists

Next ==
    \/ \E h \in Heads : Clear(h) \/ Foreach(h)
    \/ \E h \in Heads, e \in Elems :
          \/ \E i \in 1 .. Len(lists[h]) + 1 : Insert(h, e, i)
          \/ Unlink(h, e)
    \/ ForeachNext \/ Leave

Spec == Init /\ [][Next]_vars
=============================================================================
