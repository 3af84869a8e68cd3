------------------------------- MODULE Stabs -------------------------------
(***************************************************************************)
(* The search for the symbol of an instruction address (kern/kdebug.c).  A  *)
(* table is a sequence of entries [type, value, name] whose addresses, per  *)
(* type, increase; indices are those of the C array, from 0.                *)
(***************************************************************************)
EXTENDS Integers, Sequences, FiniteSetsExt

CONSTANT PtrStep           \* what addr++ adds to a uint32 *: 4 on this machine

stab(t, i) == t[i + 1]
Matches(t, type, a, b) == {k \in a..b : k >= 0 /\ stab(t, k).type = type}

RECURSIVE Halve(_, _, _, _)
\* The loop of the binary search: l and r bound what is still unknown.
\* Mutant: an entry below addr does not become the left end.
HalveForgets(t, type, st, any) ==
  LET true_m == (st.l + st.r) \div 2
      hits == Matches(t, type, st.l, true_m)
      m == Max(hits)
  IN IF st.l > st.r THEN [st EXCEPT !.any = any]
     ELSE IF hits = {} THEN Halve(t, type, [st EXCEPT !.l = true_m + 1], any)
     ELSE IF stab(t, m).value < st.addr THEN Halve(t, type, [st EXCEPT !.l = true_m + 1], TRUE)
     ELSE Halve(t, type, [st EXCEPT !.right = m - 1, !.r = m - 1], TRUE)
Halve(t, type, st, any) ==
  LET true_m == (st.l + st.r) \div 2
      hits == Matches(t, type, st.l, true_m)
      m == Max(hits)
  IN IF st.l > st.r THEN [st EXCEPT !.any = any]
     ELSE IF hits = {} THEN Halve(t, type, [st EXCEPT !.l = true_m + 1], any)
     ELSE IF stab(t, m).value < st.addr THEN Halve(t, type, [st EXCEPT !.left = m, !.l = true_m + 1], TRUE)
     ELSE IF stab(t, m).value > st.addr THEN Halve(t, type, [st EXCEPT !.right = m - 1, !.r = m - 1], TRUE)
     ELSE Halve(t, type, [st EXCEPT !.left = m, !.l = m, !.addr = @ + PtrStep], TRUE)

\* The pair *region_left, *region_right the search leaves.
stab_binsearch(t, left, right, type, addr) ==
  LET st == Halve(t, type, [l |-> left, r |-> right, left |-> left, right |-> right, addr |-> addr, any |-> FALSE], FALSE)
  IN  IF ~st.any THEN [left |-> st.left, right |-> st.left - 1]
      ELSE [left |-> Max({st.left} \cup Matches(t, type, st.left + 1, st.right)), right |-> st.right]

-----------------------------------------------------------------------------
Unknown == [ret |-> -1, file |-> "<unknown>", fn |-> "<unknown>"]
\* An entry by which the file name is known.
NamesFile(e) == e.type = "SOL" \/ (e.type = "SO" /\ e.value # 0)
\* File and function of an address; the index of the entry stands for its name.
debuginfo_eip(t, addr) ==
  LET file == stab_binsearch(t, 0, Len(t) - 1, "SO", addr)
      fun == stab_binsearch(t, file.left, file.right, "FUN", addr)
      inFun == fun.left <= fun.right
      lline == IF inFun THEN fun.left ELSE file.left
      named == {k \in file.left..lline : NamesFile(stab(t, k))}
  IN IF file.left = 0 THEN Unknown
     ELSE [ret |-> 0, fn |-> IF inFun THEN fun.left ELSE "<unknown>",
           file |-> IF named = {} THEN "<unknown>" ELSE Max(named)]
=============================================================================
