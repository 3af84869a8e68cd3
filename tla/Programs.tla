------------------------------ MODULE Programs -------------------------------
(***************************************************************************)
(* User programs at work: the heap tests, each alone and one call at a time,  *)
(* and the sorting programs, several at once under the clock, with the frames *)
(* of the machine between them.  A program with its interrupts disabled is    *)
(* not preempted.  A page fault that finds no frame, or no page, is a kernel   *)
(* panic: the program exits.  Its frames stay taken, for env_free is never     *)
(* completed.  The division by zero of InitializeSemiRandom traps, returns     *)
(* and traps again for ever.                                                  *)
(***************************************************************************)
EXTENDS Sorters, HeapTests, ProgramMemory

CONSTANTS Workloads,  \* records [names, heap, frames, numbers]: what is run, on how many
                      \* pages and frames, and the numbers of elements the user enters
          CallsPerPage, \* calls of a recursive function whose stack frames fill one page
          MaxRounds   \* BOUND: after so many rounds the user answers n

ASSUME ProgramsAssumption == MaxRounds \in Nat \ {0} /\ CallsPerPage \in Nat \ {0} /\ \A w \in Workloads : w.numbers \subseteq 1..2048

VARIABLES progs,  \* the programs
          cur,    \* the one that runs; 0 when none is left
          frames  \* frames of the machine
vars == <<progs, cur, frames>>

Element == 1024  \* elements of an array in one page

\* if: FL_IF of its trap frame; ptrs: what malloc returned; merges: calls of Merge
\* left; numbers: what its user may enter.
NewProgram(name, heap, numbers) ==
  [name |-> name, numbers |-> numbers, pc |-> 1, if |-> TRUE, status |-> "ready", n |-> 0, ptrs |-> <<>>,
   chose |-> "", round |-> 0, merges |-> 0, mem |-> NewMemory(heap)]

Init == \E w \in Workloads :
  /\ progs = [i \in DOMAIN w.names |-> NewProgram(w.names[i], w.heap, w.numbers)]
  /\ cur = 1
  /\ frames = w.frames

me == progs[cur]
Tested(p) == p.name \in DOMAIN Tests
Code(p) == IF Tested(p) THEN Tests[p.name] ELSE Sorters[p.name].steps
Says(p) == Sorters[p.name].says
Finished(p) == p.pc > Len(Code(p))
At(step) == cur # 0 /\ me.status = "ready" /\ ~Tested(me) /\ ~Finished(me) /\ Code(me)[me.pc] = step
FreeFrames == frames - FoldSet(LAMBDA i, s : s + progs[i].mem.got, 0, DOMAIN progs)
Array == me.ptrs[Len(me.ptrs)]
ArrayPages == Array..(Array + (me.n - 1) \div Element)

Becomes(p) == progs' = [progs EXCEPT ![cur] = p] /\ UNCHANGED <<cur, frames>>
Goes(p) == Becomes([p EXCEPT !.pc = @ + 1])
\* env_exit, and the scheduler takes another one.
Leaves(p) ==
  /\ progs' = [progs EXCEPT ![cur] = p]
  /\ LET ready == {q \in DOMAIN progs \ {cur} : progs[q].status = "ready"}
     IN  IF ready = {} THEN cur' = 0 ELSE cur' \in ready
  /\ UNCHANGED frames
Dies(cause, got) == Leaves([me EXCEPT !.status = cause, !.mem.got = got])
\* The memory becomes m, unless the frames are not enough: then all are taken.
WithMemory(m, Then(_)) ==
  \E new \in {m} :
    IF new.got - me.mem.got > FreeFrames THEN Dies("no memory", me.mem.got + FreeFrames)
    ELSE Then([me EXCEPT !.mem = new])
\* The access faults; a page that is not in the page file ends the program.
Accesses(page, Then(_)) ==
  IF Missing(me.mem, page)
  THEN WithMemory(Touch(me.mem, page), LAMBDA p : Dies("no page", p.mem.got))
  ELSE WithMemory(Touch(me.mem, page), Then)

---------------------------------------------------------------------------
(* The sorting programs *)

sys_disable_interrupt == At("lock") /\ Goes([me EXCEPT !.if = FALSE])
sys_enable_interrupt == At("unlock") /\ Goes([me EXCEPT !.if = TRUE])
\* The kernel has no such calls: -E_INVAL, which nobody looks at.
Semaphore == At("semaphore") /\ Goes(me)
Do == At("do") /\ Goes([me EXCEPT !.round = @ + 1])

\* Mutant: the interrupts are enabled behind the answer.
readline_Atomic == At("ask") /\ \E n \in me.numbers : Goes([me EXCEPT !.n = n, !.if = TRUE])
readline ==
  /\ At("ask")
  /\ \E n \in IF Says(me) = <<>> THEN me.numbers ELSE {Says(me)[me.round].n} : Goes([me EXCEPT !.n = n])

Allocate ==
  /\ At("malloc")
  /\ \E r \in {malloc(me.mem, (me.n + Element - 1) \div Element)} :
       WithMemory(r.mem, LAMBDA p : Goes([p EXCEPT !.ptrs = <<r.va>>]))

\* Elements[NumOfElements] = 10
TailElement == At("tail") /\ Accesses(Array + me.n \div Element, Goes)

Chosen == IF Says(me) = <<>> THEN {"ordered", "random"} ELSE {Says(me)[me.round].choice}
Choose == At("choose") /\ \E c \in Chosen : Goes([me EXCEPT !.chose = c])
\* Any other key is read and asked for again: no change.
ChooseStrict == At("choose_strict") /\ \E c \in Chosen : Goes([me EXCEPT !.chose = c])

\* The pages of the array are written one after the other.
Fill ==
  /\ At("fill")
  /\ LET left == ArrayPages \ me.mem.resident
     IN  IF me.chose = "random" /\ me.n < 3 THEN Becomes([me EXCEPT !.status = "hangs"])
         ELSE IF left = {} THEN Goes([me EXCEPT !.merges = me.n - 1])
         ELSE Accesses(Min(left), Becomes)

\* n calls within each other reach so many pages below the first one of the stack.
StackPages(n) == n \div CallsPerPage
\* QSort, and factorial and fibonacci: each call may touch a new page of the stack,
\* which stays when the calls return.
Recurse(step) == At(step) /\ me.mem.stack < StackPages(me.n) /\ WithMemory(Deepen(me.mem), Becomes)
\* On an ascending or descending array all n calls lie within each other; on
\* another one fewer may.
Sort(step) ==
  /\ At(step)
  /\ me.chose = "random" \/ me.mem.stack >= StackPages(me.n)
  /\ Goes([me EXCEPT !.merges = 0])

\* One Merge, called within few others, in the first page of the stack: two arrays of one page each, both written, then freed or not.
Merge(frees) ==
  \E left \in {malloc(me.mem, 1)} : \E right \in {malloc(left.mem, 1)} :
    WithMemory(TouchAll(right.mem, {left.va, right.va}), LAMBDA p :
      IF NULL \in {left.va, right.va} THEN Dies("no page", p.mem.got)
      ELSE \E half \in {free(p.mem, left.va)} :
             Becomes([p EXCEPT !.merges = @ - 1, !.mem = IF frees THEN free(half, right.va) ELSE @]))
MSort(step, frees) == At(step) /\ IF me.merges > 0 THEN Merge(frees) ELSE Goes(me)

Say == At("say") /\ Goes(me)
Free == At("free") /\ Goes([me EXCEPT !.mem = free(@, Array), !.ptrs = <<>>])

Repeats ==
  IF Says(me) # <<>> THEN {Says(me)[me.round].again}
  ELSE IF me.round < MaxRounds THEN {"y", "n"} ELSE {"n"}
Again == At("again") /\ \E c \in Repeats : Goes([me EXCEPT !.chose = c])
\* Mutant: while (Chose != 'y' || Chose != 'n').
AgainStrict_Never == At("again_strict") /\ \E c \in Repeats : Becomes([me EXCEPT !.chose = c])
AgainStrict == At("again_strict") /\ \E c \in Repeats : Goes([me EXCEPT !.chose = c])
While ==
  /\ At("while")
  /\ IF me.chose = "y" THEN Becomes([me EXCEPT !.chose = "", !.pc = CHOOSE k \in DOMAIN Code(me) : Code(me)[k] = "do"])
     ELSE Goes(me)
Exit == cur # 0 /\ me.status = "ready" /\ Finished(me) /\ Leaves([me EXCEPT !.status = "exited"])

---------------------------------------------------------------------------
(* The heap tests: one call and its assertions *)

Matches(expected, found) == expected = Any \/ expected = found
Test(op) == cur # 0 /\ me.status = "ready" /\ Tested(me) /\ ~Finished(me) /\ Code(me)[me.pc].op = op
Call == Code(me)[me.pc]
Passes(ok, p) == IF ok THEN Goes(p) ELSE Leaves([p EXCEPT !.status = "failed"])

TestMalloc ==
  /\ Test("malloc")
  /\ \E r \in {malloc(me.mem, Pages(Call.kb))} :
     LET at == \/ Call.at = Any
               \/ r.va >= Call.at /\ (Call.slack = Any \/ r.va <= Call.at + Call.slack)
         ok == /\ at
               /\ Matches(Call.pf, r.mem.disk - me.mem.disk)
               /\ Matches(Call.fr, r.mem.got - me.mem.got)
     IN  WithMemory(r.mem, LAMBDA p : Passes(ok, [p EXCEPT !.ptrs = Append(@, r.va)]))
TestNull ==
  /\ Test("null")
  /\ \E r \in {malloc(me.mem, Pages(Call.kb))} :
       Passes(r.va = NULL /\ r.mem.disk = me.mem.disk /\ r.mem.got = me.mem.got, [me EXCEPT !.mem = r.mem])

Target == me.ptrs[Call.of + 1]
InTarget(pages, Then(_)) ==
  LET m == TouchAll(me.mem, pages)
  IN  IF \E a \in pages : Missing(me.mem, a) THEN Dies("no page", m.got) ELSE WithMemory(m, Then)
Found(ws, page) == Cardinality({k \in DOMAIN ws : ws[k] = page})
TestTouch ==
  /\ Test("touch")
  /\ InTarget({Target + Call.offsets[k] : k \in DOMAIN Call.offsets}, LAMBDA p :
       LET found == FoldSet(LAMBDA k, a : a + Found(p.mem.ws, Target + Call.offsets[k]), 0, DOMAIN Call.offsets)
       IN  Passes(Call.fr = p.mem.got - me.mem.got /\ Call.found = found, p))
Cells == {<<Target + c[1], c[2]>> : c \in Call.cells}
TestStore ==
  /\ Test("store")
  /\ InTarget({Target + c[1] : c \in Call.cells}, LAMBDA p :
       LET Stored(d) == CHOOSE c \in Call.cells : <<Target + c[1], c[2]>> = d
       IN  Goes([p EXCEPT !.mem.data = [d \in DOMAIN @ \cup Cells |-> IF d \in Cells THEN Stored(d)[3] ELSE @[d]]]))
TestLoad ==
  /\ Test("load")
  /\ InTarget({Target + c[1] : c \in Call.cells}, LAMBDA p :
       Passes(\A c \in Call.cells : <<Target + c[1], c[2]>> \in DOMAIN p.mem.data /\ p.mem.data[<<Target + c[1], c[2]>>] = c[3], p))
TestFree ==
  /\ Test("free")
  /\ \E m \in {free(me.mem, Target)} :
       Passes(Matches(Call.pf, me.mem.disk - m.disk) /\ Matches(Call.fr, me.mem.got - m.got), [me EXCEPT !.mem = m])
TestAbsent == Test("absent") /\ Passes(\A o \in Call.offsets : Found(me.mem.ws, Target + o) = 0, me)
\* The faulting instructions are skipped and counted.
TestDenied == Test("denied") /\ Passes(\A o \in Call.offsets : Target + o \notin me.mem.resident, me)
TestTotals == Test("totals") /\ Passes(Matches(Call.pf, me.mem.disk) /\ Matches(Call.fr, me.mem.got), me)

---------------------------------------------------------------------------
Step == \/ sys_disable_interrupt \/ sys_enable_interrupt \/ Semaphore \/ Do \/ readline \/ Allocate \/ TailElement
        \/ Choose \/ ChooseStrict \/ Fill
        \/ Recurse("sort") \/ Sort("sort") \/ Recurse("recurse") \/ Sort("recurse") \/ MSort("merge", TRUE) \/ MSort("merge_leak", FALSE)
        \/ Say \/ Free \/ Again \/ AgainStrict \/ While \/ Exit
        \/ TestMalloc \/ TestNull \/ TestTouch \/ TestStore \/ TestLoad \/ TestFree \/ TestAbsent \/ TestDenied \/ TestTotals

\* The clock interrupt, only with the interrupts enabled.
Clock ==
  /\ cur # 0 /\ me.if
  /\ cur' \in {q \in DOMAIN progs \ {cur} : progs[q].status \in {"ready", "hangs"}}
  /\ UNCHANGED <<progs, frames>>

Next == Step \/ Clock

\* Every program is given the processor again and again, and the user answers.
Spec == Init /\ [][Next]_vars /\ \A i \in 1..2 : SF_vars(cur = i /\ Step)

---------------------------------------------------------------------------
\* The assertions of tst_malloc_1, 2 and 3, tst_free_1 and 2 and tst_nextfit on
\* malloc and free hold of the heap: the addresses, the frames and the pages of
\* the page file taken and returned, the entries of the working set after an
\* access and after free, the values read back, and accesses after free that
\* fault.  Their first lines, that the working set and the heap are large enough
\* for the test, are about the build's constants and are assumed.
TestsPass == \A i \in DOMAIN progs :
  /\ progs[i].status # "failed"
  /\ Tested(progs[i]) => progs[i].status \notin {"no page", "no memory"}

Inside(p) == LET locks == {k \in 1..(p.pc - 1) : Code(p)[k] \in {"lock", "unlock"}}
             IN  locks # {} /\ Code(p)[Max(locks)] = "lock"
\* From sys_disable_interrupt to sys_enable_interrupt the dialogue is whole: no
\* other program takes a step, whatever faults and answers come in between.
WholeDialogue == [][\A i \in DOMAIN progs :
  ~Tested(progs[i]) /\ progs[i].status = "ready" /\ Inside(progs[i]) =>
    \A j \in DOMAIN progs \ {i} : progs'[j] = progs[j]]_vars

\* A program that frees its arrays holds, whenever it asks to repeat, no block, no
\* page of its heap, no entry of the working set for one, and no frame but those
\* of its page-file tables and of the stack its deepest recursion so far needed:
\* the stack of the longest array, however many the rounds.  So it can go on for
\* ever, and never runs out of heap.
NothingKept == \A i \in DOMAIN progs : progs[i].name \in Freeing =>
  /\ ~Finished(progs[i]) /\ Code(progs[i])[progs[i].pc] \in {"again", "again_strict"} =>
       /\ progs[i].mem.blocks = {} /\ progs[i].mem.resident = {}
       /\ progs[i].mem.ws = <<>>
       /\ progs[i].mem.got <= Cardinality(progs[i].mem.dtables) + progs[i].mem.stack
       /\ progs[i].mem.stack = 0 \/ \E n \in progs[i].numbers : progs[i].mem.stack <= StackPages(n)
  /\ progs[i].status = "no page" => Code(progs[i])[progs[i].pc] = "tail"

\* Every program comes to its end, whatever the others do, unless one hangs in
\* its division by zero.
AllFinish == <>(\/ \A i \in DOMAIN progs : progs[i].status # "ready"
                \/ \E i \in DOMAIN progs : progs[i].status = "hangs")
==============================================================================
