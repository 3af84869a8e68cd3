---------------------------- MODULE PromptProofs ---------------------------
(***************************************************************************)
(* Proofs about the console and its readers, for any number of programs,   *)
(* any keys and any sizes of the ring, the screen and the line: a line     *)
(* that is read atomically is one program's, and characters pass the       *)
(* keyboard and the ring whole and in order.                               *)
(***************************************************************************)
EXTENDS Prompt, SequenceTheorems, WellFoundedInduction, TLAPS

-----------------------------------------------------------------------------
(* Atomic lines. *)

\* The locals of readline. Their values other than reading and atomic play no
\* part here.
Fields == {"reading", "atomic", "i", "buf", "plain"}

IsLine(l) == l = [f \in Fields |-> l[f]]

\* The locals belong to programs, and one program runs.
Lines ==
    /\ cur \in Programs
    /\ intr = [p \in Programs |-> intr[p]]
    /\ rd = [p \in Programs |-> rd[p]]
    /\ \A p \in Programs : IsLine(rd[p])

\* Who reads a line with atomic_readline has disabled interrupts, and so it is
\* the program that runs.
AtomicRuns ==
    \A p \in Programs : rd[p].reading /\ rd[p].atomic => p = cur /\ ~intr[p]

AInv == Lines /\ AtomicRuns

\* A character leaves readline's locals a record, and it ends the line or
\* leaves it as atomic as it was.
LEMMA LineKeyAtomic ==
    ASSUME NEW l, NEW c, IsLine(l)
    PROVE  /\ IsLine(LineKey(l, c))
           /\ LineKey(l, c) = Idle \/ (/\ LineKey(l, c).reading = l.reading
                                       /\ LineKey(l, c).atomic = l.atomic)
<1>1. IsLine(Idle)
  BY DEF IsLine, Fields, Idle
<1>2. CASE Printable(c) /\ l.i < BUFLEN - 1
  <2>1. c # "BS" /\ c \notin {"NL", "CR"}
    BY <1>2 DEF Printable
  <2>2. LineKey(l, c) = [l EXCEPT !.buf[l.i] = c, !.i = @ + 1,
                                  !.plain = @ /\ c \notin {"LF", "RT", "DEL"}]
    BY <1>2, <2>1, Zenon DEF LineKey
  <2> QED
    BY <2>2 DEF IsLine, Fields
<1>3. CASE c = "BS" /\ l.i > 0
  <2>1. ~Printable(c) /\ c \notin {"NL", "CR"}
    BY <1>3 DEF Printable
  <2>2. LineKey(l, c) = [l EXCEPT !.i = @ - 1]
    BY <1>3, <2>1, Zenon DEF LineKey
  <2> QED
    BY <2>2 DEF IsLine, Fields
<1>4. CASE c \in {"NL", "CR"}
  <2>1. ~Printable(c) /\ c # "BS"
    BY <1>4 DEF Printable
  <2>2. LineKey(l, c) = Idle
    BY <1>4, <2>1, Zenon DEF LineKey
  <2> QED
    BY <1>1, <2>2
<1>5. CASE /\ ~(Printable(c) /\ l.i < BUFLEN - 1)
           /\ ~(c = "BS" /\ l.i > 0)
           /\ c \notin {"NL", "CR"}
  <2>1. LineKey(l, c) = l
    BY <1>5, Zenon DEF LineKey
  <2> QED
    BY <2>1
<1> QED
  BY <1>2, <1>3, <1>4, <1>5

\* A line that is read atomically, before and after a step, is the only one
\* the step may have changed.
OthersKept ==
    \A p, q \in Programs :
        p # q /\ rd[p].reading /\ rd[p].atomic /\ rd'[p].reading => rd'[q] = rd[q]

\* The invariant speaks of cur, intr and rd only.
LEMMA AInvUnchanged ==
    AInv /\ UNCHANGED <<cur, intr, rd>> => AInv' /\ OthersKept
  BY DEF AInv, Lines, AtomicRuns, OthersKept, IsLine

\* At first nobody reads.
LEMMA AInvInit == Init => AInv
<1> SUFFICES ASSUME Init PROVE AInv
  OBVIOUS
<1>1. IsLine(Idle) /\ Idle.reading = FALSE
  BY DEF IsLine, Fields, Idle
<1>2. /\ cur \in Programs
      /\ intr = [p \in Programs |-> TRUE]
      /\ rd = [p \in Programs |-> Idle]
  BY DEF Init
<1> QED
  BY <1>1, <1>2 DEF AInv, Lines, AtomicRuns

\* The start of atomic_readline disables interrupts before the line is open.
LEMMA StartReadlineAtomic ==
    ASSUME AInv, NEW atomic \in BOOLEAN, StartReadline(atomic)
    PROVE  AInv' /\ OthersKept
<1> DEFINE new == [Idle EXCEPT !.reading = TRUE, !.atomic = atomic]
<1>1. IsLine(new) /\ new.reading /\ new.atomic = atomic
  BY DEF IsLine, Fields, Idle
<1>2. /\ ~rd[cur].reading /\ cur' = cur
      /\ rd' = [rd EXCEPT ![cur] = new]
      /\ intr' = [intr EXCEPT ![cur] = ~atomic]
  BY DEF StartReadline
<1> HIDE DEF new
<1>3. \A p \in Programs \ {cur} : ~(rd[p].reading /\ rd[p].atomic)
  BY DEF AInv, AtomicRuns
<1>4. /\ cur \in Programs
      /\ \A p \in Programs : rd'[p] = IF p = cur THEN new ELSE rd[p]
      /\ \A p \in Programs : intr'[p] = IF p = cur THEN ~atomic ELSE intr[p]
  BY <1>2 DEF AInv, Lines
<1>5. Lines'
  BY <1>1, <1>2, <1>4 DEF AInv, Lines, IsLine
<1>6. AtomicRuns'
  BY <1>1, <1>2, <1>3, <1>4 DEF AtomicRuns
<1>7. OthersKept
  BY <1>2, <1>3, <1>4 DEF OthersKept
<1> QED
  BY <1>5, <1>6, <1>7 DEF AInv

\* A character goes to the running program; interrupts stay disabled until the
\* line has ended.
LEMMA ReadCharAtomic ==
    ASSUME AInv, ReadChar
    PROVE  AInv' /\ OthersKept
<1> DEFINE c == cons_getc2(con, com, kbd)[1]
           k == LineKey(rd[cur], c)
<1>1. CASE UNCHANGED <<rd, intr>>
  BY <1>1, AInvUnchanged DEF ReadChar
<1>2. CASE ~UNCHANGED <<rd, intr>>
  <2>1. /\ cur' = cur
        /\ rd' = [rd EXCEPT ![cur] = k]
        /\ intr' = [intr EXCEPT ![cur] = @ \/ ~k.reading]
    BY <1>2 DEF ReadChar
  <2>2. cur \in Programs /\ IsLine(rd[cur])
    BY DEF AInv, Lines
  <2>3. IsLine(k) /\ (k = Idle \/ (k.reading = rd[cur].reading /\ k.atomic = rd[cur].atomic))
    BY <2>2, LineKeyAtomic
  <2>4. ~Idle.reading
    BY DEF Idle
  <2> HIDE DEF k
  <2>5. /\ \A p \in Programs : rd'[p] = IF p = cur THEN k ELSE rd[p]
        /\ \A p \in Programs : intr'[p] = IF p = cur THEN intr[p] \/ ~k.reading ELSE intr[p]
    BY <2>1, <2>2 DEF AInv, Lines
  <2>6. \A p \in Programs \ {cur} : ~(rd[p].reading /\ rd[p].atomic)
    BY DEF AInv, AtomicRuns
  <2>7. Lines'
    BY <2>1, <2>2, <2>3, <2>5 DEF AInv, Lines, IsLine
  <2>8. AtomicRuns'
    BY <2>1, <2>2, <2>3, <2>4, <2>5, <2>6 DEF AInv, AtomicRuns
  <2>9. OthersKept
    BY <2>1, <2>5, <2>6 DEF OthersKept
  <2> QED
    BY <2>7, <2>8, <2>9 DEF AInv
<1> QED
  BY <1>1, <1>2

\* The clock takes the processor only from a program whose interrupts are
\* enabled, so no line is read atomically then.
LEMMA SwitchAtomic ==
    ASSUME AInv, Switch
    PROVE  AInv' /\ OthersKept
<1>1. \A p \in Programs : ~(rd[p].reading /\ rd[p].atomic)
  BY DEF AInv, Lines, AtomicRuns, Switch
<1> QED
  BY <1>1 DEF AInv, Lines, AtomicRuns, OthersKept, Switch, IsLine

\* Every step keeps the invariant and the lines of the others.
LEMMA AInvStep == AInv /\ [Next]_vars => AInv' /\ OthersKept
<1> SUFFICES ASSUME AInv, [Next]_vars PROVE AInv' /\ OthersKept
  OBVIOUS
<1>1. CASE \E key \in PromptKeys \cup ProgramKeys : Stroke(key)
  BY <1>1, AInvUnchanged DEF Stroke, Typing
<1>2. CASE \E key \in HoldKeys : Press(key) \/ Release(key)
  BY <1>2, AInvUnchanged DEF Press, Release, Typing
<1>3. CASE SerialInput("s")
  BY <1>3, AInvUnchanged DEF SerialInput
<1>4. CASE PromptKey
  BY <1>4, AInvUnchanged DEF PromptKey
<1>5. CASE PromptEnter
  BY <1>5, AInvUnchanged DEF PromptEnter
<1>6. CASE \E atomic \in BOOLEAN : StartReadline(atomic)
  BY <1>6, StartReadlineAtomic
<1>7. CASE ReadChar
  BY <1>7, ReadCharAtomic
<1>8. CASE Switch
  BY <1>8, SwitchAtomic
<1>9. CASE BackToPrompt
  BY <1>9, AInvUnchanged DEF BackToPrompt
<1>10. CASE UNCHANGED vars
  BY <1>10, AInvUnchanged DEF vars
<1>11. CASE PromptOverrun
  BY <1>11, AInvUnchanged DEF PromptOverrun
<1> QED
  BY <1>1, <1>2, <1>3, <1>4, <1>5, <1>6, <1>7, <1>8, <1>9, <1>10, <1>11 DEF Next

\* While a program reads a line with atomic_readline of lib/readline.c, no
\* other program's line changes, however the clock and the keys interleave.
THEOREM AtomicSafe == Spec => AtomicLine
<1>1. Init => AInv
  BY AInvInit
<1>2. AInv /\ [Next]_vars => AInv'
  BY AInvStep
<1>3. AInv /\ [Next]_vars => [OthersKept]_vars
  BY AInvStep
<1> QED
  BY <1>1, <1>2, <1>3, PTL DEF Spec, AtomicLine, OthersKept

-----------------------------------------------------------------------------
(* The ring of kern/console.c. *)

LEMMA RingSize == CONSBUFSIZE \in Nat /\ CONSBUFSIZE >= 2
  BY ConsoleAssumption

IsSeq(q) == \E S : q \in Seq(S)

LEMMA SeqFacts ==
    ASSUME NEW q, IsSeq(q)
    PROVE  /\ Len(q) \in Nat /\ (q = <<>> <=> Len(q) = 0)
           /\ q = [k \in 1 .. Len(q) |-> q[k]]
  <1>1. PICK S : q \in Seq(S)
    BY DEF IsSeq
  <1> QED
    BY <1>1, LenProperties, EmptySeq

\* What a sequence becomes at its end, ...
LEMMA AppendFacts ==
    ASSUME NEW q, IsSeq(q), NEW c
    PROVE  /\ IsSeq(Append(q, c)) /\ Len(Append(q, c)) = Len(q) + 1
           /\ \A k \in 1 .. Len(q) : Append(q, c)[k] = q[k]
           /\ Append(q, c)[Len(q) + 1] = c
  <1>1. PICK S : q \in Seq(S)
    BY DEF IsSeq
  <1>2. q \in Seq(S \cup {c}) /\ c \in S \cup {c}
    BY <1>1
  <1> QED
    BY <1>2, AppendProperties DEF IsSeq

\* ... and at its head.
LEMMA TailFacts ==
    ASSUME NEW q, IsSeq(q), q # <<>>
    PROVE  /\ IsSeq(Tail(q)) /\ Len(Tail(q)) = Len(q) - 1
           /\ \A k \in 1 .. Len(q) - 1 : Tail(q)[k] = q[k + 1]
           /\ Head(q) = q[1]
  <1>1. PICK S : q \in Seq(S)
    BY DEF IsSeq
  <1> QED
    BY <1>1, HeadTailProperties DEF IsSeq

ConsoleFields == {"shift", "buf", "rpos", "wpos", "unread", "overrun", "screen"}
Places == 0 .. CONSBUFSIZE - 1

\* The cell of the ring k places after p.
After(p, k) == IF p + k < CONSBUFSIZE THEN p + k ELSE p + k - CONSBUFSIZE

IsConsole(st) ==
    /\ st = [f \in ConsoleFields |-> st[f]]
    /\ st.rpos \in Places /\ st.wpos \in Places
    /\ st.buf = [k \in Places |-> st.buf[k]]
    /\ IsSeq(st.unread)

\* What is unread lies between the two positions, in order, and leaves a cell.
InOrder(st) ==
    st.overrun \/ /\ Len(st.unread) < CONSBUFSIZE
                  /\ st.wpos = After(st.rpos, Len(st.unread))
                  /\ \A k \in 1 .. Len(st.unread) :
                        st.buf[After(st.rpos, k - 1)] = st.unread[k]

Ring(st) == IsConsole(st) /\ InOrder(st)

\* The next cell is where Bump goes, ...
LEMMA AfterNext ==
    ASSUME NEW p \in Places, NEW k \in Places
    PROVE  /\ Bump(p) \in Places /\ After(p, k) \in Places /\ After(p, 0) = p
           /\ k + 1 < CONSBUFSIZE => /\ Bump(After(p, k)) = After(p, k + 1)
                                     /\ After(Bump(p), k) = After(p, k + 1)
  BY RingSize DEF Places, After, Bump

\* ... different distances are different cells, ...
LEMMA AfterApart ==
    ASSUME NEW p \in Places, NEW j \in Places, NEW k \in Places,
           After(p, j) = After(p, k)
    PROVE  j = k
  BY RingSize DEF Places, After

\* ... and the model computes cell and distance by remainders.
LEMMA AfterModulo ==
    ASSUME NEW p \in Places, NEW k \in Places
    PROVE  /\ After(p, k) = (p + k) % CONSBUFSIZE
           /\ (After(p, k) + CONSBUFSIZE - p) % CONSBUFSIZE = k
  <1> USE RingSize
  <1>0. \A a, q \in Int : \A r \in 0 .. CONSBUFSIZE - 1 :
           a = CONSBUFSIZE * q + r => a % CONSBUFSIZE = r
    OBVIOUS
  <1> DEFINE a == After(p, k) + CONSBUFSIZE - p
  <1>1. CASE p + k < CONSBUFSIZE
    <2>1. /\ p + k = CONSBUFSIZE * 0 + (p + k) /\ p + k \in 0 .. CONSBUFSIZE - 1
          /\ After(p, k) = p + k
          /\ a = CONSBUFSIZE * 1 + k /\ a \in Int /\ k \in 0 .. CONSBUFSIZE - 1
      BY <1>1 DEF Places, After
    <2> HIDE DEF a
    <2>2. (p + k) % CONSBUFSIZE = p + k /\ a % CONSBUFSIZE = k
      BY <1>0, <2>1
    <2> QED
      BY <2>1, <2>2 DEF a
  <1>2. CASE ~(p + k < CONSBUFSIZE)
    <2> DEFINE b == p + k - CONSBUFSIZE
    <2>1. /\ p + k = CONSBUFSIZE * 1 + b /\ p + k \in Int
          /\ b \in 0 .. CONSBUFSIZE - 1 /\ After(p, k) = b
          /\ a = CONSBUFSIZE * 0 + k /\ a \in Int /\ k \in 0 .. CONSBUFSIZE - 1
      BY <1>2 DEF Places, After
    <2> HIDE DEF a, b
    <2>2. (p + k) % CONSBUFSIZE = b /\ a % CONSBUFSIZE = k
      BY <1>0, <2>1
    <2> QED
      BY <2>1, <2>2 DEF a
  <1> QED
    BY <1>1, <1>2

\* What is between the positions is what is unread.
LEMMA WaitingUnread ==
    ASSUME NEW st, Ring(st), ~st.overrun
    PROVE  Waiting(st) = st.unread
  <1> DEFINE n == Len(st.unread)
  <1>1. /\ n \in Nat /\ n < CONSBUFSIZE /\ st.rpos \in Places
        /\ st.wpos = After(st.rpos, n)
        /\ \A k \in 1 .. n : st.buf[After(st.rpos, k - 1)] = st.unread[k]
        /\ st.unread = [k \in 1 .. n |-> st.unread[k]]
    BY SeqFacts DEF Ring, IsConsole, InOrder
  <1>2. n \in Places /\ \A k \in 1 .. n : k - 1 \in Places
    BY <1>1, RingSize DEF Places
  <1> HIDE DEF n
  <1>3. (st.wpos + CONSBUFSIZE - st.rpos) % CONSBUFSIZE = n
    <2>1. (After(st.rpos, n) + CONSBUFSIZE - st.rpos) % CONSBUFSIZE = n
      BY <1>1, <1>2, AfterModulo
    <2> QED
      BY <1>1, <2>1
  <1>4. \A k \in 1 .. n : st.rpos + k - 1 = st.rpos + (k - 1)
    BY <1>1 DEF Places
  <1>5. \A k \in 1 .. n : st.buf[(st.rpos + k - 1) % CONSBUFSIZE] = st.unread[k]
    BY <1>1, <1>2, <1>4, AfterModulo
  <1> QED
    BY <1>1, <1>3, <1>5 DEF Waiting

\* A character goes behind what is unread.
LEMMA PutRing ==
    ASSUME NEW st, Ring(st), NEW c
    PROVE  Ring(Put(st, c)) /\ Put(st, c).shift = st.shift
  <1> DEFINE z == Put(st, c)
             n == Len(st.unread)
  <1>1. CASE c = NO
    BY <1>1 DEF Put
  <1>2. CASE c # NO
    <2>1. /\ st = [f \in ConsoleFields |-> st[f]]
          /\ st.rpos \in Places /\ st.wpos \in Places
          /\ st.buf = [k \in Places |-> st.buf[k]]
          /\ IsSeq(st.unread)
      BY DEF Ring, IsConsole
    <2>2. z = [st EXCEPT !.buf[st.wpos] = c, !.wpos = Bump(@),
                         !.unread = Append(@, c),
                         !.overrun = @ \/ Len(st.unread) + 1 = CONSBUFSIZE]
      BY <1>2 DEF Put
    <2>3. /\ z = [f \in ConsoleFields |-> z[f]]
          /\ z.shift = st.shift /\ z.rpos = st.rpos /\ z.wpos = Bump(st.wpos)
          /\ z.buf = [st.buf EXCEPT ![st.wpos] = c]
          /\ z.unread = Append(st.unread, c)
          /\ z.overrun = (st.overrun \/ n + 1 = CONSBUFSIZE)
      BY <2>1, <2>2 DEF ConsoleFields
    <2> HIDE DEF z
    <2>4. /\ IsSeq(z.unread) /\ n \in Nat /\ Len(z.unread) = n + 1
          /\ \A k \in 1 .. n : z.unread[k] = st.unread[k]
          /\ z.unread[n + 1] = c
      <3> DEFINE q == st.unread
      <3>1. IsSeq(q)
        BY <2>1
      <3> HIDE DEF q
      <3>2. /\ Len(q) \in Nat /\ IsSeq(Append(q, c)) /\ Len(Append(q, c)) = Len(q) + 1
            /\ \A k \in 1 .. Len(q) : Append(q, c)[k] = q[k]
            /\ Append(q, c)[Len(q) + 1] = c
        BY <3>1, SeqFacts, AppendFacts
      <3> QED
        BY <2>3, <3>2 DEF q
    <2>5. IsConsole(z)
      BY <2>1, <2>3, <2>4, AfterNext DEF IsConsole
    <2> HIDE DEF n
    <2>6. ASSUME ~z.overrun
          PROVE  /\ n + 1 < CONSBUFSIZE
                 /\ z.wpos = After(z.rpos, n + 1)
                 /\ \A k \in 1 .. n + 1 : z.buf[After(z.rpos, k - 1)] = z.unread[k]
      <3>1. /\ ~st.overrun /\ n + 1 # CONSBUFSIZE
        BY <2>3, <2>6
      <3>2. /\ n < CONSBUFSIZE /\ st.wpos = After(st.rpos, n)
            /\ \A k \in 1 .. n : st.buf[After(st.rpos, k - 1)] = st.unread[k]
        BY <3>1 DEF Ring, InOrder, n
      <3>3. n + 1 < CONSBUFSIZE /\ n \in Places
        BY <2>4, <3>1, <3>2, RingSize DEF Places
      <3>4. z.wpos = After(z.rpos, n + 1)
        <4>1. Bump(After(st.rpos, n)) = After(st.rpos, n + 1)
          BY <2>1, <3>3, AfterNext
        <4> QED
          BY <2>3, <3>2, <4>1
      <3>5. \A k \in 1 .. n : /\ k - 1 \in Places
                              /\ After(st.rpos, k - 1) \in Places
                              /\ After(st.rpos, k - 1) # st.wpos
        <4> TAKE k \in 1 .. n
        <4>1. k - 1 \in Places /\ k - 1 # n
          BY <2>4, <3>2, RingSize DEF Places
        <4> DEFINE i == k - 1
                   p == st.rpos
        <4>2. i \in Places /\ i # n /\ p \in Places
          BY <2>1, <4>1
        <4> HIDE DEF i, p
        <4>3. After(p, i) \in Places
          BY <4>2, AfterNext
        <4>4. After(p, i) # After(p, n)
          BY <3>3, <4>2, AfterApart
        <4> QED
          BY <3>2, <4>2, <4>3, <4>4 DEF i, p
      <3>6. \A k \in 1 .. n : z.buf[After(z.rpos, k - 1)] = z.unread[k]
        <4>1. \A i \in Places : i # st.wpos => z.buf[i] = st.buf[i]
          BY <2>1, <2>3
        <4> TAKE k \in 1 .. n
        <4>2. z.buf[After(st.rpos, k - 1)] = st.buf[After(st.rpos, k - 1)]
          BY <3>5, <4>1
        <4>3. st.buf[After(st.rpos, k - 1)] = st.unread[k] /\ z.unread[k] = st.unread[k]
          BY <2>4, <3>2
        <4> QED
          BY <2>3, <4>2, <4>3
      <3>7. z.buf[After(z.rpos, n)] = z.unread[n + 1]
        BY <2>1, <2>3, <2>4, <3>2
      <3>8. \A k \in 1 .. n + 1 : k \in 1 .. n \/ (k = n + 1 /\ k - 1 = n)
        BY <2>4
      <3> QED
        BY <3>3, <3>4, <3>6, <3>7, <3>8
    <2> QED
      BY <2>3, <2>4, <2>5, <2>6 DEF Ring, InOrder, z
  <1> QED
    BY <1>1, <1>2

\* A character that is taken is the first of what is unread.
LEMMA TakeRing ==
    ASSUME NEW st, Ring(st)
    PROVE  Ring(Take(st)[2]) /\ Take(st)[2].shift = st.shift
  <1> DEFINE z == Take(st)[2]
             n == Len(st.unread)
  <1>1. CASE st.rpos = st.wpos
    BY <1>1 DEF Take
  <1>2. CASE st.rpos # st.wpos
    <2>1. /\ st = [f \in ConsoleFields |-> st[f]]
          /\ st.rpos \in Places /\ st.wpos \in Places
          /\ st.buf = [k \in Places |-> st.buf[k]]
          /\ IsSeq(st.unread)
      BY DEF Ring, IsConsole
    <2>2. z = [st EXCEPT !.rpos = Bump(@), !.unread = IF @ = <<>> THEN @ ELSE Tail(@)]
      BY <1>2 DEF Take
    <2>3. /\ z = [f \in ConsoleFields |-> z[f]]
          /\ z.shift = st.shift /\ z.rpos = Bump(st.rpos) /\ z.wpos = st.wpos
          /\ z.buf = st.buf /\ z.overrun = st.overrun
          /\ z.unread = IF st.unread = <<>> THEN st.unread ELSE Tail(st.unread)
      BY <2>1, <2>2 DEF ConsoleFields
    <2> HIDE DEF z
    <2>4. IsSeq(z.unread)
      BY <2>1, <2>3, TailFacts
    <2>5. IsConsole(z)
      BY <2>1, <2>3, <2>4, AfterNext DEF IsConsole
    <2>6. ASSUME ~st.overrun
          PROVE  /\ Len(z.unread) < CONSBUFSIZE
                 /\ z.wpos = After(z.rpos, Len(z.unread))
                 /\ \A k \in 1 .. Len(z.unread) :
                       z.buf[After(z.rpos, k - 1)] = z.unread[k]
      <3>1. /\ n \in Nat /\ n < CONSBUFSIZE /\ st.wpos = After(st.rpos, n)
            /\ \A k \in 1 .. n : st.buf[After(st.rpos, k - 1)] = st.unread[k]
        BY <2>1, <2>6, SeqFacts DEF Ring, InOrder
      <3>2. n # 0
        BY <1>2, <2>1, <3>1, AfterNext
      <3>3. /\ Len(z.unread) = n - 1
            /\ \A k \in 1 .. n - 1 : z.unread[k] = st.unread[k + 1]
        <4> DEFINE q == st.unread
        <4>1. IsSeq(q) /\ Len(q) # 0
          BY <2>1, <3>2
        <4> HIDE DEF q
        <4>2. /\ q # <<>> /\ Len(Tail(q)) = Len(q) - 1
              /\ \A k \in 1 .. Len(q) - 1 : Tail(q)[k] = q[k + 1]
          BY <4>1, SeqFacts, TailFacts
        <4> QED
          BY <2>3, <4>2 DEF q
      <3> HIDE DEF n
      <3>4. n - 1 \in Places /\ (n - 1) + 1 = n /\ n - 1 < CONSBUFSIZE
        BY <3>1, <3>2, RingSize DEF Places
      <3>5. z.wpos = After(z.rpos, n - 1)
        BY <2>1, <2>3, <3>1, <3>4, AfterNext
      <3>6. \A k \in 1 .. n - 1 : z.buf[After(z.rpos, k - 1)] = z.unread[k]
        <4> TAKE k \in 1 .. n - 1
        <4>1. k - 1 \in Places /\ (k - 1) + 1 = k /\ k < CONSBUFSIZE
          BY <3>1, RingSize DEF Places
        <4>2. After(z.rpos, k - 1) = After(st.rpos, k)
          BY <2>1, <2>3, <4>1, AfterNext
        <4>3. k + 1 \in 1 .. n /\ (k + 1) - 1 = k
          BY <3>1
        <4>4. st.buf[After(st.rpos, k)] = st.unread[k + 1]
          BY <3>1, <4>3
        <4> QED
          BY <2>3, <3>3, <4>2, <4>4
      <3> QED
        BY <3>3, <3>4, <3>5, <3>6
    <2> QED
      BY <2>3, <2>5, <2>6 DEF Ring, InOrder, z
  <1> QED
    BY <1>1, <1>2

-----------------------------------------------------------------------------
(* The keyboard's flags. *)

Modifiers == {"SHIFT", "CTL", "ALT"}

\* Only modifiers are held and only locks are toggled.
LEMMA Codes ==
    ASSUME NEW key
    PROVE  /\ shiftcode(key) \subseteq Modifiers
           /\ togglecode(key) \subseteq {"CAPSLOCK", "NUMLOCK"}
  BY DEF shiftcode, togglecode, ModifierKeys, LockKeys, Modifiers

\* The flags behind one byte.
Flags(s, b) ==
    LET key  == <<b.code, "E0ESC" \in s>>
        down == (s \ {"E0ESC"}) \cup shiftcode(key)
        mods == (down \ togglecode(key)) \cup (togglecode(key) \ down)
    IN IF b = Escape THEN s \cup {"E0ESC"}
       ELSE IF b.up THEN s \ (shiftcode(key) \cup {"E0ESC"})
       ELSE mods

\* A byte changes the flags and the screen.
LEMMA ByteKeepsRing ==
    ASSUME NEW st, Ring(st), NEW b, b.up \in BOOLEAN
    PROVE  /\ Ring(kbd_proc_data(st, b)[2])
           /\ kbd_proc_data(st, b)[2].shift = Flags(st.shift, b)
  <1> DEFINE key  == <<b.code, "E0ESC" \in st.shift>>
             down == (st.shift \ {"E0ESC"}) \cup shiftcode(key)
             mods == (down \ togglecode(key)) \cup (togglecode(key) \ down)
             c    == charcode(mods, key)
             u    == [st EXCEPT !.shift = mods]
             z    == kbd_proc_data(st, b)[2]
  <1>1. ASSUME NEW s, NEW y, y = [[st EXCEPT !.shift = s] EXCEPT !.screen = y.screen]
        PROVE  Ring(y) /\ y.shift = s
    BY <1>1 DEF Ring, IsConsole, InOrder, ConsoleFields
  <1>2. ASSUME NEW s
        PROVE  LET y == [st EXCEPT !.shift = s]
               IN  y = [[st EXCEPT !.shift = s] EXCEPT !.screen = y.screen]
    BY DEF Ring, IsConsole, ConsoleFields
  <1>3. CASE b = Escape
    <2>1. ~b.up
      BY <1>3 DEF Escape, Byte
    <2>2. z = [st EXCEPT !.shift = @ \cup {"E0ESC"}]
      BY <1>3, <2>1, Zenon DEF kbd_proc_data
    <2>3. Flags(st.shift, b) = st.shift \cup {"E0ESC"}
      BY <1>3 DEF Flags
    <2> QED
      BY <1>1, <1>2, <2>2, <2>3
  <1>4. CASE b # Escape /\ b.up
    <2>1. z = [st EXCEPT !.shift = @ \ (shiftcode(key) \cup {"E0ESC"})]
      BY <1>4, Zenon DEF kbd_proc_data
    <2>2. Flags(st.shift, b) = st.shift \ (shiftcode(key) \cup {"E0ESC"})
      BY <1>4 DEF Flags
    <2> QED
      BY <1>1, <1>2, <2>1, <2>2
  <1>5. CASE b # Escape /\ ~b.up /\ c = "DEL"
    <2>1. kbd_proc_data(st, b) = Deleted(u)
      BY <1>5, Zenon DEF kbd_proc_data
    <2>2. Flags(st.shift, b) = mods
      BY <1>5 DEF Flags
    <2>3. z = [[st EXCEPT !.shift = mods] EXCEPT !.screen = z.screen]
      <3> HIDE DEF mods
      <3>1. u = [u EXCEPT !.screen = u.screen]
        BY <1>2
      <3>2. DOMAIN u = ConsoleFields
        BY DEF Ring, IsConsole
      <3> HIDE DEF u
      <3>3. Deleted(u)[2] = [u EXCEPT !.screen = Deleted(u)[2].screen]
        BY <3>1, <3>2 DEF Deleted, ConsoleFields
      <3> QED
        BY <2>1, <3>3 DEF u
    <2> HIDE DEF z, mods
    <2>4. Ring(z) /\ z.shift = mods
      BY <1>1, <2>3
    <2> QED
      BY <2>2, <2>4 DEF z
  <1>6. CASE b # Escape /\ ~b.up /\ c # "DEL"
    <2>1. z = u
      BY <1>6, Zenon DEF kbd_proc_data
    <2>2. Flags(st.shift, b) = mods
      BY <1>6 DEF Flags
    <2> QED
      BY <1>1, <1>2, <2>1, <2>2
  <1> QED
    BY <1>3, <1>4, <1>5, <1>6

\* The screen is no part of the ring.
SameKeys(st, z) == z = [st EXCEPT !.screen = z.screen]

LEMMA SameKeysRing ==
    ASSUME NEW st, Ring(st), NEW z, SameKeys(st, z)
    PROVE  Ring(z) /\ z.shift = st.shift
  BY DEF SameKeys, Ring, IsConsole, InOrder, ConsoleFields

LEMMA PutsSameKeys ==
    ASSUME NEW st, Ring(st)
    PROVE  /\ SameKeys(st, st)
           /\ \A c : SameKeys(st, cons_putc(st, c))
           /\ \A cs : SameKeys(st, PutAll(st, cs))
  <1>1. ASSUME NEW v
        PROVE  [st EXCEPT !.screen = v] = [st EXCEPT !.screen = [st EXCEPT !.screen = v].screen]
    BY DEF Ring, IsConsole, ConsoleFields
  <1>2. SameKeys(st, st)
    BY DEF SameKeys, Ring, IsConsole, ConsoleFields
  <1>3. ASSUME NEW c
        PROVE  SameKeys(st, cons_putc(st, c))
    BY <1>1 DEF SameKeys, cons_putc
  <1>4. ASSUME NEW cs
        PROVE  SameKeys(st, PutAll(st, cs))
    <2> DEFINE v == FoldLeft(cga_putc, st.screen, cs)
    <2>1. PutAll(st, cs) = [st EXCEPT !.screen = v]
      BY DEF PutAll
    <2> HIDE DEF v
    <2> QED
      BY <1>1, <2>1 DEF SameKeys
  <1> QED
    BY <1>2, <1>3, <1>4

\* Whatever key the editor is given, it draws and touches nothing else.
LEMMA EditSameKeys ==
    ASSUME NEW e, NEW st, Ring(st), NEW c, NEW mem
    PROVE  SameKeys(st, EditKey(e, st, c, mem)[2])
  <1>1. \A d, n, t : SameKeys(st, Rewrite(d, st, n, t)[2])
    BY PutsSameKeys DEF Rewrite
  <1>2. \A d : SameKeys(st, clearandwritecommand(d, st, mem)[2])
    BY <1>1 DEF clearandwritecommand
  <1>3. SameKeys(st, UpArrow(e, st, mem)[2]) /\ SameKeys(st, DownArrow(e, st, mem)[2])
    BY <1>2, PutsSameKeys DEF UpArrow, DownArrow
  <1>4. SameKeys(st, FirstTab(e, st)[2])
    BY PutsSameKeys DEF FirstTab
  <1>5. SameKeys(st, RoundAutoCompleteCommandWithTheSamePrefix(e, st)[2])
    BY <1>1, PutsSameKeys DEF RoundAutoCompleteCommandWithTheSamePrefix
  <1>6. SameKeys(st, Tab(e, st)[2])
    BY <1>4, <1>5 DEF Tab
  <1>7. /\ SameKeys(st, LeftArrow(e, st)[2]) /\ SameKeys(st, RightArrow(e, st)[2])
        /\ SameKeys(st, DeleteKey(e, st)[2]) /\ SameKeys(st, TypedKey(e, st, c)[2])
        /\ SameKeys(st, BackspaceKey(e, st)[2])
    BY PutsSameKeys DEF LeftArrow, RightArrow, DeleteKey, TypedKey, BackspaceKey
  <1> QED
    BY <1>3, <1>6, <1>7, PutsSameKeys DEF EditKey

-----------------------------------------------------------------------------
(* Bytes that are still pending at the keyboard. *)

IsBytes(bs) == IsSeq(bs) /\ \A n \in 1 .. Len(bs) : bs[n].up \in BOOLEAN

\* h[n] are the flags when n of the bytes have been looked at.
Path(h, s, bs) == h[0] = s /\ \A n \in 1 .. Len(bs) : h[n] = Flags(h[n - 1], bs[n])

\* The flags will be t when all bytes have been looked at.
Leads(s, bs, t) == \E h : Path(h, s, bs) /\ h[Len(bs)] = t

LEMMA LeadsNowhere ==
    ASSUME NEW s, NEW t
    PROVE  Leads(s, <<>>, t) <=> s = t
  <1>1. Len(<<>>) = 0
    OBVIOUS
  <1>2. s = t => Leads(s, <<>>, t)
    <2> DEFINE h == [n \in {0} |-> s]
    <2>1. h[0] = s
      OBVIOUS
    <2> HIDE DEF h
    <2> QED
      BY <1>1, <2>1 DEF Leads, Path
  <1>3. Leads(s, <<>>, t) => s = t
    BY <1>1 DEF Leads, Path
  <1> QED
    BY <1>2, <1>3

\* One more byte arrives, ...
LEMMA LeadsFurther ==
    ASSUME NEW s, NEW bs, IsBytes(bs), NEW t, Leads(s, bs, t), NEW b, b.up \in BOOLEAN
    PROVE  IsBytes(Append(bs, b)) /\ Leads(s, Append(bs, b), Flags(t, b))
  <1> DEFINE n == Len(bs)
             cs == Append(bs, b)
  <1>1. /\ n \in Nat /\ IsSeq(cs) /\ Len(cs) = n + 1
        /\ \A k \in 1 .. n : cs[k] = bs[k]
        /\ cs[n + 1] = b
    BY SeqFacts, AppendFacts DEF IsBytes
  <1>2. \A k \in 1 .. n + 1 : k \in 1 .. n \/ k = n + 1
    BY <1>1
  <1>3. IsBytes(cs)
    BY <1>1, <1>2 DEF IsBytes
  <1>4. PICK h : h[0] = s /\ (\A k \in 1 .. n : h[k] = Flags(h[k - 1], bs[k])) /\ h[n] = t
    BY DEF Leads, Path
  <1> DEFINE g == [k \in 0 .. n + 1 |-> IF k <= n THEN h[k] ELSE Flags(t, b)]
  <1> HIDE DEF n, cs
  <1>5. (\A k \in 0 .. n : g[k] = h[k]) /\ g[n + 1] = Flags(t, b)
    BY <1>1
  <1> HIDE DEF g
  <1>6. g[0] = s
    BY <1>1, <1>4, <1>5
  <1>7. \A k \in 1 .. n : g[k] = Flags(g[k - 1], cs[k])
    <2> TAKE k \in 1 .. n
    <2>1. k \in 0 .. n /\ k - 1 \in 0 .. n
      BY <1>1
    <2> QED
      BY <1>1, <1>4, <1>5, <2>1
  <1>8. g[n + 1] = Flags(g[(n + 1) - 1], cs[n + 1])
    <2>1. (n + 1) - 1 = n /\ n \in 0 .. n
      BY <1>1
    <2> QED
      BY <1>1, <1>4, <1>5, <2>1
  <1>9. Path(g, s, cs)
    BY <1>1, <1>2, <1>6, <1>7, <1>8 DEF Path
  <1>10. Leads(s, cs, Flags(t, b))
    BY <1>1, <1>5, <1>9 DEF Leads
  <1> QED
    BY <1>3, <1>10 DEF cs

\* ... and one is looked at.
LEMMA LeadsOn ==
    ASSUME NEW s, NEW bs, IsBytes(bs), bs # <<>>, NEW t, Leads(s, bs, t)
    PROVE  /\ Head(bs).up \in BOOLEAN /\ IsBytes(Tail(bs))
           /\ Leads(Flags(s, Head(bs)), Tail(bs), t)
  <1> DEFINE n == Len(bs)
             cs == Tail(bs)
  <1>1. /\ n \in Nat /\ n # 0 /\ IsSeq(cs) /\ Len(cs) = n - 1
        /\ \A k \in 1 .. n - 1 : cs[k] = bs[k + 1]
        /\ Head(bs) = bs[1]
    BY SeqFacts, TailFacts DEF IsBytes
  <1>2. PICK h : h[0] = s /\ (\A k \in 1 .. n : h[k] = Flags(h[k - 1], bs[k])) /\ h[n] = t
    BY DEF Leads, Path
  <1>3. \A k \in 1 .. n : bs[k].up \in BOOLEAN
    BY DEF IsBytes
  <1> HIDE DEF n, cs
  <1> DEFINE g == [k \in 0 .. n - 1 |-> h[k + 1]]
  <1>4. \A k \in 0 .. n - 1 : g[k] = h[k + 1]
    OBVIOUS
  <1> HIDE DEF g
  <1>5. 1 \in 1 .. n /\ 0 \in 0 .. n - 1 /\ n - 1 \in 0 .. n - 1 /\ (n - 1) + 1 = n
    BY <1>1
  <1>6. g[0] = Flags(s, Head(bs)) /\ g[n - 1] = t
    BY <1>1, <1>2, <1>4, <1>5
  <1>7. \A k \in 1 .. n - 1 : g[k] = Flags(g[k - 1], cs[k])
    <2> TAKE k \in 1 .. n - 1
    <2>1. /\ k + 1 \in 1 .. n /\ (k + 1) - 1 = k /\ (k - 1) + 1 = k
          /\ k \in 0 .. n - 1 /\ k - 1 \in 0 .. n - 1
      BY <1>1
    <2>2. g[k] = h[k + 1] /\ g[k - 1] = h[k]
      BY <1>4, <2>1
    <2>3. h[k + 1] = Flags(h[k], bs[k + 1])
      BY <1>2, <2>1
    <2> QED
      BY <1>1, <2>2, <2>3
  <1>8. Leads(Flags(s, Head(bs)), cs, t)
    BY <1>1, <1>6, <1>7 DEF Leads, Path
  <1>9. IsBytes(cs)
    <2>1. \A k \in 1 .. n - 1 : k + 1 \in 1 .. n
      BY <1>1
    <2> QED
      BY <1>1, <1>3, <2>1 DEF IsBytes
  <1> QED
    BY <1>1, <1>3, <1>5, <1>8, <1>9 DEF cs

-----------------------------------------------------------------------------
(* Pressing and releasing keys. *)

IsKey(key) == key \in STRING \X BOOLEAN /\ key[1] # "E0"

\* No escape is pending, and every modifier is that of a key that is down.
Clean(s, keys) ==
    /\ "E0ESC" \notin s
    /\ \A m \in s \cap Modifiers : \E key \in keys : m \in shiftcode(key)

\* The flags behind a key going down or up.
FlagsOfKey(s, key, up) ==
    IF key[2] THEN Flags(Flags(s, Escape), Byte(key[1], up))
    ELSE Flags(s, Byte(key[1], up))

LEMMA KeyFlags ==
    ASSUME NEW s, "E0ESC" \notin s, NEW key, IsKey(key)
    PROVE  /\ "E0ESC" \notin FlagsOfKey(s, key, FALSE)
           /\ "E0ESC" \notin FlagsOfKey(s, key, TRUE)
           /\ FlagsOfKey(s, key, FALSE) \cap Modifiers \subseteq s \cup shiftcode(key)
           /\ FlagsOfKey(s, key, TRUE) \cap Modifiers \subseteq s \ shiftcode(key)
  <1>1. /\ key = <<key[1], key[2]>> /\ key[2] \in BOOLEAN /\ key[1] # "E0"
    BY DEF IsKey
  <1>2. /\ shiftcode(key) \subseteq Modifiers
        /\ togglecode(key) \subseteq {"CAPSLOCK", "NUMLOCK"}
    BY Codes
  <1> DEFINE esc == s \cup {"E0ESC"}
  <1>3. Flags(s, Escape) = esc
    BY DEF Flags
  <1>4. \A up \in BOOLEAN : /\ Byte(key[1], up) # Escape /\ Byte(key[1], up).up = up
                            /\ Byte(key[1], up).code = key[1]
    BY <1>1 DEF Byte, Escape
  <1> DEFINE Down(v) == (v \ {"E0ESC"}) \cup shiftcode(key)
             Mods(v) == (Down(v) \ togglecode(key)) \cup (togglecode(key) \ Down(v))
  <1>5. ASSUME NEW v, <<key[1], "E0ESC" \in v>> = key
        PROVE  /\ Flags(v, Byte(key[1], FALSE)) = Mods(v)
               /\ Flags(v, Byte(key[1], TRUE)) = v \ (shiftcode(key) \cup {"E0ESC"})
    BY <1>4, <1>5 DEF Flags
  <1>6. ASSUME NEW v, v \in {s, esc}
        PROVE  /\ "E0ESC" \notin Mods(v)
               /\ Mods(v) \cap Modifiers \subseteq s \cup shiftcode(key)
               /\ LET w == v \ (shiftcode(key) \cup {"E0ESC"})
                  IN  "E0ESC" \notin w /\ w \cap Modifiers \subseteq s \ shiftcode(key)
    BY <1>2, <1>6 DEF Modifiers
  <1> HIDE DEF Mods
  <1>7. CASE key[2]
    <2>1. <<key[1], "E0ESC" \in esc>> = key
      BY <1>1, <1>7
    <2> HIDE DEF esc
    <2> QED
      BY <1>3, <1>5, <1>6, <1>7, <2>1 DEF FlagsOfKey
  <1>8. CASE ~key[2]
    <2>1. <<key[1], "E0ESC" \in s>> = key
      BY <1>1, <1>8
    <2> QED
      BY <1>5, <1>6, <1>8, <2>1 DEF FlagsOfKey
  <1> QED
    BY <1>7, <1>8

\* The bytes of a key arrive behind those that are pending.
LEMMA KeyArrives ==
    ASSUME NEW s, NEW bs, IsBytes(bs), NEW t, Leads(s, bs, t),
           NEW key, IsKey(key), NEW up \in BOOLEAN
    PROVE  /\ IsBytes(bs \o Bytes(key, up))
           /\ Leads(s, bs \o Bytes(key, up), FlagsOfKey(t, key, up))
  <1>1. /\ Escape.up \in BOOLEAN /\ Byte(key[1], up).up \in BOOLEAN
    BY DEF Escape, Byte
  <1>2. ASSUME NEW q, IsSeq(q), NEW a, NEW b
        PROVE  q \o <<a>> = Append(q, a) /\ q \o <<a, b>> = Append(Append(q, a), b)
    <2>1. PICK S : q \in Seq(S)
      BY <1>2 DEF IsSeq
    <2>2. q \in Seq(S \cup {a, b})
      BY <2>1
    <2> QED
      BY <2>2
  <1>3. IsSeq(bs) /\ key[2] \in BOOLEAN
    BY DEF IsBytes, IsKey
  <1>4. CASE key[2]
    <2>1. Bytes(key, up) = <<Escape, Byte(key[1], up)>>
      BY <1>4 DEF Bytes
    <2> DEFINE c == Byte(key[1], up)
               cs == Append(bs, Escape)
    <2>2. IsBytes(cs) /\ Leads(s, cs, Flags(t, Escape))
      BY <1>1, LeadsFurther
    <2> HIDE DEF c, cs
    <2>3. IsBytes(Append(cs, c)) /\ Leads(s, Append(cs, c), Flags(Flags(t, Escape), c))
      BY <1>1, <2>2, LeadsFurther DEF c
    <2>4. bs \o Bytes(key, up) = Append(cs, c)
      BY <1>2, <1>3, <2>1 DEF c, cs
    <2>5. FlagsOfKey(t, key, up) = Flags(Flags(t, Escape), c)
      BY <1>4 DEF FlagsOfKey, c
    <2> QED
      BY <2>3, <2>4, <2>5
  <1>5. CASE ~key[2]
    <2>1. Bytes(key, up) = <<Byte(key[1], up)>>
      BY <1>5 DEF Bytes
    <2> DEFINE c == Byte(key[1], up)
    <2>2. IsBytes(Append(bs, c)) /\ Leads(s, Append(bs, c), Flags(t, c))
      BY <1>1, LeadsFurther
    <2>3. bs \o Bytes(key, up) = Append(bs, c)
      BY <1>2, <1>3, <2>1
    <2>4. FlagsOfKey(t, key, up) = Flags(t, c)
      BY <1>5 DEF FlagsOfKey
    <2> QED
      BY <2>2, <2>3, <2>4
  <1> QED
    BY <1>3, <1>4, <1>5

-----------------------------------------------------------------------------
(* The devices are emptied one byte after the other. *)

\* The smallest of a set of natural numbers.
LEMMA Least ==
    ASSUME NEW T, T \subseteq Nat, T # {}
    PROVE  \E n \in T : \A m \in T : n <= m
  <1> DEFINE R == {ss \in Nat \X Nat : ss[1] < ss[2]}
  <1>1. IsWellFoundedOn(R, Nat)
    BY NatLessThanWellFounded DEF OpToRel
  <1> HIDE DEF R
  <1>2. PICK n \in T : \A m \in T : ~(<<m, n>> \in R)
    BY <1>1, WFMin
  <1>3. \A m \in T : ~(m < n)
    <2> TAKE m \in T
    <2>1. <<m, n>> \in Nat \X Nat /\ <<m, n>>[1] = m /\ <<m, n>>[2] = n
      OBVIOUS
    <2> QED
      BY <1>2, <2>1 DEF R
  <1> QED
    BY <1>2, <1>3

\* One byte of the serial port or of the keyboard.
Arrival(dev, st, b) == IF dev = "com" THEN Put(st, b) ELSE KbdByte(st, b)

\* h[n] is the console when n of the bytes have arrived.
Arrivals(h, dev, st, bs, k) ==
    h = [n \in 0 .. k |-> IF n = 0 THEN st ELSE Arrival(dev, h[n - 1], bs[n])]

LEMMA ArrivalsExist ==
    ASSUME NEW dev, NEW st, NEW bs, NEW k \in Nat
    PROVE  \E h : Arrivals(h, dev, st, bs, k)
  <1> DEFINE P(j) == \E h : Arrivals(h, dev, st, bs, j)
             B == {j \in Nat : ~P(j)}
  <1>1. P(0)
    <2> DEFINE h == [n \in 0 .. 0 |-> st]
    <2>1. h = [n \in 0 .. 0 |-> IF n = 0 THEN st ELSE Arrival(dev, h[n - 1], bs[n])]
      OBVIOUS
    <2> QED
      BY <2>1 DEF Arrivals
  <1>2. ASSUME NEW j \in Nat, P(j)
        PROVE  P(j + 1)
    <2>1. PICK h : Arrivals(h, dev, st, bs, j)
      BY <1>2
    <2>2. \A n \in 0 .. j : h[n] = IF n = 0 THEN st ELSE Arrival(dev, h[n - 1], bs[n])
      BY <2>1 DEF Arrivals
    <2> DEFINE g == [n \in 0 .. j + 1 |->
                       IF n <= j THEN h[n] ELSE Arrival(dev, h[j], bs[j + 1])]
    <2>3. /\ \A n \in 0 .. j : g[n] = h[n]
          /\ g[j + 1] = Arrival(dev, h[j], bs[j + 1])
      OBVIOUS
    <2>4. g = [n \in 0 .. j + 1 |-> g[n]]
      OBVIOUS
    <2> HIDE DEF g
    <2>5. \A n \in 0 .. j + 1 :
             g[n] = IF n = 0 THEN st ELSE Arrival(dev, g[n - 1], bs[n])
      <3> TAKE n \in 0 .. j + 1
      <3>1. CASE n = 0
        BY <2>2, <2>3, <3>1
      <3>2. CASE n \in 1 .. j
        <4>1. n \in 0 .. j /\ n - 1 \in 0 .. j /\ n # 0
          BY <3>2
        <4> QED
          BY <2>2, <2>3, <4>1
      <3>3. CASE n = j + 1
        <4>1. n - 1 = j /\ n # 0 /\ j \in 0 .. j
          BY <3>3
        <4> QED
          BY <2>3, <3>3, <4>1
      <3> QED
        BY <3>1, <3>2, <3>3
    <2>6. Arrivals(g, dev, st, bs, j + 1)
      BY <2>4, <2>5 DEF Arrivals
    <2> QED
      BY <2>6
  <1> HIDE DEF P
  <1>3. ASSUME B # {}
        PROVE  FALSE
    <2>1. PICK j \in B : \A i \in B : j <= i
      BY <1>3, Least
    <2>2. j \in Nat /\ j # 0 /\ j - 1 \in Nat /\ (j - 1) + 1 = j
      BY <1>1, <2>1
    <2>3. P(j - 1)
      BY <2>1, <2>2
    <2> QED
      BY <1>2, <2>1, <2>2, <2>3
  <1> QED
    BY <1>3 DEF P

\* Only the keyboard changes the flags.
Reaches(dev, s, bs, t) ==
    IF dev = "com" THEN t = s ELSE IsBytes(bs) /\ Leads(s, bs, t)

\* The ring and the flags behind all bytes of one device.
LEMMA ArrivalsRing ==
    ASSUME NEW dev, NEW st, Ring(st), NEW bs, IsSeq(bs),
           NEW h, Arrivals(h, dev, st, bs, Len(bs)),
           NEW t, Reaches(dev, st.shift, bs, t)
    PROVE  Ring(h[Len(bs)]) /\ h[Len(bs)].shift = t
  <1> DEFINE k == Len(bs)
  <1>1. k \in Nat
    BY SeqFacts
  <1>2. \A n \in 0 .. k : h[n] = IF n = 0 THEN st ELSE Arrival(dev, h[n - 1], bs[n])
    BY DEF Arrivals
  <1>3. PICK g : /\ g[0] = st.shift /\ g[k] = t
                 /\ dev # "com" => \A n \in 1 .. k :
                       g[n] = Flags(g[n - 1], bs[n]) /\ bs[n].up \in BOOLEAN
                 /\ dev = "com" => \A n \in 0 .. k : g[n] = st.shift
    <2>1. CASE dev = "com"
      <3> DEFINE g == [n \in 0 .. k |-> st.shift]
      <3>1. g[0] = st.shift /\ g[k] = t /\ \A n \in 0 .. k : g[n] = st.shift
        BY <1>1, <2>1 DEF Reaches
      <3> HIDE DEF g
      <3> QED
        BY <2>1, <3>1
    <2>2. CASE dev # "com"
      BY <2>2 DEF Reaches, Leads, Path, IsBytes
    <2> QED
      BY <2>1, <2>2
  <1> HIDE DEF k
  <1> DEFINE Ok(n) == Ring(h[n]) /\ h[n].shift = g[n]
             B == {n \in 0 .. k : ~Ok(n)}
  <1>4. Ok(0)
    BY <1>1, <1>2, <1>3
  <1>5. ASSUME NEW n \in 1 .. k, Ok(n - 1)
        PROVE  Ok(n)
    <2>1. n \in 0 .. k /\ n - 1 \in 0 .. k /\ n # 0
      BY <1>1
    <2>2. h[n] = Arrival(dev, h[n - 1], bs[n])
      BY <1>2, <2>1
    <2> DEFINE a == h[n - 1]
    <2>3. Ring(a) /\ a.shift = g[n - 1]
      BY <1>5
    <2> HIDE DEF a
    <2>4. CASE dev = "com"
      <3>1. h[n] = Put(a, bs[n])
        BY <2>2, <2>4 DEF Arrival, a
      <3>2. Ring(Put(a, bs[n])) /\ Put(a, bs[n]).shift = a.shift
        BY <2>3, PutRing
      <3>3. g[n] = g[n - 1]
        BY <1>3, <2>1, <2>4
      <3> QED
        BY <2>3, <3>1, <3>2, <3>3
    <2>5. CASE dev # "com"
      <3>1. h[n] = KbdByte(a, bs[n])
        BY <2>2, <2>5 DEF Arrival, a
      <3>2. bs[n].up \in BOOLEAN /\ g[n] = Flags(g[n - 1], bs[n])
        BY <1>3, <2>5
      <3> DEFINE r == kbd_proc_data(a, bs[n])
      <3>3. Ring(r[2]) /\ r[2].shift = Flags(a.shift, bs[n])
        BY <2>3, <3>2, ByteKeepsRing
      <3>4. KbdByte(a, bs[n]) = Put(r[2], r[1])
        BY DEF KbdByte
      <3> HIDE DEF r
      <3>5. Ring(Put(r[2], r[1])) /\ Put(r[2], r[1]).shift = r[2].shift
        BY <3>3, PutRing
      <3> QED
        BY <2>3, <3>1, <3>2, <3>3, <3>4, <3>5
    <2> QED
      BY <2>4, <2>5
  <1> HIDE DEF Ok
  <1>6. ASSUME B # {}
        PROVE  FALSE
    <2>1. B \subseteq Nat
      BY <1>1
    <2>2. PICK n \in B : \A i \in B : n <= i
      BY <1>6, <2>1, Least
    <2>3. n \in 1 .. k /\ n - 1 \in 0 .. k /\ n - 1 < n
      BY <1>1, <1>4, <2>2
    <2>4. Ok(n - 1)
      BY <2>2, <2>3
    <2> QED
      BY <1>5, <2>2, <2>3, <2>4
  <1>7. Ok(k)
    BY <1>1, <1>6
  <1> QED
    BY <1>3, <1>7 DEF Ok, k

\* The poll of cons_getc takes everything, and the flags become those of the
\* bytes taken.
LEMMA DrainedRing ==
    ASSUME NEW st, Ring(st), NEW cs, IsSeq(cs), NEW bs, IsBytes(bs),
           NEW t, Leads(st.shift, bs, t)
    PROVE  Ring(Drained(st, cs, bs)) /\ Drained(st, cs, bs).shift = t
  <1> DEFINE C == "com"
             K == "kbd"
             H(dev, z, q) == CHOOSE x : Arrivals(x, dev, z, q, Len(q))
             g == H(C, st, cs)
             z == g[Len(cs)]
             h == H(K, z, bs)
  <1>1. IsSeq(bs) /\ Len(cs) \in Nat /\ Len(bs) \in Nat
    BY SeqFacts DEF IsBytes
  <1>2. Drained(st, cs, bs) = h[Len(bs)]
    BY DEF Drained, Arrivals, Arrival
  <1>3. Reaches(C, st.shift, cs, st.shift)
    BY DEF Reaches
  <1>4. \A s : Leads(s, bs, t) => Reaches(K, s, bs, t)
    BY DEF Reaches
  <1> HIDE DEF C, K
  <1>5. Arrivals(g, C, st, cs, Len(cs))
    BY <1>1, ArrivalsExist
  <1>6. Arrivals(h, K, z, bs, Len(bs))
    BY <1>1, ArrivalsExist
  <1> HIDE DEF g, h
  <1>7. Ring(z) /\ z.shift = st.shift
    <2> DEFINE s == st.shift
    <2>1. Ring(st) /\ IsSeq(cs) /\ Reaches(C, st.shift, cs, s)
      BY <1>3
    <2> HIDE DEF s
    <2>2. Ring(g[Len(cs)]) /\ g[Len(cs)].shift = s
      BY ONLY <1>5, <2>1, ArrivalsRing, Zenon
    <2> QED
      BY <2>2 DEF s
  <1> HIDE DEF z
  <1>8. Ring(h[Len(bs)]) /\ h[Len(bs)].shift = t
    <2>1. Reaches(K, z.shift, bs, t)
      BY <1>4, <1>7
    <2>2. Ring(z) /\ IsSeq(bs)
      BY <1>1, <1>7
    <2> QED
      BY ONLY <1>6, <2>1, <2>2, ArrivalsRing, Zenon
  <1> QED
    BY <1>2, <1>8

-----------------------------------------------------------------------------
(* Keys on their way to a reader. *)

\* The ring is in order, and when the pending bytes have been looked at, every
\* modifier is that of a key that is down.
KInv ==
    /\ Ring(con) /\ IsSeq(com) /\ IsBytes(kbd)
    /\ \E t : Leads(con.shift, kbd, t) /\ Clean(t, held)

LEMMA KInvUnchanged == KInv /\ UNCHANGED <<con, kbd, com, held>> => KInv'
  BY DEF KInv

\* Only the screen changes.
LEMMA KInvScreen ==
    ASSUME KInv, SameKeys(con, con'), UNCHANGED <<kbd, com, held>>
    PROVE  KInv'
  <1>1. Ring(con') /\ con'.shift = con.shift
    BY SameKeysRing DEF KInv
  <1> QED
    BY <1>1 DEF KInv

LEMMA EmptyBytes == IsSeq(<<>>) /\ IsBytes(<<>>)
  <1>1. <<>> \in Seq({}) /\ Len(<<>>) = 0
    OBVIOUS
  <1> QED
    BY <1>1 DEF IsSeq, IsBytes

LEMMA KInvInit == Init => KInv
  <1> SUFFICES ASSUME Init PROVE KInv
    OBVIOUS
  <1>1. PICK pos \in Starts : con = PutAll(console_initialize(pos), prompt)
    BY DEF Init
  <1> DEFINE z == console_initialize(pos)
  <1>2. /\ z = [f \in ConsoleFields |-> z[f]] /\ z.shift = {} /\ z.rpos = 0 /\ z.wpos = 0
        /\ z.buf = [k \in Places |-> z.buf[k]] /\ z.unread = <<>>
    BY DEF console_initialize, ConsoleFields, Places
  <1> HIDE DEF z
  <1>3. 0 \in Places /\ After(0, 0) = 0 /\ Len(<<>>) = 0 /\ 0 < CONSBUFSIZE
    BY RingSize DEF Places, After
  <1>4. Ring(z)
    BY <1>2, <1>3, EmptyBytes DEF Ring, IsConsole, InOrder
  <1>5. Ring(con) /\ con.shift = {}
    BY <1>1, <1>2, <1>4, PutsSameKeys, SameKeysRing DEF z
  <1>6. kbd = <<>> /\ com = <<>>
    BY DEF Init
  <1>7. Clean({}, held) /\ Leads({}, <<>>, {})
    BY LeadsNowhere DEF Clean
  <1> QED
    BY <1>5, <1>6, <1>7, EmptyBytes DEF KInv

\* A key that is struck is up again.
LEMMA KInvStroke ==
    ASSUME KInv, NEW key \in PromptKeys \cup ProgramKeys, Stroke(key)
    PROVE  KInv'
  <1>1. IsKey(key)
    BY PromptAssumption DEF IsKey
  <1>2. /\ kbd' = kbd \o (Bytes(key, FALSE) \o Bytes(key, TRUE))
        /\ UNCHANGED <<con, com, held>>
    BY DEF Stroke, Typing
  <1>3. PICK t : Leads(con.shift, kbd, t) /\ Clean(t, held)
    BY DEF KInv
  <1> DEFINE u == FlagsOfKey(t, key, FALSE)
             w == FlagsOfKey(u, key, TRUE)
             bs == kbd \o Bytes(key, FALSE)
  <1>4. IsBytes(bs) /\ Leads(con.shift, bs, u)
    BY <1>1, <1>3, KeyArrives DEF KInv
  <1> HIDE DEF u, bs
  <1>5. IsBytes(bs \o Bytes(key, TRUE)) /\ Leads(con.shift, bs \o Bytes(key, TRUE), w)
    BY <1>1, <1>4, KeyArrives
  <1>6. /\ "E0ESC" \notin u /\ u \cap Modifiers \subseteq t \cup shiftcode(key)
    BY <1>1, <1>3, KeyFlags DEF Clean, u
  <1>7. /\ "E0ESC" \notin w /\ w \cap Modifiers \subseteq u \ shiftcode(key)
    BY <1>1, <1>6, KeyFlags
  <1> HIDE DEF w
  <1>8. Clean(w, held)
    BY <1>3, <1>6, <1>7 DEF Clean
  <1>9. kbd' = bs \o Bytes(key, TRUE)
    <2>1. PICK S : kbd \in Seq(S)
      BY DEF KInv, IsBytes, IsSeq
    <2> DEFINE a == Escape
               b == Byte(key[1], FALSE)
               c == Byte(key[1], TRUE)
               V == S \cup {a, b, c}
    <2> HIDE DEF a, b, c
    <2>2. kbd \in Seq(V)
      BY <2>1
    <2>3. <<b>> \in Seq(V) /\ <<c>> \in Seq(V) /\ <<a, b>> \in Seq(V) /\ <<a, c>> \in Seq(V)
      OBVIOUS
    <2>4. Bytes(key, FALSE) \in Seq(V) /\ Bytes(key, TRUE) \in Seq(V)
      BY <2>3 DEF Bytes, a, b, c
    <2> HIDE DEF V
    <2>5. (kbd \o Bytes(key, FALSE)) \o Bytes(key, TRUE)
             = kbd \o (Bytes(key, FALSE) \o Bytes(key, TRUE))
      <3> DEFINE x == Bytes(key, FALSE)
                 y == Bytes(key, TRUE)
      <3>1. x \in Seq(V) /\ y \in Seq(V)
        BY <2>4
      <3> HIDE DEF x, y
      <3>2. (kbd \o x) \o y = kbd \o (x \o y)
        BY <2>2, <3>1, ConcatAssociative
      <3> QED
        BY <3>2 DEF x, y
    <2> QED
      BY <1>2, <2>5 DEF bs
  <1> QED
    BY <1>2, <1>5, <1>8, <1>9 DEF KInv

\* A key that is pressed is down.
LEMMA KInvPress ==
    ASSUME KInv, NEW key \in HoldKeys, Press(key)
    PROVE  KInv'
  <1>1. IsKey(key)
    BY PromptAssumption DEF IsKey
  <1>2. /\ kbd' = kbd \o Bytes(key, FALSE) /\ held' = held \cup {key}
        /\ UNCHANGED <<con, com>>
    BY DEF Press, Typing
  <1>3. PICK t : Leads(con.shift, kbd, t) /\ Clean(t, held)
    BY DEF KInv
  <1> DEFINE u == FlagsOfKey(t, key, FALSE)
  <1>4. IsBytes(kbd') /\ Leads(con.shift, kbd', u)
    BY <1>1, <1>2, <1>3, KeyArrives DEF KInv
  <1>5. "E0ESC" \notin u /\ u \cap Modifiers \subseteq t \cup shiftcode(key)
    BY <1>1, <1>3, KeyFlags DEF Clean
  <1> HIDE DEF u
  <1>6. Clean(u, held')
    BY <1>2, <1>3, <1>5 DEF Clean
  <1> QED
    BY <1>2, <1>4, <1>6 DEF KInv

\* A key that is released takes its modifier with it, also when another key for
\* the same modifier is down.
LEMMA KInvRelease ==
    ASSUME KInv, NEW key \in HoldKeys, Release(key)
    PROVE  KInv'
  <1>1. IsKey(key)
    BY PromptAssumption DEF IsKey
  <1>2. /\ kbd' = kbd \o Bytes(key, TRUE) /\ held' = held \ {key}
        /\ UNCHANGED <<con, com>>
    BY DEF Release, Typing
  <1>3. PICK t : Leads(con.shift, kbd, t) /\ Clean(t, held)
    BY DEF KInv
  <1> DEFINE u == FlagsOfKey(t, key, TRUE)
  <1>4. IsBytes(kbd') /\ Leads(con.shift, kbd', u)
    BY <1>1, <1>2, <1>3, KeyArrives DEF KInv
  <1>5. "E0ESC" \notin u /\ u \cap Modifiers \subseteq t \ shiftcode(key)
    BY <1>1, <1>3, KeyFlags DEF Clean
  <1> HIDE DEF u
  <1>6. Clean(u, held')
    BY <1>2, <1>3, <1>5 DEF Clean
  <1> QED
    BY <1>2, <1>4, <1>6 DEF KInv

\* The prompt polls until nothing is pending.
LEMMA PolledRing ==
    ASSUME KInv
    PROVE  LET r == cons_getc(con, com, kbd)
           IN  Ring(r[2]) /\ Clean(r[2].shift, held)
  <1>1. PICK t : Leads(con.shift, kbd, t) /\ Clean(t, held)
    BY DEF KInv
  <1> DEFINE z == Drained(con, com, kbd)
  <1>2. Ring(z) /\ z.shift = t
    BY <1>1, DrainedRing DEF KInv
  <1> HIDE DEF z
  <1>3. Ring(Take(z)[2]) /\ Take(z)[2].shift = z.shift
    BY <1>2, TakeRing
  <1> QED
    BY <1>1, <1>2, <1>3 DEF cons_getc, z

\* What the prompt leaves when it has drawn the key.
LEMMA KInvPolled ==
    ASSUME KInv, NEW z, Ring(z), Clean(z.shift, held), SameKeys(z, con'),
           kbd' = <<>>, com' = <<>>, held' = held
    PROVE  KInv'
  <1>1. Ring(con') /\ con'.shift = z.shift
    BY SameKeysRing
  <1>2. Leads(con'.shift, <<>>, con'.shift)
    BY LeadsNowhere
  <1> QED
    BY <1>1, <1>2, EmptyBytes DEF KInv

LEMMA KInvPromptKey ==
    ASSUME KInv, PromptKey
    PROVE  KInv'
  <1> DEFINE r == cons_getc(con, com, kbd)
  <1>1. Ring(r[2]) /\ Clean(r[2].shift, held)
    BY PolledRing
  <1>2. /\ con' = r[2] \/ \E mem \in Beyond : con' = EditKey(Adjusted(ed), r[2], r[1], mem)[2]
        /\ kbd' = <<>> /\ com' = <<>> /\ held' = held
    BY DEF PromptKey
  <1> HIDE DEF r
  <1>3. SameKeys(r[2], con')
    BY <1>1, <1>2, PutsSameKeys, EditSameKeys
  <1> QED
    BY <1>1, <1>2, <1>3, KInvPolled

LEMMA KInvPromptOverrun ==
    ASSUME KInv, PromptOverrun
    PROVE  KInv'
  <1> DEFINE r == cons_getc(con, com, kbd)
  <1>1. Ring(r[2]) /\ Clean(r[2].shift, held)
    BY PolledRing
  <1>2. con' = r[2] /\ kbd' = <<>> /\ com' = <<>> /\ held' = held
    BY DEF PromptOverrun
  <1> HIDE DEF r
  <1>3. SameKeys(r[2], con')
    BY <1>1, <1>2, PutsSameKeys
  <1> QED
    BY <1>1, <1>2, <1>3, KInvPolled

LEMMA KInvPromptEnter ==
    ASSUME KInv, PromptEnter
    PROVE  KInv'
  <1> DEFINE r == cons_getc(con, com, kbd)
             below == cons_putc(r[2], r[1])
  <1>1. Ring(r[2]) /\ Clean(r[2].shift, held)
    BY PolledRing
  <1>2. /\ con' = below \/ con' = PutAll(below, prompt)
        /\ kbd' = <<>> /\ com' = <<>> /\ held' = held
    BY DEF PromptEnter
  <1> HIDE DEF r
  <1>3. SameKeys(r[2], below)
    BY <1>1, PutsSameKeys
  <1>4. Ring(below) /\ below.shift = r[2].shift
    BY <1>1, <1>3, SameKeysRing
  <1> HIDE DEF below
  <1>5. SameKeys(below, con')
    BY <1>2, <1>4, PutsSameKeys
  <1> QED
    BY <1>1, <1>2, <1>4, <1>5, KInvPolled

\* A program's call looks at one byte of each device.
LEMMA KInvReadChar ==
    ASSUME KInv, ReadChar
    PROVE  KInv'
  <1> DEFINE r == cons_getc2(con, com, kbd)
             serial == IF com = <<>> THEN con ELSE Put(con, Head(com))
             key == IF kbd = <<>> THEN <<NO, serial>> ELSE kbd_proc_data(serial, Head(kbd))
             all == Put(key[2], key[1])
             bs == IF kbd = <<>> THEN kbd ELSE Tail(kbd)
  <1>1. PICK t : Leads(con.shift, kbd, t) /\ Clean(t, held)
    BY DEF KInv
  <1>2. Ring(serial) /\ serial.shift = con.shift
    BY PutRing DEF KInv
  <1> HIDE DEF serial
  <1>3. Ring(key[2]) /\ Leads(key[2].shift, bs, t) /\ IsBytes(bs)
    <2>1. CASE kbd = <<>>
      BY <1>1, <1>2, <2>1 DEF KInv
    <2>2. CASE kbd # <<>>
      <3>1. /\ Head(kbd).up \in BOOLEAN /\ IsBytes(Tail(kbd))
            /\ Leads(Flags(con.shift, Head(kbd)), Tail(kbd), t)
        BY <1>1, <2>2, LeadsOn DEF KInv
      <3>2. LET z == kbd_proc_data(serial, Head(kbd))[2]
            IN  Ring(z) /\ z.shift = Flags(serial.shift, Head(kbd))
        BY <1>2, <3>1, ByteKeepsRing
      <3> QED
        BY <1>2, <2>2, <3>1, <3>2
    <2> QED
      BY <2>1, <2>2
  <1>4. r = IF key[1] # NO THEN Take(all) ELSE <<NO, all>>
    BY DEF cons_getc2, serial
  <1> HIDE DEF key
  <1>5. Ring(all) /\ all.shift = key[2].shift
    BY <1>3, PutRing
  <1> HIDE DEF all
  <1>6. Ring(r[2]) /\ r[2].shift = key[2].shift
    BY <1>4, <1>5, TakeRing
  <1>7. /\ con' = r[2] \/ con' = cputchar(r[2], r[1])
        /\ kbd' = bs /\ com' = <<>> /\ held' = held
    BY DEF ReadChar
  <1> HIDE DEF r, bs
  <1>8. SameKeys(r[2], con')
    BY <1>6, <1>7, PutsSameKeys DEF cputchar
  <1>9. Ring(con') /\ con'.shift = key[2].shift
    BY <1>6, <1>8, SameKeysRing
  <1> QED
    BY <1>1, <1>3, <1>7, <1>9, EmptyBytes DEF KInv

LEMMA KInvStep == KInv /\ [Next]_vars => KInv'
  <1> SUFFICES ASSUME KInv, [Next]_vars PROVE KInv'
    OBVIOUS
  <1>1. CASE \E key \in PromptKeys \cup ProgramKeys : Stroke(key)
    BY <1>1, KInvStroke
  <1>2. CASE \E key \in HoldKeys : Press(key) \/ Release(key)
    BY <1>2, KInvPress, KInvRelease
  <1>3. CASE SerialInput("s")
    <2>1. com' = <<"s">> /\ UNCHANGED <<con, kbd, held>>
      BY <1>3 DEF SerialInput
    <2>2. <<"s">> \in Seq({"s"})
      OBVIOUS
    <2>3. IsSeq(com')
      BY <2>1, <2>2 DEF IsSeq
    <2> QED
      BY <2>1, <2>3 DEF KInv
  <1>4. CASE PromptKey
    BY <1>4, KInvPromptKey
  <1>5. CASE PromptEnter
    BY <1>5, KInvPromptEnter
  <1>6. CASE \E atomic \in BOOLEAN : StartReadline(atomic)
    BY <1>6, KInvUnchanged DEF StartReadline
  <1>7. CASE ReadChar
    BY <1>7, KInvReadChar
  <1>8. CASE Switch
    BY <1>8, KInvUnchanged DEF Switch
  <1>9. CASE BackToPrompt
    <2>1. con' = PutAll(con, prompt) /\ UNCHANGED <<kbd, com, held>>
      BY <1>9 DEF BackToPrompt
    <2>2. SameKeys(con, con')
      BY <2>1, PutsSameKeys DEF KInv
    <2> QED
      BY <2>1, <2>2, KInvScreen
  <1>10. CASE UNCHANGED vars
    BY <1>10, KInvUnchanged DEF vars
  <1>11. CASE PromptOverrun
    BY <1>11, KInvPromptOverrun
  <1> QED
    BY <1>1, <1>2, <1>3, <1>4, <1>5, <1>6, <1>7, <1>8, <1>9, <1>10, <1>11 DEF Next

LEMMA KInvSound == KInv => KeyboardSound
  <1> SUFFICES ASSUME KInv PROVE KeyboardSound
    OBVIOUS
  <1>1. TypeOK
    BY DEF KInv, Ring, IsConsole, Places, TypeOK
  <1>2. RingHoldsUnread
    BY WaitingUnread DEF KInv, RingHoldsUnread
  <1>3. NoStuckModifier
    <2> SUFFICES ASSUME kbd = <<>>
                 PROVE  Clean(con.shift, held)
      BY DEF NoStuckModifier, Clean, Modifiers
    <2>1. PICK t : Leads(con.shift, kbd, t) /\ Clean(t, held)
      BY DEF KInv
    <2> QED
      BY <2>1, LeadsNowhere
  <1> QED
    BY <1>1, <1>2, <1>3 DEF KeyboardSound

\* On the way from the keyboard and the serial port to the prompt and to
\* programs, kern/console.c keeps the characters in its ring whole and in order
\* until the ring is full, and no modifier sticks, whatever keys are pressed and
\* released in whatever order, for a ring of any size.
THEOREM KeyboardSafe == Spec => []KeyboardSound
<1>1. Init => KInv
  BY KInvInit
<1>2. KInv /\ [Next]_vars => KInv'
  BY KInvStep
<1>3. KInv => KeyboardSound
  BY KInvSound
<1> QED
  BY <1>1, <1>2, <1>3, PTL DEF Spec
=============================================================================
