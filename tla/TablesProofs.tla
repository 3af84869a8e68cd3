---------------------------- MODULE TablesProofs ----------------------------
(***************************************************************************)
(* The address spaces of Tables stay apart, mapping and freeing lose no    *)
(* frame and freeMem removes exactly its range, for any number of          *)
(* environments, regions, entries, kernel heap pages and frames.           *)
(***************************************************************************)
EXTENDS Tables, SequenceTheorems, FiniteSetTheorems, WellFoundedInduction,
        TLAPS

-----------------------------------------------------------------------------
(* The memory as a record. *)

Mem ==
    [ dir        : [Envs -> [Regions -> Frames \cup {NoFrame} \cup NotPresent]],
      tab        : [Frames -> [Slots -> Frames \cup {NoFrame}]],
      freeList   : Seq(Frames),
      references : [Frames -> Int],
      pt         : [HeapPages -> Frames \cup {NoFrame}],
      startAdd   : 0 .. NPages,
      strategy   : {"NEXTFIT", "BESTFIT"},
      status     : {"ok", "panic", "down"} ]

HasTable(m, e, r) == m.dir[e][r] \in Frames
Entry(m, e, r, s) == m.tab[m.dir[e][r]][s]
HasPage(m, e, r, s) == HasTable(m, e, r) /\ Entry(m, e, r, s) # NoFrame
IsFree(m, f) == \E i \in 1 .. Len(m.freeList) : m.freeList[i] = f

\* No two directory entries name one table, ...
TablesApart(m) ==
    \A e, d \in Envs, r, q \in Regions :
        HasTable(m, e, r) /\ m.dir[e][r] = m.dir[d][q] => e = d /\ r = q
\* ... no two pages have one frame, ...
PagesApart(m) ==
    \A e, d \in Envs, r, q \in Regions, s, u \in Slots :
        /\ HasPage(m, e, r, s) /\ HasPage(m, d, q, u)
        /\ Entry(m, e, r, s) = Entry(m, d, q, u)
        => e = d /\ r = q /\ s = u
\* ... no page is a page table, ...
NoPageIsTable(m) ==
    \A e, d \in Envs, r, q \in Regions, s \in Slots :
        HasPage(m, e, r, s) /\ HasTable(m, d, q)
        => Entry(m, e, r, s) # m.dir[d][q]
\* ... tables and pages have one reference and free frames none, ...
Counted(m) ==
    /\ \A e \in Envs, r \in Regions :
          HasTable(m, e, r) => m.references[m.dir[e][r]] = 1
    /\ \A e \in Envs, r \in Regions, s \in Slots :
          HasPage(m, e, r, s) => m.references[Entry(m, e, r, s)] = 1
    /\ \A i \in 1 .. Len(m.freeList) : m.references[m.freeList[i]] <= 0
\* ... and no frame is in the free list twice.
NoRepeats(m) ==
    \A i, j \in 1 .. Len(m.freeList) : m.freeList[i] = m.freeList[j] => i = j

Sound(m) ==
    /\ m \in Mem
    /\ TablesApart(m) /\ PagesApart(m) /\ NoPageIsTable(m)
    /\ Counted(m) /\ NoRepeats(m)

\* A frame that a function has taken off the list and not used yet.
Loose(m, f) ==
    /\ f \in Frames /\ ~IsFree(m, f)
    /\ \A e \in Envs, r \in Regions : m.dir[e][r] # f
    /\ \A e \in Envs, r \in Regions, s \in Slots :
          HasPage(m, e, r, s) => Entry(m, e, r, s) # f

LEMMA Constants ==
    /\ NRegions \in Nat \ {0} /\ NSlots \in Nat \ {0} /\ NPages \in Nat \ {0}
    /\ NoFrame \notin Frames /\ NotPresent \cap (Frames \cup {NoFrame}) = {}
    /\ \A f \in Frames : <<f, 0>> \in NotPresent
    /\ \A x \in NotPresent : x[1] \in Frames
    /\ IsFiniteSet(Frames)
    /\ Empty \in [Slots -> Frames \cup {NoFrame}]
    /\ \A s \in Slots : Empty[s] = NoFrame
  BY TablesAssumption DEF Empty, NotPresent

\* The types of the parts.
LEMMA MemFacts ==
    ASSUME NEW m \in Mem
    PROVE  /\ m.dir \in [Envs -> [Regions -> Frames \cup {NoFrame} \cup NotPresent]]
           /\ m.tab \in [Frames -> [Slots -> Frames \cup {NoFrame}]]
           /\ m.freeList \in Seq(Frames) /\ Len(m.freeList) \in Nat
           /\ \A i \in 1 .. Len(m.freeList) : m.freeList[i] \in Frames
           /\ m.references \in [Frames -> Int]
           /\ m.pt \in [HeapPages -> Frames \cup {NoFrame}]
           /\ m.startAdd \in 0 .. NPages
           /\ m.strategy \in {"NEXTFIT", "BESTFIT"}
           /\ m.status \in {"ok", "panic", "down"}
           /\ \A e \in Envs, r \in Regions, s \in Slots :
                 HasTable(m, e, r) => Entry(m, e, r, s) \in Frames \cup {NoFrame}
  <1>1. /\ m.dir \in [Envs -> [Regions -> Frames \cup {NoFrame} \cup NotPresent]]
        /\ m.tab \in [Frames -> [Slots -> Frames \cup {NoFrame}]]
        /\ m.freeList \in Seq(Frames)
        /\ m.references \in [Frames -> Int]
        /\ m.pt \in [HeapPages -> Frames \cup {NoFrame}]
        /\ m.startAdd \in 0 .. NPages
        /\ m.strategy \in {"NEXTFIT", "BESTFIT"}
        /\ m.status \in {"ok", "panic", "down"}
    BY DEF Mem
  <1>2. /\ Len(m.freeList) \in Nat
        /\ \A i \in 1 .. Len(m.freeList) : m.freeList[i] \in Frames
    BY <1>1, LenProperties, ElementOfSeq
  <1>3. \A e \in Envs, r \in Regions, s \in Slots :
           HasTable(m, e, r) => Entry(m, e, r, s) \in Frames \cup {NoFrame}
    BY <1>1 DEF HasTable, Entry
  <1> QED
    BY <1>1, <1>2, <1>3

-----------------------------------------------------------------------------
(* The ways in which the spaces change: n is m after the change. *)

TookFrame(m, n, f) ==
    /\ n \in Mem /\ m.freeList # << >> /\ f = Head(m.freeList)
    /\ n.dir = m.dir /\ n.tab = m.tab /\ n.freeList = Tail(m.freeList)
    /\ n.references = [m.references EXCEPT ![f] = 0]

AddedTable(m, n, e, r, f) ==
    /\ n \in Mem
    /\ n.dir = [m.dir EXCEPT ![e][r] = f] /\ n.tab = [m.tab EXCEPT ![f] = Empty]
    /\ n.freeList = m.freeList /\ n.references = [m.references EXCEPT ![f] = 1]

AddedPage(m, n, e, r, s, f) ==
    /\ n \in Mem
    /\ n.dir = m.dir /\ n.tab = [m.tab EXCEPT ![m.dir[e][r]][s] = f]
    /\ n.freeList = m.freeList /\ n.references = [m.references EXCEPT ![f] = 1]

\* What free_frame does to the list and to the count of f.
Pushed(m, n, f) ==
    /\ n.freeList = <<f>> \o m.freeList
    /\ n.references = [m.references EXCEPT ![f] = 0]

DroppedPage(m, n, e, r, s, f) ==
    /\ n \in Mem /\ f = Entry(m, e, r, s) /\ n.dir = m.dir
    /\ n.tab = [[m.tab EXCEPT ![f] = Empty] EXCEPT ![m.dir[e][r]][s] = NoFrame]
    /\ Pushed(m, n, f)

\* The frame of the table goes back to the free list or is forgotten.
DroppedTable(m, n, e, r, f, x) ==
    /\ n \in Mem /\ f = m.dir[e][r] /\ x \in {NoFrame} \cup NotPresent
    /\ n.dir = [m.dir EXCEPT ![e][r] = x] /\ n.tab = [m.tab EXCEPT ![f] = Empty]
    /\ \/ Pushed(m, n, f)
       \/ n.freeList = m.freeList /\ n.references = m.references

\* A directory entry gets a table, which begins empty.
LEMMA NewTable ==
    ASSUME NEW m, Sound(m), NEW n, NEW e \in Envs, NEW r \in Regions,
           NEW f, Loose(m, f), ~HasTable(m, e, r), AddedTable(m, n, e, r, f)
    PROVE  /\ Sound(n)
           /\ \A d \in Envs, q \in Regions :
                 /\ HasTable(n, d, q) <=> HasTable(m, d, q) \/ (d = e /\ q = r)
                 /\ n.dir[d][q] = IF d = e /\ q = r THEN f ELSE m.dir[d][q]
           /\ \A d \in Envs, q \in Regions, u \in Slots :
                 /\ HasPage(n, d, q, u) <=> HasPage(m, d, q, u)
                 /\ HasPage(m, d, q, u) => Entry(n, d, q, u) = Entry(m, d, q, u)
  <1> USE DEF AddedTable
  <1>1. /\ m \in Mem /\ f \in Frames
        /\ m.dir \in [Envs -> [Regions -> Frames \cup {NoFrame} \cup NotPresent]]
        /\ m.tab \in [Frames -> [Slots -> Frames \cup {NoFrame}]]
        /\ m.references \in [Frames -> Int]
    BY MemFacts DEF Sound, Loose
  <1>2. \A d \in Envs, q \in Regions :
           n.dir[d][q] = IF d = e /\ q = r THEN f ELSE m.dir[d][q]
    BY <1>1
  <1>3. \A d \in Envs, q \in Regions :
           HasTable(n, d, q) <=> HasTable(m, d, q) \/ (d = e /\ q = r)
    BY <1>1, <1>2 DEF HasTable
  <1>4. \A d \in Envs, q \in Regions : m.dir[d][q] # f
    BY DEF Loose
  <1>5. \A d \in Envs, q \in Regions, u \in Slots :
           Entry(n, d, q, u) = IF d = e /\ q = r THEN NoFrame
                               ELSE IF HasTable(m, d, q) THEN Entry(m, d, q, u)
                               ELSE Entry(n, d, q, u)
    BY <1>1, <1>2, <1>4, Constants DEF Entry, HasTable
  <1>6. \A d \in Envs, q \in Regions, u \in Slots :
           /\ HasPage(n, d, q, u) <=> HasPage(m, d, q, u)
           /\ HasPage(m, d, q, u) => Entry(n, d, q, u) = Entry(m, d, q, u)
    BY <1>3, <1>5 DEF HasPage
  <1>7. TablesApart(n)
    BY <1>2, <1>3, <1>4 DEF TablesApart, Sound
  <1>8. PagesApart(n)
    BY <1>6 DEF PagesApart, Sound
  <1>9. NoPageIsTable(n)
    BY <1>2, <1>3, <1>6 DEF NoPageIsTable, Sound, Loose
  <1>10. Counted(n)
    <2>1. \A g \in Frames : n.references[g] = IF g = f THEN 1 ELSE m.references[g]
      BY <1>1
    <2>2. \A d \in Envs, q \in Regions :
             HasTable(n, d, q) => n.references[n.dir[d][q]] = 1
      BY <1>2, <1>3, <2>1 DEF Counted, Sound, HasTable
    <2>3. \A d \in Envs, q \in Regions, u \in Slots :
             HasPage(n, d, q, u) => n.references[Entry(n, d, q, u)] = 1
      BY <1>1, <1>6, <2>1, MemFacts DEF Counted, Sound, HasPage
    <2>4. \A i \in 1 .. Len(n.freeList) : n.references[n.freeList[i]] <= 0
      BY <1>1, <2>1, MemFacts DEF Counted, Sound, Loose, IsFree
    <2> QED
      BY <2>2, <2>3, <2>4 DEF Counted
  <1>11. NoRepeats(n)
    BY DEF NoRepeats, Sound
  <1> QED
    BY <1>2, <1>3, <1>6, <1>7, <1>8, <1>9, <1>10, <1>11 DEF Sound

\* The head of the free list is taken off.
LEMMA TakeFrame ==
    ASSUME NEW m, Sound(m), NEW n, NEW f, TookFrame(m, n, f)
    PROVE  /\ Sound(n) /\ Loose(n, f) /\ n.references[f] = 0
           /\ \A d \in Envs, q \in Regions :
                 HasTable(n, d, q) <=> HasTable(m, d, q)
           /\ \A d \in Envs, q \in Regions, u \in Slots :
                 /\ HasPage(n, d, q, u) <=> HasPage(m, d, q, u)
                 /\ Entry(n, d, q, u) = Entry(m, d, q, u)
           /\ \A g : IsFree(m, g) <=> g = f \/ IsFree(n, g)
  <1> USE DEF TookFrame
  <1>1. /\ m \in Mem /\ m.freeList \in Seq(Frames) /\ Len(m.freeList) \in Nat
        /\ m.references \in [Frames -> Int]
    BY MemFacts DEF Sound
  <1>2. /\ f \in Frames /\ f = m.freeList[1] /\ Len(m.freeList) # 0
        /\ Len(n.freeList) = Len(m.freeList) - 1
        /\ \A i \in 1 .. Len(n.freeList) : n.freeList[i] = m.freeList[i + 1]
    BY <1>1, HeadTailProperties, EmptySeq
  <1>3. \A g : IsFree(m, g) <=> g = f \/ IsFree(n, g)
    <2> TAKE g
    <2>1. ASSUME IsFree(m, g), g # f PROVE IsFree(n, g)
      <3>1. PICK i \in 1 .. Len(m.freeList) : m.freeList[i] = g
        BY <2>1 DEF IsFree
      <3>2. i # 1 /\ i - 1 \in 1 .. Len(n.freeList) /\ (i - 1) + 1 = i
        BY <1>1, <1>2, <2>1, <3>1
      <3>3. n.freeList[i - 1] = g
        BY <1>2, <3>1, <3>2
      <3> QED
        BY <3>2, <3>3 DEF IsFree
    <2>2. ASSUME IsFree(n, g) PROVE IsFree(m, g)
      <3>1. PICK i \in 1 .. Len(n.freeList) : n.freeList[i] = g
        BY <2>2 DEF IsFree
      <3>2. i + 1 \in 1 .. Len(m.freeList)
        BY <1>1, <1>2
      <3> QED
        BY <1>2, <3>1, <3>2 DEF IsFree
    <2>3. IsFree(m, f)
      <3>1. 1 \in 1 .. Len(m.freeList)
        BY <1>1, <1>2
      <3> QED
        BY <1>2, <3>1 DEF IsFree
    <2> QED
      BY <2>1, <2>2, <2>3
  <1>4. \A i \in 1 .. Len(n.freeList) : n.freeList[i] # f
    <2> TAKE i \in 1 .. Len(n.freeList)
    <2>1. i + 1 \in 1 .. Len(m.freeList) /\ 1 \in 1 .. Len(m.freeList)
          /\ i + 1 # 1
      BY <1>1, <1>2
    <2> QED
      BY <1>2, <2>1 DEF Sound, NoRepeats
  <1>5. m.references[f] # 1
    <2>1. 1 \in 1 .. Len(m.freeList)
      BY <1>1, <1>2
    <2>2. m.references[f] <= 0 /\ m.references[f] \in Int
      BY <1>1, <1>2, <2>1 DEF Sound, Counted
    <2> QED
      BY <2>2
  <1>6. /\ n.references[f] = 0
        /\ \A g \in Frames : g # f => n.references[g] = m.references[g]
    BY <1>1, <1>2
  <1>7. /\ \A d \in Envs, q \in Regions :
              HasTable(n, d, q) <=> HasTable(m, d, q)
        /\ \A d \in Envs, q \in Regions, u \in Slots :
              /\ HasPage(n, d, q, u) <=> HasPage(m, d, q, u)
              /\ Entry(n, d, q, u) = Entry(m, d, q, u)
    BY DEF HasTable, HasPage, Entry
  <1>8. TablesApart(n) /\ PagesApart(n) /\ NoPageIsTable(n)
    BY <1>7 DEF TablesApart, PagesApart, NoPageIsTable, Sound
  <1>9. \A i \in 1 .. Len(n.freeList) : i + 1 \in 1 .. Len(m.freeList)
    BY <1>1, <1>2
  <1>10. NoRepeats(n)
    <2> SUFFICES ASSUME NEW i \in 1 .. Len(n.freeList),
                        NEW j \in 1 .. Len(n.freeList),
                        n.freeList[i] = n.freeList[j]
                 PROVE  i = j
      BY DEF NoRepeats
    <2>1. i + 1 = j + 1
      BY <1>2, <1>9 DEF Sound, NoRepeats
    <2> QED
      BY <1>1, <1>2, <2>1
  <1>11. Loose(n, f)
    <2>1. \A d \in Envs, q \in Regions : m.dir[d][q] # f
      BY <1>2, <1>5 DEF Sound, Counted, HasTable
    <2>2. \A d \in Envs, q \in Regions, u \in Slots :
             HasPage(m, d, q, u) => Entry(m, d, q, u) # f
      BY <1>5 DEF Sound, Counted
    <2> QED
      BY <1>2, <1>4, <1>7, <2>1, <2>2 DEF Loose, IsFree
  <1>12. Counted(n)
    <2>1. \A d \in Envs, q \in Regions :
             HasTable(n, d, q) => n.references[n.dir[d][q]] = 1
      BY <1>6, <1>7, <1>11 DEF Counted, Sound, HasTable, Loose
    <2>2. \A d \in Envs, q \in Regions, u \in Slots :
             HasPage(n, d, q, u) => n.references[Entry(n, d, q, u)] = 1
      <3> TAKE d \in Envs, q \in Regions, u \in Slots
      <3> HAVE HasPage(n, d, q, u)
      <3>1. /\ HasPage(m, d, q, u) /\ Entry(n, d, q, u) = Entry(m, d, q, u)
            /\ Entry(m, d, q, u) # f
        BY <1>7, <1>11 DEF Loose
      <3>2. Entry(m, d, q, u) \in Frames
        BY <1>1, <3>1, MemFacts DEF HasPage
      <3> QED
        BY <1>6, <3>1, <3>2 DEF Sound, Counted
    <2>3. \A i \in 1 .. Len(n.freeList) : n.references[n.freeList[i]] <= 0
      <3> TAKE i \in 1 .. Len(n.freeList)
      <3>1. /\ n.freeList[i] = m.freeList[i + 1] /\ n.freeList[i] # f
            /\ i + 1 \in 1 .. Len(m.freeList) /\ m.freeList[i + 1] \in Frames
        BY <1>1, <1>2, <1>4, <1>9, MemFacts
      <3>2. m.references[m.freeList[i + 1]] <= 0
        BY <3>1 DEF Sound, Counted
      <3> QED
        BY <1>6, <3>1, <3>2
    <2> QED
      BY <2>1, <2>2, <2>3 DEF Counted
  <1> QED
    BY <1>3, <1>5, <1>6, <1>7, <1>8, <1>10, <1>11, <1>12 DEF Sound

\* An entry of a table gets a frame.
LEMMA EnterPage ==
    ASSUME NEW m, Sound(m), NEW n, NEW e \in Envs, NEW r \in Regions,
           NEW s \in Slots, HasTable(m, e, r), ~HasPage(m, e, r, s),
           NEW f, Loose(m, f), AddedPage(m, n, e, r, s, f)
    PROVE  /\ Sound(n)
           /\ \A d \in Envs, q \in Regions :
                 HasTable(n, d, q) <=> HasTable(m, d, q)
           /\ \A d \in Envs, q \in Regions, u \in Slots :
                 /\ HasPage(n, d, q, u) <=>
                       HasPage(m, d, q, u) \/ (d = e /\ q = r /\ u = s)
                 /\ HasPage(m, d, q, u) => Entry(n, d, q, u) = Entry(m, d, q, u)
           /\ Entry(n, e, r, s) = f
  <1> USE DEF AddedPage
  <1>1. /\ m \in Mem /\ f \in Frames /\ f # NoFrame
        /\ m.dir \in [Envs -> [Regions -> Frames \cup {NoFrame} \cup NotPresent]]
        /\ m.tab \in [Frames -> [Slots -> Frames \cup {NoFrame}]]
        /\ m.references \in [Frames -> Int]
    BY MemFacts, Constants DEF Sound, Loose
  <1>2. \A d \in Envs, q \in Regions :
           HasTable(n, d, q) <=> HasTable(m, d, q)
    BY DEF HasTable
  <1>3. \A d \in Envs, q \in Regions, u \in Slots : HasTable(m, d, q) =>
           Entry(n, d, q, u) = IF d = e /\ q = r /\ u = s THEN f
                               ELSE Entry(m, d, q, u)
    <2> TAKE d \in Envs, q \in Regions, u \in Slots
    <2> HAVE HasTable(m, d, q)
    <2>1. m.dir[d][q] = m.dir[e][r] <=> d = e /\ q = r
      BY DEF Sound, TablesApart
    <2> QED
      BY <1>1, <2>1 DEF Entry, HasTable
  <1>4. /\ \A d \in Envs, q \in Regions, u \in Slots :
              /\ HasPage(n, d, q, u) <=>
                    HasPage(m, d, q, u) \/ (d = e /\ q = r /\ u = s)
              /\ HasPage(m, d, q, u) => Entry(n, d, q, u) = Entry(m, d, q, u)
        /\ Entry(n, e, r, s) = f
    BY <1>1, <1>2, <1>3 DEF HasPage
  <1>5. TablesApart(n)
    BY <1>2 DEF TablesApart, Sound
  <1>6. PagesApart(n)
    <2> SUFFICES ASSUME NEW c \in Envs, NEW d \in Envs, NEW p \in Regions,
                        NEW q \in Regions, NEW u \in Slots, NEW v \in Slots,
                        HasPage(n, c, p, u), HasPage(n, d, q, v),
                        Entry(n, c, p, u) = Entry(n, d, q, v)
                 PROVE  c = d /\ p = q /\ u = v
      BY DEF PagesApart
    <2>1. CASE HasPage(m, c, p, u) /\ HasPage(m, d, q, v)
      BY <1>4, <2>1 DEF PagesApart, Sound
    <2>2. CASE ~HasPage(m, c, p, u)
      BY <1>4, <2>2 DEF Loose
    <2>3. CASE ~HasPage(m, d, q, v)
      BY <1>4, <2>3 DEF Loose
    <2> QED
      BY <2>1, <2>2, <2>3
  <1>7. NoPageIsTable(n)
    BY <1>2, <1>4 DEF NoPageIsTable, Sound, Loose
  <1>8. Counted(n)
    <2>1. \A g \in Frames : n.references[g] = IF g = f THEN 1 ELSE m.references[g]
      BY <1>1
    <2>2. \A d \in Envs, q \in Regions :
             HasTable(n, d, q) => n.references[n.dir[d][q]] = 1
      BY <1>2, <2>1 DEF Counted, Sound, HasTable
    <2>3. \A d \in Envs, q \in Regions, u \in Slots :
             HasPage(n, d, q, u) => n.references[Entry(n, d, q, u)] = 1
      BY <1>1, <1>4, <2>1, MemFacts DEF Counted, Sound, HasPage
    <2>4. \A i \in 1 .. Len(n.freeList) : n.references[n.freeList[i]] <= 0
      BY <1>1, <2>1, MemFacts DEF Counted, Sound, Loose, IsFree
    <2> QED
      BY <2>2, <2>3, <2>4 DEF Counted
  <1>9. NoRepeats(n)
    BY DEF NoRepeats, Sound
  <1> QED
    BY <1>2, <1>4, <1>5, <1>6, <1>7, <1>8, <1>9 DEF Sound

\* What it means for the whole list.
FreedIn(m, n, f) ==
    /\ NoRepeats(n)
    /\ \A i \in 1 .. Len(n.freeList) : n.references[n.freeList[i]] <= 0
    /\ \A g : IsFree(n, g) <=> g = f \/ IsFree(m, g)
    /\ \A g \in Frames : g # f => n.references[g] = m.references[g]

\* A frame in use goes back to the head of the free list.
LEMMA PushFrame ==
    ASSUME NEW m, Sound(m), NEW n, NEW f \in Frames, ~IsFree(m, f),
           Pushed(m, n, f)
    PROVE  FreedIn(m, n, f)
  <1>1. /\ m.freeList \in Seq(Frames) /\ Len(m.freeList) \in Nat
        /\ m.references \in [Frames -> Int]
        /\ \A i \in 1 .. Len(m.freeList) : m.freeList[i] \in Frames
    BY MemFacts DEF Sound
  <1>2. <<f>> \in Seq(Frames) /\ Len(<<f>>) = 1 /\ <<f>>[1] = f
    OBVIOUS
  <1>3. /\ Len(n.freeList) = 1 + Len(m.freeList)
        /\ \A i \in 1 .. 1 + Len(m.freeList) :
              n.freeList[i] = IF i <= 1 THEN <<f>>[i] ELSE m.freeList[i - 1]
    BY <1>1, <1>2, ConcatProperties DEF Pushed
  <1>4. /\ 1 \in 1 .. Len(n.freeList) /\ n.freeList[1] = f
        /\ \A i \in 1 .. Len(n.freeList) :
              i # 1 => /\ i - 1 \in 1 .. Len(m.freeList)
                       /\ n.freeList[i] = m.freeList[i - 1]
        /\ \A i \in 1 .. Len(m.freeList) :
              /\ i + 1 \in 1 .. Len(n.freeList)
              /\ n.freeList[i + 1] = m.freeList[i]
    BY <1>1, <1>2, <1>3
  <1>5. \A g : IsFree(n, g) <=> g = f \/ IsFree(m, g)
    <2> TAKE g
    <2>1. ASSUME IsFree(n, g), g # f PROVE IsFree(m, g)
      <3>1. PICK i \in 1 .. Len(n.freeList) : n.freeList[i] = g
        BY <2>1 DEF IsFree
      <3>2. i - 1 \in 1 .. Len(m.freeList) /\ m.freeList[i - 1] = g
        BY <1>4, <2>1, <3>1
      <3> QED
        BY <3>2 DEF IsFree
    <2>2. ASSUME IsFree(m, g) PROVE IsFree(n, g)
      <3>1. PICK i \in 1 .. Len(m.freeList) : m.freeList[i] = g
        BY <2>2 DEF IsFree
      <3>2. i + 1 \in 1 .. Len(n.freeList) /\ n.freeList[i + 1] = g
        BY <1>4, <3>1
      <3> QED
        BY <3>2 DEF IsFree
    <2>3. IsFree(n, f)
      BY <1>4 DEF IsFree
    <2> QED
      BY <2>1, <2>2, <2>3
  <1>6. NoRepeats(n)
    <2> SUFFICES ASSUME NEW i \in 1 .. Len(n.freeList),
                        NEW j \in 1 .. Len(n.freeList),
                        n.freeList[i] = n.freeList[j]
                 PROVE  i = j
      BY DEF NoRepeats
    <2>1. i \in Int /\ j \in Int
      OBVIOUS
    <2>2. CASE i = 1 \/ j = 1
      BY <1>4, <2>2 DEF IsFree
    <2>3. CASE i # 1 /\ j # 1
      <3>1. /\ i - 1 \in 1 .. Len(m.freeList) /\ j - 1 \in 1 .. Len(m.freeList)
            /\ m.freeList[i - 1] = m.freeList[j - 1]
        BY <1>4, <2>3
      <3>2. i - 1 = j - 1
        BY <3>1, Zenon DEF Sound, NoRepeats
      <3> QED
        BY <2>1, <3>2
    <2> QED
      BY <2>2, <2>3
  <1>7. \A g \in Frames : n.references[g] = IF g = f THEN 0 ELSE m.references[g]
    BY <1>1 DEF Pushed
  <1>8. \A i \in 1 .. Len(n.freeList) : n.references[n.freeList[i]] <= 0
    <2> TAKE i \in 1 .. Len(n.freeList)
    <2>1. CASE i = 1
      BY <1>4, <1>7, <2>1
    <2>2. CASE i # 1
      <3>1. /\ i - 1 \in 1 .. Len(m.freeList)
            /\ n.freeList[i] = m.freeList[i - 1] /\ m.freeList[i - 1] \in Frames
        BY <1>1, <1>4, <2>2
      <3>2. m.references[m.freeList[i - 1]] <= 0
        BY <3>1 DEF Sound, Counted
      <3> QED
        BY <1>7, <3>1, <3>2
    <2> QED
      BY <2>1, <2>2
  <1> QED
    BY <1>5, <1>6, <1>7, <1>8 DEF FreedIn

\* The frame of a page goes back to the free list and its entry is cleared.
LEMMA DropPage ==
    ASSUME NEW m, Sound(m), NEW n, NEW e \in Envs, NEW r \in Regions,
           NEW s \in Slots, HasPage(m, e, r, s), NEW f,
           DroppedPage(m, n, e, r, s, f)
    PROVE  /\ Sound(n)
           /\ \A d \in Envs, q \in Regions :
                 HasTable(n, d, q) <=> HasTable(m, d, q)
           /\ \A d \in Envs, q \in Regions, u \in Slots :
                 /\ HasPage(n, d, q, u) <=>
                       HasPage(m, d, q, u) /\ ~(d = e /\ q = r /\ u = s)
                 /\ HasPage(n, d, q, u) => Entry(n, d, q, u) = Entry(m, d, q, u)
           /\ \A g : IsFree(n, g) <=> g = f \/ IsFree(m, g)
  <1> USE DEF DroppedPage
  <1>1. /\ m \in Mem
        /\ m.dir \in [Envs -> [Regions -> Frames \cup {NoFrame} \cup NotPresent]]
        /\ m.tab \in [Frames -> [Slots -> Frames \cup {NoFrame}]]
        /\ m.references \in [Frames -> Int]
    BY MemFacts DEF Sound
  <1>2. f \in Frames /\ f # NoFrame /\ HasTable(m, e, r)
    BY <1>1, MemFacts DEF HasPage
  <1>3. m.references[f] = 1 /\ ~IsFree(m, f)
    BY DEF Sound, Counted, IsFree
  <1>4. \A d \in Envs, q \in Regions :
           HasTable(n, d, q) <=> HasTable(m, d, q)
    BY DEF HasTable
  <1>5. \A d \in Envs, q \in Regions : HasTable(m, d, q) => m.dir[d][q] # f
    BY DEF Sound, NoPageIsTable
  <1>6. \A d \in Envs, q \in Regions, u \in Slots : HasTable(m, d, q) =>
           Entry(n, d, q, u) = IF d = e /\ q = r /\ u = s THEN NoFrame
                               ELSE Entry(m, d, q, u)
    <2> TAKE d \in Envs, q \in Regions, u \in Slots
    <2> HAVE HasTable(m, d, q)
    <2>1. m.dir[d][q] = m.dir[e][r] <=> d = e /\ q = r
      BY <1>2 DEF Sound, TablesApart
    <2>2. m.dir[d][q] # f /\ m.dir[e][r] # f
      BY <1>2, <1>5
    <2>3. m.dir[d][q] \in Frames /\ m.dir[e][r] \in Frames
      BY <1>2 DEF HasTable
    <2> DEFINE F == [m.tab EXCEPT ![f] = Empty]
    <2>4. /\ F \in [Frames -> [Slots -> Frames \cup {NoFrame}]]
          /\ \A g \in Frames : g # f => F[g] = m.tab[g]
      BY <1>1, Constants
    <2> DEFINE t == m.dir[e][r]
    <2>5. n.tab = [F EXCEPT ![t][s] = NoFrame] /\ t \in Frames
      BY <2>3
    <2> HIDE DEF F, t
    <2>6. \A g \in Frames :
             n.tab[g][u] = IF g = t /\ u = s THEN NoFrame ELSE F[g][u]
      <3> DEFINE R == [F[t] EXCEPT ![s] = NoFrame]
      <3>1. n.tab = [F EXCEPT ![t] = R]
        BY <2>5
      <3>2. R[u] = IF u = s THEN NoFrame ELSE F[t][u]
        BY <2>4, <2>5
      <3> HIDE DEF R
      <3> QED
        BY <2>4, <2>5, <3>1, <3>2
    <2>7. n.tab[m.dir[d][q]][u] =
             IF d = e /\ q = r /\ u = s THEN NoFrame ELSE F[m.dir[d][q]][u]
      BY <2>1, <2>3, <2>6 DEF t
    <2> QED
      BY <2>2, <2>3, <2>4, <2>7 DEF Entry
  <1>7. \A d \in Envs, q \in Regions, u \in Slots :
           /\ HasPage(n, d, q, u) <=>
                 HasPage(m, d, q, u) /\ ~(d = e /\ q = r /\ u = s)
           /\ HasPage(n, d, q, u) => Entry(n, d, q, u) = Entry(m, d, q, u)
    BY <1>4, <1>6 DEF HasPage
  <1>8. TablesApart(n)
    BY <1>4 DEF TablesApart, Sound
  <1>9. PagesApart(n)
    BY <1>7 DEF PagesApart, Sound
  <1>10. NoPageIsTable(n)
    BY <1>4, <1>7 DEF NoPageIsTable, Sound
  <1>11. /\ NoRepeats(n)
         /\ \A i \in 1 .. Len(n.freeList) : n.references[n.freeList[i]] <= 0
         /\ \A g : IsFree(n, g) <=> g = f \/ IsFree(m, g)
         /\ \A g \in Frames : g # f => n.references[g] = m.references[g]
    <2>1. FreedIn(m, n, f)
      BY <1>2, <1>3, PushFrame
    <2> QED
      BY <2>1 DEF FreedIn
  <1>12. Counted(n)
    <2>1. \A d \in Envs, q \in Regions :
             HasTable(n, d, q) => n.references[n.dir[d][q]] = 1
      BY <1>4, <1>5, <1>11 DEF Counted, Sound, HasTable
    <2>2. \A d \in Envs, q \in Regions, u \in Slots :
             HasPage(n, d, q, u) => n.references[Entry(n, d, q, u)] = 1
      <3> TAKE d \in Envs, q \in Regions, u \in Slots
      <3> HAVE HasPage(n, d, q, u)
      <3>1. /\ HasPage(m, d, q, u) /\ ~(d = e /\ q = r /\ u = s)
            /\ Entry(n, d, q, u) = Entry(m, d, q, u)
        BY <1>7
      <3>2. Entry(m, d, q, u) # f
        BY <3>1 DEF Sound, PagesApart
      <3>3. Entry(m, d, q, u) \in Frames
        BY <1>1, <3>1, MemFacts DEF HasPage
      <3> QED
        BY <1>11, <3>1, <3>2, <3>3 DEF Sound, Counted
    <2> QED
      BY <1>11, <2>1, <2>2 DEF Counted
  <1> QED
    BY <1>4, <1>7, <1>8, <1>9, <1>10, <1>11, <1>12 DEF Sound

\* A directory entry loses its table, whose frame goes back to the free list
\* or is forgotten.
LEMMA DropTable ==
    ASSUME NEW m, Sound(m), NEW n, NEW e \in Envs, NEW r \in Regions,
           HasTable(m, e, r), NEW f, NEW x, DroppedTable(m, n, e, r, f, x)
    PROVE  /\ Sound(n)
           /\ \A d \in Envs, q \in Regions :
                 /\ HasTable(n, d, q) <=> HasTable(m, d, q) /\ ~(d = e /\ q = r)
                 /\ HasTable(n, d, q) => n.dir[d][q] = m.dir[d][q]
           /\ \A d \in Envs, q \in Regions, u \in Slots :
                 /\ HasPage(n, d, q, u) <=>
                       HasPage(m, d, q, u) /\ ~(d = e /\ q = r)
                 /\ HasPage(n, d, q, u) => Entry(n, d, q, u) = Entry(m, d, q, u)
           /\ \A g : IsFree(m, g) => IsFree(n, g)
           /\ Pushed(m, n, f) => IsFree(n, f)
  <1> USE DEF DroppedTable
  <1>1. /\ m \in Mem /\ f \in Frames
        /\ m.dir \in [Envs -> [Regions -> Frames \cup {NoFrame} \cup NotPresent]]
        /\ m.tab \in [Frames -> [Slots -> Frames \cup {NoFrame}]]
        /\ m.references \in [Frames -> Int] /\ x \notin Frames
    BY MemFacts, Constants DEF Sound, HasTable
  <1>2. m.references[f] = 1 /\ ~IsFree(m, f)
    BY DEF Sound, Counted, IsFree
  <1>3. \A d \in Envs, q \in Regions :
           n.dir[d][q] = IF d = e /\ q = r THEN x ELSE m.dir[d][q]
    BY <1>1
  <1>4. \A d \in Envs, q \in Regions :
           /\ HasTable(n, d, q) <=> HasTable(m, d, q) /\ ~(d = e /\ q = r)
           /\ HasTable(n, d, q) => n.dir[d][q] = m.dir[d][q]
    BY <1>1, <1>3 DEF HasTable
  <1>5. \A d \in Envs, q \in Regions : HasTable(n, d, q) => n.dir[d][q] # f
    BY <1>4 DEF Sound, TablesApart
  <1>6. \A d \in Envs, q \in Regions, u \in Slots :
           HasTable(n, d, q) => Entry(n, d, q, u) = Entry(m, d, q, u)
    BY <1>1, <1>4, <1>5 DEF Entry, HasTable
  <1>7. \A d \in Envs, q \in Regions, u \in Slots :
           /\ HasPage(n, d, q, u) <=> HasPage(m, d, q, u) /\ ~(d = e /\ q = r)
           /\ HasPage(n, d, q, u) => Entry(n, d, q, u) = Entry(m, d, q, u)
    BY <1>4, <1>6 DEF HasPage
  <1>8. TablesApart(n)
    <2> SUFFICES ASSUME NEW c \in Envs, NEW d \in Envs, NEW p \in Regions,
                        NEW q \in Regions, HasTable(n, c, p),
                        n.dir[c][p] = n.dir[d][q]
                 PROVE  c = d /\ p = q
      BY DEF TablesApart
    <2>1. HasTable(n, d, q)
      BY DEF HasTable
    <2>2. HasTable(m, c, p) /\ m.dir[c][p] = m.dir[d][q]
      BY <1>4, <2>1
    <2> QED
      BY <2>2 DEF TablesApart, Sound
  <1>9. PagesApart(n)
    BY <1>7 DEF PagesApart, Sound
  <1>10. NoPageIsTable(n)
    BY <1>4, <1>7 DEF NoPageIsTable, Sound
  <1>11. /\ NoRepeats(n)
         /\ \A i \in 1 .. Len(n.freeList) : n.references[n.freeList[i]] <= 0
         /\ \A g : IsFree(m, g) => IsFree(n, g)
         /\ Pushed(m, n, f) => IsFree(n, f)
         /\ \A g \in Frames : g # f => n.references[g] = m.references[g]
    <2>1. CASE Pushed(m, n, f)
      <3>1. FreedIn(m, n, f)
        BY <1>1, <1>2, <2>1, PushFrame
      <3> QED
        BY <3>1 DEF FreedIn
    <2>2. CASE ~Pushed(m, n, f)
      <3>1. n.freeList = m.freeList /\ n.references = m.references
        BY <2>2
      <3> QED
        BY <2>2, <3>1 DEF Sound, Counted, NoRepeats, IsFree
    <2> QED
      BY <2>1, <2>2
  <1>12. Counted(n)
    <2>1. \A d \in Envs, q \in Regions :
             HasTable(n, d, q) => n.references[n.dir[d][q]] = 1
      BY <1>4, <1>5, <1>11 DEF Counted, Sound, HasTable
    <2>2. \A d \in Envs, q \in Regions, u \in Slots :
             HasPage(n, d, q, u) => n.references[Entry(n, d, q, u)] = 1
      <3> TAKE d \in Envs, q \in Regions, u \in Slots
      <3> HAVE HasPage(n, d, q, u)
      <3>1. HasPage(m, d, q, u) /\ Entry(n, d, q, u) = Entry(m, d, q, u)
        BY <1>7
      <3>2. Entry(m, d, q, u) # f
        BY <3>1 DEF Sound, NoPageIsTable
      <3>3. Entry(m, d, q, u) \in Frames
        BY <1>1, <3>1, MemFacts DEF HasPage
      <3> QED
        BY <1>11, <3>1, <3>2, <3>3 DEF Sound, Counted
    <2> QED
      BY <1>11, <2>1, <2>2 DEF Counted
  <1> QED
    BY <1>4, <1>7, <1>8, <1>9, <1>10, <1>11, <1>12 DEF Sound

-----------------------------------------------------------------------------
(* What the memory knows of a frame. *)

IsTable(m, g) == \E e \in Envs, r \in Regions : HasTable(m, e, r) /\ m.dir[e][r] = g
IsPage(m, g) == \E e \in Envs, r \in Regions, s \in Slots :
                    HasPage(m, e, r, s) /\ Entry(m, e, r, s) = g
Known(m, g) == IsFree(m, g) \/ IsTable(m, g) \/ IsPage(m, g)

\* Only the kernel heap, its strategy or the status differ.
Same(m, n) ==
    /\ n \in Mem /\ n.dir = m.dir /\ n.tab = m.tab
    /\ n.freeList = m.freeList /\ n.references = m.references

LEMMA SameSpaces ==
    ASSUME NEW m, NEW n, Same(m, n)
    PROVE  /\ Sound(m) => Sound(n)
           /\ \A g : Known(n, g) <=> Known(m, g)
           /\ \A g : Loose(n, g) <=> Loose(m, g)
  <1> USE DEF Same
  <1>1. \A d \in Envs, q \in Regions : HasTable(n, d, q) <=> HasTable(m, d, q)
    BY DEF HasTable
  <1>2. \A d \in Envs, q \in Regions, u \in Slots :
           /\ HasPage(n, d, q, u) <=> HasPage(m, d, q, u)
           /\ Entry(n, d, q, u) = Entry(m, d, q, u)
    BY <1>1 DEF HasPage, Entry
  <1>3. \A g : IsFree(n, g) <=> IsFree(m, g)
    BY DEF IsFree
  <1>4. Sound(m) => TablesApart(n) /\ PagesApart(n) /\ NoPageIsTable(n)
    BY <1>1, <1>2 DEF TablesApart, PagesApart, NoPageIsTable, Sound
  <1>5. Sound(m) => Counted(n) /\ NoRepeats(n)
    BY <1>1, <1>2 DEF Counted, NoRepeats, Sound
  <1>6. \A g : Known(n, g) <=> Known(m, g)
    BY <1>1, <1>2, <1>3 DEF Known, IsTable, IsPage
  <1>7. \A g : Loose(n, g) <=> Loose(m, g)
    BY <1>2, <1>3 DEF Loose
  <1> QED
    BY <1>4, <1>5, <1>6, <1>7 DEF Sound

\* A frame that is loose is not known.
LEMMA LooseUnknown ==
    ASSUME NEW m, NEW f, Loose(m, f)
    PROVE  ~Known(m, f)
  BY DEF Loose, Known, IsTable, IsPage

\* What the changes do to what is known.
LEMMA TakeFrameKnown ==
    ASSUME NEW m, Sound(m), NEW n, NEW f, TookFrame(m, n, f)
    PROVE  /\ \A g : Known(m, g) => g = f \/ Known(n, g)
           /\ \A g : Loose(m, g) => Loose(n, g) /\ g # f
  <1>1. /\ \A d \in Envs, q \in Regions :
                 HasTable(n, d, q) <=> HasTable(m, d, q)
        /\ \A d \in Envs, q \in Regions, u \in Slots :
              /\ HasPage(n, d, q, u) <=> HasPage(m, d, q, u)
              /\ Entry(n, d, q, u) = Entry(m, d, q, u)
        /\ \A g : IsFree(m, g) <=> g = f \/ IsFree(n, g)
    BY TakeFrame
  <1>2. n.dir = m.dir
    BY DEF TookFrame
  <1>3. \A g : Known(m, g) => g = f \/ Known(n, g)
    BY <1>1, <1>2 DEF Known, IsTable, IsPage
  <1>4. \A g : Loose(m, g) => Loose(n, g) /\ g # f
    BY <1>1, <1>2 DEF Loose
  <1> QED
    BY <1>3, <1>4

LEMMA NewTableKnown ==
    ASSUME NEW m, Sound(m), NEW n, NEW e \in Envs, NEW r \in Regions,
           NEW f, Loose(m, f), ~HasTable(m, e, r), AddedTable(m, n, e, r, f)
    PROVE  /\ \A g : Known(m, g) => Known(n, g)
           /\ Known(n, f)
           /\ \A g : Loose(m, g) /\ g # f => Loose(n, g)
  <1>1. /\ \A d \in Envs, q \in Regions :
                 /\ HasTable(n, d, q) <=> HasTable(m, d, q) \/ (d = e /\ q = r)
                 /\ n.dir[d][q] = IF d = e /\ q = r THEN f ELSE m.dir[d][q]
        /\ \A d \in Envs, q \in Regions, u \in Slots :
              /\ HasPage(n, d, q, u) <=> HasPage(m, d, q, u)
              /\ HasPage(m, d, q, u) => Entry(n, d, q, u) = Entry(m, d, q, u)
    BY NewTable
  <1>2. \A g : IsFree(m, g) <=> IsFree(n, g)
    BY DEF AddedTable, IsFree
  <1>3. \A g : IsTable(m, g) => IsTable(n, g)
    BY <1>1 DEF IsTable
  <1>4. \A g : IsPage(m, g) => IsPage(n, g)
    BY <1>1 DEF IsPage
  <1>5. IsTable(n, f)
    BY <1>1 DEF IsTable
  <1>6. \A g : Loose(m, g) /\ g # f => Loose(n, g)
    BY <1>1, <1>2 DEF Loose
  <1> QED
    BY <1>2, <1>3, <1>4, <1>5, <1>6 DEF Known

LEMMA EnterPageKnown ==
    ASSUME NEW m, Sound(m), NEW n, NEW e \in Envs, NEW r \in Regions,
           NEW s \in Slots, HasTable(m, e, r), ~HasPage(m, e, r, s),
           NEW f, Loose(m, f), AddedPage(m, n, e, r, s, f)
    PROVE  /\ \A g : Known(m, g) => Known(n, g)
           /\ Known(n, f)
  <1>1. /\ \A d \in Envs, q \in Regions :
                 HasTable(n, d, q) <=> HasTable(m, d, q)
        /\ \A d \in Envs, q \in Regions, u \in Slots :
              /\ HasPage(n, d, q, u) <=>
                    HasPage(m, d, q, u) \/ (d = e /\ q = r /\ u = s)
              /\ HasPage(m, d, q, u) => Entry(n, d, q, u) = Entry(m, d, q, u)
        /\ Entry(n, e, r, s) = f
    BY EnterPage
  <1>2. n.dir = m.dir /\ \A g : IsFree(m, g) => IsFree(n, g)
    BY DEF AddedPage, IsFree
  <1>3. \A g : IsTable(m, g) => IsTable(n, g)
    BY <1>1, <1>2 DEF IsTable
  <1>4. \A g : IsPage(m, g) => IsPage(n, g)
    BY <1>1 DEF IsPage
  <1>5. IsPage(n, f)
    BY <1>1 DEF IsPage
  <1> QED
    BY <1>2, <1>3, <1>4, <1>5 DEF Known

LEMMA DropPageKnown ==
    ASSUME NEW m, Sound(m), NEW n, NEW e \in Envs, NEW r \in Regions,
           NEW s \in Slots, HasPage(m, e, r, s), NEW f,
           DroppedPage(m, n, e, r, s, f)
    PROVE  /\ \A g : Known(m, g) => Known(n, g)
           /\ \A g : Loose(m, g) => /\ Loose(n, g)
                                    /\ n.references[g] = m.references[g]
  <1>1. /\ \A d \in Envs, q \in Regions :
                 HasTable(n, d, q) <=> HasTable(m, d, q)
        /\ \A d \in Envs, q \in Regions, u \in Slots :
                 /\ HasPage(n, d, q, u) <=>
                       HasPage(m, d, q, u) /\ ~(d = e /\ q = r /\ u = s)
                 /\ HasPage(n, d, q, u) => Entry(n, d, q, u) = Entry(m, d, q, u)
        /\ \A g : IsFree(n, g) <=> g = f \/ IsFree(m, g)
    BY DropPage
  <1>2. n.dir = m.dir /\ f = Entry(m, e, r, s) /\ Pushed(m, n, f)
    BY DEF DroppedPage
  <1>3. \A g : IsTable(m, g) => IsTable(n, g)
    BY <1>1, <1>2 DEF IsTable
  <1>4. \A g : IsPage(m, g) => g = f \/ IsPage(n, g)
    BY <1>1, <1>2 DEF IsPage
  <1>5. \A g : Loose(m, g) => g # f
    BY <1>2 DEF Loose
  <1>6. \A g : Loose(m, g) => Loose(n, g)
    BY <1>1, <1>2, <1>5 DEF Loose
  <1>7. \A g : Loose(m, g) => n.references[g] = m.references[g]
    <2> TAKE g
    <2> HAVE Loose(m, g)
    <2>1. g \in Frames /\ g # f /\ m.references \in [Frames -> Int]
      BY <1>5, MemFacts DEF Loose, Sound
    <2> QED
      BY <1>2, <2>1 DEF Pushed
  <1> QED
    BY <1>1, <1>3, <1>4, <1>6, <1>7 DEF Known

\* An empty table goes back to the free list: nothing is forgotten.
LEMMA DropTableKnown ==
    ASSUME NEW m, Sound(m), NEW n, NEW e \in Envs, NEW r \in Regions,
           HasTable(m, e, r), NEW f, NEW x, DroppedTable(m, n, e, r, f, x),
           Pushed(m, n, f), \A s \in Slots : ~HasPage(m, e, r, s)
    PROVE  \A g : Known(m, g) => Known(n, g)
  <1>1. /\ \A d \in Envs, q \in Regions :
                 /\ HasTable(n, d, q) <=> HasTable(m, d, q) /\ ~(d = e /\ q = r)
                 /\ HasTable(n, d, q) => n.dir[d][q] = m.dir[d][q]
        /\ \A d \in Envs, q \in Regions, u \in Slots :
                 /\ HasPage(n, d, q, u) <=>
                       HasPage(m, d, q, u) /\ ~(d = e /\ q = r)
                 /\ HasPage(n, d, q, u) => Entry(n, d, q, u) = Entry(m, d, q, u)
        /\ \A g : IsFree(m, g) => IsFree(n, g)
        /\ IsFree(n, f)
    BY DropTable
  <1>2. f = m.dir[e][r]
    BY DEF DroppedTable
  <1>3. \A g : IsTable(m, g) => g = f \/ IsTable(n, g)
    BY <1>1, <1>2 DEF IsTable
  <1>4. \A g : IsPage(m, g) => IsPage(n, g)
    BY <1>1 DEF IsPage
  <1> QED
    BY <1>1, <1>3, <1>4 DEF Known

-----------------------------------------------------------------------------
(* The operations. *)

\* The kernel heap is as it was.
SameHeap(m, n) == n.pt = m.pt /\ n.startAdd = m.startAdd

\* A call that ends here changes nothing else.
LEMMA EndedSame ==
    ASSUME NEW m, m \in Mem
    PROVE  /\ Same(m, Panic(m)) /\ ~Ok(Panic(m))
           /\ Same(m, Down(m)) /\ ~Ok(Down(m))
           /\ Same(m, m)
  BY DEF Mem, Same, Panic, Down, Ok

LEMMA AllocateFrame ==
    ASSUME NEW m, Sound(m)
    PROVE  \/ m.freeList = << >> /\ allocate_frame(m) = Panic(m)
           \/ /\ TookFrame(m, allocate_frame(m), Head(m.freeList))
              /\ SameHeap(m, allocate_frame(m))
              /\ allocate_frame(m).status = m.status
              /\ allocate_frame(m).strategy = m.strategy
  <1>1. CASE m.freeList = << >>
    BY <1>1 DEF allocate_frame
  <1>2. CASE m.freeList # << >>
    <2> DEFINE f == Head(m.freeList)
               n == [m EXCEPT !.freeList = Tail(m.freeList),
                              !.references = [m.references EXCEPT ![f] = 0]]
    <2>1. allocate_frame(m) = n
      BY <1>2 DEF allocate_frame
    <2>2. /\ m \in Mem /\ m.freeList \in Seq(Frames)
          /\ m.references \in [Frames -> Int]
      BY MemFacts DEF Sound
    <2>3. f \in Frames /\ Tail(m.freeList) \in Seq(Frames)
      BY <1>2, <2>2, HeadTailProperties
    <2> HIDE DEF f
    <2>4. [m.references EXCEPT ![f] = 0] \in [Frames -> Int]
      BY <2>2, <2>3
    <2>5. /\ n \in Mem /\ n.dir = m.dir /\ n.tab = m.tab
          /\ n.freeList = Tail(m.freeList)
          /\ n.references = [m.references EXCEPT ![f] = 0]
          /\ SameHeap(m, n) /\ n.status = m.status /\ n.strategy = m.strategy
      BY <2>2, <2>3, <2>4 DEF Mem, SameHeap
    <2> HIDE DEF n
    <2> QED
      BY <1>2, <2>1, <2>5 DEF TookFrame, f
  <1> QED
    BY <1>1, <1>2

\* The smallest of a set of natural numbers.
LEMMA Least ==
    ASSUME NEW T, T \subseteq Nat, T # {}
    PROVE  \E n \in T : \A m \in T : n <= m
  <1> DEFINE R == {ss \in Nat \X Nat : ss[1] < ss[2]}
  <1>1. IsWellFoundedOn(R, Nat)
    BY NatLessThanWellFounded DEF OpToRel
  <1> HIDE DEF R
  <1>2. PICK n \in T : \A m \in T : ~(<<m, n>> \in R)
    BY <1>1, WFMin
  <1>3. \A m \in T : ~(m < n)
    <2> TAKE m \in T
    <2>1. <<m, n>> \in Nat \X Nat /\ <<m, n>>[1] = m /\ <<m, n>>[2] = n
      OBVIOUS
    <2> QED
      BY <1>2, <2>1 DEF R
  <1> QED
    BY <1>2, <1>3

LEMMA MinIn ==
    ASSUME NEW T, T \subseteq Nat, T # {}
    PROVE  Min(T) \in T
  BY Least DEF Min

\* A page of the kernel heap, or none.
LEMMA HeapSearch ==
    ASSUME NEW m, m \in Mem
    PROVE  /\ FreeSteps(m) # {} =>
                 (m.startAdd + Min(FreeSteps(m))) % NPages \in HeapPages
           /\ \A f \in Frames : kheap_virtual_address(m, f) # NULL =>
                 /\ kheap_virtual_address(m, f) \in HeapPages
                 /\ m.pt[kheap_virtual_address(m, f)] = f
  <1>1. NPages \in Nat \ {0} /\ NoFrame \notin Frames /\ m.startAdd \in Nat
    BY Constants, MemFacts
  <1>2. ASSUME FreeSteps(m) # {}
        PROVE  (m.startAdd + Min(FreeSteps(m))) % NPages \in HeapPages
    <2>1. FreeSteps(m) \subseteq Nat
      BY <1>1 DEF FreeSteps
    <2>2. Min(FreeSteps(m)) \in Nat
      BY <1>2, <2>1, MinIn
    <2> QED
      BY <1>1, <2>2 DEF HeapPages
  <1>3. ASSUME NEW f \in Frames, kheap_virtual_address(m, f) # NULL
        PROVE  /\ kheap_virtual_address(m, f) \in HeapPages
               /\ m.pt[kheap_virtual_address(m, f)] = f
    <2> DEFINE backed == {p \in HeapPages : p < m.startAdd /\ m.pt[p] = f}
    <2>1. backed # {} /\ kheap_virtual_address(m, f) = Min(backed)
      BY <1>3 DEF kheap_virtual_address
    <2>2. backed \subseteq Nat
      BY <1>1 DEF HeapPages
    <2>3. Min(backed) \in backed
      BY <2>1, <2>2, MinIn
    <2> QED
      BY <2>1, <2>3
  <1> QED
    BY <1>2, <1>3

\* kmalloc takes the head of the free list and maps it, or changes nothing.
Mapping(m, n, p, f) ==
    /\ n \in Mem /\ p \in HeapPages /\ n.pt[p] = f
    /\ n.dir = m.dir /\ n.tab = m.tab /\ n.freeList = m.freeList
    /\ n.references = [m.references EXCEPT ![f] = 1] /\ n.status = m.status
LEMMA KMalloc ==
    ASSUME NEW m, Sound(m), Ok(m)
    PROVE  \/ kmalloc(m).va = NULL /\ Same(m, kmalloc(m).mem)
           \/ ~Ok(kmalloc(m).mem) /\ Same(m, kmalloc(m).mem)
           \/ \E a : /\ TookFrame(m, a, Head(m.freeList)) /\ Ok(a)
                     /\ kmalloc(m).va # NULL
                     /\ Mapping(a, kmalloc(m).mem, kmalloc(m).va, Head(m.freeList))
  <1>1. m \in Mem
    BY DEF Sound
  <1>2. CASE m.strategy # "NEXTFIT"
    BY <1>1, <1>2, EndedSame DEF kmalloc
  <1>3. CASE m.strategy = "NEXTFIT" /\ FreeSteps(m) = {}
    <2>1. kmalloc(m).va = NULL /\ kmalloc(m).mem \in {m, Down(m)}
      BY <1>3 DEF kmalloc
    <2> QED
      BY <1>1, <2>1, EndedSame
  <1>4. CASE m.strategy = "NEXTFIT" /\ FreeSteps(m) # {}
    <2> DEFINE p == (m.startAdd + Min(FreeSteps(m))) % NPages
               f == Head(m.freeList)
               a == allocate_frame(m)
               n == [a EXCEPT !.pt[p] = f, !.references[f] = 1, !.startAdd = p + 1]
    <2>1. kmalloc(m) = [mem |-> IF Ok(a) THEN n ELSE a, va |-> p]
      BY <1>4 DEF kmalloc, Then
    <2>2. p \in HeapPages /\ p # NULL
      <3>1. p \in HeapPages
        BY <1>1, <1>4, HeapSearch
      <3> QED
        BY <3>1, Constants DEF HeapPages, NULL
    <2> HIDE DEF p, a, n
    <2>3. kmalloc(m).va = p /\ kmalloc(m).mem = IF Ok(a) THEN n ELSE a
      BY <2>1
    <2>4. CASE ~Ok(a)
      <3>1. a = Panic(m)
        BY <2>4, AllocateFrame DEF a, Ok
      <3> QED
        BY <1>1, <2>3, <2>4, <3>1, EndedSame
    <2>5. CASE Ok(a)
      <3>1. TookFrame(m, a, f) /\ a \in Mem
        <4>1. a # Panic(m)
          BY <1>1, <2>5, EndedSame
        <4> QED
          BY <4>1, AllocateFrame DEF a, TookFrame
      <3>2. f \in Frames
        BY <3>1, TakeFrame DEF Loose
      <3>3. /\ a.pt \in [HeapPages -> Frames \cup {NoFrame}]
            /\ a.references \in [Frames -> Int]
        BY <3>1, MemFacts
      <3>4. /\ [a.pt EXCEPT ![p] = f] \in [HeapPages -> Frames \cup {NoFrame}]
            /\ [a.pt EXCEPT ![p] = f][p] = f
            /\ [a.references EXCEPT ![f] = 1] \in [Frames -> Int]
            /\ p + 1 \in 0 .. NPages
        BY <2>2, <3>2, <3>3, Constants DEF HeapPages
      <3>5. n = [a EXCEPT !.pt = [a.pt EXCEPT ![p] = f],
                          !.references = [a.references EXCEPT ![f] = 1],
                          !.startAdd = p + 1]
        BY <3>1 DEF n, Mem
      <3>6. Mapping(a, n, p, f)
        BY <2>2, <3>1, <3>4, <3>5 DEF Mapping, Mem
      <3> QED
        BY <2>2, <2>3, <2>5, <3>1, <3>6
    <2> QED
      BY <2>4, <2>5
  <1> QED
    BY <1>2, <1>3, <1>4

\* A directory entry gets a table, or the call ends.
LEMMA CreatePageTable ==
    ASSUME NEW m, Sound(m), Ok(m), NEW e \in Envs, NEW r \in Regions
    PROVE  \/ ~Ok(create_page_table(m, e, r)) /\ Same(m, create_page_table(m, e, r))
           \/ /\ Ok(create_page_table(m, e, r))
              /\ \E a, f : /\ TookFrame(m, a, f)
                           /\ AddedTable(a, create_page_table(m, e, r), e, r, f)
  <1> DEFINE k == kmalloc(m)
             f == Head(m.freeList)
             t == k.mem.pt[k.va]
             n == [k.mem EXCEPT !.dir[e][r] = t, !.tab[t] = Empty]
  <1>0. create_page_table(m, e, r) =
           IF Ok(k.mem) THEN IF k.va = NULL THEN Down(k.mem) ELSE n ELSE k.mem
    BY DEF create_page_table, Then
  <1>1. CASE ~Ok(k.mem)
    <2>1. Same(m, k.mem)
      BY <1>1, KMalloc DEF Mapping, Ok
    <2> QED
      BY <1>0, <1>1, <2>1
  <1>2. CASE Ok(k.mem) /\ k.va = NULL
    <2>1. Same(m, k.mem) /\ k.mem \in Mem
      BY <1>2, KMalloc DEF Same
    <2>2. Same(k.mem, Down(k.mem)) /\ ~Ok(Down(k.mem))
      BY <2>1, EndedSame
    <2> HIDE DEF n
    <2>3. create_page_table(m, e, r) = Down(k.mem)
      BY <1>0, <1>2
    <2> HIDE DEF k
    <2> QED
      BY <2>1, <2>2, <2>3 DEF Same
  <1>3. CASE Ok(k.mem) /\ k.va # NULL
    <2>1. PICK a : TookFrame(m, a, f) /\ Ok(a) /\ Mapping(a, k.mem, k.va, f)
      BY <1>3, KMalloc
    <2> HIDE DEF k
    <2>2. t = f /\ f \in Frames
      BY <2>1, TakeFrame DEF Mapping, Loose
    <2>3. /\ k.mem \in Mem
          /\ k.mem.dir \in [Envs -> [Regions -> Frames \cup {NoFrame} \cup NotPresent]]
          /\ k.mem.tab \in [Frames -> [Slots -> Frames \cup {NoFrame}]]
      BY <2>1, MemFacts DEF Mapping
    <2>4. /\ [k.mem.dir EXCEPT ![e][r] = f] \in
                [Envs -> [Regions -> Frames \cup {NoFrame} \cup NotPresent]]
          /\ [k.mem.tab EXCEPT ![f] = Empty] \in
                [Frames -> [Slots -> Frames \cup {NoFrame}]]
      BY <2>2, <2>3, Constants
    <2>5. n = [k.mem EXCEPT !.dir = [k.mem.dir EXCEPT ![e][r] = f],
                            !.tab = [k.mem.tab EXCEPT ![f] = Empty]]
      BY <2>2, <2>3 DEF Mem
    <2> HIDE DEF n, t
    <2>6. /\ n \in Mem
          /\ n.dir = [k.mem.dir EXCEPT ![e][r] = f]
          /\ n.tab = [k.mem.tab EXCEPT ![f] = Empty]
          /\ n.freeList = k.mem.freeList /\ n.references = k.mem.references
          /\ n.status = k.mem.status
      BY <2>3, <2>4, <2>5 DEF Mem
    <2>7. AddedTable(a, n, e, r, f) /\ Ok(n)
      BY <2>1, <2>6 DEF Mapping, AddedTable, Ok
    <2>8. create_page_table(m, e, r) = n
      BY <1>0, <1>3
    <2> QED
      BY <2>1, <2>7, <2>8
  <1> QED
    BY <1>1, <1>2, <1>3

\* What get_page_table finds.
LEMMA GetPageTable ==
    ASSUME NEW m, m \in Mem, NEW e \in Envs, NEW r \in Regions
    PROVE  LET g == get_page_table(m, e, r)
           IN  /\ g.ret = "TABLE_NOT_EXIST" <=> m.dir[e][r] = NoFrame
               /\ g.ret = "FAULT" <=> m.dir[e][r] \in NotPresent
               /\ g.table # NoFrame => HasTable(m, e, r) /\ g.table = m.dir[e][r]
               /\ HasTable(m, e, r) =>
                     (g.table = NoFrame <=> kheap_virtual_address(m, m.dir[e][r]) = NULL)
  <1>1. m.dir[e][r] \in Frames \cup {NoFrame} \cup NotPresent
    BY MemFacts
  <1> QED
    BY <1>1, Constants DEF get_page_table, HasTable

\* A page is there, as far as the kernel heap finds its table.
Found(m, e, r, s) ==
    /\ HasPage(m, e, r, s) /\ get_page_table(m, e, r).table # NoFrame
LEMMA EntryFacts ==
    ASSUME NEW m, m \in Mem, NEW e \in Envs, NEW p \in UserPages
    PROVE  /\ p[1] \in Regions /\ p[2] \in Slots
           /\ Found(m, e, p[1], p[2]) <=> EntryAt(m, e, p) # NoFrame
           /\ Found(m, e, p[1], p[2]) =>
                 EntryAt(m, e, p) = Entry(m, e, p[1], p[2])
  <1>1. p[1] \in Regions /\ p[2] \in Slots
    BY DEF UserPages
  <1> QED
    BY <1>1, GetPageTable DEF EntryAt, Found, HasPage, Entry

LEMMA UnmapFrame ==
    ASSUME NEW m, Sound(m), Ok(m), NEW e \in Envs, NEW p \in UserPages
    PROVE  LET n == unmap_frame(m, e, p)
           IN  \/ ~Ok(n) /\ Same(m, n) /\ m.dir[e][p[1]] \in NotPresent
               \/ n = m /\ ~Found(m, e, p[1], p[2])
               \/ /\ Found(m, e, p[1], p[2]) /\ Ok(n) /\ SameHeap(m, n)
                  /\ DroppedPage(m, n, e, p[1], p[2], EntryAt(m, e, p))
  <1>0. p[1] \in Regions /\ p[2] \in Slots /\ m \in Mem
    BY EntryFacts DEF Sound
  <1>1. CASE get_page_table(m, e, p[1]).ret = "FAULT"
    BY <1>0, <1>1, EndedSame, GetPageTable DEF unmap_frame
  <1>2. CASE /\ get_page_table(m, e, p[1]).ret # "FAULT"
             /\ EntryAt(m, e, p) = NoFrame
    BY <1>0, <1>2, EntryFacts DEF unmap_frame
  <1>3. CASE /\ get_page_table(m, e, p[1]).ret # "FAULT"
             /\ EntryAt(m, e, p) # NoFrame
    <2> DEFINE f == EntryAt(m, e, p)
               t == get_page_table(m, e, p[1]).table
               r == p[1]
               s == p[2]
    <2>1. Found(m, e, r, s) /\ f = Entry(m, e, r, s) /\ HasPage(m, e, r, s)
      BY <1>0, <1>3, EntryFacts DEF Found
    <2>2. f \in Frames
      BY <1>0, <2>1, MemFacts DEF HasPage
    <2>3. t = m.dir[e][r] /\ t \in Frames
      BY <1>0, <2>1, GetPageTable DEF Found, HasTable
    <2>4. m.references[f] = 1
      BY <1>0, <2>1 DEF Sound, Counted
    <2>5. unmap_frame(m, e, p) = [free_frame(m, f) EXCEPT !.tab[t][s] = NoFrame]
      BY <1>3, <2>4 DEF unmap_frame, decrement_references
    <2> HIDE DEF f, t, r, s
    <2>6. /\ m.tab \in [Frames -> [Slots -> Frames \cup {NoFrame}]]
          /\ m.references \in [Frames -> Int] /\ m.freeList \in Seq(Frames)
          /\ s \in Slots
      BY <1>0, MemFacts DEF s
    <2> DEFINE T == [[m.tab EXCEPT ![f] = Empty] EXCEPT ![t][s] = NoFrame]
               L == <<f>> \o m.freeList
               C == [m.references EXCEPT ![f] = 0]
    <2>7. T \in [Frames -> [Slots -> Frames \cup {NoFrame}]]
      BY <2>2, <2>3, <2>6, Constants
    <2>8. L \in Seq(Frames)
      BY <2>2, <2>6, ConcatProperties
    <2>9. C \in [Frames -> Int]
      BY <2>2, <2>6
    <2>10. unmap_frame(m, e, p) = [m EXCEPT !.freeList = L, !.references = C, !.tab = T]
      BY <1>0, <2>5 DEF free_frame, Mem
    <2> DEFINE n == unmap_frame(m, e, p)
    <2> HIDE DEF T, L, C, n
    <2>11. /\ n \in Mem /\ n.dir = m.dir /\ n.tab = T /\ n.freeList = L
           /\ n.references = C /\ n.status = m.status /\ SameHeap(m, n)
      BY <1>0, <2>7, <2>8, <2>9, <2>10 DEF Mem, SameHeap, n
    <2>12. DroppedPage(m, n, e, r, s, f)
      BY <2>1, <2>3, <2>11 DEF DroppedPage, Pushed, T, L, C
    <2> QED
      BY <2>1, <2>11, <2>12 DEF Ok, n, f, r, s
  <1> QED
    BY <1>1, <1>2, <1>3

\* A page is entered in a table for a frame that was loose and uncounted.
LEMMA EnterFrame ==
    ASSUME NEW m, Sound(m), Ok(m), NEW e \in Envs, NEW p \in UserPages,
           HasTable(m, e, p[1]), ~HasPage(m, e, p[1], p[2]),
           NEW f, Loose(m, f), m.references[f] = 0
    PROVE  /\ Sound(Enter(m, e, p, f)) /\ Ok(Enter(m, e, p, f))
           /\ \A g : Known(m, g) => Known(Enter(m, e, p, f), g)
           /\ Known(Enter(m, e, p, f), f)
           /\ AddedPage(m, Enter(m, e, p, f), e, p[1], p[2], f)
  <1> DEFINE r == p[1]
             s == p[2]
             t == m.dir[e][r]
             n == Enter(m, e, p, f)
             T == [m.tab EXCEPT ![t][s] = f]
             C == [m.references EXCEPT ![f] = 1]
  <1>1. r \in Regions /\ s \in Slots /\ m \in Mem /\ f \in Frames /\ t \in Frames
    BY EntryFacts DEF Sound, Loose, HasTable
  <1>2. /\ m.tab \in [Frames -> [Slots -> Frames \cup {NoFrame}]]
        /\ m.references \in [Frames -> Int]
    BY <1>1, MemFacts
  <1>3. n = [m EXCEPT !.references = C, !.tab = T]
    BY <1>1 DEF Enter, Mem
  <1> HIDE DEF r, s, t, n
  <1>4. C \in [Frames -> Int]
    BY <1>1, <1>2
  <1>5. T \in [Frames -> [Slots -> Frames \cup {NoFrame}]]
    BY <1>1, <1>2
  <1> HIDE DEF T, C
  <1>6. /\ n \in Mem /\ n.dir = m.dir /\ n.tab = T /\ n.freeList = m.freeList
        /\ n.references = C /\ n.status = m.status
    BY <1>1, <1>3, <1>4, <1>5 DEF Mem
  <1>7. AddedPage(m, n, e, r, s, f)
    BY <1>6 DEF AddedPage, T, C, t
  <1>8. HasTable(m, e, r) /\ ~HasPage(m, e, r, s)
    BY DEF r, s
  <1>9. Sound(n)
    BY <1>1, <1>7, <1>8, EnterPage
  <1>10. (\A g : Known(m, g) => Known(n, g)) /\ Known(n, f)
    BY <1>1, <1>7, <1>8, EnterPageKnown
  <1> QED
    BY <1>6, <1>7, <1>9, <1>10 DEF n, r, s, Ok

\* A table is created: what is known stays known, what is loose stays loose.
LEMMA CreateKeeps ==
    ASSUME NEW m, Sound(m), Ok(m), NEW e \in Envs, NEW r \in Regions,
           ~HasTable(m, e, r)
    PROVE  LET n == create_page_table(m, e, r)
           IN  /\ Sound(n) /\ \A g : Known(m, g) => Known(n, g)
               /\ Ok(n) => /\ HasTable(n, e, r)
                           /\ \A s \in Slots : ~HasPage(n, e, r, s)
                           /\ \A g : Loose(m, g) /\ m.references[g] = 0 =>
                                 Loose(n, g) /\ n.references[g] = 0
  <1> DEFINE n == create_page_table(m, e, r)
  <1>1. CASE ~Ok(n) /\ Same(m, n)
    BY <1>1, SameSpaces
  <1>2. ASSUME NEW a, NEW f, TookFrame(m, a, f), AddedTable(a, n, e, r, f)
        PROVE  /\ Sound(n) /\ \A g : Known(m, g) => Known(n, g)
               /\ HasTable(n, e, r)
               /\ \A s \in Slots : ~HasPage(n, e, r, s)
               /\ \A g : Loose(m, g) /\ m.references[g] = 0 =>
                     Loose(n, g) /\ n.references[g] = 0
    <2> HIDE DEF n
    <2>1. Sound(a) /\ Loose(a, f) /\ ~HasTable(a, e, r)
      BY <1>2, TakeFrame
    <2>2. /\ Sound(n) /\ HasTable(n, e, r)
          /\ \A s \in Slots : HasPage(n, e, r, s) <=> HasPage(a, e, r, s)
      BY <1>2, <2>1, NewTable
    <2>3. \A s \in Slots : ~HasPage(n, e, r, s)
      BY <2>1, <2>2 DEF HasPage
    <2>4. /\ \A g : Known(a, g) => Known(n, g)
          /\ Known(n, f)
          /\ \A g : Loose(a, g) /\ g # f => Loose(n, g)
      BY <1>2, <2>1, NewTableKnown
    <2>5. /\ \A g : Known(m, g) => g = f \/ Known(a, g)
          /\ \A g : Loose(m, g) => Loose(a, g) /\ g # f
      BY <1>2, TakeFrameKnown
    <2>6. \A g : Known(m, g) => Known(n, g)
      BY <2>4, <2>5
    <2>7. ASSUME NEW g, Loose(m, g), m.references[g] = 0
          PROVE  Loose(n, g) /\ n.references[g] = 0
      <3>1. Loose(n, g) /\ g # f /\ g \in Frames
        BY <2>4, <2>5, <2>7 DEF Loose
      <3>2. a.references = [m.references EXCEPT ![f] = 0]
        BY <1>2 DEF TookFrame
      <3>3. n.references = [a.references EXCEPT ![f] = 1]
        BY <1>2 DEF AddedTable
      <3>4. m.references \in [Frames -> Int]
        BY MemFacts DEF Sound
      <3> QED
        BY <2>7, <3>1, <3>2, <3>3, <3>4
    <2> QED
      BY <2>2, <2>3, <2>6, <2>7
  <1>3. CASE Ok(n) /\ \E a, f : TookFrame(m, a, f) /\ AddedTable(a, n, e, r, f)
    <2> HIDE DEF n
    <2>1. PICK a, f : TookFrame(m, a, f) /\ AddedTable(a, n, e, r, f)
      BY <1>3
    <2> QED
      BY <1>2, <2>1 DEF n
  <1> QED
    BY <1>1, <1>3, CreatePageTable

\* unmap_frame keeps the spaces apart and loses nothing.
LEMMA UnmapKeeps ==
    ASSUME NEW m, Sound(m), Ok(m), NEW e \in Envs, NEW p \in UserPages
    PROVE  LET n == unmap_frame(m, e, p)
           IN  /\ Sound(n) /\ \A g : Known(m, g) => Known(n, g)
               /\ Ok(n) =>
                     /\ n.dir = m.dir /\ SameHeap(m, n)
                     /\ \A d \in Envs, q \in Regions, u \in Slots :
                          /\ HasPage(n, d, q, u) <=>
                                /\ HasPage(m, d, q, u)
                                /\ ~(d = e /\ <<q, u>> = p /\ Found(m, e, q, u))
                          /\ HasPage(n, d, q, u) => Entry(n, d, q, u) = Entry(m, d, q, u)
                     /\ \A g : Loose(m, g) => Loose(n, g) /\ n.references[g] = m.references[g]
  <1> DEFINE n == unmap_frame(m, e, p)
             r == p[1]
             s == p[2]
             f == EntryAt(m, e, p)
  <1>0. r \in Regions /\ s \in Slots /\ m \in Mem /\ p = <<r, s>>
    BY EntryFacts DEF Sound, UserPages
  <1>1. CASE ~Ok(n) /\ Same(m, n)
    BY <1>1, SameSpaces
  <1>2. CASE n = m /\ ~Found(m, e, r, s)
    BY <1>0, <1>2 DEF SameHeap
  <1>3. CASE /\ Found(m, e, r, s) /\ Ok(n) /\ SameHeap(m, n)
             /\ DroppedPage(m, n, e, r, s, f)
    <2> HIDE DEF n, r, s, f
    <2>1. HasPage(m, e, r, s) /\ n.dir = m.dir
      BY <1>3 DEF Found, DroppedPage
    <2>2. /\ Sound(n)
          /\ \A d \in Envs, q \in Regions, u \in Slots :
                 /\ HasPage(n, d, q, u) <=>
                       HasPage(m, d, q, u) /\ ~(d = e /\ q = r /\ u = s)
                 /\ HasPage(n, d, q, u) => Entry(n, d, q, u) = Entry(m, d, q, u)
      BY <1>0, <1>3, <2>1, DropPage
    <2>3. /\ \A g : Known(m, g) => Known(n, g)
          /\ \A g : Loose(m, g) => Loose(n, g) /\ n.references[g] = m.references[g]
      BY <1>0, <1>3, <2>1, DropPageKnown
    <2>4. \A q \in Regions, u \in Slots :
             <<q, u>> = p /\ Found(m, e, q, u) <=> q = r /\ u = s
      BY <1>0, <1>3
    <2>5. \A d \in Envs, q \in Regions, u \in Slots :
             HasPage(n, d, q, u) <=>
                /\ HasPage(m, d, q, u)
                /\ ~(d = e /\ <<q, u>> = p /\ Found(m, e, q, u))
      BY <2>2, <2>4
    <2> QED
      BY <1>3, <2>1, <2>2, <2>3, <2>5 DEF n
  <1> QED
    BY <1>1, <1>2, <1>3, UnmapFrame

\* map_frame, for a frame just allocated.
LEMMA MapFrame ==
    ASSUME NEW m, Sound(m), Ok(m), NEW e \in Envs, NEW p \in UserPages,
           NEW f, Loose(m, f), m.references[f] = 0
    PROVE  LET n == map_frame(m, e, f, p)
           IN  /\ Sound(n)
               /\ Ok(n) => Known(n, f) /\ \A g : Known(m, g) => Known(n, g)
  <1> DEFINE n == map_frame(m, e, f, p)
             r == p[1]
             s == p[2]
             g == get_page_table(m, e, r)
  <1>0. r \in Regions /\ s \in Slots /\ m \in Mem /\ p = <<r, s>> /\ f \in Frames
    BY EntryFacts DEF Sound, UserPages, Loose
  <1>1. CASE g.ret = "TABLE_NOT_EXIST"
    <2> DEFINE a == create_page_table(m, e, r)
    <2>1. n = IF Ok(a) THEN Enter(a, e, p, f) ELSE a
      BY <1>1 DEF map_frame, Then
    <2>2. ~HasTable(m, e, r)
      BY <1>0, <1>1, GetPageTable, Constants DEF HasTable
    <2>3. /\ Sound(a) /\ \A h : Known(m, h) => Known(a, h)
          /\ Ok(a) => /\ HasTable(a, e, r)
                      /\ \A u \in Slots : ~HasPage(a, e, r, u)
                      /\ Loose(a, f) /\ a.references[f] = 0
      BY <1>0, <2>2, CreateKeeps
    <2> HIDE DEF a
    <2>4. CASE ~Ok(a)
      BY <2>1, <2>3, <2>4
    <2>5. CASE Ok(a)
      <3>1. HasTable(a, e, p[1]) /\ ~HasPage(a, e, p[1], p[2]) /\ Loose(a, f)
            /\ a.references[f] = 0
        BY <1>0, <2>3, <2>5
      <3>2. /\ Sound(Enter(a, e, p, f)) /\ Known(Enter(a, e, p, f), f)
            /\ \A h : Known(a, h) => Known(Enter(a, e, p, f), h)
        BY <2>3, <2>5, <3>1, EnterFrame
      <3>3. n = Enter(a, e, p, f)
        BY <2>1, <2>5
      <3> HIDE DEF n
      <3> QED
        BY <2>3, <3>2, <3>3 DEF n
    <2> QED
      BY <2>4, <2>5
  <1>2. CASE g.ret # "TABLE_NOT_EXIST" /\ g.table = NoFrame
    <2>1. n = Down(m)
      BY <1>2 DEF map_frame
    <2> QED
      BY <1>0, <2>1, EndedSame, SameSpaces
  <1>3. CASE g.ret # "TABLE_NOT_EXIST" /\ g.table # NoFrame
    <2> DEFINE a == unmap_frame(m, e, p)
    <2>1. HasTable(m, e, r) /\ g.ret # "FAULT"
      BY <1>0, <1>3, GetPageTable, Constants DEF HasTable
    <2>2. EntryAt(m, e, p) # f
      BY <1>0, EntryFacts, Constants DEF Loose, Found
    <2>3. n = Enter(a, e, p, f)
      BY <1>3, <2>2 DEF map_frame
    <2>4. Ok(a)
      BY <1>0, <2>1, UnmapFrame, GetPageTable
    <2>5. /\ Sound(a) /\ a.dir = m.dir
          /\ HasPage(a, e, r, s) <=>
                HasPage(m, e, r, s) /\ ~(<<r, s>> = p /\ Found(m, e, r, s))
          /\ Loose(a, f) /\ a.references[f] = 0
          /\ \A h : Known(m, h) => Known(a, h)
      BY <1>0, <2>4, UnmapKeeps
    <2>6. ~HasPage(a, e, r, s) /\ HasTable(a, e, r)
      BY <1>0, <1>3, <2>1, <2>5 DEF Found, HasTable
    <2> HIDE DEF a
    <2>7. /\ Sound(Enter(a, e, p, f)) /\ Known(Enter(a, e, p, f), f)
          /\ \A h : Known(a, h) => Known(Enter(a, e, p, f), h)
      BY <2>4, <2>5, <2>6, EnterFrame
    <2> HIDE DEF n
    <2> QED
      BY <2>3, <2>5, <2>7 DEF n
  <1> QED
    BY <1>1, <1>2, <1>3

\* allocate_frame keeps the spaces apart, whether it panics or not.
LEMMA AllocateSound ==
    ASSUME NEW m, Sound(m)
    PROVE  Sound(allocate_frame(m))
  <1>1. CASE allocate_frame(m) = Panic(m)
    BY <1>1, EndedSame, SameSpaces DEF Sound
  <1>2. CASE TookFrame(m, allocate_frame(m), Head(m.freeList))
    BY <1>2, TakeFrame
  <1> QED
    BY <1>1, <1>2, AllocateFrame

\* A frame is allocated and mapped.
LEMMA NewPageSound ==
    ASSUME NEW m, Sound(m), Ok(m), NEW e \in Envs, NEW p \in UserPages
    PROVE  LET n == NewPage(m, e, p)
           IN  /\ Sound(n)
               /\ Ok(n) => \A g : Known(m, g) => Known(n, g)
  <1> DEFINE a == allocate_frame(m)
             f == Head(m.freeList)
             n == NewPage(m, e, p)
  <1>1. n = IF Ok(a) THEN map_frame(a, e, f, p) ELSE a
    BY DEF NewPage, Then
  <1>2. CASE ~Ok(a)
    BY <1>1, <1>2, AllocateSound
  <1>3. CASE Ok(a)
    <2>1. TookFrame(m, a, f)
      <3>1. a # Panic(m)
        BY <1>3, EndedSame DEF Sound
      <3> QED
        BY <3>1, AllocateFrame
    <2> HIDE DEF a, f
    <2>2. Sound(a) /\ Loose(a, f) /\ a.references[f] = 0
      BY <2>1, TakeFrame
    <2>3. \A g : Known(m, g) => g = f \/ Known(a, g)
      BY <2>1, TakeFrameKnown
    <2>4. /\ Sound(map_frame(a, e, f, p))
          /\ Ok(map_frame(a, e, f, p)) =>
                /\ Known(map_frame(a, e, f, p), f)
                /\ \A g : Known(a, g) => Known(map_frame(a, e, f, p), g)
      BY <1>3, <2>2, MapFrame
    <2>5. n = map_frame(a, e, f, p)
      BY <1>1, <1>3
    <2> HIDE DEF n
    <2> QED
      BY <2>3, <2>4, <2>5 DEF n
  <1> QED
    BY <1>2, <1>3

\* A program uses an address.
LEMMA TouchSound ==
    ASSUME NEW m, Sound(m), Ok(m), NEW e \in Envs, NEW p \in UserPages
    PROVE  /\ Sound(Touch(m, e, p))
           /\ Ok(Touch(m, e, p)) =>
                 \A g : Known(m, g) => Known(Touch(m, e, p), g)
  <1> DEFINE a == table_fault_handler(m, e, p)
  <1>0. p[1] \in Regions /\ p[2] \in Slots
    BY EntryFacts DEF Sound
  <1>1. Sound(a) /\ \A g : Known(m, g) => Known(a, g)
    <2>1. CASE ~HasTable(m, e, p[1])
      <3>1. a = create_page_table(m, e, p[1])
        BY <2>1 DEF table_fault_handler, HasTable
      <3> QED
        BY <1>0, <2>1, <3>1, CreateKeeps
    <2>2. CASE HasTable(m, e, p[1])
      BY <2>2 DEF table_fault_handler, HasTable
    <2> QED
      BY <2>1, <2>2
  <1>2. /\ Touch(m, e, p) \in {a, NewPage(a, e, p)}
        /\ ~Ok(a) => Touch(m, e, p) = a
    BY DEF Touch, Then, page_fault_handler
  <1> HIDE DEF a
  <1>3. Ok(a) => /\ Sound(NewPage(a, e, p))
                 /\ Ok(NewPage(a, e, p)) =>
                       \A g : Known(a, g) => Known(NewPage(a, e, p), g)
    BY <1>1, NewPageSound
  <1> QED
    BY <1>1, <1>2, <1>3

\* A table goes back to the free list and its directory entry is cleared.
LEMMA FreeTable ==
    ASSUME NEW m, Sound(m), NEW e \in Envs, NEW r \in Regions,
           HasTable(m, e, r), NEW n,
           n = [free_frame(m, m.dir[e][r]) EXCEPT !.dir[e][r] = NoFrame]
    PROVE  /\ DroppedTable(m, n, e, r, m.dir[e][r], NoFrame)
           /\ Pushed(m, n, m.dir[e][r]) /\ SameHeap(m, n) /\ n.status = m.status
  <1> DEFINE t == m.dir[e][r]
             L == <<t>> \o m.freeList
             C == [m.references EXCEPT ![t] = 0]
             T == [m.tab EXCEPT ![t] = Empty]
             D == [m.dir EXCEPT ![e][r] = NoFrame]
  <1>1. /\ m \in Mem /\ t \in Frames
        /\ m.tab \in [Frames -> [Slots -> Frames \cup {NoFrame}]]
        /\ m.dir \in [Envs -> [Regions -> Frames \cup {NoFrame} \cup NotPresent]]
        /\ m.references \in [Frames -> Int] /\ m.freeList \in Seq(Frames)
    BY MemFacts DEF Sound, HasTable
  <1>2. n = [m EXCEPT !.freeList = L, !.references = C, !.tab = T, !.dir = D]
    BY <1>1 DEF free_frame, Mem
  <1> HIDE DEF t
  <1>3. L \in Seq(Frames)
    BY <1>1, ConcatProperties
  <1>4. C \in [Frames -> Int]
    BY <1>1
  <1>5. T \in [Frames -> [Slots -> Frames \cup {NoFrame}]]
    BY <1>1, Constants
  <1>6. D \in [Envs -> [Regions -> Frames \cup {NoFrame} \cup NotPresent]]
    BY <1>1
  <1> HIDE DEF L, C, T, D
  <1>7. /\ n \in Mem /\ n.dir = D /\ n.tab = T /\ n.freeList = L
        /\ n.references = C /\ n.status = m.status /\ SameHeap(m, n)
    BY <1>1, <1>2, <1>3, <1>4, <1>5, <1>6 DEF Mem, SameHeap
  <1>8. Pushed(m, n, t)
    BY <1>7 DEF Pushed, L, C
  <1>9. DroppedTable(m, n, e, r, t, NoFrame)
    BY <1>7, <1>8 DEF DroppedTable, D, T, t
  <1> QED
    BY <1>7, <1>8, <1>9 DEF t

\* The kernel heap finds every table.
TablesFound(m) ==
    \A d \in Envs, q \in Regions :
        HasTable(m, d, q) => kheap_virtual_address(m, m.dir[d][q]) # NULL

\* What one iteration of freeMem does to pages and tables.
FreedPage(m, n, e, p) ==
    /\ \A d \in Envs, q \in Regions, u \in Slots :
          /\ HasPage(n, d, q, u) <=> HasPage(m, d, q, u) /\ ~(d = e /\ <<q, u>> = p)
          /\ HasPage(n, d, q, u) => Entry(n, d, q, u) = Entry(m, d, q, u)
    /\ \A d \in Envs, q \in Regions :
          HasTable(n, d, q) <=>
             /\ HasTable(m, d, q)
             /\ d = e /\ q = p[1] => \E u \in Slots : HasPage(n, d, q, u)
    /\ TablesFound(n)

LEMMA SameSearch ==
    ASSUME NEW m, NEW n, SameHeap(m, n), NEW f
    PROVE  kheap_virtual_address(n, f) = kheap_virtual_address(m, f)
  BY DEF SameHeap, kheap_virtual_address

LEMMA FreeMemPage ==
    ASSUME NEW m, Sound(m), Ok(m), NEW e \in Envs, NEW p \in UserPages
    PROVE  LET n == freeMemPage(m, e, p)
           IN  /\ Sound(n) /\ \A g : Known(m, g) => Known(n, g)
               /\ Ok(n) /\ TablesFound(m) => FreedPage(m, n, e, p)
  <1> DEFINE a == unmap_frame(m, e, p)
             r == p[1]
             t == get_page_table(a, e, r).table
             n == freeMemPage(m, e, p)
             z == [free_frame(a, t) EXCEPT !.dir[e][r] = NoFrame]
  <1>1. n = IF Ok(a)
            THEN IF t = NoFrame \/ \E s \in Slots : a.tab[t][s] # NoFrame THEN a ELSE z
            ELSE a
    BY DEF freeMemPage, Then
  <1>2. r \in Regions /\ p[2] \in Slots /\ p = <<r, p[2]>>
    BY EntryFacts DEF Sound, UserPages
  <1>3. Sound(a) /\ \A g : Known(m, g) => Known(a, g)
    BY UnmapKeeps
  <1>4. Ok(a) => /\ a.dir = m.dir /\ SameHeap(m, a)
                 /\ \A d \in Envs, q \in Regions, u \in Slots :
                      /\ HasPage(a, d, q, u) <=>
                            /\ HasPage(m, d, q, u)
                            /\ ~(d = e /\ <<q, u>> = p /\ Found(m, e, q, u))
                      /\ HasPage(a, d, q, u) => Entry(a, d, q, u) = Entry(m, d, q, u)
    BY UnmapKeeps
  <1> HIDE DEF a, n, r
  <1>5. CASE ~Ok(a)
    BY <1>1, <1>3, <1>5 DEF n
  <1>6. ASSUME Ok(a), TablesFound(m)
        PROVE  /\ TablesFound(a)
               /\ \A d \in Envs, q \in Regions : HasTable(a, d, q) <=> HasTable(m, d, q)
               /\ \A d \in Envs, q \in Regions, u \in Slots :
                    HasPage(a, d, q, u) <=>
                       HasPage(m, d, q, u) /\ ~(d = e /\ <<q, u>> = p)
               /\ t = NoFrame => ~HasTable(a, e, r)
    <2>1. \A d \in Envs, q \in Regions : HasTable(a, d, q) <=> HasTable(m, d, q)
      BY <1>4, <1>6 DEF HasTable
    <2>2. TablesFound(a)
      BY <1>4, <1>6, <2>1, SameSearch DEF TablesFound
    <2>3. \A u \in Slots, q \in Regions : HasPage(m, e, q, u) => Found(m, e, q, u)
      BY <1>6, GetPageTable DEF Found, HasPage, TablesFound, Sound
    <2>4. t = NoFrame => ~HasTable(a, e, r)
      BY <1>2, <1>3, <2>2, GetPageTable DEF TablesFound, Sound
    <2> QED
      BY <1>4, <1>6, <2>1, <2>2, <2>3, <2>4
  <1>7. CASE Ok(a) /\ t = NoFrame
    <2>1. n = a
      BY <1>1, <1>7
    <2>2. TablesFound(m) => FreedPage(m, n, e, p)
      <3> SUFFICES ASSUME TablesFound(m) PROVE FreedPage(m, a, e, p)
        BY <2>1
      <3> HIDE DEF t
      <3> QED
        BY <1>4, <1>6, <1>7 DEF FreedPage, r
    <2> QED
      BY <1>3, <2>1, <2>2 DEF n
  <1>8. CASE Ok(a) /\ t # NoFrame
    <2>1. HasTable(a, e, r) /\ t = a.dir[e][r]
      BY <1>2, <1>3, <1>8, GetPageTable DEF Sound
    <2>2. CASE \E s \in Slots : a.tab[t][s] # NoFrame
      <3>1. n = a
        BY <1>1, <1>8, <2>2
      <3>2. \E s \in Slots : HasPage(a, e, r, s)
        BY <2>1, <2>2 DEF HasPage, Entry
      <3>3. TablesFound(m) => FreedPage(m, n, e, p)
        <4> SUFFICES ASSUME TablesFound(m) PROVE FreedPage(m, a, e, p)
          BY <3>1
        <4> HIDE DEF t
        <4> QED
          BY <1>4, <1>6, <1>8, <3>2 DEF FreedPage, r
      <3> QED
        BY <1>3, <3>1, <3>3 DEF n
    <2>3. CASE ~\E s \in Slots : a.tab[t][s] # NoFrame
      <3>1. n = z
        BY <1>1, <1>8, <2>3
      <3>2. z = [free_frame(a, a.dir[e][r]) EXCEPT !.dir[e][r] = NoFrame]
        BY <2>1
      <3>3. \A s \in Slots : ~HasPage(a, e, r, s)
        BY <2>1, <2>3 DEF HasPage, Entry
      <3> HIDE DEF t, z
      <3>4. /\ DroppedTable(a, z, e, r, a.dir[e][r], NoFrame)
            /\ Pushed(a, z, a.dir[e][r]) /\ SameHeap(a, z)
        BY <1>2, <1>3, <2>1, <3>2, FreeTable
      <3>5. /\ Sound(z)
            /\ \A d \in Envs, q \in Regions :
                 /\ HasTable(z, d, q) <=> HasTable(a, d, q) /\ ~(d = e /\ q = r)
                 /\ HasTable(z, d, q) => z.dir[d][q] = a.dir[d][q]
            /\ \A d \in Envs, q \in Regions, u \in Slots :
                 /\ HasPage(z, d, q, u) <=>
                       HasPage(a, d, q, u) /\ ~(d = e /\ q = r)
                 /\ HasPage(z, d, q, u) => Entry(z, d, q, u) = Entry(a, d, q, u)
        BY <1>2, <1>3, <2>1, <3>4, DropTable
      <3>6. \A g : Known(a, g) => Known(z, g)
        BY <1>2, <1>3, <2>1, <3>3, <3>4, DropTableKnown
      <3>7. \A d \in Envs, q \in Regions, u \in Slots :
               HasPage(z, d, q, u) <=> HasPage(a, d, q, u)
        BY <3>3, <3>5
      <3>8. ASSUME TablesFound(m)
            PROVE  FreedPage(m, z, e, p)
        <4>1. TablesFound(z)
          BY <1>6, <1>8, <3>4, <3>5, <3>8, SameSearch DEF TablesFound
        <4>2. \A d \in Envs, q \in Regions, u \in Slots :
                 /\ HasPage(z, d, q, u) <=> HasPage(m, d, q, u) /\ ~(d = e /\ <<q, u>> = p)
                 /\ HasPage(z, d, q, u) => Entry(z, d, q, u) = Entry(m, d, q, u)
          BY <1>4, <1>6, <1>8, <3>5, <3>7, <3>8
        <4>3. \A d \in Envs, q \in Regions :
                 HasTable(z, d, q) <=>
                    /\ HasTable(m, d, q)
                    /\ d = e /\ q = r => \E u \in Slots : HasPage(z, d, q, u)
          BY <1>6, <1>8, <3>3, <3>5, <3>7, <3>8
        <4> QED
          BY <4>1, <4>2, <4>3 DEF FreedPage, r
      <3> QED
        BY <1>3, <3>1, <3>5, <3>6, <3>8 DEF n
    <2> QED
      BY <2>2, <2>3
  <1> QED
    BY <1>5, <1>7, <1>8

-----------------------------------------------------------------------------
(* A range is gone through page by page, to free it or to use it. *)

\* h[i] is the memory when i pages of the range have been looked at.
Turn(frees, m, e, first, i) ==
    IF frees THEN Then(m, LAMBDA a : freeMemPage(a, e, PageAt(first + i - 1)))
    ELSE Then(m, LAMBDA a : Touch(a, e, PageAt(first + i - 1)))
Passes(h, frees, m, e, first, k) ==
    h = [i \in 0 .. k |-> IF i = 0 THEN m ELSE Turn(frees, h[i - 1], e, first, i)]

LEMMA PassesExist ==
    ASSUME NEW frees, NEW m, NEW e, NEW first, NEW k \in Nat
    PROVE  \E h : Passes(h, frees, m, e, first, k)
  <1> DEFINE P(j) == \E h : Passes(h, frees, m, e, first, j)
             B == {j \in Nat : ~P(j)}
  <1>1. P(0)
    <2> DEFINE h == [i \in 0 .. 0 |-> m]
    <2>1. h = [i \in 0 .. 0 |-> IF i = 0 THEN m ELSE Turn(frees, h[i - 1], e, first, i)]
      OBVIOUS
    <2> QED
      BY <2>1 DEF Passes
  <1>2. ASSUME NEW j \in Nat, P(j)
        PROVE  P(j + 1)
    <2>1. PICK h : Passes(h, frees, m, e, first, j)
      BY <1>2
    <2>2. /\ h[0] = m
          /\ \A i \in 0 .. j : i # 0 => h[i] = Turn(frees, h[i - 1], e, first, i)
      <3>1. \A i \in 0 .. j : h[i] = IF i = 0 THEN m ELSE Turn(frees, h[i - 1], e, first, i)
        BY <2>1 DEF Passes
      <3> QED
        BY <3>1
    <2> DEFINE c == [i \in 0 .. j + 1 |->
                       IF i <= j THEN h[i] ELSE Turn(frees, h[j], e, first, j + 1)]
    <2>3. /\ \A i \in 0 .. j : c[i] = h[i]
          /\ c[j + 1] = Turn(frees, h[j], e, first, j + 1)
      OBVIOUS
    <2>4. c = [i \in 0 .. j + 1 |-> c[i]]
      OBVIOUS
    <2> HIDE DEF c
    <2>5. \A i \in 0 .. j + 1 :
             c[i] = IF i = 0 THEN m ELSE Turn(frees, c[i - 1], e, first, i)
      <3> TAKE i \in 0 .. j + 1
      <3>1. CASE i = 0
        BY <2>2, <2>3, <3>1
      <3>2. CASE i \in 1 .. j
        <4>1. i \in 0 .. j /\ i - 1 \in 0 .. j /\ i # 0
          BY <3>2
        <4>2. c[i] = h[i] /\ c[i - 1] = h[i - 1]
          BY <2>3, <4>1
        <4> QED
          BY <2>2, <4>1, <4>2
      <3>3. CASE i = j + 1
        <4>1. i - 1 = j /\ i # 0 /\ j \in 0 .. j
          BY <3>3
        <4> QED
          BY <2>3, <3>3, <4>1
      <3> QED
        BY <3>1, <3>2, <3>3
    <2>6. Passes(c, frees, m, e, first, j + 1)
      BY <2>4, <2>5 DEF Passes
    <2> QED
      BY <2>6
  <1> HIDE DEF P
  <1>3. ASSUME B # {}
        PROVE  FALSE
    <2>1. PICK j \in B : \A i \in B : j <= i
      BY <1>3, Least
    <2>2. j \in Nat /\ j # 0 /\ j - 1 \in Nat /\ (j - 1) + 1 = j
      BY <1>1, <2>1
    <2>3. P(j - 1)
      BY <2>1, <2>2
    <2> QED
      BY <1>2, <2>1, <2>2, <2>3
  <1> QED
    BY <1>3 DEF P

Looked(h, frees, m, e, range) ==
    /\ h[0] = m
    /\ \A i \in 1 .. range[2] : h[i] = Turn(frees, h[i - 1], e, range[1], i)

LEMMA AllPasses ==
    ASSUME NEW m, NEW e, NEW range, range[2] \in Nat
    PROVE  /\ \E h : Looked(h, TRUE, m, e, range) /\ freeMem(m, e, range) = h[range[2]]
           /\ \E h : Looked(h, FALSE, m, e, range) /\ UseAll(m, e, range) = h[range[2]]
  <1> DEFINE k == range[2]
             first == range[1]
             H(frees) == CHOOSE x : Passes(x, frees, m, e, first, k)
  <1>1. \A frees \in BOOLEAN : Passes(H(frees), frees, m, e, first, k)
    BY PassesExist
  <1>2. freeMem(m, e, range) = H(TRUE)[k]
    BY DEF freeMem, Passes, Turn
  <1>3. UseAll(m, e, range) = H(FALSE)[k]
    BY DEF UseAll, Passes, Turn
  <1> HIDE DEF H
  <1>4. \A frees \in BOOLEAN : Looked(H(frees), frees, m, e, range)
    <2> TAKE frees \in BOOLEAN
    <2> DEFINE h == H(frees)
    <2>1. Passes(h, frees, m, e, first, k)
      BY <1>1
    <2> HIDE DEF h
    <2>2. \A i \in 0 .. k :
             h[i] = IF i = 0 THEN m ELSE Turn(frees, h[i - 1], e, first, i)
      BY <2>1 DEF Passes
    <2>3. Looked(h, frees, m, e, range)
      BY <2>2 DEF Looked
    <2> QED
      BY <2>3 DEF h
  <1> QED
    BY <1>2, <1>3, <1>4

\* Every page number of user space is a page.
LEMMA PageAtType ==
    ASSUME NEW i \in 0 .. NRegions * NSlots - 1
    PROVE  PageAt(i) \in UserPages
  <1>1. NRegions \in Nat \ {0} /\ NSlots \in Nat \ {0} /\ i \in Nat
    BY Constants
  <1>2. NRegions * NSlots \in Nat /\ i < NRegions * NSlots
    BY <1>1
  <1>3. /\ i \div NSlots \in Int /\ i % NSlots \in 0 .. NSlots - 1
        /\ i = NSlots * (i \div NSlots) + (i % NSlots)
    BY <1>1
  <1> DEFINE q == i \div NSlots
  <1> HIDE DEF q
  <1>4. q >= 0
    <2>1. ASSUME q < 0 PROVE FALSE
      <3>1. q \in Int /\ q + 1 <= 0
        BY <1>3, <2>1 DEF q
      <3>2. NSlots * (q + 1) <= 0
        BY <1>1, <3>1
      <3>3. NSlots * q + NSlots <= 0
        BY <1>1, <3>1, <3>2
      <3> QED
        BY <1>1, <1>3, <3>1, <3>3 DEF q
    <2> QED
      BY <1>3, <2>1 DEF q
  <1>5. q < NRegions
    <2>1. ASSUME q >= NRegions PROVE FALSE
      <3>1. q \in Int /\ q - NRegions >= 0
        BY <1>1, <1>3, <2>1 DEF q
      <3>2. NSlots * (q - NRegions) >= 0
        BY <1>1, <3>1
      <3>3. NSlots * q >= NRegions * NSlots
        BY <1>1, <3>1, <3>2
      <3> QED
        BY <1>1, <1>2, <1>3, <3>3 DEF q
    <2> QED
      BY <1>1, <1>3, <2>1 DEF q
  <1> QED
    BY <1>1, <1>3, <1>4, <1>5 DEF q, PageAt, UserPages, Regions, Slots

LEMMA RangeFacts ==
    ASSUME NEW range \in Ranges
    PROVE  /\ range[1] \in Nat /\ range[2] \in Nat \ {0}
           /\ \A j \in 1 .. range[2] :
                 /\ range[1] + j - 1 \in 0 .. NRegions * NSlots - 1
                 /\ PageAt(range[1] + j - 1) \in UserPages
  <1>1. NRegions * NSlots \in Nat
    BY Constants
  <1>2. /\ range[1] \in Nat /\ range[2] \in Nat \ {0}
        /\ range[1] + range[2] <= NRegions * NSlots
    BY <1>1 DEF Ranges
  <1>3. \A j \in 1 .. range[2] : range[1] + j - 1 \in 0 .. NRegions * NSlots - 1
    BY <1>1, <1>2
  <1> QED
    BY <1>2, <1>3, PageAtType

\* n is m without k pages of e from the first one on, and without the tables
\* of those pages that have none left.
FreedRange(m, n, e, first, k) ==
    /\ \A d \in Envs, q \in Regions, u \in Slots :
          /\ HasPage(n, d, q, u) <=>
                /\ HasPage(m, d, q, u)
                /\ ~(d = e /\ \E j \in 1 .. k : <<q, u>> = PageAt(first + j - 1))
          /\ HasPage(n, d, q, u) => Entry(n, d, q, u) = Entry(m, d, q, u)
    /\ \A d \in Envs, q \in Regions :
          HasTable(n, d, q) <=>
             /\ HasTable(m, d, q)
             /\ (d = e /\ \E j \in 1 .. k : q = PageAt(first + j - 1)[1])
                   => \E u \in Slots : HasPage(n, d, q, u)
    /\ TablesFound(n)

\* One more page.
LEMMA FreeNext ==
    ASSUME NEW m, NEW a, NEW n, NEW e \in Envs, NEW first \in Nat, NEW k \in Nat,
           FreedRange(m, a, e, first, k),
           FreedPage(a, n, e, PageAt(first + (k + 1) - 1))
    PROVE  FreedRange(m, n, e, first, k + 1)
  <1> DEFINE p == PageAt(first + (k + 1) - 1)
             In(q, u, c) == \E j \in 1 .. c : <<q, u>> = PageAt(first + j - 1)
             Of(q, c) == \E j \in 1 .. c : q = PageAt(first + j - 1)[1]
  <1>1. \A j : j \in 1 .. k + 1 <=> j \in 1 .. k \/ j = k + 1
    OBVIOUS
  <1>2. \A q \in Regions, u \in Slots : In(q, u, k + 1) <=> In(q, u, k) \/ <<q, u>> = p
    BY <1>1
  <1>3. \A q \in Regions : Of(q, k + 1) <=> Of(q, k) \/ q = p[1]
    BY <1>1
  <1> HIDE DEF p, In, Of
  <1>4. /\ \A d \in Envs, q \in Regions, u \in Slots :
              /\ HasPage(n, d, q, u) <=> HasPage(a, d, q, u) /\ ~(d = e /\ <<q, u>> = p)
              /\ HasPage(n, d, q, u) => Entry(n, d, q, u) = Entry(a, d, q, u)
        /\ \A d \in Envs, q \in Regions :
              HasTable(n, d, q) <=>
                 /\ HasTable(a, d, q)
                 /\ d = e /\ q = p[1] => \E u \in Slots : HasPage(n, d, q, u)
        /\ TablesFound(n)
    BY DEF FreedPage, p
  <1>5. /\ \A d \in Envs, q \in Regions, u \in Slots :
              /\ HasPage(a, d, q, u) <=> HasPage(m, d, q, u) /\ ~(d = e /\ In(q, u, k))
              /\ HasPage(a, d, q, u) => Entry(a, d, q, u) = Entry(m, d, q, u)
        /\ \A d \in Envs, q \in Regions :
              HasTable(a, d, q) <=>
                 /\ HasTable(m, d, q)
                 /\ (d = e /\ Of(q, k)) => \E u \in Slots : HasPage(a, d, q, u)
    BY DEF FreedRange, In, Of
  <1>6. \A d \in Envs, q \in Regions, u \in Slots :
           /\ HasPage(n, d, q, u) <=> HasPage(m, d, q, u) /\ ~(d = e /\ In(q, u, k + 1))
           /\ HasPage(n, d, q, u) => Entry(n, d, q, u) = Entry(m, d, q, u)
    BY <1>2, <1>4, <1>5
  <1>7. \A d \in Envs, q \in Regions :
           HasTable(n, d, q) <=>
              /\ HasTable(m, d, q)
              /\ (d = e /\ Of(q, k + 1)) => \E u \in Slots : HasPage(n, d, q, u)
    <2> TAKE d \in Envs, q \in Regions
    <2>1. (\E u \in Slots : HasPage(n, d, q, u)) => \E u \in Slots : HasPage(a, d, q, u)
      BY <1>4
    <2>2. \A u \in Slots : q # p[1] => <<q, u>> # p
      OBVIOUS
    <2>3. CASE d = e /\ q = p[1]
      BY <1>3, <1>4, <1>5, <2>1, <2>3
    <2>4. CASE ~(d = e /\ q = p[1])
      <3>1. \A u \in Slots : HasPage(n, d, q, u) <=> HasPage(a, d, q, u)
        BY <1>4, <2>2, <2>4
      <3> QED
        BY <1>3, <1>4, <1>5, <2>4, <3>1
    <2> QED
      BY <2>3, <2>4
  <1> QED
    BY <1>4, <1>6, <1>7 DEF FreedRange, In, Of

LEMMA FreeMem ==
    ASSUME NEW m, Sound(m), Ok(m), NEW e \in Envs, NEW range \in Ranges
    PROVE  LET n == freeMem(m, e, range)
           IN  /\ Sound(n) /\ \A g : Known(m, g) => Known(n, g)
               /\ Ok(n) /\ TablesFound(m) => FreedRange(m, n, e, range[1], range[2])
  <1> DEFINE first == range[1]
             k == range[2]
  <1>1. /\ first \in Nat /\ k \in Nat \ {0}
        /\ \A j \in 1 .. k : PageAt(first + j - 1) \in UserPages
    BY RangeFacts
  <1>7. PICK h : Looked(h, TRUE, m, e, range) /\ freeMem(m, e, range) = h[range[2]]
    BY <1>1, AllPasses
  <1>2. /\ freeMem(m, e, range) = h[k] /\ h[0] = m
        /\ \A i \in 1 .. k : h[i] = Turn(TRUE, h[i - 1], e, first, i)
    BY <1>7 DEF Looked
  <1> DEFINE P(i) == /\ Sound(h[i]) /\ \A g : Known(m, g) => Known(h[i], g)
                     /\ Ok(h[i]) /\ TablesFound(m) => FreedRange(m, h[i], e, first, i)
             B == {i \in 0 .. k : ~P(i)}
  <1> HIDE DEF first, k
  <1>3. P(0)
    <2>1. ~\E j : j \in 1 .. 0
      OBVIOUS
    <2>2. TablesFound(m) => FreedRange(m, m, e, first, 0)
      BY <2>1 DEF FreedRange
    <2> QED
      BY <1>2, <2>2
  <1>4. ASSUME NEW i \in Nat, i + 1 \in 1 .. k, P(i)
        PROVE  P(i + 1)
    <2> DEFINE p == PageAt(first + (i + 1) - 1)
    <2>1. h[i + 1] = Turn(TRUE, h[i], e, first, i + 1) /\ p \in UserPages
      <3>1. (i + 1) - 1 = i
        BY <1>4
      <3>2. h[i + 1] = Turn(TRUE, h[(i + 1) - 1], e, first, i + 1) /\ p \in UserPages
        BY <1>1, <1>2, <1>4
      <3> QED
        BY <3>1, <3>2
    <2>2. h[i + 1] = IF Ok(h[i]) THEN freeMemPage(h[i], e, p) ELSE h[i]
      BY <2>1 DEF Turn, Then
    <2>3. CASE ~Ok(h[i])
      BY <1>4, <2>2, <2>3
    <2>4. CASE Ok(h[i])
      <3>1. /\ Sound(h[i + 1]) /\ \A g : Known(h[i], g) => Known(h[i + 1], g)
            /\ Ok(h[i + 1]) /\ TablesFound(h[i]) => FreedPage(h[i], h[i + 1], e, p)
        BY <1>4, <2>1, <2>2, <2>4, FreeMemPage
      <3>2. ASSUME Ok(h[i + 1]), TablesFound(m)
            PROVE  FreedRange(m, h[i + 1], e, first, i + 1)
        <4>1. FreedRange(m, h[i], e, first, i)
          BY <1>4, <2>4, <3>2
        <4>2. FreedPage(h[i], h[i + 1], e, p)
          BY <3>1, <3>2, <4>1 DEF FreedRange
        <4> QED
          BY <1>1, <1>4, <4>1, <4>2, FreeNext
      <3> QED
        BY <1>4, <3>1, <3>2
    <2> QED
      BY <2>3, <2>4
  <1> HIDE DEF P
  <1>5. ASSUME B # {}
        PROVE  FALSE
    <2>1. PICK j \in B : \A i \in B : j <= i
      <3>1. B \subseteq Nat
        BY <1>1
      <3> QED
        BY <1>5, <3>1, Least
    <2>2. j \in 0 .. k /\ j # 0 /\ j - 1 \in Nat /\ (j - 1) + 1 = j /\ j \in 1 .. k
      BY <1>1, <1>3, <2>1
    <2>3. P(j - 1)
      BY <1>1, <2>1, <2>2
    <2> QED
      BY <1>4, <2>1, <2>2, <2>3
  <1>6. P(k)
    BY <1>1, <1>5
  <1> QED
    BY <1>2, <1>6 DEF P, first, k

-----------------------------------------------------------------------------
(* The sets of the properties. *)

LEMMA SpaceSets ==
    ASSUME NEW m, m \in Mem
    PROVE  /\ \A d \in Envs, q \in Regions :
                 /\ <<d, q>> \in Present(m) <=> HasTable(m, d, q)
                 /\ TableOf(m, <<d, q>>) = m.dir[d][q]
           /\ \A d \in Envs, q \in Regions, u \in Slots :
                 /\ <<d, q, u>> \in Mapped(m) <=> HasPage(m, d, q, u)
                 /\ FrameOf(m, <<d, q, u>>) = Entry(m, d, q, u)
           /\ \A er \in Present(m) :
                 /\ er[1] \in Envs /\ er[2] \in Regions /\ er = <<er[1], er[2]>>
                 /\ HasTable(m, er[1], er[2])
           /\ \A ers \in Mapped(m) :
                 /\ ers[1] \in Envs /\ ers[2] \in Regions /\ ers[3] \in Slots
                 /\ ers = <<ers[1], ers[2], ers[3]>>
                 /\ HasPage(m, ers[1], ers[2], ers[3])
  <1>1. \A d \in Envs, q \in Regions :
           /\ <<d, q>> \in Present(m) <=> HasTable(m, d, q)
           /\ TableOf(m, <<d, q>>) = m.dir[d][q]
    BY DEF Present, TableOf, HasTable
  <1>2. \A d \in Envs, q \in Regions, u \in Slots :
           /\ <<d, q, u>> \in Mapped(m) <=> HasPage(m, d, q, u)
           /\ FrameOf(m, <<d, q, u>>) = Entry(m, d, q, u)
    BY <1>1 DEF Mapped, FrameOf, HasPage, Entry
  <1>3. \A er \in Present(m) :
           /\ er[1] \in Envs /\ er[2] \in Regions /\ er = <<er[1], er[2]>>
           /\ HasTable(m, er[1], er[2])
    BY DEF Present, HasTable
  <1>4. \A ers \in Mapped(m) :
           /\ ers[1] \in Envs /\ ers[2] \in Regions /\ ers[3] \in Slots
           /\ ers = <<ers[1], ers[2], ers[3]>>
    BY DEF Mapped
  <1>5. \A ers \in Mapped(m) : HasPage(m, ers[1], ers[2], ers[3])
    BY <1>2, <1>4
  <1> QED
    BY <1>1, <1>2, <1>3, <1>4, <1>5

LEMMA FrameSets ==
    ASSUME NEW m, m \in Mem
    PROVE  /\ \A g : g \in FreeFrames(m) <=> IsFree(m, g)
           /\ \A g : g \in TableFrames(m) <=> IsTable(m, g)
           /\ \A g : g \in PageFrames(m) <=> IsPage(m, g)
           /\ FreeFrames(m) \subseteq Frames /\ TableFrames(m) \subseteq Frames
           /\ PageFrames(m) \subseteq Frames
  <1>1. \A g : g \in FreeFrames(m) <=> IsFree(m, g)
    BY DEF FreeFrames, IsFree
  <1>2. \A g : g \in TableFrames(m) <=> IsTable(m, g)
    <2>1. \A g : g \in TableFrames(m) => IsTable(m, g)
      BY SpaceSets DEF TableFrames, IsTable
    <2>2. ASSUME NEW g, IsTable(m, g) PROVE g \in TableFrames(m)
      <3>1. PICK d \in Envs, q \in Regions : HasTable(m, d, q) /\ m.dir[d][q] = g
        BY <2>2 DEF IsTable
      <3>2. <<d, q>> \in Present(m) /\ TableOf(m, <<d, q>>) = g
        BY <3>1, SpaceSets
      <3> QED
        BY <3>2 DEF TableFrames
    <2> QED
      BY <2>1, <2>2
  <1>3. \A g : g \in PageFrames(m) <=> IsPage(m, g)
    <2>1. \A g : g \in PageFrames(m) => IsPage(m, g)
      BY SpaceSets DEF PageFrames, IsPage
    <2>2. ASSUME NEW g, IsPage(m, g) PROVE g \in PageFrames(m)
      <3>1. PICK d \in Envs, q \in Regions, u \in Slots :
               HasPage(m, d, q, u) /\ Entry(m, d, q, u) = g
        BY <2>2 DEF IsPage
      <3>2. <<d, q, u>> \in Mapped(m) /\ FrameOf(m, <<d, q, u>>) = g
        BY <3>1, SpaceSets
      <3> QED
        BY <3>2 DEF PageFrames
    <2> QED
      BY <2>1, <2>2
  <1>4. \A g : IsFree(m, g) \/ IsTable(m, g) \/ IsPage(m, g) => g \in Frames
    BY MemFacts DEF IsFree, IsTable, IsPage, HasPage, HasTable
  <1> QED
    BY <1>1, <1>2, <1>3, <1>4

-----------------------------------------------------------------------------
(* The steps. *)

\* rut of a table: its frame is freed if the kernel heap finds it.
LEMMA RemovePresent ==
    ASSUME NEW m, Sound(m), NEW e \in Envs, NEW r \in Regions,
           HasTable(m, e, r), NEW n, n = remove_table(m, e, r)
    PROVE  /\ Sound(n)
           /\ \A g : Known(m, g) =>
                 \/ Known(n, g)
                 \/ \E s \in Slots : HasPage(m, e, r, s) /\ Entry(m, e, r, s) = g
                 \/ g = m.dir[e][r] /\ kheap_virtual_address(m, g) = NULL
  <1> DEFINE f == m.dir[e][r]
             x == <<f, 0>>
             v == kheap_virtual_address(m, f)
             T == [m.tab EXCEPT ![f] = Empty]
             D == [m.dir EXCEPT ![e][r] = x]
  <1>1. /\ m \in Mem /\ f \in Frames /\ x \in NotPresent /\ f # NoFrame
        /\ m.tab \in [Frames -> [Slots -> Frames \cup {NoFrame}]]
        /\ m.dir \in [Envs -> [Regions -> Frames \cup {NoFrame} \cup NotPresent]]
        /\ m.pt \in [HeapPages -> Frames \cup {NoFrame}]
        /\ m.references \in [Frames -> Int] /\ m.freeList \in Seq(Frames)
    BY MemFacts, Constants DEF Sound, HasTable
  <1>2. m.references[f] = 1
    BY DEF Sound, Counted
  <1>3. n = [kfree(m, v) EXCEPT !.dir[e][r] = x, !.tab[f] = Empty]
    BY <1>1 DEF remove_table
  <1>9. ASSUME DroppedTable(m, n, e, r, f, x), v # NULL => Pushed(m, n, f)
        PROVE  /\ Sound(n)
               /\ \A g : Known(m, g) =>
                     \/ Known(n, g)
                     \/ \E s \in Slots : HasPage(m, e, r, s) /\ Entry(m, e, r, s) = g
                     \/ g = f /\ v = NULL
    <2> HIDE DEF f, x, v
    <2>1. /\ Sound(n)
          /\ \A d \in Envs, q \in Regions :
                /\ HasTable(n, d, q) <=> HasTable(m, d, q) /\ ~(d = e /\ q = r)
                /\ HasTable(n, d, q) => n.dir[d][q] = m.dir[d][q]
          /\ \A d \in Envs, q \in Regions, u \in Slots :
                /\ HasPage(n, d, q, u) <=>
                      HasPage(m, d, q, u) /\ ~(d = e /\ q = r)
                /\ HasPage(n, d, q, u) => Entry(n, d, q, u) = Entry(m, d, q, u)
          /\ \A g : IsFree(m, g) => IsFree(n, g)
          /\ Pushed(m, n, f) => IsFree(n, f)
      BY <1>9, DropTable
    <2>2. \A g : IsTable(m, g) => g = f \/ IsTable(n, g)
      BY <2>1 DEF IsTable, f
    <2>3. \A g : IsPage(m, g) =>
             \/ IsPage(n, g)
             \/ \E s \in Slots : HasPage(m, e, r, s) /\ Entry(m, e, r, s) = g
      BY <2>1 DEF IsPage
    <2> QED
      BY <1>9, <2>1, <2>2, <2>3 DEF Known
  <1> HIDE DEF f, x
  <1>4. T \in [Frames -> [Slots -> Frames \cup {NoFrame}]]
    BY <1>1, Constants
  <1>5. D \in [Envs -> [Regions -> Frames \cup {NoFrame} \cup NotPresent]]
    BY <1>1
  <1>6. CASE v = NULL
    <2>1. n = [m EXCEPT !.dir = D, !.tab = T]
      BY <1>1, <1>3, <1>6 DEF kfree, Mem
    <2> HIDE DEF T, D
    <2>2. /\ n \in Mem /\ n.dir = D /\ n.tab = T
          /\ n.freeList = m.freeList /\ n.references = m.references
      BY <1>1, <1>4, <1>5, <2>1 DEF Mem
    <2>3. DroppedTable(m, n, e, r, f, x)
      BY <1>1, <2>2 DEF DroppedTable, T, D, f
    <2> QED
      BY <1>6, <1>9, <2>3 DEF f
  <1>7. CASE v # NULL
    <2> DEFINE L == <<f>> \o m.freeList
               C == [m.references EXCEPT ![f] = 0]
               Q == [m.pt EXCEPT ![v] = NoFrame]
    <2>1. v \in HeapPages /\ m.pt[v] = f /\ f # NoFrame
      BY <1>1, <1>7, HeapSearch, Constants
    <2> HIDE DEF v
    <2>2. kfree(m, v) = [free_frame(m, f) EXCEPT !.pt[v] = NoFrame]
      BY <1>2, <1>7, <2>1 DEF kfree, decrement_references, f
    <2>3. kfree(m, v) = [m EXCEPT !.freeList = L, !.references = C, !.tab = T, !.pt = Q]
      BY <1>1, <2>2 DEF free_frame, Mem
    <2>4. [T EXCEPT ![f] = Empty] = T
      BY <1>1
    <2>5. L \in Seq(Frames)
      BY <1>1, ConcatProperties
    <2>6. C \in [Frames -> Int]
      BY <1>1
    <2>7. Q \in [HeapPages -> Frames \cup {NoFrame}]
      BY <1>1, <2>1
    <2> DEFINE k == kfree(m, v)
    <2> HIDE DEF T, L, C, Q, k
    <2>8. /\ k \in Mem /\ k.dir = m.dir /\ k.tab = T /\ k.freeList = L
          /\ k.references = C
      BY <1>1, <1>4, <2>3, <2>5, <2>6, <2>7 DEF Mem, k
    <2>9. n = [k EXCEPT !.dir = D, !.tab = T]
      <3>1. n = [k EXCEPT !.dir[e][r] = x, !.tab[f] = Empty]
        BY <1>3 DEF k
      <3>2. n = [k EXCEPT !.dir = [k.dir EXCEPT ![e][r] = x],
                          !.tab = [k.tab EXCEPT ![f] = Empty]]
        BY <2>8, <3>1 DEF Mem
      <3> QED
        BY <2>4, <2>8, <3>2
    <2> HIDE DEF D
    <2>10. /\ n \in Mem /\ n.dir = D /\ n.tab = T /\ n.freeList = L
           /\ n.references = C
      BY <1>4, <1>5, <2>8, <2>9 DEF Mem
    <2>11. Pushed(m, n, f)
      BY <2>10 DEF Pushed, L, C
    <2>12. DroppedTable(m, n, e, r, f, x)
      BY <1>1, <2>10, <2>11 DEF DroppedTable, T, D, f
    <2> QED
      BY <1>9, <2>11, <2>12 DEF f, v
  <1> QED
    BY <1>6, <1>7

\* A frame that is neither a page nor a table changes.
LEMMA ChangeUnused ==
    ASSUME NEW m, Sound(m), NEW n \in Mem, NEW f, ~IsTable(m, f), ~IsPage(m, f),
           n.dir = m.dir,
           \A g \in Frames : g # f => /\ n.tab[g] = m.tab[g]
                                      /\ n.references[g] = m.references[g],
           NoRepeats(n), \A g : IsFree(m, g) => IsFree(n, g),
           \A i \in 1 .. Len(n.freeList) : n.references[n.freeList[i]] <= 0
    PROVE  Sound(n) /\ \A g : Known(m, g) => Known(n, g)
  <1>1. \A d \in Envs, q \in Regions : HasTable(n, d, q) <=> HasTable(m, d, q)
    BY DEF HasTable
  <1>2. \A d \in Envs, q \in Regions : HasTable(m, d, q) =>
           m.dir[d][q] # f /\ m.dir[d][q] \in Frames
    BY DEF IsTable, HasTable
  <1>3. \A d \in Envs, q \in Regions, u \in Slots :
           HasTable(m, d, q) => Entry(n, d, q, u) = Entry(m, d, q, u)
    BY <1>2 DEF Entry
  <1>4. \A d \in Envs, q \in Regions, u \in Slots :
           /\ HasPage(n, d, q, u) <=> HasPage(m, d, q, u)
           /\ HasPage(m, d, q, u) =>
                 /\ Entry(n, d, q, u) = Entry(m, d, q, u)
                 /\ Entry(m, d, q, u) # f /\ Entry(m, d, q, u) \in Frames
    BY <1>1, <1>3, MemFacts DEF HasPage, IsPage, Sound
  <1>5. TablesApart(n)
    BY <1>1 DEF TablesApart, Sound
  <1>6. PagesApart(n)
    BY <1>4 DEF PagesApart, Sound
  <1>7. NoPageIsTable(n)
    BY <1>1, <1>4 DEF NoPageIsTable, Sound
  <1>8. Counted(n)
    <2>1. \A d \in Envs, q \in Regions :
             HasTable(n, d, q) => n.references[n.dir[d][q]] = 1
      BY <1>1, <1>2 DEF Counted, Sound
    <2>2. \A d \in Envs, q \in Regions, u \in Slots :
             HasPage(n, d, q, u) => n.references[Entry(n, d, q, u)] = 1
      BY <1>4 DEF Counted, Sound
    <2> QED
      BY <2>1, <2>2 DEF Counted
  <1>9. \A g : Known(m, g) => Known(n, g)
    BY <1>1, <1>4 DEF Known, IsTable, IsPage
  <1> QED
    BY <1>5, <1>6, <1>7, <1>8, <1>9 DEF Sound

\* kfree gives a memory.
LEMMA KfreeType ==
    ASSUME NEW m \in Mem, NEW f \in Frames, NEW v \in HeapPages, v # NULL,
           m.pt[v] = f
    PROVE  kfree(m, v) \in Mem
  <1>1. /\ f # NoFrame
        /\ m.tab \in [Frames -> [Slots -> Frames \cup {NoFrame}]]
        /\ m.pt \in [HeapPages -> Frames \cup {NoFrame}]
        /\ m.references \in [Frames -> Int] /\ m.freeList \in Seq(Frames)
    BY MemFacts, Constants
  <1> DEFINE Q == [m.pt EXCEPT ![v] = NoFrame]
             L == <<f>> \o m.freeList
             T == [m.tab EXCEPT ![f] = Empty]
             C == [m.references EXCEPT ![f] = 0]
             B == [m.references EXCEPT ![f] = m.references[f] - 1]
  <1>2. \/ kfree(m, v) = [m EXCEPT !.freeList = L, !.references = C, !.tab = T, !.pt = Q]
        \/ kfree(m, v) = [m EXCEPT !.references = B, !.pt = Q]
    BY <1>1 DEF kfree, decrement_references, free_frame, Mem
  <1>3. /\ Q \in [HeapPages -> Frames \cup {NoFrame}]
        /\ C \in [Frames -> Int] /\ B \in [Frames -> Int]
    BY <1>1
  <1>4. T \in [Frames -> [Slots -> Frames \cup {NoFrame}]]
    BY <1>1, Constants
  <1>5. L \in Seq(Frames)
    BY <1>1, ConcatProperties
  <1> HIDE DEF Q, L, T, C, B
  <1> QED
    BY <1>2, <1>3, <1>4, <1>5 DEF Mem

\* kfree of a heap page whose frame is neither a page nor a table.
LEMMA FreeUnused ==
    ASSUME NEW m, Sound(m), NEW f \in Frames, ~IsTable(m, f), ~IsPage(m, f),
           NEW v \in HeapPages, v # NULL, m.pt[v] = f
    PROVE  Sound(kfree(m, v)) /\ \A g : Known(m, g) => Known(kfree(m, v), g)
  <1> DEFINE n == kfree(m, v)
             Q == [m.pt EXCEPT ![v] = NoFrame]
  <1>1. /\ m \in Mem /\ f # NoFrame
        /\ m.tab \in [Frames -> [Slots -> Frames \cup {NoFrame}]]
        /\ m.pt \in [HeapPages -> Frames \cup {NoFrame}]
        /\ m.references \in [Frames -> Int] /\ m.freeList \in Seq(Frames)
        /\ \A i \in 1 .. Len(m.freeList) : m.freeList[i] \in Frames
    BY MemFacts, Constants DEF Sound
  <1>2. Q \in [HeapPages -> Frames \cup {NoFrame}]
    BY <1>1
  <1>3. CASE m.references[f] = 1
    <2> DEFINE L == <<f>> \o m.freeList
               C == [m.references EXCEPT ![f] = 0]
               T == [m.tab EXCEPT ![f] = Empty]
    <2>1. n = [free_frame(m, f) EXCEPT !.pt[v] = NoFrame]
      BY <1>1, <1>3 DEF kfree, decrement_references
    <2>2. n = [m EXCEPT !.freeList = L, !.references = C, !.tab = T, !.pt = Q]
      BY <1>1, <2>1 DEF free_frame, Mem
    <2>3. L \in Seq(Frames)
      BY <1>1, ConcatProperties
    <2>4. C \in [Frames -> Int] /\ \A g \in Frames : g # f => C[g] = m.references[g]
      BY <1>1
    <2>5. /\ T \in [Frames -> [Slots -> Frames \cup {NoFrame}]]
          /\ \A g \in Frames : g # f => T[g] = m.tab[g]
      BY <1>1, Constants
    <2> HIDE DEF n, Q, L, C, T
    <2>6. /\ n \in Mem /\ n.dir = m.dir /\ n.tab = T /\ n.freeList = L
          /\ n.references = C
      BY <1>1, <1>2, <2>2, <2>3, <2>4, <2>5 DEF Mem
    <2>7. Pushed(m, n, f) /\ ~IsFree(m, f)
      BY <1>3, <2>6 DEF Pushed, L, C, Sound, Counted, IsFree
    <2>8. FreedIn(m, n, f)
      BY <2>7, PushFrame
    <2>9. Sound(n) /\ \A g : Known(m, g) => Known(n, g)
      BY <2>4, <2>5, <2>6, <2>8, ChangeUnused DEF FreedIn
    <2> QED
      BY <2>9 DEF n
  <1>4. CASE m.references[f] # 1
    <2> DEFINE C == [m.references EXCEPT ![f] = m.references[f] - 1]
    <2>1. n = [m EXCEPT !.references = C, !.pt = Q]
      BY <1>1, <1>4 DEF kfree, decrement_references, Mem
    <2>2. /\ C \in [Frames -> Int] /\ C[f] = m.references[f] - 1
          /\ \A g \in Frames : g # f => C[g] = m.references[g]
      BY <1>1
    <2> HIDE DEF n, Q, C
    <2>3. /\ n \in Mem /\ n.dir = m.dir /\ n.tab = m.tab
          /\ n.freeList = m.freeList /\ n.references = C
      BY <1>1, <1>2, <2>1, <2>2 DEF Mem
    <2>4. ASSUME NEW i \in 1 .. Len(m.freeList)
          PROVE  C[m.freeList[i]] <= 0
      <3>1. /\ m.references[m.freeList[i]] <= 0 /\ m.freeList[i] \in Frames
            /\ m.references[m.freeList[i]] \in Int
        BY <1>1, <2>4 DEF Sound, Counted
      <3>2. CASE m.freeList[i] = f
        BY <2>2, <3>1, <3>2
      <3>3. CASE m.freeList[i] # f
        BY <2>2, <3>1, <3>3
      <3> QED
        BY <3>2, <3>3
    <2>5. NoRepeats(n) /\ \A g : IsFree(m, g) => IsFree(n, g)
      BY <2>3 DEF NoRepeats, IsFree, Sound
    <2>6. Sound(n) /\ \A g : Known(m, g) => Known(n, g)
      BY <2>2, <2>3, <2>4, <2>5, ChangeUnused
    <2> QED
      BY <2>6 DEF n
  <1> QED
    BY <1>3, <1>4

\* rut: of no table, of a table, or of a table that rut has removed before.
LEMMA RemoveTable ==
    ASSUME NEW m, Sound(m), NEW e \in Envs, NEW r \in Regions,
           NEW n, n = remove_table(m, e, r)
    PROVE  \/ n.status = "down"
           \/ /\ Sound(n)
              /\ \A g : Known(m, g) =>
                    \/ Known(n, g)
                    \/ \E s \in Slots : HasPage(m, e, r, s) /\ Entry(m, e, r, s) = g
                    \/ HasTable(m, e, r) /\ g = m.dir[e][r]
                       /\ kheap_virtual_address(m, g) = NULL
  <1>1. m \in Mem /\ m.dir[e][r] \in Frames \cup {NoFrame} \cup NotPresent
    BY MemFacts DEF Sound
  <1>2. CASE m.dir[e][r] = NoFrame
    BY <1>2 DEF remove_table
  <1>3. CASE m.dir[e][r] \in Frames
    BY <1>3, RemovePresent DEF HasTable
  <1>4. CASE m.dir[e][r] \in NotPresent
    <2> DEFINE f == m.dir[e][r][1]
               v == kheap_virtual_address(m, f)
               k == kfree(m, v)
    <2>1. f \in Frames /\ m.dir[e][r] # NoFrame /\ m.dir[e][r] \notin Frames
      BY <1>4, Constants
    <2>2. n = IF v # NULL /\ f \in InUse(m) THEN Down(k) ELSE k
      BY <2>1 DEF remove_table
    <2> HIDE DEF f, k
    <2>3. CASE v = NULL
      <3>1. k = m
        BY <2>3 DEF k, kfree
      <3> QED
        BY <2>2, <2>3, <3>1
    <2>4. CASE v # NULL /\ f \notin InUse(m)
      <3>1. ~IsTable(m, f) /\ ~IsPage(m, f)
        BY <1>1, <2>4, FrameSets DEF InUse
      <3>2. v \in HeapPages /\ m.pt[v] = f
        BY <1>1, <2>1, <2>4, HeapSearch
      <3> HIDE DEF v
      <3>3. Sound(k) /\ \A g : Known(m, g) => Known(k, g)
        BY <2>1, <2>4, <3>1, <3>2, FreeUnused DEF k
      <3> QED
        BY <2>2, <2>4, <3>3
    <2>5. CASE v # NULL /\ f \in InUse(m)
      <3>1. k \in Mem
        <4>1. v \in HeapPages /\ m.pt[v] = f
          BY <1>1, <2>1, <2>5, HeapSearch
        <4> HIDE DEF v
        <4> QED
          BY <1>1, <2>1, <2>5, <4>1, KfreeType DEF k
      <3>2. n = Down(k)
        BY <2>2, <2>5
      <3> QED
        BY <3>1, <3>2 DEF Down, Mem
    <2> QED
      BY <2>3, <2>4, <2>5
  <1> QED
    BY <1>1, <1>2, <1>3, <1>4

\* The end of a call keeps what it has done.
LEMMA EndsSound ==
    ASSUME NEW m, m.status = "down" \/ Sound(m), Ends(m)
    PROVE  Ok(mem') => Sound(mem')
  <1>1. CASE m.status = "down"
    BY <1>1 DEF Ends, Ok
  <1>2. CASE Sound(m)
    <2>1. Same(m, mem')
      BY <1>2 DEF Ends, Same, Sound, Mem
    <2> QED
      BY <1>2, <2>1, SameSpaces
  <1> QED
    BY <1>1, <1>2

\* sys_clear_ffl: the list is empty.
LEMMA ClearSound ==
    ASSUME NEW m, Sound(m), NEW n, n = [m EXCEPT !.freeList = << >>]
    PROVE  Sound(n)
  <1>1. m \in Mem /\ << >> \in Seq(Frames) /\ Len(<< >>) = 0
    BY DEF Sound
  <1>2. /\ n \in Mem /\ n.dir = m.dir /\ n.tab = m.tab
        /\ n.references = m.references /\ n.freeList = << >>
    BY <1>1 DEF Mem
  <1>3. /\ \A d \in Envs, q \in Regions : HasTable(n, d, q) <=> HasTable(m, d, q)
        /\ \A d \in Envs, q \in Regions, u \in Slots :
              /\ HasPage(n, d, q, u) <=> HasPage(m, d, q, u)
              /\ Entry(n, d, q, u) = Entry(m, d, q, u)
    BY <1>2 DEF HasTable, HasPage, Entry
  <1>4. TablesApart(n) /\ PagesApart(n) /\ NoPageIsTable(n)
    BY <1>2, <1>3 DEF TablesApart, PagesApart, NoPageIsTable, Sound
  <1>5. Counted(n) /\ NoRepeats(n)
    BY <1>1, <1>2, <1>3 DEF Counted, NoRepeats, Sound
  <1> QED
    BY <1>2, <1>4, <1>5 DEF Sound

LEMMA InitSound ==
    ASSUME Init
    PROVE  Sound(mem)
  <1>1. Cardinality(Frames) \in Nat
    BY Constants, FS_CardinalityType
  <1>2. PICK list \in [1 .. Cardinality(Frames) -> Frames] :
           /\ IsInjective(list)
           /\ mem.dir = [e \in Envs |-> [r \in Regions |-> NoFrame]]
           /\ mem.freeList = list /\ mem.references = [f \in Frames |-> 0]
           /\ mem = [ dir        |-> [e \in Envs |-> [r \in Regions |-> NoFrame]],
                      tab        |-> [f \in Frames |-> Empty],
                      freeList   |-> list,
                      references |-> [f \in Frames |-> 0],
                      pt         |-> [p \in HeapPages |-> NoFrame],
                      startAdd   |-> 0,
                      strategy   |-> "NEXTFIT",
                      status     |-> "ok" ]
    BY DEF Init
  <1>3. /\ list \in Seq(Frames) /\ Len(list) = Cardinality(Frames)
        /\ DOMAIN list = 1 .. Cardinality(Frames)
    BY <1>1, <1>2
  <1>4. /\ [e \in Envs |-> [r \in Regions |-> NoFrame]] \in
              [Envs -> [Regions -> Frames \cup {NoFrame} \cup NotPresent]]
        /\ [f \in Frames |-> Empty] \in [Frames -> [Slots -> Frames \cup {NoFrame}]]
        /\ [f \in Frames |-> 0] \in [Frames -> Int]
        /\ [p \in HeapPages |-> NoFrame] \in [HeapPages -> Frames \cup {NoFrame}]
        /\ 0 \in 0 .. NPages
    BY Constants
  <1>5. mem \in Mem
    BY <1>2, <1>3, <1>4 DEF Mem
  <1>6. \A d \in Envs, q \in Regions : ~HasTable(mem, d, q)
    BY <1>2, Constants DEF HasTable
  <1>7. TablesApart(mem) /\ PagesApart(mem) /\ NoPageIsTable(mem)
    BY <1>6 DEF TablesApart, PagesApart, NoPageIsTable, HasPage
  <1>8. Counted(mem)
    BY <1>2, <1>3, <1>6 DEF Counted, HasPage
  <1>9. NoRepeats(mem)
    BY <1>2, <1>3 DEF NoRepeats, IsInjective
  <1> QED
    BY <1>5, <1>7, <1>8, <1>9 DEF Sound

LEMMA StepSound ==
    ASSUME Ok(mem) => Sound(mem), [Next]_mem
    PROVE  Ok(mem') => Sound(mem')
  <1>1. CASE UNCHANGED mem
    BY <1>1
  <1> SUFFICES ASSUME Next
               PROVE  Ok(mem') => Sound(mem')
    BY <1>1
  <1>2. Ok(mem) /\ Sound(mem)
    BY DEF Next
  <1>3. ASSUME NEW e \in Envs, NEW p \in UserPages, command_allocuserpage(e, p)
        PROVE  Ok(mem') => Sound(mem')
    BY <1>2, <1>3, NewPageSound, EndsSound DEF command_allocuserpage
  <1>4. ASSUME NEW e \in Envs, NEW p \in UserPages, NEW valid \in BOOLEAN,
               sys_allocate_page(e, p, valid)
        PROVE  Ok(mem') => Sound(mem')
    <2>1. CASE valid
      <3>1. Ends(NewPage(mem, e, p))
        BY <1>4, <2>1 DEF sys_allocate_page
      <3> QED
        BY <1>2, <3>1, NewPageSound, EndsSound
    <2>2. CASE ~valid
      <3>1. Ends(allocate_frame(mem))
        BY <1>4, <2>2 DEF sys_allocate_page
      <3> QED
        BY <1>2, <3>1, AllocateSound, EndsSound
    <2> QED
      BY <2>1, <2>2
  <1>5. ASSUME NEW e \in Envs, NEW p \in UserPages, Access(e, p)
        PROVE  Ok(mem') => Sound(mem')
    BY <1>2, <1>5, TouchSound, EndsSound DEF Access
  <1>6. ASSUME NEW e \in Envs, NEW range \in Ranges, sys_freeMem(e, range)
        PROVE  Ok(mem') => Sound(mem')
    BY <1>2, <1>6, FreeMem, EndsSound DEF sys_freeMem
  <1>7. ASSUME NEW e \in Envs, NEW r \in Regions, command_remove_table(e, r)
        PROVE  Ok(mem') => Sound(mem')
    <2> DEFINE n == remove_table(mem, e, r)
    <2>1. Ends(n)
      BY <1>7 DEF command_remove_table
    <2>2. n.status = "down" \/ Sound(n)
      BY <1>2, RemoveTable
    <2> HIDE DEF n
    <2> QED
      BY <2>1, <2>2, EndsSound
  <1>8. ASSUME sys_clearFFL
        PROVE  Ok(mem') => Sound(mem')
    BY <1>2, <1>8, ClearSound DEF sys_clearFFL
  <1>9. ASSUME setKHeapPlacementStrategy
        PROVE  Ok(mem') => Sound(mem')
    <2>1. Same(mem, mem')
      BY <1>2, <1>9 DEF setKHeapPlacementStrategy, Same, Sound, Mem
    <2> QED
      BY <1>2, <2>1, SameSpaces
  <1> QED
    BY <1>3, <1>4, <1>5, <1>6, <1>7, <1>8, <1>9 DEF Next

\* Every reachable memory is sound, until a second rut takes a frame away.
LEMMA AlwaysSound == Spec => [](Ok(mem) => Sound(mem))
  <1>1. Init => (Ok(mem) => Sound(mem))
    BY InitSound
  <1>2. (Ok(mem) => Sound(mem)) /\ [Next]_mem => (Ok(mem) => Sound(mem))'
    <2> SUFFICES ASSUME Ok(mem) => Sound(mem), [Next]_mem
                 PROVE  Ok(mem') => Sound(mem')
      BY DEF Sound, TablesApart, PagesApart, NoPageIsTable, Counted, NoRepeats,
             HasPage, HasTable, Entry, Ok
    <2> QED
      BY StepSound
  <1> QED
    BY <1>1, <1>2, PTL DEF Spec

-----------------------------------------------------------------------------
(* What the properties say of a sound memory. *)

\* A set that a function maps one to one onto a set of frames has as many
\* elements.
LEMMA OneToOne ==
    ASSUME NEW S, NEW T, T \subseteq Frames, NEW h \in [S -> T],
           \A x, y \in S : h[x] = h[y] => x = y,
           \A t \in T : \E x \in S : h[x] = t
    PROVE  /\ IsFiniteSet(T) /\ IsFiniteSet(S)
           /\ Cardinality(T) = Cardinality(S)
  <1>1. IsFiniteSet(T)
    BY Constants, FS_Subset
  <1>2. h \in Injection(S, T)
    BY DEF Injection, IsInjective
  <1>3. h \in Surjection(S, T)
    BY DEF Surjection
  <1> QED
    BY <1>1, <1>2, <1>3, FS_Injection

LEMMA SoundApart ==
    ASSUME Sound(mem)
    PROVE  SpacesApart
  <1>0. mem \in Mem /\ Len(mem.freeList) \in Nat
    BY MemFacts DEF Sound
  <1>1. /\ IsFiniteSet(TableFrames(mem))
        /\ Cardinality(TableFrames(mem)) = Cardinality(Present(mem))
    <2> DEFINE h == [er \in Present(mem) |-> TableOf(mem, er)]
    <2>1. h \in [Present(mem) -> TableFrames(mem)]
      BY DEF TableFrames
    <2>2. \A x, y \in Present(mem) : h[x] = h[y] => x = y
      <3> TAKE x, y \in Present(mem)
      <3> HAVE h[x] = h[y]
      <3>1. /\ x[1] \in Envs /\ x[2] \in Regions /\ x = <<x[1], x[2]>>
            /\ y[1] \in Envs /\ y[2] \in Regions /\ y = <<y[1], y[2]>>
            /\ HasTable(mem, x[1], x[2])
        BY <1>0, SpaceSets
      <3>2. mem.dir[x[1]][x[2]] = mem.dir[y[1]][y[2]]
        BY DEF TableOf
      <3>3. x[1] = y[1] /\ x[2] = y[2]
        BY <3>1, <3>2 DEF Sound, TablesApart
      <3> QED
        BY <3>1, <3>3
    <2>3. \A t \in TableFrames(mem) : \E x \in Present(mem) : h[x] = t
      BY DEF TableFrames
    <2> HIDE DEF h
    <2> QED
      BY <1>0, <2>1, <2>2, <2>3, OneToOne, FrameSets
  <1>2. /\ IsFiniteSet(PageFrames(mem))
        /\ Cardinality(PageFrames(mem)) = Cardinality(Mapped(mem))
    <2> DEFINE h == [ers \in Mapped(mem) |-> FrameOf(mem, ers)]
    <2>1. h \in [Mapped(mem) -> PageFrames(mem)]
      BY DEF PageFrames
    <2>2. \A x, y \in Mapped(mem) : h[x] = h[y] => x = y
      <3> TAKE x, y \in Mapped(mem)
      <3> HAVE h[x] = h[y]
      <3>1. /\ x[1] \in Envs /\ x[2] \in Regions /\ x[3] \in Slots
            /\ y[1] \in Envs /\ y[2] \in Regions /\ y[3] \in Slots
            /\ x = <<x[1], x[2], x[3]>> /\ y = <<y[1], y[2], y[3]>>
            /\ HasPage(mem, x[1], x[2], x[3]) /\ HasPage(mem, y[1], y[2], y[3])
        BY <1>0, SpaceSets
      <3>2. FrameOf(mem, x) = FrameOf(mem, y)
        OBVIOUS
      <3>3. Entry(mem, x[1], x[2], x[3]) = Entry(mem, y[1], y[2], y[3])
        BY <1>0, <3>1, <3>2, SpaceSets
      <3>4. x[1] = y[1] /\ x[2] = y[2] /\ x[3] = y[3]
        BY <3>1, <3>3 DEF Sound, PagesApart
      <3> QED
        BY <3>1, <3>4
    <2>3. \A t \in PageFrames(mem) : \E x \in Mapped(mem) : h[x] = t
      BY DEF PageFrames
    <2> HIDE DEF h
    <2> QED
      BY <1>0, <2>1, <2>2, <2>3, OneToOne, FrameSets
  <1>3. PageFrames(mem) \cap TableFrames(mem) = {}
    <2>1. ASSUME NEW g, IsPage(mem, g), IsTable(mem, g) PROVE FALSE
      BY <2>1 DEF IsPage, IsTable, Sound, NoPageIsTable
    <2> QED
      BY <1>0, <2>1, FrameSets
  <1>4. Cardinality(InUse(mem)) = Cardinality(Mapped(mem)) + Cardinality(Present(mem))
    <2>1. Cardinality(PageFrames(mem) \cup TableFrames(mem)) =
             Cardinality(PageFrames(mem)) + Cardinality(TableFrames(mem))
             - Cardinality(PageFrames(mem) \cap TableFrames(mem))
      BY <1>1, <1>2, FS_Union
    <2>2. Cardinality(PageFrames(mem) \cap TableFrames(mem)) = 0
      BY <1>3, FS_EmptySet
    <2>3. Cardinality(PageFrames(mem)) \in Nat /\ Cardinality(TableFrames(mem)) \in Nat
      BY <1>1, <1>2, FS_CardinalityType
    <2> QED
      BY <1>1, <1>2, <2>1, <2>2, <2>3 DEF InUse
  <1>5. \A g : g \in InUse(mem) <=> IsPage(mem, g) \/ IsTable(mem, g)
    BY <1>0, FrameSets DEF InUse
  <1>6. \A g \in InUse(mem) : mem.references[g] = 1
    BY <1>5 DEF IsPage, IsTable, Sound, Counted
  <1>7. \A g \in FreeFrames(mem) : mem.references[g] <= 0
    BY <1>0, FrameSets DEF IsFree, Sound, Counted
  <1>8. InUse(mem) \cap FreeFrames(mem) = {}
    BY <1>6, <1>7
  <1>9. Cardinality(FreeFrames(mem)) = Len(mem.freeList)
    <2> DEFINE S == 1 .. Len(mem.freeList)
               h == [i \in S |-> mem.freeList[i]]
    <2>1. h \in [S -> FreeFrames(mem)]
      BY DEF FreeFrames
    <2>2. \A x, y \in S : h[x] = h[y] => x = y
      BY DEF Sound, NoRepeats
    <2>3. \A t \in FreeFrames(mem) : \E x \in S : h[x] = t
      BY DEF FreeFrames
    <2>4. Cardinality(S) = Len(mem.freeList)
      BY <1>0, FS_Interval
    <2> HIDE DEF h, S
    <2> QED
      BY <1>0, <2>1, <2>2, <2>3, <2>4, OneToOne, FrameSets
  <1> QED
    BY <1>4, <1>6, <1>7, <1>8, <1>9 DEF SpacesApart

LEMMA LostUnknown ==
    ASSUME NEW m, m \in Mem
    PROVE  \A g : g \in Lost(m) <=> g \in Frames /\ ~Known(m, g)
  BY FrameSets DEF Lost, InUse, Known

LEMMA SoundKeeps ==
    ASSUME Sound(mem)
    PROVE  NothingLost
  <1> SUFFICES ASSUME Ok(mem) PROVE NothingLost
    BY DEF NothingLost
  <1>1. ASSUME NEW n, NEW x,
               Ok(n) => Sound(n) /\ \A g : Known(mem, g) => Known(n, g) \/ g \in x
        PROVE  Keeps(n, x)
    BY <1>1, LostUnknown DEF Keeps, Sound
  <1>2. ASSUME NEW e \in Envs, NEW p \in UserPages
        PROVE  Keeps(NewPage(mem, e, p), {}) /\ Keeps(Touch(mem, e, p), {})
    <2>1. Keeps(NewPage(mem, e, p), {})
      BY <1>1, <1>2, NewPageSound
    <2>2. Keeps(Touch(mem, e, p), {})
      BY <1>1, <1>2, TouchSound
    <2> QED
      BY <2>1, <2>2
  <1>3. ASSUME NEW e \in Envs, NEW range \in Ranges
        PROVE  Keeps(freeMem(mem, e, range), {})
    BY <1>1, <1>3, FreeMem
  <1>4. ASSUME mem.freeList # << >>
        PROVE  Keeps(allocate_frame(mem), {Head(mem.freeList)})
    <2> DEFINE n == allocate_frame(mem)
               f == Head(mem.freeList)
    <2>1. TookFrame(mem, n, f)
      BY <1>4, AllocateFrame
    <2> HIDE DEF n, f
    <2>2. Sound(n) /\ \A g : Known(mem, g) => g = f \/ Known(n, g)
      BY <2>1, TakeFrame, TakeFrameKnown
    <2>3. Keeps(n, {f})
      BY <1>1, <2>2
    <2> QED
      BY <2>3 DEF n, f
  <1>5. ASSUME NEW e \in Envs, NEW r \in Regions
        PROVE  Keeps(remove_table(mem, e, r),
                     TablePages(mem, e, r) \cup Unfound(mem, e, r))
    <2> DEFINE n == remove_table(mem, e, r)
               x == TablePages(mem, e, r)
               y == Unfound(mem, e, r)
    <2>1. \A s \in Slots : HasPage(mem, e, r, s) => Entry(mem, e, r, s) \in x
      <3> TAKE s \in Slots
      <3> HAVE HasPage(mem, e, r, s)
      <3>1. /\ <<e, r, s>> \in Mapped(mem)
            /\ FrameOf(mem, <<e, r, s>>) = Entry(mem, e, r, s)
        BY <1>5, SpaceSets DEF Sound
      <3> QED
        BY <3>1 DEF TablePages
    <2>2. HasTable(mem, e, r) /\ kheap_virtual_address(mem, mem.dir[e][r]) = NULL
             => mem.dir[e][r] \in y
      BY DEF Unfound, HasTable
    <2> HIDE DEF n, x, y
    <2>3. \/ n.status = "down"
          \/ /\ Sound(n)
             /\ \A g : Known(mem, g) =>
                   \/ Known(n, g)
                   \/ \E s \in Slots : HasPage(mem, e, r, s) /\ Entry(mem, e, r, s) = g
                   \/ HasTable(mem, e, r) /\ g = mem.dir[e][r]
                      /\ kheap_virtual_address(mem, g) = NULL
      BY <1>5, RemoveTable DEF n
    <2>4. Ok(n) => /\ Sound(n)
                   /\ \A g : Known(mem, g) => Known(n, g) \/ g \in x \cup y
      BY <2>1, <2>2, <2>3 DEF Ok
    <2>5. Keeps(n, x \cup y)
      BY <1>1, <2>4
    <2> QED
      BY <2>5 DEF n, x, y
  <1> QED
    BY <1>2, <1>3, <1>4, <1>5 DEF NothingLost

LEMMA FoundTables ==
    ASSUME mem \in Mem, Findable(mem)
    PROVE  TablesFound(mem)
  <1> SUFFICES ASSUME NEW d \in Envs, NEW q \in Regions, HasTable(mem, d, q)
               PROVE  kheap_virtual_address(mem, mem.dir[d][q]) # NULL
    BY DEF TablesFound
  <1>1. <<d, q>> \in Present(mem) /\ TableOf(mem, <<d, q>>) = mem.dir[d][q]
    BY SpaceSets
  <1> QED
    BY <1>1 DEF Findable

LEMMA SoundFrees ==
    ASSUME Sound(mem)
    PROVE  FreeMemExact
  <1> SUFFICES ASSUME Ok(mem), Findable(mem), NEW e \in Envs, NEW range \in Ranges,
                      Ok(freeMem(mem, e, range))
               PROVE
      LET m == freeMem(mem, e, range)
          gone == {<<e>> \o RangePages(range[1], range[2])[i] : i \in 1 .. range[2]}
      IN  /\ Mapped(m) = Mapped(mem) \ gone
          /\ \A ers \in Mapped(m) : FrameOf(m, ers) = FrameOf(mem, ers)
          /\ Present(m) = {er \in Present(mem) :
                \/ \E ers \in Mapped(m) : er = <<ers[1], ers[2]>>
                \/ \A ers \in gone : er # <<ers[1], ers[2]>>}
    BY DEF FreeMemExact
  <1> DEFINE n == freeMem(mem, e, range)
             first == range[1]
             k == range[2]
             gone == {<<e>> \o RangePages(first, k)[i] : i \in 1 .. k}
             P(j) == PageAt(first + j - 1)
  <1>1. /\ first \in Nat /\ k \in Nat
        /\ \A j \in 1 .. k : P(j) \in UserPages
    BY RangeFacts
  <1>2. mem \in Mem
    BY DEF Sound
  <1>3. TablesFound(mem)
    BY <1>2, FoundTables
  <1>4. n \in Mem /\ FreedRange(mem, n, e, first, k)
    BY <1>3, FreeMem DEF Sound
  <1> HIDE DEF n, first, k
  <1>5. \A j \in 1 .. k : <<e>> \o RangePages(first, k)[j] = <<e, P(j)[1], P(j)[2]>>
    <2> TAKE j \in 1 .. k
    <2>1. RangePages(first, k)[j] = P(j)
      BY DEF RangePages
    <2>2. \A p \in UserPages : <<e>> \o p = <<e, p[1], p[2]>>
      <3> TAKE p \in UserPages
      <3>1. PICK a \in Regions, b \in Slots : p = <<a, b>>
        BY DEF UserPages
      <3>2. <<e>> \o <<a, b>> = <<e, a, b>>
        <4> DEFINE U == {e, a, b}
                   c == <<e>> \o <<a, b>>
        <4>1. <<e>> \in Seq(U) /\ <<a, b>> \in Seq(U) /\ <<e, a, b>> \in Seq(U)
          OBVIOUS
        <4>2. /\ Len(<<e>>) = 1 /\ <<e>>[1] = e /\ Len(<<a, b>>) = 2
              /\ <<a, b>>[1] = a /\ <<a, b>>[2] = b /\ Len(<<e, a, b>>) = 3
              /\ <<e, a, b>>[1] = e /\ <<e, a, b>>[2] = a /\ <<e, a, b>>[3] = b
          OBVIOUS
        <4>3. /\ c \in Seq(U) /\ Len(c) = Len(<<e>>) + Len(<<a, b>>)
              /\ \A i \in 1 .. Len(<<e>>) + Len(<<a, b>>) :
                    c[i] = IF i <= Len(<<e>>) THEN <<e>>[i]
                           ELSE <<a, b>>[i - Len(<<e>>)]
          BY <4>1, ConcatProperties
        <4>4. Len(c) = 3 /\ c[1] = e /\ c[2] = a /\ c[3] = b
          BY <4>2, <4>3
        <4> HIDE DEF c
        <4>5. \A i \in 1 .. Len(c) : c[i] = <<e, a, b>>[i]
          <5>1. 1 .. Len(c) = {1, 2, 3}
            BY <4>4
          <5> QED
            BY <4>2, <4>4, <5>1
        <4>6. c = <<e, a, b>>
          BY <4>1, <4>2, <4>3, <4>4, <4>5, SeqEqual
        <4> QED
          BY <4>6 DEF c
      <3>3. p[1] = a /\ p[2] = b
        BY <3>1
      <3> QED
        BY <3>1, <3>2, <3>3
    <2> QED
      BY <1>1, <2>1, <2>2
  <1>6. gone = {<<e, P(j)[1], P(j)[2]>> : j \in 1 .. k}
    BY <1>5
  <1> HIDE DEF gone, P
  <1>7. \A d \in Envs, q \in Regions, u \in Slots :
           <<d, q, u>> \in gone <=> d = e /\ \E j \in 1 .. k : <<q, u>> = P(j)
    <2>1. \A p \in UserPages : p = <<p[1], p[2]>>
      BY DEF UserPages
    <2> QED
      BY <1>1, <1>6, <2>1
  <1>8. /\ \A d \in Envs, q \in Regions, u \in Slots :
              /\ HasPage(n, d, q, u) <=> HasPage(mem, d, q, u) /\ <<d, q, u>> \notin gone
              /\ HasPage(n, d, q, u) => Entry(n, d, q, u) = Entry(mem, d, q, u)
        /\ \A d \in Envs, q \in Regions :
              HasTable(n, d, q) <=>
                 /\ HasTable(mem, d, q)
                 /\ (d = e /\ \E j \in 1 .. k : q = P(j)[1])
                       => \E u \in Slots : HasPage(n, d, q, u)
    BY <1>4, <1>7 DEF FreedRange, P
  <1>9. Mapped(n) = Mapped(mem) \ gone
    <2>1. ASSUME NEW x \in Mapped(n) PROVE x \in Mapped(mem) /\ x \notin gone
      <3>1. /\ x[1] \in Envs /\ x[2] \in Regions /\ x[3] \in Slots
            /\ x = <<x[1], x[2], x[3]>> /\ HasPage(n, x[1], x[2], x[3])
        BY <1>4, SpaceSets
      <3>2. HasPage(mem, x[1], x[2], x[3]) /\ <<x[1], x[2], x[3]>> \notin gone
        BY <1>8, <3>1
      <3>3. <<x[1], x[2], x[3]>> \in Mapped(mem)
        BY <1>2, <3>1, <3>2, SpaceSets
      <3> QED
        BY <3>1, <3>2, <3>3
    <2>2. ASSUME NEW x \in Mapped(mem), x \notin gone PROVE x \in Mapped(n)
      <3>1. /\ x[1] \in Envs /\ x[2] \in Regions /\ x[3] \in Slots
            /\ x = <<x[1], x[2], x[3]>> /\ HasPage(mem, x[1], x[2], x[3])
        BY <1>2, SpaceSets
      <3>2. HasPage(n, x[1], x[2], x[3])
        BY <1>8, <2>2, <3>1
      <3>3. <<x[1], x[2], x[3]>> \in Mapped(n)
        BY <1>4, <3>1, <3>2, SpaceSets
      <3> QED
        BY <3>1, <3>3
    <2> QED
      BY <2>1, <2>2
  <1>10. \A x \in Mapped(n) : FrameOf(n, x) = FrameOf(mem, x)
    <2> TAKE x \in Mapped(n)
    <2>1. /\ x[1] \in Envs /\ x[2] \in Regions /\ x[3] \in Slots
          /\ x = <<x[1], x[2], x[3]>> /\ HasPage(n, x[1], x[2], x[3])
      BY <1>4, SpaceSets
    <2>2. Entry(n, x[1], x[2], x[3]) = Entry(mem, x[1], x[2], x[3])
      BY <1>8, <2>1
    <2>3. FrameOf(n, <<x[1], x[2], x[3]>>) = FrameOf(mem, <<x[1], x[2], x[3]>>)
      BY <1>2, <1>4, <2>1, <2>2, SpaceSets
    <2> QED
      BY <2>1, <2>3
  <1> DEFINE Left(y) == \/ \E x \in Mapped(n) : y = <<x[1], x[2]>>
                        \/ \A x \in gone : y # <<x[1], x[2]>>
  <1>11. ASSUME NEW d \in Envs, NEW q \in Regions
         PROVE  HasTable(n, d, q) <=> HasTable(mem, d, q) /\ Left(<<d, q>>)
    <2>1. (\E x \in Mapped(n) : <<d, q>> = <<x[1], x[2]>>)
             <=> \E u \in Slots : HasPage(n, d, q, u)
      <3>1. ASSUME NEW x \in Mapped(n), <<d, q>> = <<x[1], x[2]>>
            PROVE  \E u \in Slots : HasPage(n, d, q, u)
        <4>1. x[3] \in Slots /\ HasPage(n, x[1], x[2], x[3])
          BY <1>4, SpaceSets
        <4>2. x[1] = d /\ x[2] = q
          BY <3>1
        <4> QED
          BY <4>1, <4>2
      <3>2. ASSUME NEW u \in Slots, HasPage(n, d, q, u)
            PROVE  \E x \in Mapped(n) : <<d, q>> = <<x[1], x[2]>>
        <4>1. <<d, q, u>> \in Mapped(n)
          BY <1>4, <3>2, SpaceSets
        <4>2. <<d, q>> = << <<d, q, u>>[1], <<d, q, u>>[2] >>
          OBVIOUS
        <4> QED
          BY <4>1, <4>2
      <3> QED
        BY <3>1, <3>2
    <2>2. (\A x \in gone : <<d, q>> # <<x[1], x[2]>>)
             <=> ~(d = e /\ \E j \in 1 .. k : q = P(j)[1])
      <3>1. ASSUME NEW x \in gone, <<d, q>> = <<x[1], x[2]>>
            PROVE  d = e /\ \E j \in 1 .. k : q = P(j)[1]
        <4>1. PICK j \in 1 .. k : x = <<e, P(j)[1], P(j)[2]>>
          BY <1>6
        <4>2. x[1] = e /\ x[2] = P(j)[1] /\ d = x[1] /\ q = x[2]
          BY <3>1, <4>1
        <4> QED
          BY <4>2
      <3>2. ASSUME NEW j \in 1 .. k, d = e, q = P(j)[1]
            PROVE  \E x \in gone : <<d, q>> = <<x[1], x[2]>>
        <4> DEFINE x == <<e, P(j)[1], P(j)[2]>>
        <4>1. x \in gone
          BY <1>6
        <4>2. x[1] = d /\ x[2] = q
          BY <3>2
        <4> HIDE DEF x
        <4> QED
          BY <4>1, <4>2
      <3> QED
        BY <3>1, <3>2
    <2> QED
      BY <1>8, <2>1, <2>2
  <1>12. Present(n) = {y \in Present(mem) : Left(y)}
    <2> HIDE DEF Left
    <2>1. ASSUME NEW y \in Present(n) PROVE y \in Present(mem) /\ Left(y)
      <3>1. /\ y[1] \in Envs /\ y[2] \in Regions /\ y = <<y[1], y[2]>>
            /\ HasTable(n, y[1], y[2])
        BY <1>4, SpaceSets
      <3>2. HasTable(mem, y[1], y[2]) /\ Left(<<y[1], y[2]>>)
        BY <1>11, <3>1
      <3>3. <<y[1], y[2]>> \in Present(mem)
        BY <1>2, <3>1, <3>2, SpaceSets
      <3> QED
        BY <3>1, <3>2, <3>3
    <2>2. ASSUME NEW y \in Present(mem), Left(y) PROVE y \in Present(n)
      <3>1. /\ y[1] \in Envs /\ y[2] \in Regions /\ y = <<y[1], y[2]>>
            /\ HasTable(mem, y[1], y[2])
        BY <1>2, SpaceSets
      <3>2. HasTable(n, y[1], y[2])
        BY <1>11, <2>2, <3>1
      <3>3. <<y[1], y[2]>> \in Present(n)
        BY <1>4, <3>1, <3>2, SpaceSets
      <3> QED
        BY <3>1, <3>3
    <2> QED
      BY <2>1, <2>2
  <1> QED
    BY <1>9, <1>10, <1>12 DEF n, gone, first, k

-----------------------------------------------------------------------------
(* A range is used page by page: what that takes from the free list. *)

LEMMA TookLen ==
    ASSUME NEW m, m \in Mem, NEW n, NEW f, TookFrame(m, n, f)
    PROVE  Len(n.freeList) = Len(m.freeList) - 1
  <1>1. m.freeList \in Seq(Frames) /\ m.freeList # << >>
    BY MemFacts DEF TookFrame
  <1> QED
    BY <1>1, HeadTailProperties DEF TookFrame

\* A page of a table that is there takes one frame.
LEMMA NewPageExact ==
    ASSUME NEW m, Sound(m), Ok(m), NEW e \in Envs, NEW p \in UserPages,
           HasTable(m, e, p[1]), ~HasPage(m, e, p[1], p[2]),
           NEW n, n = NewPage(m, e, p), Ok(n)
    PROVE  /\ Len(n.freeList) = Len(m.freeList) - 1
           /\ \A d \in Envs, q \in Regions : HasTable(n, d, q) <=> HasTable(m, d, q)
           /\ \A d \in Envs, q \in Regions, u \in Slots :
                 HasPage(n, d, q, u) <=> HasPage(m, d, q, u) \/ (d = e /\ <<q, u>> = p)
  <1> DEFINE a == allocate_frame(m)
             f == Head(m.freeList)
             r == p[1]
             s == p[2]
  <1>0. r \in Regions /\ s \in Slots /\ m \in Mem /\ p = <<r, s>>
    BY EntryFacts DEF Sound, UserPages
  <1>1. n = IF Ok(a) THEN map_frame(a, e, f, p) ELSE a
    BY DEF NewPage, Then
  <1>2. Ok(a)
    BY <1>1
  <1>3. TookFrame(m, a, f)
    <2>1. a # Panic(m)
      BY <1>0, <1>2, EndedSame
    <2> QED
      BY <2>1, AllocateFrame
  <1> HIDE DEF a, f
  <1>4. /\ Sound(a) /\ Loose(a, f) /\ a.references[f] = 0
        /\ \A d \in Envs, q \in Regions : HasTable(a, d, q) <=> HasTable(m, d, q)
        /\ \A d \in Envs, q \in Regions, u \in Slots :
              HasPage(a, d, q, u) <=> HasPage(m, d, q, u)
    BY <1>3, TakeFrame
  <1>5. /\ n = map_frame(a, e, f, p) /\ a \in Mem
        /\ HasTable(a, e, r) /\ ~HasPage(a, e, r, s)
    BY <1>0, <1>1, <1>2, <1>4 DEF Sound
  <1>6. /\ a.dir[e][r] # NoFrame /\ a.dir[e][r] \notin NotPresent
        /\ ~Found(a, e, r, s) /\ EntryAt(a, e, p) = NoFrame /\ f # NoFrame
    BY <1>4, <1>5, Constants, EntryFacts DEF HasTable, Found, Loose
  <1>7. unmap_frame(a, e, p) = a
    BY <1>2, <1>4, <1>6, UnmapFrame
  <1>8. get_page_table(a, e, r).ret # "TABLE_NOT_EXIST"
    BY <1>0, <1>5, <1>6, GetPageTable
  <1>9. get_page_table(a, e, r).table # NoFrame
    <2>1. ASSUME get_page_table(a, e, r).table = NoFrame PROVE n = Down(a)
      BY <1>5, <1>8, <2>1 DEF map_frame
    <2> QED
      BY <1>5, <2>1, EndedSame
  <1>10. n = Enter(a, e, p, f)
    BY <1>5, <1>6, <1>7, <1>8, <1>9 DEF map_frame
  <1>11. AddedPage(a, n, e, r, s, f)
    BY <1>2, <1>4, <1>5, <1>10, EnterFrame
  <1>12. /\ \A d \in Envs, q \in Regions : HasTable(n, d, q) <=> HasTable(a, d, q)
         /\ \A d \in Envs, q \in Regions, u \in Slots :
               /\ HasPage(n, d, q, u) <=>
                     HasPage(a, d, q, u) \/ (d = e /\ q = r /\ u = s)
               /\ HasPage(a, d, q, u) => Entry(n, d, q, u) = Entry(a, d, q, u)
    BY <1>0, <1>4, <1>5, <1>11, EnterPage
  <1>13. Len(n.freeList) = Len(m.freeList) - 1
    BY <1>0, <1>3, <1>11, TookLen DEF AddedPage
  <1>14. \A q \in Regions, u \in Slots : <<q, u>> = p <=> q = r /\ u = s
    BY <1>0
  <1> QED
    BY <1>4, <1>12, <1>13, <1>14

\* A new table takes one frame.
LEMMA CreateExact ==
    ASSUME NEW m, Sound(m), Ok(m), NEW e \in Envs, NEW r \in Regions,
           ~HasTable(m, e, r), NEW n, n = create_page_table(m, e, r), Ok(n)
    PROVE  /\ Len(n.freeList) = Len(m.freeList) - 1
           /\ \A d \in Envs, q \in Regions :
                 HasTable(n, d, q) <=> HasTable(m, d, q) \/ (d = e /\ q = r)
           /\ \A d \in Envs, q \in Regions, u \in Slots :
                 HasPage(n, d, q, u) <=> HasPage(m, d, q, u)
  <1>1. PICK a, f : TookFrame(m, a, f) /\ AddedTable(a, n, e, r, f)
    BY CreatePageTable
  <1>2. /\ Sound(a) /\ Loose(a, f)
        /\ \A d \in Envs, q \in Regions : HasTable(a, d, q) <=> HasTable(m, d, q)
        /\ \A d \in Envs, q \in Regions, u \in Slots :
              HasPage(a, d, q, u) <=> HasPage(m, d, q, u)
    BY <1>1, TakeFrame
  <1>3. ~HasTable(a, e, r)
    BY <1>2
  <1>4. /\ \A d \in Envs, q \in Regions :
              /\ HasTable(n, d, q) <=> HasTable(a, d, q) \/ (d = e /\ q = r)
              /\ n.dir[d][q] = IF d = e /\ q = r THEN f ELSE a.dir[d][q]
        /\ \A d \in Envs, q \in Regions, u \in Slots :
              /\ HasPage(n, d, q, u) <=> HasPage(a, d, q, u)
              /\ HasPage(a, d, q, u) => Entry(n, d, q, u) = Entry(a, d, q, u)
    BY <1>1, <1>2, <1>3, NewTable
  <1>5. Len(n.freeList) = Len(m.freeList) - 1
    BY <1>1, TookLen DEF AddedTable, Sound
  <1> QED
    BY <1>2, <1>4, <1>5

\* What a program's use of a page does.
One(b) == IF b THEN 1 ELSE 0
Touched(m, n, e, p) ==
    /\ Len(n.freeList) = Len(m.freeList) - One(~HasTable(m, e, p[1]))
                                         - One(~HasPage(m, e, p[1], p[2]))
    /\ \A d \in Envs, q \in Regions :
          HasTable(n, d, q) <=> HasTable(m, d, q) \/ (d = e /\ q = p[1])
    /\ \A d \in Envs, q \in Regions, u \in Slots :
          HasPage(n, d, q, u) <=> HasPage(m, d, q, u) \/ (d = e /\ <<q, u>> = p)

LEMMA TouchExact ==
    ASSUME NEW m, Sound(m), Ok(m), NEW e \in Envs, NEW p \in UserPages,
           NEW n, n = Touch(m, e, p), Ok(n)
    PROVE  Touched(m, n, e, p)
  <1> DEFINE a == table_fault_handler(m, e, p)
             r == p[1]
             s == p[2]
  <1>0. /\ r \in Regions /\ s \in Slots /\ m \in Mem /\ p = <<r, s>>
        /\ Len(m.freeList) \in Nat
    BY EntryFacts, MemFacts DEF Sound, UserPages
  <1>1. n = IF Ok(a) THEN page_fault_handler(a, e, p) ELSE a
    BY DEF Touch, Then
  <1>2. Ok(a)
    BY <1>1
  <1>3. /\ Len(a.freeList) = Len(m.freeList) - One(~HasTable(m, e, r)) /\ Sound(a)
        /\ \A d \in Envs, q \in Regions :
              HasTable(a, d, q) <=> HasTable(m, d, q) \/ (d = e /\ q = r)
        /\ \A d \in Envs, q \in Regions, u \in Slots :
              HasPage(a, d, q, u) <=> HasPage(m, d, q, u)
    <2>1. CASE HasTable(m, e, r)
      <3>1. a = m
        BY <2>1, Constants DEF table_fault_handler, HasTable
      <3> QED
        BY <1>0, <2>1, <3>1 DEF One
    <2>2. CASE ~HasTable(m, e, r)
      <3>2. a = create_page_table(m, e, r)
        BY <2>2 DEF table_fault_handler, HasTable
      <3> HIDE DEF a, r
      <3>3. Sound(a)
        BY <1>0, <2>2, <3>2, CreateKeeps
      <3>4. /\ Len(a.freeList) = Len(m.freeList) - 1
            /\ \A d \in Envs, q \in Regions :
                  HasTable(a, d, q) <=> HasTable(m, d, q) \/ (d = e /\ q = r)
            /\ \A d \in Envs, q \in Regions, u \in Slots :
                  HasPage(a, d, q, u) <=> HasPage(m, d, q, u)
        BY <1>0, <1>2, <2>2, <3>2, CreateExact
      <3> QED
        BY <2>2, <3>3, <3>4 DEF One
    <2> QED
      BY <2>1, <2>2
  <1> HIDE DEF a
  <1>4. n = page_fault_handler(a, e, p) /\ HasTable(a, e, r)
    BY <1>0, <1>1, <1>2, <1>3
  <1>5. Len(a.freeList) \in Nat
    BY <1>3, MemFacts DEF Sound
  <1>6. CASE HasPage(a, e, r, s)
    <2>1. n = a
      BY <1>4, <1>6 DEF page_fault_handler, HasPage, Entry
    <2>2. One(~HasPage(m, e, r, s)) = 0
      BY <1>0, <1>3, <1>6 DEF One
    <2>3. \A d \in Envs, q \in Regions, u \in Slots :
             HasPage(n, d, q, u) <=> HasPage(m, d, q, u) \/ (d = e /\ <<q, u>> = p)
      BY <1>0, <1>3, <1>6, <2>1
    <2>4. Len(n.freeList) = Len(m.freeList) - One(~HasTable(m, e, r))
                                            - One(~HasPage(m, e, r, s))
      BY <1>3, <1>5, <2>1, <2>2
    <2> QED
      BY <1>3, <2>1, <2>3, <2>4 DEF Touched
  <1>7. CASE ~HasPage(a, e, r, s)
    <2>1. n = NewPage(a, e, p)
      BY <1>4, <1>7 DEF page_fault_handler, HasPage, Entry
    <2>2. One(~HasPage(m, e, r, s)) = 1
      BY <1>0, <1>3, <1>7 DEF One
    <2>3. /\ Len(n.freeList) = Len(a.freeList) - 1
          /\ \A d \in Envs, q \in Regions : HasTable(n, d, q) <=> HasTable(a, d, q)
          /\ \A d \in Envs, q \in Regions, u \in Slots :
                HasPage(n, d, q, u) <=> HasPage(a, d, q, u) \/ (d = e /\ <<q, u>> = p)
      BY <1>2, <1>3, <1>4, <1>7, <2>1, NewPageExact
    <2>4. Len(n.freeList) = Len(m.freeList) - One(~HasTable(m, e, r))
                                            - One(~HasPage(m, e, r, s))
      BY <1>3, <1>5, <2>2, <2>3
    <2>5. \A d \in Envs, q \in Regions :
             HasTable(n, d, q) <=> HasTable(m, d, q) \/ (d = e /\ q = r)
      BY <1>3, <2>3
    <2>6. \A d \in Envs, q \in Regions, u \in Slots :
             HasPage(n, d, q, u) <=> HasPage(m, d, q, u) \/ (d = e /\ <<q, u>> = p)
      BY <1>3, <2>3
    <2> QED
      BY <2>4, <2>5, <2>6 DEF Touched
  <1> QED
    BY <1>6, <1>7

\* Which region a page number lies in.
LEMMA RegionOf ==
    ASSUME NEW i \in Nat, NEW r \in Nat
    PROVE  i \div NSlots = r <=> r * NSlots <= i /\ i < (r + 1) * NSlots
  <1> DEFINE q == i \div NSlots
             w == i % NSlots
  <1>1. /\ NSlots \in Nat \ {0} /\ q \in Int /\ w \in 0 .. NSlots - 1
        /\ i = NSlots * q + w
    BY Constants
  <1> HIDE DEF q, w
  <1>2. (r + 1) * NSlots = r * NSlots + NSlots /\ r * NSlots \in Int
    BY <1>1
  <1>3. ASSUME q = r PROVE r * NSlots <= i /\ i < (r + 1) * NSlots
    <2>1. i = r * NSlots + w
      BY <1>1, <1>3
    <2> QED
      BY <1>1, <1>2, <2>1
  <1>4. ASSUME r * NSlots <= i, i < (r + 1) * NSlots, q < r PROVE FALSE
    <2>1. r - q - 1 >= 0 /\ r - q - 1 \in Int
      BY <1>1, <1>4
    <2>2. NSlots * (r - q - 1) >= 0
      BY <1>1, <2>1
    <2>3. r * NSlots >= NSlots * q + NSlots
      BY <1>1, <2>1, <2>2
    <2> QED
      BY <1>1, <1>2, <1>4, <2>3
  <1>5. ASSUME r * NSlots <= i, i < (r + 1) * NSlots, q > r PROVE FALSE
    <2>1. q - r - 1 >= 0 /\ q - r - 1 \in Int
      BY <1>1, <1>5
    <2>2. NSlots * (q - r - 1) >= 0
      BY <1>1, <2>1
    <2>3. NSlots * q >= r * NSlots + NSlots
      BY <1>1, <2>1, <2>2
    <2> QED
      BY <1>1, <1>2, <1>5, <2>3
  <1> QED
    BY <1>1, <1>3, <1>4, <1>5 DEF q

LEMMA PageAtOnce ==
    ASSUME NEW i \in Nat, NEW j \in Nat, PageAt(i) = PageAt(j)
    PROVE  i = j
  <1>1. /\ NSlots \in Nat \ {0}
        /\ i \div NSlots \in Int /\ j \div NSlots \in Int
        /\ i = NSlots * (i \div NSlots) + (i % NSlots)
        /\ j = NSlots * (j \div NSlots) + (j % NSlots)
    BY Constants
  <1>2. i \div NSlots = j \div NSlots /\ i % NSlots = j % NSlots
    BY DEF PageAt
  <1> DEFINE a == i \div NSlots
             b == j \div NSlots
             c == i % NSlots
             d == j % NSlots
  <1>3. a = b /\ c = d /\ i = NSlots * a + c /\ j = NSlots * b + d
    BY <1>1, <1>2
  <1> HIDE DEF a, b, c, d
  <1> QED
    BY <1>3

\* The pages of a range lie in the regions that calculate_required_frames
\* looks at.
LEMMA RegionsOfRange ==
    ASSUME NEW first \in Nat, NEW k \in Nat \ {0}, NEW r \in Regions
    PROVE  (\E j \in 1 .. k : r = PageAt(first + j - 1)[1])
              <=> r * NSlots < first + k /\ (r + 1) * NSlots > first
  <1>1. NSlots \in Nat \ {0} /\ r \in Nat /\ r * NSlots \in Nat
        /\ (r + 1) * NSlots = r * NSlots + NSlots
    BY Constants DEF Regions
  <1>2. \A i : PageAt(i)[1] = i \div NSlots
    BY DEF PageAt
  <1>3. ASSUME NEW j \in 1 .. k, r = PageAt(first + j - 1)[1]
        PROVE  r * NSlots < first + k /\ (r + 1) * NSlots > first
    <2>1. first + j - 1 \in Nat /\ (first + j - 1) \div NSlots = r
      BY <1>2, <1>3
    <2>2. r * NSlots <= first + j - 1 /\ first + j - 1 < (r + 1) * NSlots
      BY <1>1, <2>1, RegionOf
    <2> QED
      BY <1>1, <2>2
  <1>4. ASSUME r * NSlots < first + k, (r + 1) * NSlots > first
        PROVE  \E j \in 1 .. k : r = PageAt(first + j - 1)[1]
    <2> DEFINE i == IF r * NSlots <= first THEN first ELSE r * NSlots
               j == i - first + 1
    <2>1. /\ i \in Nat /\ j \in 1 .. k /\ first + j - 1 = i
          /\ r * NSlots <= i /\ i < (r + 1) * NSlots
      BY <1>1, <1>4
    <2> HIDE DEF i, j
    <2>2. i \div NSlots = r
      BY <1>1, <2>1, RegionOf
    <2> QED
      BY <1>2, <2>1, <2>2
  <1> QED
    BY <1>3, <1>4

\* The tables and pages that the first k pages of a range need.
NewTables(m, e, first, k) ==
    {r \in Regions : ~HasTable(m, e, r) /\ \E j \in 1 .. k : r = PageAt(first + j - 1)[1]}
NewPages(m, e, first, k) ==
    {i \in first .. first + k - 1 : ~HasPage(m, e, PageAt(i)[1], PageAt(i)[2])}

UsedRange(m, n, e, first, k) ==
    /\ \A d \in Envs, q \in Regions :
          HasTable(n, d, q) <=>
             \/ HasTable(m, d, q)
             \/ d = e /\ \E j \in 1 .. k : q = PageAt(first + j - 1)[1]
    /\ \A d \in Envs, q \in Regions, u \in Slots :
          HasPage(n, d, q, u) <=>
             \/ HasPage(m, d, q, u)
             \/ d = e /\ \E j \in 1 .. k : <<q, u>> = PageAt(first + j - 1)
    /\ Len(n.freeList) = Len(m.freeList) - Cardinality(NewTables(m, e, first, k))
                                         - Cardinality(NewPages(m, e, first, k))

LEMMA NeedsFinite ==
    ASSUME NEW m, NEW e, NEW first \in Nat, NEW k \in Nat
    PROVE  /\ IsFiniteSet(NewTables(m, e, first, k))
           /\ IsFiniteSet(NewPages(m, e, first, k))
           /\ Cardinality(NewTables(m, e, first, k)) \in Nat
           /\ Cardinality(NewPages(m, e, first, k)) \in Nat
  <1>0. {0, NRegions - 1, first, first + k - 1} \subseteq Int
    BY Constants
  <1>1. IsFiniteSet(Regions) /\ IsFiniteSet(first .. first + k - 1)
    BY <1>0, FS_Interval DEF Regions
  <1>2. /\ NewTables(m, e, first, k) \in SUBSET Regions
        /\ NewPages(m, e, first, k) \in SUBSET (first .. first + k - 1)
    BY DEF NewTables, NewPages
  <1>3. /\ IsFiniteSet(NewTables(m, e, first, k))
        /\ IsFiniteSet(NewPages(m, e, first, k))
    BY <1>1, <1>2, FS_Subset
  <1> QED
    BY <1>3, FS_CardinalityType

LEMMA UseNext ==
    ASSUME NEW m, m \in Mem, NEW a, NEW n, NEW e \in Envs,
           NEW first \in Nat, NEW k \in Nat,
           PageAt(first + (k + 1) - 1) \in UserPages,
           UsedRange(m, a, e, first, k),
           Touched(a, n, e, PageAt(first + (k + 1) - 1))
    PROVE  UsedRange(m, n, e, first, k + 1)
  <1> DEFINE p == PageAt(first + (k + 1) - 1)
             x == first + k
             In(q, u, c) == \E j \in 1 .. c : <<q, u>> = PageAt(first + j - 1)
             Of(q, c) == \E j \in 1 .. c : q = PageAt(first + j - 1)[1]
  <1>0. /\ first + (k + 1) - 1 = x /\ x \in Nat /\ p = PageAt(x)
        /\ p[1] \in Regions /\ p[2] \in Slots /\ p = <<p[1], p[2]>>
        /\ Len(m.freeList) \in Nat
    BY MemFacts DEF UserPages
  <1>1. \A j : j \in 1 .. k + 1 <=> j \in 1 .. k \/ j = k + 1
    OBVIOUS
  <1>2. \A q \in Regions, u \in Slots : In(q, u, k + 1) <=> In(q, u, k) \/ <<q, u>> = p
    BY <1>1
  <1>3. \A q \in Regions : Of(q, k + 1) <=> Of(q, k) \/ q = p[1]
    BY <1>1
  <1>4. ~In(p[1], p[2], k)
    <2> SUFFICES ASSUME NEW j \in 1 .. k, PageAt(x) = PageAt(first + j - 1)
                 PROVE  FALSE
      BY <1>0
    <2>1. first + j - 1 \in Nat /\ first + j - 1 # x
      OBVIOUS
    <2> HIDE DEF x
    <2> QED
      BY <1>0, <2>1, PageAtOnce
  <1> HIDE DEF p, In, Of
  <1>5. /\ Len(n.freeList) = Len(a.freeList) - One(~HasTable(a, e, p[1]))
                                             - One(~HasPage(a, e, p[1], p[2]))
        /\ \A d \in Envs, q \in Regions :
              HasTable(n, d, q) <=> HasTable(a, d, q) \/ (d = e /\ q = p[1])
        /\ \A d \in Envs, q \in Regions, u \in Slots :
              HasPage(n, d, q, u) <=> HasPage(a, d, q, u) \/ (d = e /\ <<q, u>> = p)
    BY DEF Touched, p
  <1>6. /\ \A d \in Envs, q \in Regions :
              HasTable(a, d, q) <=> HasTable(m, d, q) \/ (d = e /\ Of(q, k))
        /\ \A d \in Envs, q \in Regions, u \in Slots :
              HasPage(a, d, q, u) <=> HasPage(m, d, q, u) \/ (d = e /\ In(q, u, k))
        /\ Len(a.freeList) = Len(m.freeList) - Cardinality(NewTables(m, e, first, k))
                                             - Cardinality(NewPages(m, e, first, k))
    BY DEF UsedRange, In, Of
  <1>7. \A d \in Envs, q \in Regions :
           HasTable(n, d, q) <=> HasTable(m, d, q) \/ (d = e /\ Of(q, k + 1))
    BY <1>3, <1>5, <1>6
  <1>8. \A d \in Envs, q \in Regions, u \in Slots :
           HasPage(n, d, q, u) <=> HasPage(m, d, q, u) \/ (d = e /\ In(q, u, k + 1))
    BY <1>2, <1>5, <1>6
  <1> DEFINE T == NewTables(m, e, first, k)
             P == NewPages(m, e, first, k)
  <1>9. Cardinality(NewTables(m, e, first, k + 1)) =
           Cardinality(T) + One(~HasTable(a, e, p[1]))
    <2>1. \A c \in Nat : \A q : q \in NewTables(m, e, first, c) <=>
             q \in Regions /\ ~HasTable(m, e, q) /\ Of(q, c)
      BY DEF NewTables, Of
    <2>2. CASE HasTable(a, e, p[1])
      <3>1. \A q : q \in NewTables(m, e, first, k + 1) <=> q \in T
        <4>1. HasTable(m, e, p[1]) \/ Of(p[1], k)
          BY <1>0, <1>6, <2>2
        <4> QED
          BY <1>3, <2>1, <4>1
      <3>2. NewTables(m, e, first, k + 1) = T
        BY <3>1
      <3> QED
        BY <2>2, <3>2, NeedsFinite DEF One
    <2>3. CASE ~HasTable(a, e, p[1])
      <3>1. NewTables(m, e, first, k + 1) = T \cup {p[1]} /\ p[1] \notin T
        BY <1>0, <1>3, <1>6, <2>1, <2>3
      <3> QED
        BY <2>3, <3>1, NeedsFinite, FS_AddElement DEF One
    <2> QED
      BY <2>2, <2>3
  <1>10. Cardinality(NewPages(m, e, first, k + 1)) =
            Cardinality(P) + One(~HasPage(a, e, p[1], p[2]))
    <2>1. HasPage(a, e, p[1], p[2]) <=> HasPage(m, e, p[1], p[2])
      BY <1>0, <1>4, <1>6
    <2>2. \A i : i \in first .. first + (k + 1) - 1 <=>
                    i \in first .. first + k - 1 \/ i = x
      OBVIOUS
    <2>3. x \notin P /\ p = PageAt(x)
      BY <1>0 DEF NewPages
    <2> HIDE DEF x
    <2>4. CASE HasPage(a, e, p[1], p[2])
      <3>1. NewPages(m, e, first, k + 1) = P
        BY <2>1, <2>2, <2>3, <2>4 DEF NewPages
      <3> QED
        BY <2>4, <3>1, NeedsFinite DEF One
    <2>5. CASE ~HasPage(a, e, p[1], p[2])
      <3>1. NewPages(m, e, first, k + 1) = P \cup {x}
        BY <2>1, <2>2, <2>3, <2>5 DEF NewPages
      <3> QED
        BY <2>3, <2>5, <3>1, NeedsFinite, FS_AddElement DEF One
    <2> QED
      BY <2>4, <2>5
  <1>11. Len(n.freeList) =
            Len(m.freeList) - Cardinality(NewTables(m, e, first, k + 1))
                            - Cardinality(NewPages(m, e, first, k + 1))
    <2>1. Cardinality(T) \in Nat /\ Cardinality(P) \in Nat
      BY NeedsFinite
    <2>2. \A b \in BOOLEAN : One(b) \in Nat
      BY DEF One
    <2>3. /\ One(~HasTable(a, e, p[1])) \in Nat
          /\ One(~HasPage(a, e, p[1], p[2])) \in Nat
      BY DEF One
    <2> HIDE DEF T, P
    <2>4. Len(a.freeList) = Len(m.freeList) - Cardinality(T) - Cardinality(P)
      BY <1>6 DEF T, P
    <2> QED
      BY <1>0, <1>5, <1>9, <1>10, <2>1, <2>3, <2>4
  <1> QED
    BY <1>7, <1>8, <1>11 DEF UsedRange, In, Of

LEMMA UseRange ==
    ASSUME NEW m, Sound(m), Ok(m), NEW e \in Envs, NEW range \in Ranges,
           Ok(UseAll(m, e, range))
    PROVE  UsedRange(m, UseAll(m, e, range), e, range[1], range[2])
  <1> DEFINE first == range[1]
             k == range[2]
  <1>0. m \in Mem /\ Len(m.freeList) \in Nat
    BY MemFacts DEF Sound
  <1>1. /\ first \in Nat /\ k \in Nat \ {0}
        /\ \A j \in 1 .. k : PageAt(first + j - 1) \in UserPages
    BY RangeFacts
  <1>7. PICK h : Looked(h, FALSE, m, e, range) /\ UseAll(m, e, range) = h[range[2]]
    BY <1>1, AllPasses
  <1>2. /\ UseAll(m, e, range) = h[k] /\ h[0] = m
        /\ \A i \in 1 .. k : h[i] = Turn(FALSE, h[i - 1], e, first, i)
    BY <1>7 DEF Looked
  <1> DEFINE P(i) == /\ Sound(h[i])
                     /\ Ok(h[i]) => UsedRange(m, h[i], e, first, i)
             B == {i \in 0 .. k : ~P(i)}
  <1> HIDE DEF first, k
  <1>3. P(0)
    <2>1. ~\E j : j \in 1 .. 0
      OBVIOUS
    <2>2. ~\E j : j \in first .. first + 0 - 1
      BY <1>1
    <2>3. NewTables(m, e, first, 0) = {} /\ NewPages(m, e, first, 0) = {}
      BY <2>1, <2>2 DEF NewTables, NewPages
    <2>4. Len(m.freeList) = Len(m.freeList) - Cardinality(NewTables(m, e, first, 0))
                                            - Cardinality(NewPages(m, e, first, 0))
      <3>1. Cardinality({}) = 0
        BY FS_EmptySet
      <3>2. /\ Cardinality(NewTables(m, e, first, 0)) = 0
            /\ Cardinality(NewPages(m, e, first, 0)) = 0
        BY <2>3, <3>1, Zenon
      <3> QED
        BY <1>0, <3>2
    <2>5. UsedRange(m, m, e, first, 0)
      BY <2>1, <2>4 DEF UsedRange
    <2> QED
      BY <1>2, <2>5
  <1>4. ASSUME NEW i \in Nat, i + 1 \in 1 .. k, P(i)
        PROVE  P(i + 1)
    <2> DEFINE p == PageAt(first + (i + 1) - 1)
    <2>1. h[i + 1] = Turn(FALSE, h[i], e, first, i + 1) /\ p \in UserPages
      <3>1. (i + 1) - 1 = i
        BY <1>4
      <3>2. h[i + 1] = Turn(FALSE, h[(i + 1) - 1], e, first, i + 1) /\ p \in UserPages
        BY <1>1, <1>2, <1>4
      <3> QED
        BY <3>1, <3>2
    <2>2. h[i + 1] = IF Ok(h[i]) THEN Touch(h[i], e, p) ELSE h[i]
      BY <2>1 DEF Turn, Then
    <2>3. CASE ~Ok(h[i])
      BY <1>4, <2>2, <2>3
    <2>4. CASE Ok(h[i])
      <3>1. Sound(h[i + 1])
        BY <1>4, <2>1, <2>2, <2>4, TouchSound
      <3>2. ASSUME Ok(h[i + 1])
            PROVE  UsedRange(m, h[i + 1], e, first, i + 1)
        <4>1. UsedRange(m, h[i], e, first, i)
          BY <1>4, <2>4
        <4>2. Touched(h[i], h[i + 1], e, p)
          BY <1>4, <2>1, <2>2, <2>4, <3>2, TouchExact
        <4> QED
          BY <1>0, <1>1, <1>4, <2>1, <4>1, <4>2, UseNext
      <3> QED
        BY <3>1, <3>2
    <2> QED
      BY <2>3, <2>4
  <1> HIDE DEF P
  <1>5. ASSUME B # {}
        PROVE  FALSE
    <2>1. PICK j \in B : \A i \in B : j <= i
      <3>1. B \subseteq Nat
        BY <1>1
      <3> QED
        BY <1>5, <3>1, Least
    <2>2. j \in 0 .. k /\ j # 0 /\ j - 1 \in Nat /\ (j - 1) + 1 = j /\ j \in 1 .. k
      BY <1>1, <1>3, <2>1
    <2>3. P(j - 1)
      BY <1>1, <2>1, <2>2
    <2> QED
      BY <1>4, <2>1, <2>2, <2>3
  <1>6. P(k)
    BY <1>1, <1>5
  <1> QED
    BY <1>2, <1>6 DEF P, first, k

LEMMA SoundRequired ==
    ASSUME Sound(mem)
    PROVE  RequiredFramesExact
  <1> SUFFICES ASSUME Ok(mem), Findable(mem), NEW e \in Envs, NEW range \in Ranges,
                      Ok(UseAll(mem, e, range))
               PROVE  Len(mem.freeList) - Len(UseAll(mem, e, range).freeList)
                         = calculate_required_frames(mem, e, range)
    BY DEF RequiredFramesExact
  <1> DEFINE first == range[1]
             k == range[2]
             tables == {r \in Regions :
                          /\ r * NSlots < range[1] + range[2]
                          /\ (r + 1) * NSlots > range[1]
                          /\ get_page_table(mem, e, r).table = NoFrame}
             pages == {i \in range[1] .. range[1] + range[2] - 1 :
                          EntryAt(mem, e, PageAt(i)) = NoFrame}
             T == NewTables(mem, e, first, k)
             P == NewPages(mem, e, first, k)
  <1>1. /\ first \in Nat /\ k \in Nat \ {0} /\ mem \in Mem
        /\ Len(mem.freeList) \in Nat
        /\ \A j \in 1 .. k : PageAt(first + j - 1) \in UserPages
    BY RangeFacts, MemFacts DEF Sound
  <1>2. TablesFound(mem)
    BY <1>1, FoundTables
  <1>3. calculate_required_frames(mem, e, range) = Cardinality(tables) + Cardinality(pages)
    BY DEF calculate_required_frames
  <1>4. tables = T
    <2>1. \A r \in Regions :
             get_page_table(mem, e, r).table = NoFrame <=> ~HasTable(mem, e, r)
      BY <1>1, <1>2, GetPageTable DEF TablesFound
    <2>2. \A r \in Regions :
             (\E j \in 1 .. k : r = PageAt(first + j - 1)[1])
                <=> r * NSlots < first + k /\ (r + 1) * NSlots > first
      BY <1>1, RegionsOfRange
    <2> QED
      BY <2>1, <2>2 DEF NewTables
  <1>5. pages = P
    <2>1. ASSUME NEW i \in first .. first + k - 1
          PROVE  EntryAt(mem, e, PageAt(i)) = NoFrame
                    <=> ~HasPage(mem, e, PageAt(i)[1], PageAt(i)[2])
      <3> DEFINE p == PageAt(i)
      <3>1. p \in UserPages
        <4>1. i - first + 1 \in 1 .. k /\ first + (i - first + 1) - 1 = i
          BY <1>1, <2>1
        <4> QED
          BY <1>1, <4>1
      <3> HIDE DEF p
      <3>2. p[1] \in Regions /\ p[2] \in Slots
        BY <1>1, <3>1, EntryFacts
      <3>3. Found(mem, e, p[1], p[2]) <=> EntryAt(mem, e, p) # NoFrame
        BY <1>1, <3>1, EntryFacts
      <3>4. HasPage(mem, e, p[1], p[2]) => get_page_table(mem, e, p[1]).table # NoFrame
        BY <1>1, <1>2, <3>2, GetPageTable DEF TablesFound, HasPage
      <3>5. EntryAt(mem, e, p) = NoFrame <=> ~HasPage(mem, e, p[1], p[2])
        BY <3>3, <3>4 DEF Found
      <3> QED
        BY <3>5 DEF p
    <2> QED
      BY <2>1 DEF NewPages
  <1>6. /\ Len(UseAll(mem, e, range).freeList)
              = Len(mem.freeList) - Cardinality(T) - Cardinality(P)
        /\ Cardinality(T) \in Nat /\ Cardinality(P) \in Nat
    BY <1>1, UseRange, NeedsFinite DEF UsedRange
  <1> HIDE DEF tables, pages, T, P
  <1> QED
    BY <1>1, <1>3, <1>4, <1>5, <1>6

-----------------------------------------------------------------------------
(* The theorems. *)

\* Whatever programs and the prompt do through map_frame, unmap_frame,
\* create_page_table and freeMem, no two pages share a frame, no page is a
\* page table, no two directory entries name one table, no frame in use is in
\* free_frame_list and every frame in use has one reference, until a second rut
\* of one table takes a frame away from the page or table that has it by then.
THEOREM AlwaysApart == Spec => []SpacesApart
  <1>1. (Ok(mem) => Sound(mem)) => SpacesApart
    BY SoundApart DEF SpacesApart
  <1> QED
    BY <1>1, AlwaysSound, PTL

\* In every reachable memory, unless the call panics or faults: mapping a new
\* page, using an address and freeMem over any range lose no frame that was free
\* or in use; a refused __sys_allocate_page loses the one it took; rut loses the
\* pages of the table, and the table only if the kernel heap does not find it.
THEOREM NeverLost == Spec => []NothingLost
  <1>1. (Ok(mem) => Sound(mem)) => NothingLost
    BY SoundKeeps DEF NothingLost
  <1> QED
    BY <1>1, AlwaysSound, PTL

\* In every reachable memory whose page tables the kernel heap finds, freeMem
\* removes exactly the pages of its range, wherever it begins and ends, and
\* the tables that it leaves without a page.
THEOREM FreesExactly == Spec => []FreeMemExact
  <1>1. (Ok(mem) => Sound(mem)) => FreeMemExact
    BY SoundFrees DEF FreeMemExact
  <1> QED
    BY <1>1, AlwaysSound, PTL

\* In every reachable memory whose page tables the kernel heap finds, the
\* frames that calculate_required_frames announces for a range, pages and
\* tables, are those that using every page of it takes from free_frame_list.
THEOREM AnnouncesExactly == Spec => []RequiredFramesExact
  <1>1. (Ok(mem) => Sound(mem)) => RequiredFramesExact
    BY SoundRequired DEF RequiredFramesExact
  <1> QED
    BY <1>1, AlwaysSound, PTL
=============================================================================
