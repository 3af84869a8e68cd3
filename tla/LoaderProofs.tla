---------------------------- MODULE LoaderProofs ---------------------------
(***************************************************************************)
(* Proofs about Loader, for any page size, width of addresses, program,    *)
(* working set and number of frames.                                       *)
(***************************************************************************)
EXTENDS Loader, TLAPS

-----------------------------------------------------------------------------
(* Pages and addresses. *)

Aligned(a) == a % P = 0

\* The numbers of LoaderAssumption, without what it says of programs.
LEMMA Sizes ==
    /\ P \in Nat \ {0} /\ Width \in Nat \ {0} /\ StackPage \in Nat
    /\ Cap \in Nat /\ WSSizes \subseteq Nat \ {0}
  BY LoaderAssumption

\* A page number is natural, so NoPage is none.
LEMMA PagesNatural == \A p \in Pages : p \in Nat /\ p # NoPage
  BY DEF Pages, NoPage

\* Quotient and remainder exist, and they are unique.
LEMMA Division ==
    /\ \A a \in Nat : /\ a \div P \in Nat /\ a % P \in 0 .. P - 1
                      /\ a = P * (a \div P) + (a % P)
    /\ \A a, q \in Int : \A r \in 0 .. P - 1 :
          a = P * q + r => a % P = r /\ a \div P = q
  BY LoaderAssumption

\* The multiples of P are P apart.
LEMMA AlignedApart ==
    ASSUME NEW a \in Nat, NEW b \in Nat, Aligned(a), Aligned(b), a < b
    PROVE  a + P <= b
<1> DEFINE q == a \div P
           r == b \div P
<1>1. P \in Nat \ {0}
  BY Sizes
<1>2. q \in Nat /\ r \in Nat /\ a = P * q /\ b = P * r
  <2>1. /\ q \in Nat /\ a = P * q + 0
        /\ r \in Nat /\ b = P * r + 0
    BY Division DEF Aligned
  <2> HIDE DEF q, r
  <2> QED
    BY <1>1, <2>1
<1> HIDE DEF q, r
<1>3. q < r
  <2> SUFFICES ASSUME r <= q PROVE FALSE
    BY <1>2
  <2>1. P * r <= P * q
    BY <1>1, <1>2
  <2> QED
    BY <1>2, <2>1
<1>4. P * (q + 1) <= P * r
  BY <1>1, <1>2, <1>3
<1>5. P * (q + 1) = P * q + P
  BY <1>1, <1>2
<1> QED
  BY <1>2, <1>4, <1>5

\* Multiples of P add up.
LEMMA AlignedSum ==
    ASSUME NEW a \in Nat, NEW b \in Nat, Aligned(a), Aligned(b)
    PROVE  Aligned(a + b)
<1> DEFINE q == a \div P
           r == b \div P
<1>1. P \in Nat \ {0}
  BY Sizes
<1>2. q \in Nat /\ r \in Nat /\ a = P * q /\ b = P * r
  <2>1. /\ q \in Nat /\ a = P * q + 0
        /\ r \in Nat /\ b = P * r + 0
    BY Division DEF Aligned
  <2> HIDE DEF q, r
  <2> QED
    BY <1>1, <2>1
<1> HIDE DEF q, r
<1>3. a + b = P * (q + r) + 0 /\ q + r \in Int /\ 0 \in 0 .. P - 1
  BY <1>1, <1>2
<1> QED
  BY <1>3, Division DEF Aligned

\* 0 and P are multiples of P, and so is p * P.
LEMMA Multiples ==
    /\ Aligned(0) /\ Aligned(P)
    /\ \A p \in Nat : p * P \in Nat /\ Aligned(p * P) /\ Page(p * P) = p
<1>1. P \in Nat \ {0}
  BY Sizes
<1>2. 0 = P * 0 + 0 /\ P = P * 1 + 0 /\ 0 \in 0 .. P - 1
  BY <1>1
<1>3. \A p \in Nat : p * P = P * p + 0 /\ p * P \in Nat
  BY <1>1
<1> QED
  BY <1>1, <1>2, <1>3, Division DEF Aligned, Page

\* ROUNDDOWN.
LEMMA Down ==
    ASSUME NEW a \in Nat
    PROVE  /\ RoundDown(a) \in Nat /\ Aligned(RoundDown(a))
           /\ RoundDown(a) = a - (a % P) /\ a % P \in 0 .. P - 1
           /\ RoundDown(a) <= a /\ a < RoundDown(a) + P
<1> DEFINE q == a \div P
           r == a % P
<1>1. P \in Nat \ {0}
  BY Sizes
<1>2. q \in Nat /\ r \in 0 .. P - 1 /\ a = P * q + r
  BY Division
<1>3. RoundDown(a) = a - r
  BY DEF RoundDown
<1> HIDE DEF q, r
<1>4. RoundDown(a) = P * q + 0 /\ 0 \in 0 .. P - 1
  BY <1>1, <1>2, <1>3
<1>5. P * q \in Nat
  BY <1>1, <1>2
<1>6. RoundDown(a) \in Nat /\ Aligned(RoundDown(a))
  BY <1>2, <1>4, <1>5, Division DEF Aligned
<1> QED
  BY <1>1, <1>2, <1>3, <1>6 DEF r

\* ROUNDUP, where it does not wrap.
LEMMA Up ==
    ASSUME NEW a \in Nat, a + P <= Width
    PROVE  /\ RoundUp(a) \in Nat /\ Aligned(RoundUp(a))
           /\ a <= RoundUp(a) /\ RoundUp(a) < a + P
           /\ RoundUp(a) = IF Aligned(a) THEN a ELSE RoundDown(a) + P
<1>1. P \in Nat \ {0} /\ Width \in Nat
  BY Sizes
<1>2. a + P - 1 \in Nat /\ a + P - 1 < Width
  BY <1>1
<1>3. (a + P - 1) % Width = a + P - 1
  BY <1>1, <1>2
<1>4. RoundUp(a) = RoundDown(a + P - 1)
  BY <1>3 DEF RoundUp
<1> DEFINE u == RoundUp(a)
<1>5. u \in Nat /\ Aligned(u) /\ a <= u /\ u < a + P
  <2> DEFINE b == a + P - 1
  <2>1. b \in Nat /\ RoundUp(a) = RoundDown(b)
    BY <1>2, <1>4
  <2> HIDE DEF b
  <2>2. u \in Nat /\ Aligned(u) /\ u <= b /\ b < u + P
    BY <2>1, Down
  <2> HIDE DEF u
  <2> QED
    BY <1>1, <2>2 DEF b
<1> HIDE DEF u
<1>6. CASE Aligned(a)
  <2>1. ~(a < u)
    BY <1>1, <1>5, <1>6, AlignedApart
  <2> QED
    BY <1>5, <1>6, <2>1 DEF u
<1>7. CASE ~Aligned(a)
  <2> DEFINE d == RoundDown(a)
  <2>1. d \in Nat /\ Aligned(d) /\ d <= a /\ a < d + P
    BY Down
  <2>2. d # a
    BY <1>7, <2>1
  <2> HIDE DEF d
  <2>3. d + P <= u
    BY <1>5, <2>1, <2>2, AlignedApart
  <2>4. d + P \in Nat /\ Aligned(d + P)
    BY <1>1, <2>1, Multiples, AlignedSum
  <2>5. ~(d + P < u)
    BY <1>1, <1>5, <2>1, <2>4, AlignedApart
  <2> QED
    BY <1>1, <1>5, <1>7, <2>3, <2>1, <2>5 DEF u, d
<1> QED
  BY <1>6, <1>7

\* The bytes of the page at t are those from t to t + P, in this order; those
\* before t are on earlier pages.
LEMMA PageBytes ==
    ASSUME NEW a \in Nat, NEW t \in Nat, Aligned(t)
    PROVE  /\ Page(a) \in Nat /\ a = Page(a) * P + (a % P) /\ a % P \in 0 .. P - 1
           /\ Page(t) * P = t
           /\ a < t => Page(a) < Page(t)
           /\ t <= a /\ a < t + P => Page(a) = Page(t) /\ a % P = a - t
<1> DEFINE p == Page(a)
           r == a % P
           u == Page(t)
<1>1. P \in Nat \ {0}
  BY Sizes
<1>2. /\ p \in Nat /\ r \in 0 .. P - 1 /\ a = P * p + r
      /\ u \in Nat /\ t = P * u + 0
  BY Division DEF Page, Aligned
<1> HIDE DEF p, r, u
<1>3. P * p = p * P /\ P * u = u * P
  BY <1>1, <1>2
<1>4. ASSUME a < t PROVE p < u
  <2> SUFFICES ASSUME u <= p PROVE FALSE
    BY <1>2
  <2>1. P * u <= P * p
    BY <1>1, <1>2
  <2> QED
    BY <1>1, <1>2, <1>4, <2>1
<1>5. ASSUME t <= a, a < t + P PROVE p = u /\ r = a - t
  <2>1. a = P * u + (a - t) /\ a - t \in 0 .. P - 1
    BY <1>1, <1>2, <1>5
  <2> QED
    BY <1>2, <2>1, Division DEF p, r, Page
<1> QED
  BY <1>1, <1>2, <1>3, <1>4, <1>5 DEF p, r, u

\* Addresses below Width are on pages of the address space.
LEMMA PageInRange ==
    ASSUME NEW a \in 0 .. Width - 1
    PROVE  Page(a) \in Pages
<1> DEFINE w == Width \div P
           p == Page(a)
<1>1. P \in Nat \ {0} /\ Width \in Nat /\ a \in Nat
  BY Sizes
<1>2. w \in Nat /\ Width = P * w
  BY <1>1, Division, LoaderAssumption
<1>3. p \in Nat /\ a >= P * p
  BY <1>1, Division DEF Page
<1> HIDE DEF w, p
<1>4. p < w
  <2> SUFFICES ASSUME w <= p PROVE FALSE
    BY <1>2, <1>3
  <2>1. P * w <= P * p
    BY <1>1, <1>2, <1>3
  <2> QED
    BY <1>1, <1>2, <1>3, <2>1
<1> QED
  BY <1>2, <1>3, <1>4 DEF Pages, p, w

\* The stack's page lies below Width.
LEMMA StackInRange ==
    /\ StackPage \in Pages /\ StackPage \in Nat
    /\ StackPage * P \in Nat /\ Aligned(StackPage * P) /\ StackPage * P + P <= Width
    /\ Page(StackPage * P) = StackPage
<1> DEFINE w == Width \div P
           k == StackPage
<1>1. P \in Nat \ {0} /\ Width \in Nat
  BY Sizes
<1>2. w \in Nat /\ Width = P * w
  BY <1>1, Division, LoaderAssumption
<1>3. k \in Nat /\ k + 1 <= w /\ k \in Pages
  BY <1>2, LoaderAssumption DEF Pages
<1> HIDE DEF w, k
<1>4. P * (k + 1) <= P * w
  BY <1>1, <1>2, <1>3
<1>5. P * (k + 1) = k * P + P
  BY <1>1, <1>3
<1>6. k * P \in Nat /\ Aligned(k * P) /\ Page(k * P) = k
  BY <1>3, Multiples
<1> QED
  BY <1>2, <1>3, <1>4, <1>5, <1>6 DEF k

-----------------------------------------------------------------------------
(* Segments. *)

\* What LoaderAssumption says of a segment.
LEMMA Layout ==
    ASSUME NEW g \in Programs, NEW s \in 1 .. Len(g)
    PROVE  /\ Len(g) \in Nat
           /\ g[s].va \in Nat /\ g[s].file \in Nat /\ g[s].mem \in Nat
           /\ g[s].file <= g[s].mem
           /\ g[s].va + g[s].mem <= StackPage * P
           /\ g[s].va + g[s].mem + P <= Width
           /\ ~Aligned(g[s].va) => (g[s].va % P) + g[s].file > P
           /\ \A t \in 1 .. s - 1 :
                 t \in 1 .. Len(g) /\ g[t].va + g[t].mem <= RoundDown(g[s].va)
<1>1. P \in Nat \ {0} /\ Width \in Nat
  BY Sizes
<1>2. Len(g) \in Nat /\ g[s] \in [va : Nat, file : Nat, mem : Nat]
  <2> DEFINE segments == [va : Nat, file : Nat, mem : Nat]
  <2>1. g \in Seq(segments)
    BY LoaderAssumption
  <2> HIDE DEF segments
  <2>2. Len(g) \in Nat /\ g[s] \in segments
    BY <2>1
  <2> QED
    BY <2>2 DEF segments
<1>3. /\ g[s].file <= g[s].mem /\ g[s].va + g[s].mem <= StackPage * P
      /\ g[s].va % P # 0 => (g[s].va % P) + g[s].file > P
      /\ \A t \in 1 .. s - 1 : g[t].va + g[t].mem <= g[s].va - (g[s].va % P)
  BY LoaderAssumption
<1>4. g[s].va + g[s].mem + P <= Width
  BY <1>1, <1>2, <1>3, StackInRange
<1>5. \A t \in 1 .. s - 1 : t \in 1 .. Len(g)
  BY <1>2
<1> QED
  BY <1>2, <1>3, <1>4, <1>5 DEF Aligned, RoundDown

\* Where the loop over the pages behind the file data ends: not before the end
\* of the segment, also when the difference is below zero.
RestEnd == RoundUp(EndOfFile) + RoundUp(RemainingLength)

\* That end is a page boundary below Width, at or behind the segment's end.
LEMMA RestEnds ==
    ASSUME prog \in Programs, seg \in 1 .. Len(prog)
    PROVE  /\ RestEnd \in Nat /\ Aligned(RestEnd) /\ RestEnd < Width
           /\ Seg.va + Seg.mem <= RestEnd /\ RoundUp(EndOfFile) <= RestEnd
<1> DEFINE f == EndOfFile
           m == Seg.va + Seg.mem
           r == RoundUp(EndOfFile)
<1>1. P \in Nat \ {0} /\ Width \in Nat \ {0}
  BY Sizes
<1>2. f \in Nat /\ m \in Nat /\ f <= m /\ m + P <= Width
  BY Layout DEF EndOfFile, Seg
<1>3. r \in Nat /\ Aligned(r) /\ f <= r /\ r < f + P
  BY <1>1, <1>2, Up
<1>4. RemainingLength = (m - r) % Width /\ RestEnd = r + RoundUp(RemainingLength)
  <2>1. RestEnd = r + RoundUp(RemainingLength)
    BY DEF RestEnd
  <2>2. RemainingLength = (m - r) % Width
    <3>1. Seg.va \in Nat /\ Seg.mem \in Nat /\ r \in Nat
      BY <1>3, Layout DEF Seg
    <3> HIDE DEF r
    <3>2. RemainingLength = (Seg.va + (Seg.mem - r)) % Width
      BY DEF RemainingLength, r
    <3>3. Seg.va + (Seg.mem - r) = (Seg.va + Seg.mem) - r
      BY <3>1
    <3> QED
      BY <3>2, <3>3
  <2> QED
    BY <2>1, <2>2
<1> SUFFICES /\ RestEnd \in Nat /\ Aligned(RestEnd) /\ RestEnd < Width
             /\ m <= RestEnd /\ r <= RestEnd
  OBVIOUS
<1> HIDE DEF f, m, r
<1>6. CASE r <= m
  <2> DEFINE d == m - r
  <2>1. d \in Nat /\ d < Width /\ d + P <= Width /\ RemainingLength = d
    BY <1>1, <1>2, <1>3, <1>4, <1>6
  <2> HIDE DEF d
  <2>2. /\ RoundUp(d) \in Nat /\ Aligned(RoundUp(d))
        /\ d <= RoundUp(d) /\ RoundUp(d) < d + P
    BY <2>1, Up
  <2>3. Aligned(r + RoundUp(d))
    BY <1>3, <2>2, AlignedSum
  <2> QED
    <3>1. RestEnd = r + RoundUp(d) /\ Aligned(RestEnd)
      BY <1>4, <2>1, <2>3
    <3>2. d = m - r
      BY DEF d
    <3> QED
      BY <1>1, <1>2, <1>3, <1>6, <2>1, <2>2, <3>1, <3>2
<1>7. CASE m < r
  <2> DEFINE e == Width + m - r
             c == e + P - 1
             b == m - r + P - 1
  <2>1. /\ e \in Nat /\ e < Width /\ m - r = Width * (-1) + e
        /\ b \in 0 .. P - 1 /\ c = Width + b /\ b < Width
    BY <1>1, <1>2, <1>3, <1>7
  <2>2. RemainingLength = e
    BY <1>1, <1>2, <1>3, <1>4, <2>1
  <2> HIDE DEF e, b
  <2>3. c % Width = b
    BY <1>1, <2>1
  <2>4. RoundUp(e) = RoundDown(b)
    BY <2>3 DEF RoundUp
  <2>5. b = P * 0 + b
    BY <1>1, <2>1
  <2>6. RoundDown(b) = 0
    BY <2>1, <2>5, Division DEF RoundDown
  <2> QED
    BY <1>1, <1>2, <1>3, <1>4, <1>7, <2>2, <2>4, <2>6
<1> QED
  BY <1>2, <1>3, <1>6, <1>7

-----------------------------------------------------------------------------
(* The inductive invariant. *)

Beginning == {"directory", "ws", "wstable"}
Filing == {"first", "middle", "last", "rest"}
Ending == {"stackfile", "done"}

End == Seg.va + Seg.mem

\* TypeOK and what else the values are.
Types ==
    /\ TypeOK
    /\ prog \in Programs /\ wsMax \in WSSizes
    /\ pc \in Beginning \cup {"map", "stack", "panic"} \cup Filing \cup Ending
    /\ seg \in 1 .. Len(prog) /\ pages \in Nat /\ src \in Int /\ hand \in BOOLEAN
    /\ Aligned(va)
    /\ mem = [p \in Pages |-> mem[p]]
    /\ file = [p \in Pages |-> file[p]]

\* The working set lists the memory; until the stack comes, the entries from
\* last on are empty, one of them for the stack.
Entries ==
    /\ \A p \in mapped : \E i \in 0 .. wsMax - 1 : ws[i] = p
    /\ \A i \in 0 .. wsMax - 1 : ws[i] # NoPage => ws[i] \in mapped
    /\ pc \notin Ending \cup {"panic"} => \A i \in last .. wsMax - 1 : ws[i] = NoPage
    /\ pc \in Beginning => last = 0 /\ pages = 0
    /\ pc \in {"map", "stack"} \cup Filing => last = Room - left + pages /\ pages <= left
    /\ pc \in Filing \cup {"stack"} => pages = 0
    /\ pc = "map" /\ hand => MoreToMap
    /\ pc \in Beginning \cup Filing => ~hand
    /\ pc \in Ending => StackPage \in mapped

\* Where the loops are.
Place ==
    /\ pc = "map" => va = RoundDown(Seg.va) + pages * P
    /\ pc \in {"middle", "last"} => /\ src = va - Seg.va
                                    /\ Seg.va <= va /\ va <= StartOfLast
    /\ pc = "last" => va = StartOfLast
    /\ pc = "rest" => EndOfFile <= va /\ va <= RestEnd
    /\ pc \in {"stack"} \cup Ending => seg = Len(prog)
    /\ pc \in {"stack", "stackfile"} => va = StackPage * P
    /\ pc \in Beginning => seg = 1

\* Pages in memory are those the loop has passed.
Below ==
    /\ pc \in Beginning => mapped = {}
    /\ pc = "map" => \A p \in mapped : p * P < va /\ p * P < End
    /\ pc \in Filing => \A p \in mapped : p * P < End
    /\ pc = "stack" => \A p \in mapped : p < StackPage

InMemory(s) ==
    \A a \in Span(s) : Page(a) \in mapped => mem[Page(a)][a % P] = Expected(s, a)

Copied ==
    /\ pc = "map" => \A s \in 1 .. seg - 1 : InMemory(s)
    /\ pc \in Filing => \A s \in 1 .. seg : InMemory(s)
    /\ pc \in {"stack"} \cup Ending => \A s \in 1 .. Len(prog) : InMemory(s)

\* The bytes of segment s below address b are in the page file.
InPageFile(s, b) ==
    \A a \in Span(s) : a < b => /\ Page(a) \in inFile
                                /\ file[Page(a)][a % P] = Expected(s, a)

Filed ==
    /\ pc \in {"map"} \cup Filing => \A s \in 1 .. seg - 1 : InPageFile(s, Width)
    /\ pc \in {"middle", "last", "rest"} => InPageFile(seg, va)
    /\ pc \in {"stack"} \cup Ending => \A s \in 1 .. Len(prog) : InPageFile(s, Width)

IInv == Types /\ Entries /\ Place /\ Below /\ Copied /\ Filed

-----------------------------------------------------------------------------
(* Facts for several actions. *)

\* ROUNDDOWN is the last page boundary.
LEMMA DownLargest ==
    ASSUME NEW a \in Nat, NEW t \in Nat, Aligned(t), t <= a
    PROVE  t <= RoundDown(a)
<1> DEFINE d == RoundDown(a)
<1>1. d \in Nat /\ Aligned(d) /\ a < d + P
  BY Down
<1> HIDE DEF d
<1>2. P \in Nat
  BY Sizes
<1> SUFFICES ASSUME d < t PROVE FALSE
  BY <1>1 DEF d
<1> QED
  BY <1>1, <1>2, AlignedApart

\* The numbers of the segment in hand.
LEMMA SegmentFacts ==
    ASSUME Types
    PROVE  /\ P \in Nat \ {0} /\ Width \in Nat
           /\ Seg.va \in Nat /\ Seg.file \in Nat /\ Seg.mem \in Nat
           /\ EndOfFile = Seg.va + Seg.file /\ End = Seg.va + Seg.mem
           /\ EndOfFile \in Nat /\ End \in Nat /\ EndOfFile <= End
           /\ End <= StackPage * P /\ End + P <= Width
           /\ ~Aligned(Seg.va) => (Seg.va % P) + Seg.file > P
           /\ StartOfLast \in Nat /\ Aligned(StartOfLast)
           /\ StartOfLast <= EndOfFile /\ EndOfFile < StartOfLast + P
           /\ va \in Nat
<1>1. P \in Nat \ {0} /\ Width \in Nat
  BY Sizes
<1>2. /\ Seg.va \in Nat /\ Seg.file \in Nat /\ Seg.mem \in Nat
      /\ Seg.file <= Seg.mem /\ Seg.va + Seg.mem <= StackPage * P
      /\ Seg.va + Seg.mem + P <= Width
      /\ ~Aligned(Seg.va) => (Seg.va % P) + Seg.file > P
  BY Layout DEF Types, Seg
<1>3. EndOfFile = Seg.va + Seg.file /\ EndOfFile \in Nat
  BY <1>2 DEF EndOfFile
<1>4. /\ StartOfLast \in Nat /\ Aligned(StartOfLast)
      /\ StartOfLast <= EndOfFile /\ EndOfFile < StartOfLast + P
  BY <1>3, Down DEF StartOfLast
<1>5. va \in Nat
  BY <1>1 DEF Types, TypeOK
<1>6. End = Seg.va + Seg.mem
  BY DEF End
<1> QED
  BY <1>1, <1>2, <1>3, <1>4, <1>5, <1>6

\* As long as program and segment stay, so does what is computed from them.
LEMMA SameSegment ==
    ASSUME UNCHANGED <<prog, seg>>
    PROVE  /\ Seg' = Seg /\ EndOfFile' = EndOfFile /\ End' = End
           /\ StartOfLast' = StartOfLast /\ RestEnd' = RestEnd
<1>1. Seg' = Seg
  BY DEF Seg
<1>2. EndOfFile' = EndOfFile /\ End' = End
  BY <1>1 DEF EndOfFile, End
<1>3. StartOfLast' = StartOfLast
  BY <1>2 DEF StartOfLast
<1>4. RemainingLength' = RemainingLength
  BY <1>1, <1>2 DEF RemainingLength
<1> QED
  BY <1>1, <1>2, <1>3, <1>4 DEF RestEnd

\* Contents that stay are as good as before.
LEMMA SameMemory ==
    ASSUME UNCHANGED <<prog, mapped, mem>>, NEW s, InMemory(s)
    PROVE  InMemory(s)'
  BY DEF InMemory, Span, Expected

\* The same of a whole segment in the page file.
LEMMA SameFile ==
    ASSUME UNCHANGED <<prog, inFile, file>>, NEW s, InPageFile(s, Width)
    PROVE  InPageFile(s, Width)'
  BY DEF InPageFile, Span, Expected

\* The same of the part of the current segment written so far.
LEMMA SameFileHere ==
    ASSUME UNCHANGED <<prog, seg, va, inFile, file>>, InPageFile(seg, va)
    PROVE  InPageFile(seg, va)'
  BY DEF InPageFile, Span, Expected

\* Steps that only take frames, or add to tables.
LEMMA Stays ==
    ASSUME IInv,
           UNCHANGED <<prog, wsMax, pc, seg, va, src, pages, left, tpp>>,
           UNCHANGED <<ws, last, mapped, mem, inFile, file>>,
           hand' \in BOOLEAN,
           hand' => hand \/ pc = "stack" \/ (pc = "map" /\ MoreToMap),
           frames' \in Nat, disk' \in Nat
    PROVE  IInv'
<1>1. Types'
  BY DEF IInv, Types, TypeOK
<1>2. MoreToMap' = MoreToMap /\ Room' = Room
  BY DEF MoreToMap, SegmentRoom, Seg, Room
<1>3. Entries'
  BY <1>2 DEF IInv, Entries, Beginning, Filing, Ending
<1>4. Place'
  BY SameSegment DEF IInv, Place
<1>5. Below'
  BY SameSegment DEF IInv, Below
<1>6. Copied'
  BY SameMemory DEF IInv, Copied
<1>7. Filed'
  BY SameFile, SameFileHere DEF IInv, Filed
<1> QED
  BY <1>1, <1>3, <1>4, <1>5, <1>6, <1>7 DEF IInv

\* After a panic only the ranges and the list of pages matter.
LEMMA Panics ==
    ASSUME Types', pc' = "panic",
           (\A p \in mapped : \E i \in 0 .. wsMax - 1 : ws[i] = p)',
           (\A i \in 0 .. wsMax - 1 : ws[i] # NoPage => ws[i] \in mapped)'
    PROVE  IInv'
<1>1. pc' \notin Beginning \cup {"map", "stack"} \cup Filing \cup Ending
  BY DEF Beginning, Filing, Ending
<1>2. Entries'
  BY <1>1 DEF Entries
<1>3. Place' /\ Below' /\ Copied' /\ Filed'
  BY <1>1 DEF Place, Below, Copied, Filed, Filing
<1> QED
  BY <1>2, <1>3 DEF IInv

\* The first state.
LEMMA InitIInv == Init => IInv
<1> SUFFICES ASSUME Init PROVE IInv
  OBVIOUS
<1>1. wsMax \in Nat \ {0} /\ Width \in Nat \ {0} /\ P \in Nat \ {0}
  BY LoaderAssumption DEF Init
<1>2. 1 \in 1 .. Len(prog)
  <2> DEFINE segments == [va : Nat, file : Nat, mem : Nat]
  <2>1. prog \in Seq(segments) /\ prog # <<>>
    BY LoaderAssumption DEF Init
  <2> HIDE DEF segments
  <2> QED
    BY <2>1
<1>3. frames \in Nat /\ disk \in Nat
  BY LoaderAssumption DEF Init
<1>4. mem = [p \in Pages |-> mem[p]]
  BY DEF Init
<1>5. TypeOK
  BY <1>1, <1>3 DEF Init, TypeOK
<1>6. Types
  <2>1. file = [p \in Pages |-> file[p]]
    BY <1>4 DEF Init
  <2>2. pc \in Beginning /\ Aligned(va)
    BY Multiples DEF Init, Beginning
  <2>3. /\ prog \in Programs /\ wsMax \in WSSizes /\ seg \in 1 .. Len(prog)
        /\ pages \in Nat /\ src \in Int
    <3>1. prog \in Programs /\ wsMax \in WSSizes /\ seg = 1 /\ pages = 0 /\ src = 0
      BY DEF Init
    <3> QED
      BY <1>2, <3>1
  <2>4. hand \in BOOLEAN
    BY DEF Init
  <2> QED
    BY <1>4, <1>5, <2>1, <2>2, <2>3, <2>4 DEF Types
<1>7. Entries
  BY <1>1 DEF Init, Entries, Beginning, Filing, Ending
<1>8. Place /\ Below /\ Copied /\ Filed
  BY DEF Init, Place, Below, Copied, Filed, Beginning, Filing, Ending
<1> QED
  BY <1>6, <1>7, <1>8 DEF IInv

-----------------------------------------------------------------------------
(* The page file. *)

\* pf_add_env_page puts Contents at the page of Target and leaves the bytes
\* before it alone.
LEMMA PageWritten ==
    ASSUME Types, pf_add_env_page, Target \in 0 .. Width - 1, Aligned(Target)
    PROVE  /\ inFile' \subseteq Pages /\ disk' \in Nat
           /\ file' = [p \in Pages |-> file'[p]]
           /\ \A a \in Nat : a < Target =>
                 /\ Page(a) \in inFile => Page(a) \in inFile'
                 /\ file'[Page(a)] = file[Page(a)]
           /\ \A a \in Nat : Target <= a /\ a < Target + P =>
                 /\ Page(a) \in inFile'
                 /\ file'[Page(a)][a % P] = Contents[a - Target]
<1>1. P \in Nat \ {0} /\ Width \in Nat /\ Target \in Nat
  BY Sizes
<1>2. Page(Target) \in Pages
  BY PageInRange
<1>3. /\ inFile' = inFile \cup {Page(Target)}
      /\ file' = [file EXCEPT ![Page(Target)] = Contents]
      /\ disk' = IF Page(Target) \in inFile THEN disk ELSE disk - 1
      /\ Page(Target) \in inFile \/ disk > 0
  BY DEF pf_add_env_page
<1>4. disk' \in Nat
  BY <1>3 DEF Types, TypeOK
<1>5. inFile' \subseteq Pages
  BY <1>2, <1>3 DEF Types, TypeOK
<1>6. file = [p \in Pages |-> file[p]]
  BY DEF Types
<1>7. /\ file' = [p \in Pages |-> file'[p]]
      /\ file'[Page(Target)] = Contents
      /\ \A p : p # Page(Target) => file'[p] = file[p]
  <2>1. file' = [p \in Pages |-> IF p = Page(Target) THEN Contents ELSE file[p]]
    BY <1>2, <1>3, <1>6
  <2>2. ASSUME NEW p, p # Page(Target) PROVE file'[p] = file[p]
    BY <1>3, <1>6, <2>2
  <2> QED
    BY <1>2, <2>1, <2>2
<1>8. ASSUME NEW a \in Nat, a < Target
      PROVE  /\ Page(a) \in inFile => Page(a) \in inFile'
             /\ file'[Page(a)] = file[Page(a)]
  <2>1. Page(a) \in Nat /\ Page(Target) \in Nat /\ Page(a) < Page(Target)
    BY <1>1, <1>8, PageBytes
  <2>2. Page(a) # Page(Target)
    BY <2>1
  <2> QED
    BY <1>3, <1>7, <2>2
<1>9. ASSUME NEW a \in Nat, Target <= a, a < Target + P
      PROVE  Page(a) \in inFile' /\ file'[Page(a)][a % P] = Contents[a - Target]
  <2>1. Page(a) = Page(Target) /\ a % P = a - Target
    BY <1>1, <1>9, PageBytes
  <2> QED
    BY <1>3, <1>7, <2>1
<1> QED
  BY <1>4, <1>5, <1>7, <1>8, <1>9

\* The address and the contents, by part.
LEMMA Targets ==
    /\ pc = "first" => Target = RoundDown(Seg.va) /\ Contents = FirstPage
    /\ pc = "middle" => Target = va /\ Contents = [o \in Offsets |-> Data(src + o)]
    /\ pc = "last" => Target = StartOfLast /\ Contents = LastPage
    /\ pc \in {"rest", "stackfile"} => Target = va /\ Contents = Blank
<1>1. pc = "first" => Target = RoundDown(Seg.va) /\ Contents = FirstPage
  BY DEF Target, Contents
<1>2. pc = "middle" => Target = va /\ Contents = [o \in Offsets |-> Data(src + o)]
  BY DEF Target, Contents
<1>3. pc = "last" => Target = StartOfLast /\ Contents = LastPage
  BY DEF Target, Contents
<1>4. pc \in {"rest", "stackfile"} => Target = va /\ Contents = Blank
  BY DEF Target, Contents
<1> QED
  BY <1>1, <1>2, <1>3, <1>4

\* A page written at or behind the first page of a segment leaves the segments
\* before it alone.
LEMMA EarlierFiled ==
    ASSUME Types, pf_add_env_page, Target \in 0 .. Width - 1, Aligned(Target),
           RoundDown(Seg.va) <= Target, prog' = prog,
           NEW s \in 1 .. seg - 1, InPageFile(s, Width)
    PROVE  InPageFile(s, Width)'
<1>1. /\ s \in 1 .. Len(prog) /\ prog[s].va + prog[s].mem <= RoundDown(Seg.va)
      /\ RoundDown(Seg.va) \in Nat
  BY Layout, SegmentFacts, Down DEF Types, Seg
<1>2. prog[s].va \in Nat /\ prog[s].mem \in Nat
  BY <1>1, Layout DEF Types
<1>3. Target \in Nat
  BY Sizes
<1>4. ASSUME NEW a \in Span(s)
      PROVE  a \in Nat /\ a < Target /\ a < Width
  BY <1>1, <1>2, <1>3, Sizes DEF Span
<1>5. \A a \in Span(s) : /\ Page(a) \in inFile'
                         /\ file'[Page(a)][a % P] = Expected(s, a)
  BY <1>4, PageWritten DEF InPageFile
<1> QED
  BY <1>5 DEF InPageFile, Span, Expected

\* What the parts of the loading to the page file have in common.
LEMMA FilingStep ==
    ASSUME IInv, pc \in Filing, pc' \in Filing, pf_add_env_page,
           Target \in 0 .. Width - 1, Aligned(Target), RoundDown(Seg.va) <= Target,
           UNCHANGED <<program, seg, hand, pages, left, memory, frames>>,
           va' \in 0 .. Width - 1, Aligned(va)', src' \in Int,
           Place', pc' # "first", InPageFile(seg, va)'
    PROVE  IInv'
<1>1. /\ prog' = prog /\ wsMax' = wsMax /\ seg' = seg /\ hand' = hand
      /\ pages' = pages /\ left' = left /\ ws' = ws /\ last' = last
      /\ mapped' = mapped /\ mem' = mem /\ frames' = frames
  BY DEF program, memory
<1>2. Types /\ Entries /\ Below /\ Copied /\ Filed
  BY DEF IInv
<1>3. /\ inFile' \subseteq Pages /\ disk' \in Nat
      /\ file' = [p \in Pages |-> file'[p]]
  BY <1>2, PageWritten
<1>4. TypeOK'
  BY <1>1, <1>2, <1>3 DEF Types, TypeOK
<1>5. Types'
  BY <1>1, <1>2, <1>3, <1>4 DEF Types, Filing
<1>6. Entries'
  BY <1>1, <1>2 DEF Entries, Beginning, Filing, Ending, Room
<1>7. Below'
  BY <1>1, <1>2, SameSegment DEF Below, Beginning, Filing
<1>8. Copied'
  BY <1>1, <1>2, SameMemory DEF Copied, Filing, Ending
<1>9. \A s \in 1 .. seg - 1 : InPageFile(s, Width)
  BY <1>2 DEF Filed
<1>10. \A s \in 1 .. seg - 1 : InPageFile(s, Width)'
  BY <1>1, <1>2, <1>9, EarlierFiled
<1>11. Filed'
  BY <1>1, <1>10 DEF Filed, Filing, Ending
<1> QED
  BY <1>5, <1>6, <1>7, <1>8, <1>11 DEF IInv

\* The page in front of the first page boundary. When the segment begins
\* inside a page, its file data fills the rest of it.
LEMMA WriteFirstIInv == ASSUME IInv, WriteFirst PROVE IInv'
<1> DEFINE d == RoundDown(Seg.va)
           u == RoundUp(Seg.va)
<1>1. /\ pc = "first" /\ pf_add_env_page /\ va' = u /\ src' = u - Seg.va
      /\ pc' = "middle"
      /\ UNCHANGED <<program, seg, hand, pages, left, memory, frames>>
      /\ prog' = prog /\ seg' = seg
  BY DEF WriteFirst, program
<1>2. Types /\ Target = d /\ Contents = FirstPage
  BY <1>1, Targets DEF IInv
<1>3. /\ P \in Nat \ {0} /\ Width \in Nat /\ Seg.va \in Nat
      /\ EndOfFile = Seg.va + Seg.file /\ Seg.file \in Nat /\ Seg.mem \in Nat
      /\ Seg.va + P <= Width
      /\ ~Aligned(Seg.va) => (Seg.va % P) + Seg.file > P
  BY <1>2, SegmentFacts
<1>4. /\ d \in Nat /\ Aligned(d) /\ d <= Seg.va /\ Seg.va < d + P
      /\ d = Seg.va - (Seg.va % P) /\ Seg.va % P \in 0 .. P - 1
  BY <1>3, Down
<1>5. /\ u \in Nat /\ Aligned(u) /\ Seg.va <= u /\ u < Seg.va + P
      /\ u = IF Aligned(Seg.va) THEN Seg.va ELSE d + P
  BY <1>3, Up
<1> HIDE DEF d, u
<1>6. u <= EndOfFile
  BY <1>3, <1>4, <1>5
<1>7. u <= StartOfLast
  BY <1>2, <1>5, <1>6, SegmentFacts, DownLargest DEF StartOfLast
<1>8. u \in 0 .. Width - 1 /\ Target \in 0 .. Width - 1 /\ Aligned(Target)
  BY <1>2, <1>3, <1>4, <1>5
<1>9. Place'
  <2>1. src' = va' - Seg'.va /\ Seg'.va <= va' /\ va' <= StartOfLast'
    BY <1>1, <1>5, <1>7, SameSegment
  <2> QED
    BY <1>1, <2>1 DEF Place, Beginning, Ending
<1>10. ASSUME NEW a \in Span(seg), a < u
       PROVE  /\ Page(a) \in inFile'
              /\ file'[Page(a)][a % P] = Expected(seg, a)
  <2>1. a \in Nat /\ Seg.va <= a
    BY <1>3 DEF Span, Seg
  <2>2. ~Aligned(Seg.va) /\ u = d + P
    BY <1>3, <1>5, <1>10, <2>1
  <2>3. Target <= a /\ a < Target + P /\ a - Target \in Offsets
    BY <1>2, <1>3, <1>4, <1>10, <2>1, <2>2 DEF Offsets
  <2>4. Page(a) \in inFile' /\ file'[Page(a)][a % P] = FirstPage[a - Target]
    BY <1>1, <1>2, <1>8, <2>1, <2>3, PageWritten
  <2>5. FirstPage[a - Target] = Data((a - Target) - (Seg.va % P))
    <3>1. ~(Seg.va % P = 0 \/ a - Target < Seg.va % P)
      BY <1>2, <1>3, <1>4, <2>1, <2>2 DEF Aligned
    <3> QED
      BY <2>3, <3>1 DEF FirstPage
  <2>6. (a - Target) - (Seg.va % P) = a - Seg.va
    BY <1>2, <1>3, <1>4, <2>1
  <2>7. Expected(seg, a) = <<seg, a - Seg.va>>
    BY <1>3, <1>6, <1>5, <1>10, <2>1 DEF Expected, EndOfFile, Seg
  <2> QED
    BY <2>4, <2>5, <2>6, <2>7 DEF Data
<1>11. InPageFile(seg, va)'
  BY <1>1, <1>10 DEF InPageFile, Span, Expected
<1> QED
  BY <1>1, <1>2, <1>3, <1>4, <1>5, <1>8, <1>9, <1>11, FilingStep DEF Filing, d

\* A page of file data.
LEMMA WriteMiddleIInv == ASSUME IInv, WriteMiddle PROVE IInv'
<1>1. /\ pc = "middle" /\ pf_add_env_page /\ va < StartOfLast
      /\ va' = va + P /\ src' = src + P /\ pc' = pc
      /\ UNCHANGED <<program, seg, hand, pages, left, memory, frames>>
      /\ prog' = prog /\ seg' = seg
  BY DEF WriteMiddle, program, pf_add_env_page, Writing
<1>2. /\ Types /\ Target = va /\ Contents = [o \in Offsets |-> Data(src + o)]
      /\ src = va - Seg.va /\ InPageFile(seg, va) /\ Aligned(va)
      /\ Seg.va <= va /\ src \in Int /\ va \in 0 .. Width - 1
  BY <1>1, Targets DEF IInv, Place, Filed, Types, TypeOK
<1>3. /\ P \in Nat \ {0} /\ Width \in Nat /\ va \in Nat /\ Seg.va \in Nat
      /\ EndOfFile = Seg.va + Seg.file /\ Seg.file \in Nat /\ Seg.mem \in Nat
      /\ End \in Nat /\ EndOfFile <= End /\ End + P <= Width /\ EndOfFile \in Nat
      /\ StartOfLast \in Nat /\ Aligned(StartOfLast) /\ StartOfLast <= EndOfFile
  BY <1>2, SegmentFacts
<1>4. va + P <= StartOfLast
  BY <1>1, <1>2, <1>3, AlignedApart
<1>5. va' \in 0 .. Width - 1 /\ Aligned(va)' /\ src' \in Int
  <2>1. Aligned(va + P)
    BY <1>2, <1>3, Multiples, AlignedSum
  <2>2. Aligned(va)'
    BY <1>1, <2>1 DEF Aligned
  <2> QED
    BY <1>1, <1>2, <1>3, <1>4, <2>2
<1>6. Place'
  <2>1. src' = va' - Seg'.va /\ Seg'.va <= va' /\ va' <= StartOfLast'
    BY <1>1, <1>2, <1>3, <1>4, SameSegment
  <2> QED
    BY <1>1, <2>1 DEF Place, Beginning, Ending
<1>7. RoundDown(Seg.va) <= va
  <2>1. RoundDown(Seg.va) \in Nat /\ RoundDown(Seg.va) <= Seg.va
    BY <1>3, Down
  <2> QED
    BY <1>2, <1>3, <2>1
<1>8. ASSUME NEW a \in Span(seg), a < va + P
      PROVE  /\ Page(a) \in inFile'
             /\ file'[Page(a)][a % P] = Expected(seg, a)
  <2>1. a \in Nat /\ Seg.va <= a
    BY <1>3 DEF Span, Seg
  <2>2. CASE a < va
    BY <1>1, <1>2, <2>1, <2>2, PageWritten DEF InPageFile
  <2>3. CASE va <= a
    <3>1. Page(a) \in inFile' /\ file'[Page(a)][a % P] = Contents[a - va]
      BY <1>1, <1>2, <1>8, <2>1, <2>3, PageWritten
    <3>2. a - va \in Offsets
      BY <1>3, <1>8, <2>1, <2>3 DEF Offsets
    <3>3. Contents[a - va] = Data(src + (a - va))
      BY <1>2, <3>2
    <3>4. src + (a - va) = a - Seg.va
      BY <1>2, <1>3, <2>1
    <3>5. Expected(seg, a) = <<seg, a - Seg.va>>
      BY <1>3, <1>4, <1>8, <2>1 DEF Expected, EndOfFile, Seg
    <3> QED
      BY <3>1, <3>3, <3>4, <3>5 DEF Data
  <2> QED
    BY <1>3, <2>1, <2>2, <2>3
<1>9. InPageFile(seg, va)'
  BY <1>1, <1>8 DEF InPageFile, Span, Expected
<1> QED
  BY <1>1, <1>2, <1>5, <1>6, <1>7, <1>9, FilingStep DEF Filing

\* The loop over whole pages of file data has reached the last one.
LEMMA EndMiddleIInv == ASSUME IInv, EndMiddle PROVE IInv'
<1>1. /\ pc = "middle" /\ ~(va < StartOfLast) /\ pc' = "last"
      /\ UNCHANGED <<program, segment, memory, pfile, frames>>
  BY DEF EndMiddle, Writing
<1>2. /\ prog' = prog /\ wsMax' = wsMax /\ tpp' = tpp /\ seg' = seg /\ hand' = hand
      /\ pages' = pages /\ left' = left /\ va' = va /\ src' = src
      /\ ws' = ws /\ last' = last /\ mapped' = mapped /\ mem' = mem
      /\ frames' = frames /\ disk' = disk /\ inFile' = inFile /\ file' = file
  BY <1>1 DEF program, segment, memory, pfile
<1>3. Types /\ Entries /\ Place /\ Below /\ Copied /\ Filed
  BY DEF IInv
<1>4. Types'
  BY <1>1, <1>2, <1>3 DEF Types, TypeOK, Filing
<1>5. Entries'
  BY <1>1, <1>2, <1>3 DEF Entries, Beginning, Filing, Ending, Room
<1>6. Place'
  <2>1. va = StartOfLast
    BY <1>1, <1>3, SegmentFacts DEF Place
  <2> QED
    BY <1>1, <1>2, <1>3, <2>1, SameSegment DEF Place, Beginning, Ending
<1>7. Below'
  BY <1>1, <1>2, <1>3, SameSegment DEF Below, Beginning, Filing
<1>8. Copied'
  BY <1>1, <1>2, <1>3, SameMemory DEF Copied, Filing, Ending
<1>9. Filed'
  BY <1>1, <1>2, <1>3, SameFile, SameFileHere DEF Filed, Filing, Ending
<1> QED
  BY <1>4, <1>5, <1>6, <1>7, <1>8, <1>9 DEF IInv

\* The last page of file data, put together with zeroes.
LEMMA WriteLastIInv == ASSUME IInv, WriteLast PROVE IInv'
<1> DEFINE u == RoundUp(EndOfFile)
<1>1. /\ pc = "last" /\ pf_add_env_page /\ va' = u /\ src' = src /\ pc' = "rest"
      /\ UNCHANGED <<program, seg, hand, pages, left, memory, frames>>
      /\ prog' = prog /\ seg' = seg
  BY DEF WriteLast, program
<1>2. /\ Types /\ Target = va /\ Contents = LastPage /\ va = StartOfLast
      /\ src = va - Seg.va /\ InPageFile(seg, va) /\ Aligned(va)
      /\ Seg.va <= va /\ src \in Int /\ va \in 0 .. Width - 1
  BY <1>1, Targets DEF IInv, Place, Filed, Types, TypeOK
<1>3. /\ P \in Nat \ {0} /\ Width \in Nat /\ va \in Nat /\ Seg.va \in Nat
      /\ EndOfFile = Seg.va + Seg.file /\ Seg.file \in Nat /\ Seg.mem \in Nat
      /\ End \in Nat /\ EndOfFile <= End /\ End + P <= Width /\ EndOfFile \in Nat
      /\ EndOfFile < va + P /\ va <= EndOfFile
  BY <1>2, SegmentFacts
<1>4. /\ u \in Nat /\ Aligned(u) /\ EndOfFile <= u /\ u < EndOfFile + P
      /\ u = IF Aligned(EndOfFile) THEN EndOfFile ELSE StartOfLast + P
  BY <1>3, Up DEF StartOfLast
<1>5. u <= va + P
  BY <1>2, <1>3, <1>4
<1>6. va' \in 0 .. Width - 1 /\ Aligned(va)' /\ src' \in Int
  <2>1. Aligned(va)'
    BY <1>1, <1>4 DEF Aligned
  <2> QED
    BY <1>1, <1>2, <1>3, <1>4, <2>1
<1>7. u <= RestEnd
  BY <1>2, RestEnds DEF Types
<1>8. Place'
  <2>1. EndOfFile' <= va' /\ va' <= RestEnd'
    BY <1>1, <1>4, <1>7, SameSegment
  <2> QED
    BY <1>1, <2>1 DEF Place, Beginning, Ending
<1>9. RoundDown(Seg.va) <= va
  <2>1. RoundDown(Seg.va) \in Nat /\ RoundDown(Seg.va) <= Seg.va
    BY <1>3, Down
  <2> QED
    BY <1>2, <1>3, <2>1
<1> HIDE DEF u
<1>10. ASSUME NEW a \in Span(seg), a < u
       PROVE  /\ Page(a) \in inFile'
              /\ file'[Page(a)][a % P] = Expected(seg, a)
  <2>1. a \in Nat /\ Seg.va <= a
    BY <1>3 DEF Span, Seg
  <2>2. CASE a < va
    BY <1>1, <1>2, <2>1, <2>2, PageWritten DEF InPageFile
  <2>3. CASE va <= a
    <3>1. a < va + P
      BY <1>3, <1>4, <1>5, <1>10, <2>1
    <3>2. Page(a) \in inFile' /\ file'[Page(a)][a % P] = LastPage[a - va]
      BY <1>1, <1>2, <2>1, <2>3, <3>1, PageWritten
    <3>3. a - va \in Offsets /\ va + (a - va) = a
      BY <1>3, <2>1, <2>3, <3>1 DEF Offsets
    <3>4. LastPage[a - va] = IF a < EndOfFile THEN Data(src + (a - va)) ELSE Zero
      BY <1>2, <3>3 DEF LastPage
    <3>5. src + (a - va) = a - Seg.va
      BY <1>2, <1>3, <2>1
    <3>6. Expected(seg, a) = IF a < EndOfFile THEN <<seg, a - Seg.va>> ELSE Zero
      BY DEF Expected, EndOfFile, Seg
    <3> QED
      BY <3>2, <3>4, <3>5, <3>6 DEF Data
  <2> QED
    BY <1>3, <2>1, <2>2, <2>3
<1>11. InPageFile(seg, va)'
  BY <1>1, <1>10 DEF InPageFile, Span, Expected
<1> QED
  BY <1>1, <1>2, <1>6, <1>8, <1>9, <1>11, FilingStep DEF Filing

\* A page behind the file data.
LEMMA WriteRestIInv == ASSUME IInv, WriteRest PROVE IInv'
<1>1. /\ pc = "rest" /\ pf_add_env_page /\ va < RestEnd
      /\ va' = va + P /\ src' = src /\ pc' = pc
      /\ UNCHANGED <<program, seg, hand, pages, left, memory, frames>>
      /\ prog' = prog /\ seg' = seg
  BY DEF WriteRest, program, pf_add_env_page, Writing, RestEnd
<1>2. /\ Types /\ Target = va /\ Contents = Blank
      /\ EndOfFile <= va /\ InPageFile(seg, va) /\ Aligned(va)
      /\ src \in Int /\ va \in 0 .. Width - 1
  BY <1>1, Targets DEF IInv, Place, Filed, Types, TypeOK
<1>3. /\ P \in Nat \ {0} /\ Width \in Nat /\ va \in Nat /\ Seg.va \in Nat
      /\ EndOfFile = Seg.va + Seg.file /\ Seg.file \in Nat /\ Seg.mem \in Nat
      /\ EndOfFile \in Nat
  BY <1>2, SegmentFacts
<1>4. RestEnd \in Nat /\ Aligned(RestEnd) /\ RestEnd < Width
  BY <1>2, RestEnds DEF Types
<1>5. va + P <= RestEnd
  BY <1>1, <1>2, <1>3, <1>4, AlignedApart
<1>6. va' \in 0 .. Width - 1 /\ Aligned(va)' /\ src' \in Int
  <2>1. Aligned(va + P)
    BY <1>2, <1>3, Multiples, AlignedSum
  <2>2. Aligned(va)'
    BY <1>1, <2>1 DEF Aligned
  <2> QED
    BY <1>1, <1>2, <1>3, <1>4, <1>5, <2>2
<1>7. Place'
  <2>1. EndOfFile' <= va' /\ va' <= RestEnd'
    BY <1>1, <1>2, <1>3, <1>5, SameSegment
  <2> QED
    BY <1>1, <2>1 DEF Place, Beginning, Ending
<1>8. RoundDown(Seg.va) <= va
  <2>1. RoundDown(Seg.va) \in Nat /\ RoundDown(Seg.va) <= Seg.va
    BY <1>3, Down
  <2> QED
    BY <1>2, <1>3, <2>1
<1>9. ASSUME NEW a \in Span(seg), a < va + P
      PROVE  /\ Page(a) \in inFile'
             /\ file'[Page(a)][a % P] = Expected(seg, a)
  <2>1. a \in Nat /\ Seg.va <= a
    BY <1>3 DEF Span, Seg
  <2>2. CASE a < va
    BY <1>1, <1>2, <2>1, <2>2, PageWritten DEF InPageFile
  <2>3. CASE va <= a
    <3>1. Page(a) \in inFile' /\ file'[Page(a)][a % P] = Blank[a - va]
      BY <1>1, <1>2, <1>9, <2>1, <2>3, PageWritten
    <3>2. a - va \in Offsets
      BY <1>3, <1>9, <2>1, <2>3 DEF Offsets
    <3>3. Blank[a - va] = Zero
      BY <3>2 DEF Blank
    <3>4. Expected(seg, a) = Zero
      BY <1>2, <1>3, <2>1, <2>3 DEF Expected, EndOfFile, Seg
    <3> QED
      BY <3>1, <3>3, <3>4
  <2> QED
    BY <1>3, <2>1, <2>2, <2>3
<1>10. InPageFile(seg, va)'
  BY <1>1, <1>9 DEF InPageFile, Span, Expected
<1> QED
  BY <1>1, <1>2, <1>6, <1>7, <1>8, <1>10, FilingStep DEF Filing

-----------------------------------------------------------------------------
(* Memory. *)

\* Directory, working set and its table.
LEMMA PrepareIInv == ASSUME IInv, Prepare PROVE IInv'
<1>1. /\ prog' = prog /\ wsMax' = wsMax /\ tpp' = tpp /\ disk' = disk
      /\ inFile' = inFile /\ file' = file /\ frames > 0 /\ frames' = frames - 1
  BY DEF Prepare, program, pfile
<1>2. Types /\ Entries /\ Place /\ Below /\ Copied /\ Filed
  BY DEF IInv
<1>3. frames' \in Nat /\ disk' \in Nat
  BY <1>1, <1>2 DEF Types, TypeOK
<1>4. CASE /\ pc \in {"directory", "ws"} /\ pc' \in {"ws", "wstable"}
           /\ UNCHANGED <<segment, memory>>
  <2>1. /\ seg' = seg /\ hand' = hand /\ pages' = pages /\ left' = left
        /\ va' = va /\ src' = src
        /\ ws' = ws /\ last' = last /\ mapped' = mapped /\ mem' = mem
    BY <1>4 DEF segment, memory
  <2>2. Types'
    BY <1>1, <1>2, <1>3, <1>4, <2>1 DEF Types, TypeOK, Beginning
  <2>3. Entries'
    BY <1>1, <1>2, <1>4, <2>1 DEF Entries, Beginning, Filing, Ending, Room
  <2>4. Place' /\ Below' /\ Copied' /\ Filed'
    BY <1>2, <1>4, <2>1 DEF Place, Below, Copied, Filed, Beginning, Filing, Ending
  <2> QED
    BY <2>2, <2>3, <2>4 DEF IInv
<1>5. CASE /\ pc = "wstable" /\ pc' = "map" /\ va' = RoundDown(Seg.va)
           /\ left' = Room /\ UNCHANGED <<seg, src, hand, pages, memory>>
  <2>1. /\ seg' = seg /\ hand' = hand /\ pages' = pages /\ src' = src
        /\ ws' = ws /\ last' = last /\ mapped' = mapped /\ mem' = mem
    BY <1>5 DEF memory
  <2>2. wsMax \in Nat \ {0} /\ Room = wsMax - 1
    BY <1>2, Sizes DEF Types, Room
  <2>3. /\ last = 0 /\ pages = 0 /\ ~hand /\ mapped = {} /\ seg = 1
        /\ \A i \in last .. wsMax - 1 : ws[i] = NoPage
    BY <1>2, <1>5 DEF Entries, Below, Place, Beginning, Ending
  <2>4. P \in Nat \ {0} /\ Seg.va \in Nat /\ Seg.va + P <= Width /\ Width \in Nat
    BY <1>2, SegmentFacts
  <2>5. va' \in 0 .. Width - 1 /\ Aligned(va)' /\ va' \in Nat
    <3>1. RoundDown(Seg.va) \in Nat /\ RoundDown(Seg.va) <= Seg.va /\ Aligned(RoundDown(Seg.va))
      BY <2>4, Down
    <3>2. Aligned(va)'
      BY <1>5, <3>1 DEF Aligned
    <3> QED
      BY <1>5, <2>4, <3>1, <3>2
  <2>6. Types'
    <3>1. left' \in 0 .. wsMax'
      BY <1>1, <1>5, <2>2
    <3>2. TypeOK'
      BY <1>1, <1>2, <1>3, <2>1, <2>5, <3>1 DEF Types, TypeOK
    <3> QED
      BY <1>1, <1>2, <1>5, <2>1, <2>5, <3>2 DEF Types
  <2>7. Entries'
    <3>1. last' = Room' - left' + pages' /\ pages' <= left'
      BY <1>1, <1>5, <2>1, <2>2, <2>3 DEF Room
    <3> QED
      BY <1>1, <1>2, <1>5, <2>1, <2>3, <3>1 DEF Entries, Beginning, Filing, Ending
  <2>8. Place'
    <3>1. va' = RoundDown(Seg'.va) + pages' * P
      BY <1>1, <1>5, <2>1, <2>3, <2>4, <2>5, SameSegment
    <3> QED
      BY <1>5, <3>1 DEF Place, Beginning, Ending
  <2>9. Below' /\ Copied' /\ Filed'
    BY <1>5, <2>1, <2>3 DEF Below, Copied, Filed, Beginning, Filing, Ending
  <2> QED
    BY <2>6, <2>7, <2>8, <2>9 DEF IInv
<1> QED
  BY <1>4, <1>5 DEF Prepare

\* The next entry of the working set lies inside it, and below the one kept for
\* the stack.
LEMMA NextEntry ==
    ASSUME Types, Entries, pc = "map", MoreToMap
    PROVE  last + 1 \in 0 .. wsMax - 1 /\ wsMax \in Nat /\ pages + 1 <= left
<1>1. wsMax \in Nat \ {0} /\ Cap \in Nat
  BY Sizes DEF Types
<1>2. left \in 0 .. wsMax /\ last \in 0 .. wsMax - 1 /\ pages \in Nat
  BY DEF Types, TypeOK
<1>3. pages < SegmentRoom /\ SegmentRoom <= left
  <2>1. (SegmentRoom = Cap /\ left > Cap) \/ SegmentRoom = left
    BY DEF SegmentRoom
  <2> QED
    BY <1>1, <1>2, <2>1 DEF MoreToMap
<1>4. SegmentRoom \in Nat
  BY <1>1, <1>2 DEF SegmentRoom
<1>5. last = (wsMax - 1) - left + pages
  BY DEF Entries, Room
<1> QED
  BY <1>1, <1>2, <1>3, <1>4, <1>5

\* A page enters memory and the working set.
LEMMA MapPageIInv == ASSUME IInv, MapPage PROVE IInv'
<1>1. /\ pc = "map" /\ hand /\ hand' = FALSE
      /\ mapped' = mapped \cup {Page(va)}
      /\ ws' = [ws EXCEPT ![last] = Page(va)]
      /\ last' = (last + 1) % wsMax
      /\ pc' \in {"map", "panic"}
      /\ va' = va + P /\ pages' = pages + 1
      /\ prog' = prog /\ wsMax' = wsMax /\ tpp' = tpp /\ seg' = seg /\ src' = src
      /\ left' = left /\ mem' = mem /\ disk' = disk /\ inFile' = inFile
      /\ file' = file /\ frames' = frames
  BY DEF MapPage, EnterWS, EnterTableWS, program, pfile
<1>2. Types /\ Entries /\ Place /\ Below /\ Copied /\ Filed
  BY DEF IInv
<1>3. MoreToMap
  BY <1>1, <1>2 DEF Entries
<1>4. /\ last + 1 \in 0 .. wsMax - 1 /\ wsMax \in Nat /\ pages + 1 <= left
      /\ last \in 0 .. wsMax - 1 /\ pages \in Nat /\ left \in 0 .. wsMax
  BY <1>1, <1>2, <1>3, NextEntry DEF Types, TypeOK
<1>5. last' = last + 1
  BY <1>1, <1>4
<1>6. /\ P \in Nat \ {0} /\ Width \in Nat /\ va \in Nat /\ Seg.va \in Nat
      /\ End \in Nat /\ End + P <= Width /\ va \in 0 .. Width - 1 /\ Aligned(va)
  BY <1>2, SegmentFacts DEF Types, TypeOK
<1>7. va < RoundUp(End)
  BY <1>3 DEF MoreToMap, End
<1>8. va < End /\ va + P < Width
  <2>1. /\ RoundUp(End) \in Nat /\ Aligned(RoundUp(End)) /\ RoundUp(End) < End + P
    BY <1>6, Up
  <2>2. va + P <= RoundUp(End)
    BY <1>6, <1>7, <2>1, AlignedApart
  <2> QED
    BY <1>6, <2>1, <2>2
<1>9. Page(va) \in Pages /\ Page(va) \in Nat /\ Page(va) * P = va
  BY <1>6, PageInRange, PageBytes
<1>10. va' \in 0 .. Width - 1 /\ Aligned(va)'
  <2>1. Aligned(va + P)
    BY <1>6, Multiples, AlignedSum
  <2>2. Aligned(va)'
    BY <1>1, <2>1 DEF Aligned
  <2> QED
    BY <1>1, <1>6, <1>8, <2>2
<1>11. TypeOK'
  <2>1. ws' \in [0 .. wsMax' - 1 -> Pages \cup {NoPage}]
    BY <1>1, <1>2, <1>9 DEF Types, TypeOK
  <2>2. last' \in 0 .. wsMax' - 1
    BY <1>1, <1>4, <1>5
  <2>3. mapped' \subseteq Pages /\ inFile' \subseteq Pages
    BY <1>1, <1>2, <1>9 DEF Types, TypeOK
  <2> QED
    BY <1>1, <1>2, <1>10, <2>1, <2>2, <2>3 DEF Types, TypeOK
<1>12. Types'
  <2>1. pages' \in Nat
    BY <1>1, <1>4
  <2> QED
    BY <1>1, <1>2, <1>10, <1>11, <2>1 DEF Types
<1>13. \A i \in 0 .. wsMax - 1 : ws'[i] = IF i = last THEN Page(va) ELSE ws[i]
  BY <1>1, <1>2, <1>4 DEF Types, TypeOK
<1>14. \A i \in last .. wsMax - 1 : ws[i] = NoPage
  BY <1>1, <1>2 DEF Entries, Ending
<1>15. /\ \A p \in mapped' : \E i \in 0 .. wsMax' - 1 : ws'[i] = p
       /\ \A i \in 0 .. wsMax' - 1 : ws'[i] # NoPage => ws'[i] \in mapped'
  <2>1. ASSUME NEW p \in mapped PROVE \E i \in 0 .. wsMax - 1 : ws'[i] = p
    <3>1. PICK i \in 0 .. wsMax - 1 : ws[i] = p
      BY <1>2, <2>1 DEF Entries
    <3>2. i # last
      <4>1. p # NoPage
        BY <1>2, PagesNatural DEF Types, TypeOK
      <4> QED
        BY <1>4, <1>14, <3>1, <4>1
    <3> QED
      BY <1>13, <3>1, <3>2
  <2>2. ws'[last] = Page(va)
    BY <1>4, <1>13
  <2>3. ASSUME NEW i \in 0 .. wsMax - 1, ws'[i] # NoPage PROVE ws'[i] \in mapped'
    BY <1>1, <1>2, <1>13, <2>3 DEF Entries
  <2> QED
    BY <1>1, <1>4, <2>1, <2>2, <2>3
<1>16. CASE pc' = "panic"
  BY <1>12, <1>15, <1>16, Panics
<1>17. CASE pc' = "map"
  <2>1. Entries'
    <3>1. \A i \in last' .. wsMax' - 1 : ws'[i] = NoPage
      BY <1>1, <1>4, <1>5, <1>13, <1>14
    <3>2. last = Room - left + pages
      BY <1>1, <1>2 DEF Entries
    <3>3. last' = Room' - left' + pages' /\ pages' <= left'
      BY <1>1, <1>4, <1>5, <3>2 DEF Room
    <3> QED
      BY <1>1, <1>15, <1>17, <3>1, <3>3 DEF Entries, Beginning, Filing, Ending
  <2>2. Place'
    <3>1. va = RoundDown(Seg.va) + pages * P /\ RoundDown(Seg.va) \in Nat
      BY <1>1, <1>2, <1>6, Down DEF Place
    <3>2. (pages + 1) * P = pages * P + P /\ pages * P \in Nat
      BY <1>4, <1>6
    <3>3. va' = RoundDown(Seg'.va) + pages' * P
      BY <1>1, <1>6, <3>1, <3>2, SameSegment
    <3> QED
      BY <1>17, <3>3 DEF Place, Beginning, Ending
  <2>3. Below'
    <3>1. ASSUME NEW p \in mapped' PROVE p * P < va' /\ p * P < End
      <4>1. CASE p \in mapped
        <5>1. p * P < va /\ p * P < End
          BY <1>1, <1>2, <4>1 DEF Below
        <5>2. p \in Nat
          BY <1>2, <4>1, PagesNatural DEF Types, TypeOK
        <5>3. p * P \in Nat
          BY <5>2, Multiples
        <5> QED
          BY <1>1, <1>6, <5>1, <5>3
      <4>2. CASE p = Page(va)
        BY <1>1, <1>6, <1>8, <1>9, <4>2
      <4> QED
        BY <1>1, <4>1, <4>2
    <3> QED
      BY <1>1, <1>17, <3>1, SameSegment DEF Below, Beginning, Filing
  <2>4. Copied'
    <3>1. ASSUME NEW s \in 1 .. seg - 1 PROVE InMemory(s)'
      <4>1. InMemory(s)
        BY <1>1, <1>2 DEF Copied
      <4>2. /\ s \in 1 .. Len(prog) /\ prog[s].va + prog[s].mem <= RoundDown(Seg.va)
            /\ RoundDown(Seg.va) \in Nat
        BY <1>2, <1>6, Layout, Down DEF Types, Seg
      <4>3. prog[s].va \in Nat /\ prog[s].mem \in Nat
        BY <1>2, <4>2, Layout DEF Types
      <4>4. va = RoundDown(Seg.va) + pages * P /\ pages * P \in Nat
        BY <1>1, <1>2, <1>4, <1>6 DEF Place
      <4>5. ASSUME NEW a \in Span(s) PROVE Page(a) # Page(va)
        <5>1. a \in Nat /\ a < va
          <6>1. a \in Nat /\ a < RoundDown(Seg.va)
            BY <4>2, <4>3 DEF Span
          <6>2. RoundDown(Seg.va) <= va
            BY <4>2, <4>4
          <6> QED
            BY <1>6, <4>2, <6>1, <6>2
        <5> QED
          BY <1>6, <1>9, <5>1, PageBytes
      <4> QED
        BY <1>1, <4>1, <4>5 DEF InMemory, Span, Expected
    <3> QED
      BY <1>1, <1>17, <3>1 DEF Copied, Filing, Ending
  <2>5. Filed'
    BY <1>1, <1>2, <1>17, SameFile DEF Filed, Filing, Ending
  <2> QED
    BY <1>12, <2>1, <2>2, <2>3, <2>4, <2>5 DEF IInv
<1> QED
  BY <1>1, <1>16, <1>17

\* The pages of the segment that are in memory get its bytes.
LEMMA CopySegmentIInv == ASSUME IInv, CopySegment PROVE IInv'
<1> DEFINE end == RoundDown(Seg.va) + pages * P
           Byte(a, old) == IF a < Seg.va \/ a >= end THEN old
                           ELSE IF a < EndOfFile THEN <<seg, a - Seg.va>>
                           ELSE Zero
<1>1. /\ pc = "map" /\ ~hand /\ pc' = "first" /\ left' = left - pages /\ pages' = 0
      /\ mem' = [p \in Pages |-> [o \in Offsets |-> Byte(p * P + o, mem[p][o])]]
      /\ prog' = prog /\ wsMax' = wsMax /\ tpp' = tpp /\ seg' = seg /\ va' = va
      /\ src' = src /\ hand' = hand /\ ws' = ws /\ last' = last
      /\ mapped' = mapped /\ disk' = disk /\ inFile' = inFile
      /\ file' = file /\ frames' = frames
  BY DEF CopySegment, program, pfile
<1>2. Types /\ Entries /\ Place /\ Below /\ Copied /\ Filed
  BY DEF IInv
<1>3. /\ P \in Nat \ {0} /\ Width \in Nat /\ va \in Nat /\ Seg.va \in Nat
      /\ Seg.mem \in Nat /\ EndOfFile = Seg.va + Seg.file /\ EndOfFile \in Nat
      /\ End = Seg.va + Seg.mem /\ End \in Nat /\ End + P <= Width
      /\ pages \in Nat /\ Aligned(va) /\ va \in 0 .. Width - 1
      /\ RoundDown(Seg.va) \in Nat /\ RoundDown(Seg.va) <= Seg.va
  BY <1>2, SegmentFacts, Down DEF Types, TypeOK
<1>4. end = va
  BY <1>1, <1>2 DEF Place
<1> HIDE DEF end
<1>5. Types'
  <2>1. left' \in 0 .. wsMax' /\ pages' \in Nat
    <3>1. wsMax \in Nat /\ left \in 0 .. wsMax /\ pages <= left
      BY <1>1, <1>2, Sizes DEF Types, TypeOK, Entries
    <3> QED
      BY <1>1, <1>3, <3>1
  <2>2. mem' = [p \in Pages |-> mem'[p]]
    BY <1>1
  <2>3. TypeOK'
    BY <1>1, <1>2, <2>1 DEF Types, TypeOK
  <2> QED
    BY <1>1, <1>2, <2>1, <2>2, <2>3 DEF Types, Filing
<1>6. Entries'
  <2>1. last = Room - left + pages /\ pages <= left
    BY <1>1, <1>2 DEF Entries
  <2>2. wsMax \in Nat /\ left \in Int
    BY <1>2, Sizes DEF Types, TypeOK
  <2>3. last' = Room' - left' + pages' /\ pages' <= left' /\ pages' = 0
    BY <1>1, <1>3, <2>1, <2>2 DEF Room
  <2> QED
    BY <1>1, <1>2, <2>3 DEF Entries, Beginning, Filing, Ending
<1>7. Place'
  BY <1>1 DEF Place, Beginning, Ending
<1>8. Below'
  BY <1>1, <1>2, SameSegment DEF Below, Beginning, Filing
<1>9. ASSUME NEW a \in Nat, a < Width
      PROVE  mem'[Page(a)][a % P] = Byte(a, mem[Page(a)][a % P])
  <2>1. a \in 0 .. Width - 1
    BY <1>3, <1>9
  <2>2. Page(a) \in Pages /\ a = Page(a) * P + (a % P) /\ a % P \in Offsets
    BY <2>1, PageInRange, PageBytes, Multiples DEF Offsets
  <2> HIDE DEF Byte
  <2> QED
    BY <1>1, <2>2
<1>10. ASSUME NEW s \in 1 .. seg - 1 PROVE InMemory(s)'
  <2>1. InMemory(s)
    BY <1>1, <1>2 DEF Copied
  <2>2. /\ s \in 1 .. Len(prog) /\ prog[s].va + prog[s].mem <= RoundDown(Seg.va)
        /\ RoundDown(Seg.va) \in Nat
    BY <1>2, <1>3, Layout DEF Types, Seg
  <2>3. prog[s].va \in Nat /\ prog[s].mem \in Nat
    BY <1>2, <2>2, Layout DEF Types
  <2>4. ASSUME NEW a \in Span(s) PROVE mem'[Page(a)][a % P] = mem[Page(a)][a % P]
    <3>1. a \in Nat /\ a < RoundDown(Seg.va)
      BY <2>2, <2>3 DEF Span
    <3>2. a < Seg.va /\ a < Width
      BY <1>3, <3>1
    <3> QED
      BY <1>9, <3>1, <3>2
  <2> QED
    BY <1>1, <2>1, <2>4 DEF InMemory, Span, Expected
<1>11. InMemory(seg)'
  <2>1. ASSUME NEW a \in Span(seg), Page(a) \in mapped
        PROVE  mem'[Page(a)][a % P] = Expected(seg, a)
    <3>1. a \in Nat /\ Seg.va <= a /\ a < Width
      BY <1>3 DEF Span, Seg
    <3>2. Page(a) * P < va /\ Page(a) \in Nat /\ a = Page(a) * P + (a % P)
          /\ a % P \in 0 .. P - 1
      BY <1>1, <1>2, <2>1, <3>1, PageBytes, Multiples DEF Below
    <3>3. a < va
      <4>1. Page(a) * P \in Nat /\ Aligned(Page(a) * P)
        BY <3>2, Multiples
      <4>2. Page(a) * P + P <= va
        BY <1>3, <3>2, <4>1, AlignedApart
      <4> QED
        BY <1>3, <3>1, <3>2, <4>1, <4>2
    <3>4. mem'[Page(a)][a % P] = Byte(a, mem[Page(a)][a % P])
      BY <1>9, <3>1
    <3>5. ~(a < Seg.va \/ a >= end)
      BY <1>3, <1>4, <3>1, <3>3
    <3>6. Expected(seg, a) = IF a < EndOfFile THEN <<seg, a - Seg.va>> ELSE Zero
      BY DEF Expected, EndOfFile, Seg
    <3> QED
      BY <3>4, <3>5, <3>6
  <2> QED
    BY <1>1, <2>1 DEF InMemory, Span, Expected
<1>12. Copied'
  <2>1. \A s \in 1 .. seg : s \in 1 .. seg - 1 \/ s = seg
    BY <1>2 DEF Types
  <2> QED
    BY <1>1, <1>10, <1>11, <2>1 DEF Copied, Filing, Ending
<1>13. Filed'
  BY <1>1, <1>2, SameFile DEF Filed, Filing, Ending
<1> QED
  BY <1>5, <1>6, <1>7, <1>8, <1>12, <1>13 DEF IInv

\* The next segment, or the stack.
LEMMA EndSegmentIInv == ASSUME IInv, EndSegment PROVE IInv'
<1>1. /\ pc = "rest" /\ ~(va < RestEnd)
      /\ prog' = prog /\ wsMax' = wsMax /\ tpp' = tpp /\ src' = src /\ hand' = hand
      /\ pages' = pages /\ left' = left /\ ws' = ws /\ last' = last
      /\ mapped' = mapped /\ mem' = mem /\ disk' = disk /\ inFile' = inFile
      /\ file' = file /\ frames' = frames
      /\ \/ /\ seg < Len(prog) /\ seg' = seg + 1
            /\ va' = RoundDown(prog[seg + 1].va) /\ pc' = "map"
         \/ /\ ~(seg < Len(prog)) /\ seg' = seg
            /\ va' = StackPage * P /\ pc' = "stack"
  BY DEF EndSegment, Writing, RestEnd, MoreSegments, program, pfile
<1>2. Types /\ Entries /\ Place /\ Below /\ Copied /\ Filed
  BY DEF IInv
<1>3. /\ P \in Nat \ {0} /\ Width \in Nat /\ va \in Nat /\ Seg.va \in Nat
      /\ Seg.mem \in Nat /\ End = Seg.va + Seg.mem /\ End \in Nat
      /\ End + P <= Width /\ End <= StackPage * P
      /\ seg \in 1 .. Len(prog) /\ Len(prog) \in Nat
  BY <1>2, SegmentFacts, Layout DEF Types
<1>4. RestEnd \in Nat /\ End <= RestEnd
  BY <1>2, <1>3, RestEnds DEF Types
<1>5. /\ last = Room - left + pages /\ pages <= left /\ pages = 0 /\ ~hand
      /\ \A i \in last .. wsMax - 1 : ws[i] = NoPage
      /\ \A p \in mapped : p * P < End
  BY <1>1, <1>2 DEF Entries, Below, Filing, Beginning, Ending
<1>6. \A s \in 1 .. seg : InMemory(s)'
  BY <1>1, <1>2, SameMemory DEF Copied, Filing
<1>7. \A s \in 1 .. seg : InPageFile(s, Width)'
  <2>1. \A s \in 1 .. seg - 1 : InPageFile(s, Width)
    BY <1>1, <1>2 DEF Filed, Filing
  <2>2. InPageFile(seg, Width)
    <3>1. \A a \in Span(seg) : a < va
      BY <1>1, <1>3, <1>4 DEF Span, Seg
    <3> QED
      BY <1>1, <1>2, <3>1 DEF Filed, InPageFile
  <2>3. \A s \in 1 .. seg : s \in 1 .. seg - 1 \/ s = seg
    BY <1>3
  <2> QED
    BY <1>1, <2>1, <2>2, <2>3, SameFile
<1>8. CASE seg < Len(prog) /\ pc' = "map"
  <2> DEFINE n == prog[seg + 1].va
  <2>1. /\ seg + 1 \in 1 .. Len(prog) /\ seg \in 1 .. (seg + 1) - 1
    BY <1>3, <1>8
  <2>2. /\ n \in Nat /\ n + P <= Width /\ End <= RoundDown(n)
        /\ prog[seg + 1].mem \in Nat
    <3>1. /\ n \in Nat /\ prog[seg + 1].mem \in Nat
          /\ n + prog[seg + 1].mem + P <= Width
          /\ Seg.va + Seg.mem <= RoundDown(n)
      BY <1>2, <2>1, Layout DEF Types, Seg
    <3> QED
      BY <1>3, <3>1
  <2>3. RoundDown(n) \in Nat /\ RoundDown(n) <= n /\ Aligned(RoundDown(n))
    BY <2>2, Down
  <2>4. seg' = seg + 1 /\ va' = RoundDown(n) /\ Seg'.va = n /\ End' = n + prog[seg + 1].mem
    BY <1>1, <1>8 DEF Seg, End
  <2> HIDE DEF n
  <2>5. va' \in 0 .. Width - 1 /\ Aligned(va)'
    <3>1. Aligned(va)'
      BY <2>3, <2>4 DEF Aligned
    <3> QED
      BY <1>3, <2>2, <2>3, <2>4, <3>1
  <2>6. Types'
    <3>1. TypeOK'
      BY <1>1, <1>2, <2>5 DEF Types, TypeOK
    <3>2. seg' \in 1 .. Len(prog')
      BY <1>1, <2>1, <2>4
    <3> QED
      BY <1>1, <1>2, <1>8, <2>5, <3>1, <3>2 DEF Types
  <2>7. Entries'
    BY <1>1, <1>2, <1>5, <1>8 DEF Entries, Beginning, Filing, Ending, Room
  <2>8. Place'
    <3>1. va' = RoundDown(Seg'.va) + pages' * P
      BY <1>1, <1>3, <1>5, <2>3, <2>4
    <3> QED
      BY <1>8, <3>1 DEF Place, Beginning, Ending
  <2>9. Below'
    <3>1. ASSUME NEW p \in mapped PROVE p * P < va' /\ p * P < End'
      <4>1. p \in Nat
        BY <1>2, PagesNatural DEF Types, TypeOK
      <4>2. p * P \in Nat /\ p * P < End
        BY <1>5, <4>1, Multiples
      <4> QED
        <5>1. PICK k \in Nat : k = p * P
          BY <4>2
        <5>2. k < n /\ k < RoundDown(n)
          BY <1>3, <2>2, <2>3, <4>2, <5>1
        <5> QED
          BY <2>2, <2>4, <5>1, <5>2
    <3> QED
      BY <1>1, <1>8, <3>1 DEF Below, Beginning, Filing
  <2>10. 1 .. seg' - 1 = 1 .. seg
    BY <1>3, <2>4
  <2>11. Copied' /\ Filed'
    BY <1>6, <1>7, <1>8, <2>10 DEF Copied, Filed, Filing, Ending
  <2> QED
    BY <2>6, <2>7, <2>8, <2>9, <2>11 DEF IInv
<1>9. CASE ~(seg < Len(prog)) /\ pc' = "stack"
  <2>1. seg' = seg /\ seg = Len(prog) /\ va' = StackPage * P
    BY <1>1, <1>3, <1>9
  <2>2. va' \in 0 .. Width - 1 /\ Aligned(va)'
    <3>1. Aligned(va)'
      BY <2>1, StackInRange DEF Aligned
    <3> QED
      BY <1>3, <2>1, <3>1, StackInRange
  <2>3. Types'
    <3>1. TypeOK'
      BY <1>1, <1>2, <2>2 DEF Types, TypeOK
    <3> QED
      BY <1>1, <1>2, <1>9, <2>1, <2>2, <3>1 DEF Types
  <2>4. Entries'
    BY <1>1, <1>2, <1>5, <1>9 DEF Entries, Beginning, Filing, Ending, Room
  <2>5. Place'
    BY <1>1, <1>9, <2>1 DEF Place, Beginning, Ending
  <2>6. Below'
    <3>1. ASSUME NEW p \in mapped PROVE p < StackPage
      <4>1. p \in Nat
        BY <1>2, PagesNatural DEF Types, TypeOK
      <4>2. p * P \in Nat /\ p * P < StackPage * P /\ Page(p * P) = p
        <5>1. p * P \in Nat /\ Page(p * P) = p /\ p * P < End
          BY <1>5, <4>1, Multiples
        <5>2. PICK k \in Nat : k = StackPage * P
          BY StackInRange
        <5> QED
          BY <1>3, <5>1, <5>2
      <4> QED
        BY <4>2, PageBytes, StackInRange
    <3> QED
      BY <1>1, <1>9, <3>1 DEF Below, Beginning, Filing
  <2>7. Copied' /\ Filed'
    BY <1>1, <1>6, <1>7, <1>9, <2>1 DEF Copied, Filed, Filing, Ending
  <2> QED
    BY <2>3, <2>4, <2>5, <2>6, <2>7 DEF IInv
<1> QED
  BY <1>1, <1>8, <1>9

-----------------------------------------------------------------------------
(* The stack, panics, and the theorems. *)

\* The stack takes the entry that was kept for it.
LEMMA MapStackIInv == ASSUME IInv, MapStack PROVE IInv'
<1>1. /\ pc = "stack" /\ hand' = FALSE /\ pc' = "stackfile"
      /\ mapped' = mapped \cup {StackPage}
      /\ mem' = [mem EXCEPT ![StackPage] = Blank]
      /\ ws' = [ws EXCEPT ![last] = StackPage]
      /\ last' = (last + 1) % wsMax
      /\ prog' = prog /\ wsMax' = wsMax /\ tpp' = tpp /\ seg' = seg /\ va' = va
      /\ src' = src /\ pages' = pages /\ left' = left /\ disk' = disk
      /\ inFile' = inFile /\ file' = file /\ frames' = frames
  BY DEF MapStack, EnterWS, program, pfile
<1>2. Types /\ Entries /\ Place /\ Below /\ Copied /\ Filed
  BY DEF IInv
<1>3. wsMax \in Nat \ {0} /\ last \in 0 .. wsMax - 1
  BY <1>2, Sizes DEF Types, TypeOK
<1>4. last' \in 0 .. wsMax - 1
  BY <1>1, <1>3
<1>5. Types'
  <2>1. ws' \in [0 .. wsMax' - 1 -> Pages \cup {NoPage}]
    BY <1>1, <1>2, StackInRange DEF Types, TypeOK
  <2>2. mapped' \subseteq Pages
    BY <1>1, <1>2, StackInRange DEF Types, TypeOK
  <2>3. TypeOK'
    BY <1>1, <1>2, <1>4, <2>1, <2>2 DEF Types, TypeOK
  <2>4. mem' = [p \in Pages |-> mem'[p]]
    BY <1>1, <1>2 DEF Types
  <2> QED
    BY <1>1, <1>2, <2>3, <2>4 DEF Types, Ending
<1>6. \A i \in 0 .. wsMax - 1 : ws'[i] = IF i = last THEN StackPage ELSE ws[i]
  BY <1>1, <1>2, <1>3 DEF Types, TypeOK
<1>7. ws[last] = NoPage
  BY <1>1, <1>2, <1>3 DEF Entries, Ending
<1>8. Entries'
  <2>1. ASSUME NEW p \in mapped PROVE \E i \in 0 .. wsMax - 1 : ws'[i] = p
    <3>1. PICK i \in 0 .. wsMax - 1 : ws[i] = p
      BY <1>2, <2>1 DEF Entries
    <3>2. p # NoPage
      BY <1>2, PagesNatural DEF Types, TypeOK
    <3> QED
      BY <1>6, <1>7, <3>1, <3>2
  <2>2. ws'[last] = StackPage
    BY <1>3, <1>6
  <2>3. ASSUME NEW i \in 0 .. wsMax - 1, ws'[i] # NoPage PROVE ws'[i] \in mapped'
    BY <1>1, <1>2, <1>6, <2>3 DEF Entries
  <2>4. /\ \A p \in mapped' : \E i \in 0 .. wsMax' - 1 : ws'[i] = p
        /\ \A i \in 0 .. wsMax' - 1 : ws'[i] # NoPage => ws'[i] \in mapped'
    BY <1>1, <1>3, <2>1, <2>2, <2>3
  <2> QED
    BY <1>1, <2>4 DEF Entries, Beginning, Filing, Ending
<1>9. Place'
  BY <1>1, <1>2 DEF Place, Beginning, Ending
<1>10. Below'
  BY <1>1 DEF Below, Beginning, Filing
<1>11. Copied'
  <2>1. ASSUME NEW s \in 1 .. Len(prog) PROVE InMemory(s)'
    <3>1. InMemory(s)
      BY <1>1, <1>2 DEF Copied
    <3>2. ASSUME NEW a \in Span(s) PROVE Page(a) # StackPage
      <4>1. /\ prog[s].va \in Nat /\ prog[s].mem \in Nat
            /\ prog[s].va + prog[s].mem <= StackPage * P
        BY <1>2, Layout DEF Types
      <4>2. a \in Nat /\ a < StackPage * P
        BY <4>1, StackInRange DEF Span
      <4>3. Page(a) < StackPage /\ Page(a) \in Nat
        BY <4>2, StackInRange, PageBytes
      <4> QED
        BY <4>3, StackInRange
    <3>3. \A p : p # StackPage => mem'[p] = mem[p]
      BY <1>1, <1>2 DEF Types
    <3> QED
      BY <1>1, <3>1, <3>2, <3>3 DEF InMemory, Span, Expected
  <2> QED
    BY <1>1, <2>1 DEF Copied, Filing, Ending
<1>12. Filed'
  BY <1>1, <1>2, SameFile DEF Filed, Filing, Ending
<1> QED
  BY <1>5, <1>8, <1>9, <1>10, <1>11, <1>12 DEF IInv

\* The stack's page goes to the page file, behind all segments, or nowhere.
LEMMA WriteStackIInv == ASSUME IInv, WriteStack PROVE IInv'
<1>1. /\ pc = "stackfile" /\ pc' = "done"
      /\ pf_add_env_page \/ UNCHANGED pfile
      /\ prog' = prog /\ wsMax' = wsMax /\ tpp' = tpp /\ seg' = seg /\ va' = va
      /\ src' = src /\ hand' = hand /\ pages' = pages /\ left' = left
      /\ ws' = ws /\ last' = last /\ mapped' = mapped /\ mem' = mem /\ frames' = frames
  BY DEF WriteStack, program, segment, memory
<1>2. Types /\ Entries /\ Place /\ Below /\ Copied /\ Filed
  BY DEF IInv
<1>3. Target = StackPage * P /\ Target \in 0 .. Width - 1 /\ Aligned(Target)
  BY <1>1, <1>2, Targets, StackInRange DEF Place, Types, TypeOK
<1>4. /\ inFile' \subseteq Pages /\ disk' \in Nat
      /\ file' = [p \in Pages |-> file'[p]]
      /\ \A s \in 1 .. Len(prog) : InPageFile(s, Width)'
  <2>1. \A s \in 1 .. Len(prog) : InPageFile(s, Width)
    BY <1>1, <1>2 DEF Filed, Ending
  <2>2. CASE UNCHANGED pfile
    <3>1. inFile' = inFile /\ file' = file /\ disk' = disk
      BY <2>2 DEF pfile
    <3> QED
      BY <1>1, <1>2, <2>1, <3>1, SameFile DEF Types, TypeOK
  <2>3. CASE pf_add_env_page
    <3>1. ASSUME NEW s \in 1 .. Len(prog) PROVE InPageFile(s, Width)'
      <4>1. /\ prog[s].va \in Nat /\ prog[s].mem \in Nat
            /\ prog[s].va + prog[s].mem <= StackPage * P
        BY <1>2, Layout DEF Types
      <4>2. ASSUME NEW a \in Span(s) PROVE a \in Nat /\ a < StackPage * P /\ a < Width
        <5>1. a \in Nat /\ a < StackPage * P
          BY <4>1, StackInRange DEF Span
        <5>2. PICK k \in Nat : k = StackPage * P
          BY StackInRange
        <5> QED
          BY <5>1, <5>2, StackInRange, Sizes
      <4>3. \A a \in Span(s) : /\ Page(a) \in inFile'
                               /\ file'[Page(a)][a % P] = Expected(s, a)
        BY <1>2, <1>3, <2>1, <2>3, <4>2, PageWritten DEF InPageFile
      <4> QED
        BY <1>1, <4>3 DEF InPageFile, Span, Expected
    <3> QED
      BY <1>2, <1>3, <2>3, <3>1, PageWritten
  <2> QED
    BY <1>1, <2>2, <2>3
<1>5. Types'
  <2>1. TypeOK'
    BY <1>1, <1>2, <1>4 DEF Types, TypeOK
  <2> QED
    BY <1>1, <1>2, <1>4, <2>1 DEF Types, Ending, Aligned
<1>6. Entries'
  BY <1>1, <1>2 DEF Entries, Beginning, Filing, Ending
<1>7. Place'
  BY <1>1, <1>2 DEF Place, Beginning, Ending
<1>8. Below'
  BY <1>1 DEF Below, Beginning, Filing
<1>9. Copied'
  BY <1>1, <1>2, SameMemory DEF Copied, Filing, Ending
<1>10. Filed'
  BY <1>1, <1>4 DEF Filed, Filing, Ending
<1> QED
  BY <1>5, <1>6, <1>7, <1>8, <1>9, <1>10 DEF IInv

\* A panic leaves everything as it is.
LEMMA LoadPanicIInv == ASSUME IInv, LoadPanic PROVE IInv'
<1>1. /\ pc' = "panic"
      /\ prog' = prog /\ wsMax' = wsMax /\ tpp' = tpp /\ seg' = seg /\ va' = va
      /\ src' = src /\ hand' = hand /\ pages' = pages /\ left' = left
      /\ ws' = ws /\ last' = last /\ mapped' = mapped /\ mem' = mem
      /\ inFile' = inFile /\ file' = file /\ disk' = disk /\ frames' = frames
  BY DEF LoadPanic, program, segment, memory, pfile
<1>2. Types'
  BY <1>1 DEF IInv, Types, TypeOK, Aligned
<1>3. /\ \A p \in mapped' : \E i \in 0 .. wsMax' - 1 : ws'[i] = p
      /\ \A i \in 0 .. wsMax' - 1 : ws'[i] # NoPage => ws'[i] \in mapped'
  BY <1>1 DEF IInv, Entries
<1> QED
  BY <1>1, <1>2, <1>3, Panics

\* Every step of env_create keeps the invariant.
LEMMA NextIInv == IInv /\ [Next]_vars => IInv'
<1> SUFFICES ASSUME IInv, [Next]_vars PROVE IInv'
  OBVIOUS
<1> USE DEF program, segment, memory, pfile, tableWS
<1>1. hand \in BOOLEAN /\ frames \in Nat /\ disk \in Nat
  BY DEF IInv, Types, TypeOK
<1>2. CASE Prepare
  BY <1>2, PrepareIInv
<1>3. CASE TakePageFrame
  BY <1>1, <1>3, Stays DEF TakePageFrame
<1>4. CASE CreateTable
  BY <1>1, <1>4, Stays DEF CreateTable
<1>5. CASE MapPage
  BY <1>5, MapPageIInv
<1>6. CASE CopySegment
  BY <1>6, CopySegmentIInv
<1>7. CASE CreateDiskDirectory
  BY <1>1, <1>7, Stays DEF CreateDiskDirectory
<1>8. CASE CreateDiskTable
  BY <1>1, <1>8, Stays DEF CreateDiskTable
<1>9. CASE WriteFirst
  BY <1>9, WriteFirstIInv
<1>10. CASE WriteMiddle
  BY <1>10, WriteMiddleIInv
<1>11. CASE EndMiddle
  BY <1>11, EndMiddleIInv
<1>12. CASE WriteLast
  BY <1>12, WriteLastIInv
<1>13. CASE WriteRest
  BY <1>13, WriteRestIInv
<1>14. CASE EndSegment
  BY <1>14, EndSegmentIInv
<1>15. CASE MapStack
  BY <1>15, MapStackIInv
<1>16. CASE WriteStack
  BY <1>16, WriteStackIInv
<1>17. CASE LoadPanic
  BY <1>17, LoadPanicIInv
<1>18. CASE UNCHANGED vars
  BY <1>1, <1>18, Stays DEF vars
<1> QED
  BY <1>2, <1>3, <1>4, <1>5, <1>6, <1>7, <1>8, <1>9, <1>10, <1>11, <1>12,
     <1>13, <1>14, <1>15, <1>16, <1>17, <1>18 DEF Next

\* The invariant, at the end of env_create, is what was promised.
LEMMA Promised == IInv => FileHasProgram /\ MemoryMatches
<1> SUFFICES ASSUME IInv PROVE FileHasProgram /\ MemoryMatches
  OBVIOUS
<1>1. Types /\ Entries /\ Copied /\ Filed
  BY DEF IInv
<1>2. DOMAIN prog = 1 .. Len(prog)
  <2> DEFINE segments == [va : Nat, file : Nat, mem : Nat]
  <2>1. prog \in Seq(segments)
    BY <1>1, LoaderAssumption DEF Types
  <2> HIDE DEF segments
  <2> QED
    BY <2>1
<1>3. ASSUME pc = "done", NEW s \in DOMAIN prog, NEW a \in Span(s)
      PROVE  /\ Page(a) \in inFile /\ file[Page(a)][a % P] = Expected(s, a)
             /\ Page(a) \in mapped => mem[Page(a)][a % P] = Expected(s, a)
  <2>1. /\ prog[s].va \in Nat /\ prog[s].mem \in Nat
        /\ prog[s].va + prog[s].mem + P <= Width
    BY <1>1, <1>2, Layout DEF Types
  <2>2. a < Width
    BY <2>1, Sizes DEF Span
  <2> QED
    BY <1>1, <1>2, <1>3, <2>2 DEF Copied, Filed, Ending, InMemory, InPageFile
<1>4. FileHasProgram
  BY <1>3 DEF FileHasProgram
<1>5. CleanPagesMatch
  BY <1>3 DEF CleanPagesMatch
<1>6. WSListsMemory
  <2> SUFFICES ASSUME pc = "done"
               PROVE  /\ StackPage \in mapped
                      /\ {ws[i] : i \in DOMAIN ws} \ {NoPage} = mapped
    BY DEF WSListsMemory
  <2>1. DOMAIN ws = 0 .. wsMax - 1
    BY <1>1 DEF Types, TypeOK
  <2>2. \A p \in mapped : p # NoPage
    BY <1>1, PagesNatural DEF Types, TypeOK
  <2>3. StackPage \in mapped
    BY <1>1 DEF Entries, Ending
  <2> QED
    BY <1>1, <2>1, <2>2, <2>3 DEF Entries
<1> QED
  BY <1>1, <1>4, <1>5, <1>6 DEF MemoryMatches, Types

\* When env_create returns, every byte of every segment is in the page file,
\* for any page size, number of segments, working set and memory.
THEOREM FileSafe == Spec => []FileHasProgram
<1>1. Init => IInv
  BY InitIInv
<1>2. IInv /\ [Next]_vars => IInv'
  BY NextIInv
<1>3. IInv => FileHasProgram
  BY Promised
<1> QED
  BY <1>1, <1>2, <1>3, PTL DEF Spec

\* Every index and address stays in its range, and when env_create returns the
\* working set lists exactly the pages in memory, whose bytes are those of the
\* page file as long as they are not marked modified.
THEOREM MemorySafe == Spec => []MemoryMatches
<1>1. Init => IInv
  BY InitIInv
<1>2. IInv /\ [Next]_vars => IInv'
  BY NextIInv
<1>3. IInv => MemoryMatches
  BY Promised
<1> QED
  BY <1>1, <1>2, <1>3, PTL DEF Spec
=============================================================================
