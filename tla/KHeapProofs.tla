---------------------------- MODULE KHeapProofs ----------------------------
(* Proofs about the frames and the kernel heap, for every heap size, every  *)
(* set of frames and every set of request sizes; then that the search loop  *)
(* of nextFitAlgo implements the closed form of KHeap, for any heap, any    *)
(* place where the search begins and any size asked for.                   *)
EXTENDS KHeapSearch, SequenceTheorems, TLAPS

USE NPagesAssumption, FramesAssumption, SizesAssumption

-----------------------------------------------------------------------------
(* Arithmetic of the wrap *)

\* A page number reached by the search is a page of the heap.
LEMMA AtInHeap ==
    ASSUME startAdd \in 0 .. NPages, NEW k \in Nat
    PROVE  At(k) \in Pages
  BY DEF At, Pages

\* Stepping back d iterations steps back d pages unless the heap's bottom is
\* crossed.
LEMMA AtBack ==
    ASSUME startAdd \in 0 .. NPages, NEW k \in Nat, NEW d \in Nat,
           d <= k, d <= At(k)
    PROVE  At(k - d) = At(k) - d
  <1>1. \A a, e \in Nat : e <= a % NPages => (a - e) % NPages = (a % NPages) - e
    OBVIOUS
  <1>2. startAdd + (k - d) = (startAdd + k) - d
    OBVIOUS
  <1>3. startAdd + k \in Nat /\ d <= (startAdd + k) % NPages
    BY DEF At
  <1>4. ((startAdd + k) - d) % NPages = ((startAdd + k) % NPages) - d
    BY <1>1, <1>3
  <1> QED
    BY <1>2, <1>4 DEF At

-----------------------------------------------------------------------------
(* Type correctness *)

\* The empty heap has the types of the model.
LEMMA InitTypeOK == Init => TypeOK
  <1> SUFFICES ASSUME Init PROVE TypeOK
    OBVIOUS
  <1>1. kHeapArr \in Seq(Blocks)
    BY EmptySeq DEF Init
  <1>2. freeList \in Seq(Frames)
    BY InitFreeListAssumption DEF Init
  <1>3. /\ pt \in [Pages -> Frames \cup {NoFrame}]
        /\ upt \in [UserPages -> Frames \cup {NoFrame}]
        /\ references \in [Frames -> Nat]
    BY DEF Init
  <1>4. strategy \in Strategies /\ proc \in Procs /\ short \in BOOLEAN
    BY DEF Init, Strategies, Procs
  <1>5. /\ startAdd \in 0 .. NPages /\ size \in Nat
        /\ first \in Pages /\ last \in Pages /\ cur \in 0 .. NPages
    BY DEF Init, Pages
  <1> QED
    BY <1>1, <1>2, <1>3, <1>4, <1>5 DEF Init, TypeOK

\* TakeFrame and ReleaseFrame keep the types of the frame structures.
LEMMA TakeFrameType ==
    ASSUME TypeOK, TakeFrame
    PROVE  /\ Head(freeList) \in Frames
           /\ freeList' \in Seq(Frames)
           /\ references' \in [Frames -> Nat]
  <1>1. Head(freeList) \in Frames /\ Tail(freeList) \in Seq(Frames)
    BY HeadTailProperties DEF TypeOK, TakeFrame
  <1> QED
    BY <1>1 DEF TypeOK, TakeFrame

\* free_frame of the last reference puts the frame at the head of the list.
LEMMA ReleaseFrameType ==
    ASSUME TypeOK, NEW f \in Frames, references[f] = 1, ReleaseFrame(f)
    PROVE  /\ freeList' = <<f>> \o freeList
           /\ freeList' \in Seq(Frames)
           /\ references' \in [Frames -> Nat]
  <1>1. freeList' = <<f>> \o freeList
    BY DEF ReleaseFrame
  <1>2. <<f>> \in Seq(Frames)
    OBVIOUS
  <1>3. <<f>> \o freeList \in Seq(Frames)
    BY <1>2, ConcatProperties DEF TypeOK
  <1>4. references' \in [Frames -> Nat]
    BY DEF ReleaseFrame, TypeOK
  <1> QED
    BY <1>1, <1>3, <1>4

\* A mapped frame is counted once.
LEMMA MappedOnce ==
    ASSUME TypeOK, FramesConserved
    PROVE  /\ \A p \in Pages : pt[p] # NoFrame =>
                  pt[p] \in Frames /\ references[pt[p]] = 1
           /\ \A u \in UserPages : upt[u] # NoFrame =>
                  upt[u] \in Frames /\ references[upt[u]] = 1
  BY DEF TypeOK, FramesConserved, MappedInHeap, MappedByUser

\* Every step of the heap and of user pages keeps the types.
LEMMA NextTypeOK == TypeOK /\ FramesConserved /\ [Next]_vars => TypeOK'
  <1> SUFFICES ASSUME TypeOK, FramesConserved, [Next]_vars PROVE TypeOK'
    OBVIOUS
  <1> USE DEF Procs, frames, records, run
  <1>1. ASSUME NEW n \in Sizes, Kmalloc(n) PROVE TypeOK'
    BY <1>1 DEF TypeOK, Kmalloc
  <1>2. CASE SearchFits
    <2>1. PICK k \in Fits(size) : first' = At(k - size + 1) /\ last' = At(k)
      BY <1>2 DEF SearchFits
    <2>2. k \in Nat /\ k - size + 1 \in Nat
      BY <1>2, <2>1 DEF Fits, Iterations, TypeOK, SearchFits
    <2>3. At(k) \in Pages /\ At(k - size + 1) \in Pages
      BY <2>2, AtInHeap DEF TypeOK
    <2> QED
      BY <1>2, <2>1, <2>3 DEF TypeOK, SearchFits, Pages
  <1>3. CASE SearchNull \/ SearchForever \/ ReturnNull \/ MapPanic \/ UnmapDone
    <2>1. /\ UNCHANGED <<frames, records, strategy, short>>
          /\ UNCHANGED <<size, run>> \/ Return
          /\ proc' \in {"null", "hung", "idle"}
      BY <1>3 DEF SearchNull, SearchForever, ReturnNull, MapPanic, UnmapDone,
                  Return
    <2> QED
      BY <2>1 DEF TypeOK, Return, Pages
  <1>4. CASE MapPage
    BY <1>4, TakeFrameType DEF TypeOK, MapPage, Pages
  <1>5. CASE MapDone
    <2>1. [first |-> first, last |-> last] \in Blocks
      BY DEF TypeOK, Blocks
    <2>2. /\ kHeapArr' \in Seq(Blocks)
          /\ Len(kHeapArr') = Len(kHeapArr) + 1
          /\ Len(kHeapArr) \in Nat
      BY <1>5, <2>1, AppendProperties, LenProperties DEF TypeOK, MapDone
    <2>3. live' \subseteq 1 .. Len(kHeapArr')
      <3>1. live' = live \cup {Len(kHeapArr) + 1}
        BY <1>5 DEF MapDone
      <3>2. live \subseteq 1 .. Len(kHeapArr)
        BY DEF TypeOK
      <3>3. ASSUME NEW n \in Nat
            PROVE  \A b : b \in 1 .. n \/ b = n + 1 => b \in 1 .. n + 1
        OBVIOUS
      <3> QED
        BY <2>2, <3>1, <3>2, <3>3
    <2> QED
      BY <1>5, <2>2, <2>3 DEF TypeOK, MapDone, Return, Pages
  <1>6. ASSUME NEW va, KfreeAt(va),
               UNCHANGED <<frames, startAdd, kHeapArr, strategy, size, short>>,
               live' \subseteq live, proc = "idle"
        PROVE  TypeOK'
    <2>1. CASE UNCHANGED <<proc, run>>
      BY <1>6, <2>1 DEF TypeOK
    <2>2. CASE ~ UNCHANGED <<proc, run>>
      <3>1. PICK z \in Matches(va) :
              /\ proc' = "unmap"
              /\ first' = va /\ cur' = va
              /\ last' = kHeapArr[z].last
        BY <1>6, <2>2 DEF KfreeAt
      <3>2. kHeapArr[z] \in Blocks /\ kHeapArr[z].first = va
        BY <3>1, ElementOfSeq DEF Matches, TypeOK
      <3>3. va \in Pages /\ kHeapArr[z].last \in Pages
        BY <3>2 DEF Blocks
      <3> QED
        BY <1>6, <3>1, <3>3 DEF TypeOK, Pages
    <2> QED
      BY <2>1, <2>2
  <1>7. ASSUME NEW b \in live, Kfree(b) \/ KfreeTable(b) PROVE TypeOK'
    BY <1>6, <1>7 DEF Kfree, KfreeTable
  <1>8. CASE UnmapPage
    <2>1. cur \in Pages
      BY <1>8 DEF UnmapPage, TypeOK, Pages
    <2>2. freeList' \in Seq(Frames) /\ references' \in [Frames -> Nat]
      BY <1>8, <2>1, MappedOnce, ReleaseFrameType DEF UnmapPage, TypeOK
    <2> QED
      BY <1>8, <2>1, <2>2 DEF TypeOK, UnmapPage, Pages
  <1>9. ASSUME NEW u \in UserPages, UserMap(u) PROVE TypeOK'
    BY <1>9, TakeFrameType DEF TypeOK, UserMap
  <1>10. ASSUME NEW u \in UserPages, UserUnmap(u) PROVE TypeOK'
    <2>1. freeList' \in Seq(Frames) /\ references' \in [Frames -> Nat]
      BY <1>10, MappedOnce, ReleaseFrameType DEF UserUnmap
    <2> QED
      BY <1>10, <2>1 DEF TypeOK, UserUnmap
  <1>11. ASSUME NEW s \in Strategies, SetKHeapPlacementStrategy(s)
         PROVE TypeOK'
    BY <1>11 DEF TypeOK, SetKHeapPlacementStrategy
  <1>12. CASE UNCHANGED vars
    BY <1>12 DEF TypeOK, vars
  <1> QED
    BY <1>1, <1>2, <1>3, <1>4, <1>5, <1>7, <1>8, <1>9, <1>10, <1>11,
       <1>12 DEF Next, KernelStep

-----------------------------------------------------------------------------
(* Conservation of frames *)

NoRepeats == \A z, j \in 1 .. Len(freeList) : freeList[z] = freeList[j] => z = j

\* allocate_frame removes exactly its frame from a list without repetitions.
LEMMA TakeFrameList ==
    ASSUME TypeOK, NoRepeats, TakeFrame
    PROVE  /\ Listed(Head(freeList))
           /\ \A g : Listed(g)' <=> Listed(g) /\ g # Head(freeList)
           /\ NoRepeats'
  <1> DEFINE n == Len(freeList)
  <1>1. freeList' = Tail(freeList) /\ freeList # << >> /\ freeList \in Seq(Frames)
    BY DEF TakeFrame, TypeOK
  <1>2. /\ n \in Nat \ {0}
        /\ Len(freeList') = n - 1
        /\ Head(freeList) = freeList[1]
        /\ \A z \in 1 .. n - 1 : freeList'[z] = freeList[z + 1]
    BY <1>1, HeadTailProperties, LenProperties, EmptySeq
  <1> HIDE DEF n
  <1>3. Listed(Head(freeList))
    BY <1>2 DEF Listed, n
  <1>4. ASSUME NEW g, Listed(g)' PROVE Listed(g) /\ g # Head(freeList)
    <2>1. PICK z \in 1 .. n - 1 : freeList'[z] = g
      BY <1>2, <1>4 DEF Listed
    <2>2. z + 1 \in 1 .. n /\ 1 \in 1 .. n /\ freeList[z + 1] = g /\ z + 1 # 1
      BY <1>2, <2>1
    <2> QED
      BY <1>2, <2>2 DEF Listed, NoRepeats, n
  <1>5. ASSUME NEW g, Listed(g), g # Head(freeList) PROVE Listed(g)'
    <2>1. PICK z \in 1 .. n : freeList[z] = g
      BY <1>5 DEF Listed, n
    <2>2. z # 1
      BY <1>2, <1>5, <2>1
    <2>3. z - 1 \in 1 .. n - 1 /\ freeList'[z - 1] = g
      BY <1>2, <2>1, <2>2
    <2> QED
      BY <1>2, <2>3 DEF Listed
  <1>6. NoRepeats'
    <2> SUFFICES ASSUME NEW z \in 1 .. n - 1, NEW j \in 1 .. n - 1,
                        freeList'[z] = freeList'[j]
                 PROVE  z = j
      BY <1>2 DEF NoRepeats
    <2>1. /\ z + 1 \in 1 .. n /\ j + 1 \in 1 .. n
          /\ freeList[z + 1] = freeList[j + 1]
      BY <1>2
    <2>2. z + 1 = j + 1
      BY <2>1 DEF NoRepeats, n
    <2> QED
      BY <1>2, <2>2
  <1> QED
    BY <1>3, <1>4, <1>5, <1>6

\* free_frame adds exactly its frame.
LEMMA ReleaseFrameList ==
    ASSUME TypeOK, NoRepeats, NEW f \in Frames, references[f] = 1, ~Listed(f),
           ReleaseFrame(f)
    PROVE  /\ \A g : Listed(g)' <=> Listed(g) \/ g = f
           /\ NoRepeats'
  <1> DEFINE n == Len(freeList)
  <1>1. freeList' = <<f>> \o freeList
    BY ReleaseFrameType
  <1>2. freeList \in Seq(Frames) /\ <<f>> \in Seq(Frames) /\ n \in Nat
        /\ Len(<<f>>) = 1 /\ <<f>>[1] = f
    BY LenProperties DEF TypeOK
  <1>3. /\ Len(freeList') = n + 1
        /\ freeList'[1] = f
        /\ \A z \in 2 .. n + 1 : freeList'[z] = freeList[z - 1]
    BY <1>1, <1>2, ConcatProperties
  <1> HIDE DEF n
  <1>4. ASSUME NEW g, Listed(g)' PROVE Listed(g) \/ g = f
    <2>1. PICK z \in 1 .. n + 1 : freeList'[z] = g
      BY <1>3, <1>4 DEF Listed
    <2>2. CASE z = 1
      BY <1>3, <2>1, <2>2
    <2>3. CASE z # 1
      <3>1. z - 1 \in 1 .. n /\ freeList[z - 1] = g
        BY <1>2, <1>3, <2>1, <2>3
      <3> QED
        BY <3>1 DEF Listed, n
    <2> QED
      BY <2>2, <2>3
  <1>5. Listed(f)'
    <2>1. 1 \in 1 .. n + 1
      BY <1>2
    <2> QED
      BY <1>3, <2>1 DEF Listed
  <1>6. ASSUME NEW g, Listed(g) PROVE Listed(g)'
    <2>1. PICK z \in 1 .. n : freeList[z] = g
      BY <1>6 DEF Listed, n
    <2>2. z + 1 \in 1 .. n + 1 /\ freeList'[z + 1] = g
      BY <1>2, <1>3, <2>1
    <2> QED
      BY <1>3, <2>2 DEF Listed
  <1>7. NoRepeats'
    <2> SUFFICES ASSUME NEW z \in 1 .. n + 1, NEW j \in 1 .. n + 1,
                        freeList'[z] = freeList'[j]
                 PROVE  z = j
      BY <1>3 DEF NoRepeats
    <2>1. \A k \in 1 .. n : freeList[k] # f
      BY DEF Listed, n
    <2>2. CASE z = 1 \/ j = 1
      BY <1>2, <1>3, <2>1, <2>2
    <2>3. CASE z # 1 /\ j # 1
      <3>1. /\ z - 1 \in 1 .. n /\ j - 1 \in 1 .. n
            /\ freeList[z - 1] = freeList[j - 1]
        BY <1>2, <1>3, <2>3
      <3>2. z - 1 = j - 1
        BY <3>1 DEF NoRepeats, n
      <3> QED
        BY <1>2, <3>2
    <2> QED
      BY <2>2, <2>3
  <1> QED
    BY <1>4, <1>5, <1>6, <1>7

\* At the start every frame is free.
LEMMA InitFrames == Init => FramesConserved
  <1> SUFFICES ASSUME Init PROVE FramesConserved
    OBVIOUS
  <1>1. \A f \in Frames : Listed(f) /\ ~MappedInHeap(f) /\ ~MappedByUser(f)
    BY InitFreeListAssumption DEF Init, Listed, MappedInHeap, MappedByUser
  <1> QED
    BY <1>1, InitFreeListAssumption DEF Init, FramesConserved

\* A step that leaves the frame structures alone.
LEMMA SameFrames == FramesConserved /\ UNCHANGED frames => FramesConserved'
  BY DEF FramesConserved, frames, Listed, MappedInHeap, MappedByUser

\* A step that takes the head of the free list for a page with no frame.
LEMMA TakeFrames ==
    ASSUME TypeOK, FramesConserved, TakeFrame,
           \/ /\ upt' = upt
              /\ \E p \in Pages : /\ pt[p] = NoFrame
                                  /\ pt' = [pt EXCEPT ![p] = Head(freeList)]
           \/ /\ pt' = pt
              /\ \E u \in UserPages : /\ upt[u] = NoFrame
                                      /\ upt' = [upt EXCEPT ![u] = Head(freeList)]
    PROVE  FramesConserved'
  <1> DEFINE h == Head(freeList)
  <1>1. NoRepeats
    BY DEF FramesConserved, NoRepeats
  <1>2. h \in Frames /\ Listed(h) /\ NoRepeats'
        /\ \A g : Listed(g)' <=> Listed(g) /\ g # h
    BY <1>1, TakeFrameList, TakeFrameType
  <1>3. references' = [references EXCEPT ![h] = 1]
    BY DEF TakeFrame
  <1> HIDE DEF h
  <1>4. \A f \in Frames : references'[f] = IF Listed(f)' THEN 0 ELSE 1
    BY <1>2, <1>3 DEF FramesConserved, TypeOK
  <1>5. /\ \A p \in Pages : pt[p] # h
        /\ \A u \in UserPages : upt[u] # h
        /\ h # NoFrame
    BY <1>2 DEF FramesConserved, MappedInHeap, MappedByUser
  <1>6. CASE /\ upt' = upt
             /\ \E p \in Pages : /\ pt[p] = NoFrame
                                 /\ pt' = [pt EXCEPT ![p] = h]
    <2>1. PICK p \in Pages : pt[p] = NoFrame /\ pt' = [pt EXCEPT ![p] = h]
      BY <1>6
    <2>2. /\ pt'[p] = h
          /\ \A q \in Pages : q # p => pt'[q] = pt[q]
      BY <2>1 DEF TypeOK
    <2>3. \A f \in Frames : MappedInHeap(f)' <=> MappedInHeap(f) \/ f = h
      BY <2>1, <2>2 DEF MappedInHeap
    <2>4. \A f \in Frames : MappedByUser(f)' <=> MappedByUser(f)
      BY <1>6 DEF MappedByUser
    <2>5. \A f \in Frames :
            Listed(f)' <=> ~(MappedInHeap(f)' \/ MappedByUser(f)')
      BY <1>2, <2>3, <2>4 DEF FramesConserved
    <2>6. \A q, r \in Pages : pt'[q] = pt'[r] /\ pt'[q] # NoFrame => q = r
      BY <1>5, <2>2 DEF FramesConserved
    <2>7. \A q \in Pages, u \in UserPages :
             pt'[q] = upt'[u] => pt'[q] = NoFrame
      BY <1>5, <1>6, <2>2 DEF FramesConserved
    <2> QED
      BY <1>2, <1>4, <1>6, <2>5, <2>6, <2>7 DEF FramesConserved, NoRepeats
  <1>7. CASE /\ pt' = pt
             /\ \E u \in UserPages : /\ upt[u] = NoFrame
                                     /\ upt' = [upt EXCEPT ![u] = h]
    <2>1. PICK u \in UserPages : upt[u] = NoFrame /\ upt' = [upt EXCEPT ![u] = h]
      BY <1>7
    <2>2. /\ upt'[u] = h
          /\ \A v \in UserPages : v # u => upt'[v] = upt[v]
      BY <2>1 DEF TypeOK
    <2>3. \A f \in Frames : MappedByUser(f)' <=> MappedByUser(f) \/ f = h
      BY <2>1, <2>2 DEF MappedByUser
    <2>4. \A f \in Frames : MappedInHeap(f)' <=> MappedInHeap(f)
      BY <1>7 DEF MappedInHeap
    <2>5. \A f \in Frames :
            Listed(f)' <=> ~(MappedInHeap(f)' \/ MappedByUser(f)')
      BY <1>2, <2>3, <2>4 DEF FramesConserved
    <2>6. \A v, w \in UserPages :
            upt'[v] = upt'[w] /\ upt'[v] # NoFrame => v = w
      BY <1>5, <2>2 DEF FramesConserved
    <2>7. \A q \in Pages, v \in UserPages :
             pt'[q] = upt'[v] => pt'[q] = NoFrame
      BY <1>5, <1>7, <2>2 DEF FramesConserved
    <2> QED
      BY <1>2, <1>4, <1>7, <2>5, <2>6, <2>7 DEF FramesConserved, NoRepeats
  <1> QED
    BY <1>6, <1>7 DEF h

\* A step that unmaps one page and gives its frame back.
LEMMA ReleaseFrames ==
    ASSUME TypeOK, FramesConserved,
           \/ /\ upt' = upt
              /\ \E p \in Pages : /\ pt[p] # NoFrame
                                  /\ ReleaseFrame(pt[p])
                                  /\ pt' = [pt EXCEPT ![p] = NoFrame]
           \/ /\ pt' = pt
              /\ \E u \in UserPages : /\ upt[u] # NoFrame
                                      /\ ReleaseFrame(upt[u])
                                      /\ upt' = [upt EXCEPT ![u] = NoFrame]
    PROVE  FramesConserved'
  <1>1. NoRepeats
    BY DEF FramesConserved, NoRepeats
  <1>2. ASSUME NEW f \in Frames, ReleaseFrame(f), references[f] = 1
        PROVE  /\ \A g : Listed(g)' <=> Listed(g) \/ g = f
               /\ NoRepeats'
               /\ \A g \in Frames : references'[g] = IF Listed(g)' THEN 0 ELSE 1
    <2>1. ~Listed(f)
      BY <1>2 DEF FramesConserved
    <2>2. /\ \A g : Listed(g)' <=> Listed(g) \/ g = f
          /\ NoRepeats'
      BY <1>1, <1>2, <2>1, ReleaseFrameList
    <2>3. references' = [references EXCEPT ![f] = references[f] - 1]
      BY <1>2 DEF ReleaseFrame
    <2> QED
      BY <1>2, <2>2, <2>3 DEF FramesConserved, TypeOK
  <1>3. CASE /\ upt' = upt
             /\ \E p \in Pages : /\ pt[p] # NoFrame
                                 /\ ReleaseFrame(pt[p])
                                 /\ pt' = [pt EXCEPT ![p] = NoFrame]
    <2>1. PICK p \in Pages : /\ pt[p] # NoFrame
                             /\ ReleaseFrame(pt[p])
                             /\ pt' = [pt EXCEPT ![p] = NoFrame]
      BY <1>3
    <2>2. pt[p] \in Frames /\ references[pt[p]] = 1
      BY <2>1, MappedOnce
    <2>3. /\ pt'[p] = NoFrame
          /\ \A q \in Pages : q # p => pt'[q] = pt[q]
      BY <2>1 DEF TypeOK
    <2>4. \A f \in Frames : MappedInHeap(f)' <=> MappedInHeap(f) /\ f # pt[p]
      BY <2>1, <2>3 DEF MappedInHeap, FramesConserved
    <2>5. /\ \A f \in Frames : MappedByUser(f)' <=> MappedByUser(f)
          /\ ~MappedByUser(pt[p])
      BY <1>3, <2>1 DEF MappedByUser, FramesConserved
    <2>6. \A f \in Frames :
            Listed(f)' <=> ~(MappedInHeap(f)' \/ MappedByUser(f)')
      BY <1>2, <2>1, <2>2, <2>4, <2>5 DEF FramesConserved
    <2>7. \A q, r \in Pages : pt'[q] = pt'[r] /\ pt'[q] # NoFrame => q = r
      BY <2>3 DEF FramesConserved
    <2>8. \A q \in Pages, u \in UserPages :
             pt'[q] = upt'[u] => pt'[q] = NoFrame
      BY <1>3, <2>3 DEF FramesConserved
    <2> QED
      BY <1>2, <1>3, <2>1, <2>2, <2>6, <2>7, <2>8 DEF FramesConserved, NoRepeats
  <1>4. CASE /\ pt' = pt
             /\ \E u \in UserPages : /\ upt[u] # NoFrame
                                     /\ ReleaseFrame(upt[u])
                                     /\ upt' = [upt EXCEPT ![u] = NoFrame]
    <2>1. PICK u \in UserPages : /\ upt[u] # NoFrame
                                 /\ ReleaseFrame(upt[u])
                                 /\ upt' = [upt EXCEPT ![u] = NoFrame]
      BY <1>4
    <2>2. upt[u] \in Frames /\ references[upt[u]] = 1
      BY <2>1, MappedOnce
    <2>3. /\ upt'[u] = NoFrame
          /\ \A v \in UserPages : v # u => upt'[v] = upt[v]
      BY <2>1 DEF TypeOK
    <2>4. \A f \in Frames : MappedByUser(f)' <=> MappedByUser(f) /\ f # upt[u]
      BY <2>1, <2>3 DEF MappedByUser, FramesConserved
    <2>5. /\ \A f \in Frames : MappedInHeap(f)' <=> MappedInHeap(f)
          /\ ~MappedInHeap(upt[u])
      BY <1>4, <2>1 DEF MappedInHeap, FramesConserved
    <2>6. \A f \in Frames :
            Listed(f)' <=> ~(MappedInHeap(f)' \/ MappedByUser(f)')
      BY <1>2, <2>1, <2>2, <2>4, <2>5 DEF FramesConserved
    <2>7. \A v, w \in UserPages :
            upt'[v] = upt'[w] /\ upt'[v] # NoFrame => v = w
      BY <2>3 DEF FramesConserved
    <2>8. \A q \in Pages, v \in UserPages :
             pt'[q] = upt'[v] => pt'[q] = NoFrame
      BY <1>4, <2>3 DEF FramesConserved
    <2> QED
      BY <1>2, <1>4, <2>1, <2>2, <2>6, <2>7, <2>8 DEF FramesConserved, NoRepeats
  <1> QED
    BY <1>3, <1>4

\* The run that ends the search consists of free pages, also when it is not
\* the run that was asked for.
LEMMA FoundRunFree ==
    ASSUME TypeOK, NEW n \in Nat \ {0}, NEW k \in Fits(n),
           NEW p \in Pages, At(k - n + 1) <= p, p <= At(k)
    PROVE  pt[p] = NoFrame
  <1>1. k \in Nat /\ n - 1 <= k /\ RunEndsAt(k, n)
    BY DEF Fits, Iterations, TypeOK
  <1>2. At(k) \in Pages /\ At(k - n + 1) \in Pages
    BY <1>1, AtInHeap DEF TypeOK
  <1> DEFINE d == At(k) - p
  <1>3. d \in Nat /\ d <= At(k)
    BY <1>2 DEF Pages
  <1>4. d <= n - 1
    <2> SUFFICES ASSUME n - 1 < d PROVE FALSE
      BY <1>3
    <2>1. n - 1 \in Nat /\ n - 1 <= At(k) /\ k - n + 1 = k - (n - 1)
      BY <1>1, <1>2, <1>3 DEF Pages
    <2>2. At(k - (n - 1)) = At(k) - (n - 1)
      BY <1>1, <2>1, AtBack DEF TypeOK
    <2> QED
      BY <1>2, <2>1, <2>2 DEF Pages
  <1>5. k - d \in (k - n + 1) .. k /\ d <= k
    BY <1>1, <1>3, <1>4
  <1>6. At(k - d) = p
    <2>1. At(k - d) = At(k) - d
      BY <1>1, <1>3, <1>5, AtBack DEF TypeOK
    <2> QED
      BY <1>2, <2>1 DEF Pages
  <1> QED
    BY <1>1, <1>5, <1>6 DEF RunEndsAt

\* Pages of a run still to be mapped stay free: one call is in progress, and
\* user pages are outside the heap.
LEMMA NextRunFree == TypeOK /\ RunFree /\ [Next]_vars => RunFree'
  <1> SUFFICES ASSUME TypeOK, RunFree, [Next]_vars, proc' = "map"
               PROVE  \A p \in Pages : cur' <= p /\ p <= last' => pt'[p] = NoFrame
    BY DEF RunFree
  <1> USE DEF frames, records, run
  <1>1. CASE SearchFits
    <2>1. PICK k \in Fits(size) : first' = At(k - size + 1) /\ last' = At(k)
      BY <1>1 DEF SearchFits
    <2>2. size \in Nat \ {0}
      BY <1>1 DEF SearchFits, TypeOK
    <2>3. cur' = At(k - size + 1) /\ pt' = pt
      BY <1>1, <2>1 DEF SearchFits
    <2> QED
      BY <2>1, <2>2, <2>3, FoundRunFree
  <1>2. CASE MapPage
    <2>1. cur \in Int /\ last \in Int /\ cur' = cur + 1 /\ last' = last
      BY <1>2 DEF MapPage, TypeOK, Pages
    <2>2. \A p \in Pages : p # cur => pt'[p] = pt[p]
      BY <1>2 DEF MapPage, TypeOK
    <2>3. \A p \in Pages : cur + 1 <= p => p # cur /\ cur <= p
      BY <2>1 DEF Pages
    <2> QED
      BY <1>2, <2>1, <2>2, <2>3 DEF MapPage, RunFree
  <1>3. CASE UNCHANGED <<pt, proc, run>>
    BY <1>3 DEF RunFree
  <1>4. CASE \E n \in Sizes : Kmalloc(n)
    BY <1>4 DEF Kmalloc
  <1>5. CASE \E b \in live : Kfree(b) \/ KfreeTable(b)
    BY <1>5 DEF Kfree, KfreeTable, KfreeAt
  <1>6. CASE KernelStep
    BY <1>1, <1>2, <1>6
       DEF KernelStep, SearchNull, SearchForever, ReturnNull, MapPanic, MapDone,
           UnmapPage, UnmapDone, Return
  <1>7. CASE (\E u \in UserPages : UserMap(u) \/ UserUnmap(u))
             \/ (\E s \in Strategies : SetKHeapPlacementStrategy(s))
             \/ UNCHANGED vars
    BY <1>3, <1>7 DEF UserMap, UserUnmap, SetKHeapPlacementStrategy, vars
  <1> QED
    BY <1>4, <1>5, <1>6, <1>7 DEF Next

\* No step loses a frame or puts one behind two pages.
LEMMA NextFrames ==
    TypeOK /\ FramesConserved /\ RunFree /\ [Next]_vars => FramesConserved'
  <1> SUFFICES ASSUME TypeOK, FramesConserved, RunFree, [Next]_vars
               PROVE  FramesConserved'
    OBVIOUS
  <1>1. CASE UNCHANGED frames
    BY <1>1, SameFrames
  <1>2. CASE MapPage
    <2>1. cur \in Pages /\ pt[cur] = NoFrame
      BY <1>2 DEF MapPage, RunFree, TypeOK, Pages
    <2> QED
      BY <1>2, <2>1, TakeFrames DEF MapPage
  <1>3. CASE UnmapPage
    <2>1. cur \in Pages
      BY <1>3 DEF UnmapPage, TypeOK, Pages
    <2>2. CASE pt[cur] = NoFrame
      <3>1. pt' = pt
        BY <1>3, <2>1, <2>2 DEF UnmapPage, TypeOK
      <3> QED
        BY <1>3, <2>2, <3>1, SameFrames DEF UnmapPage, frames
    <2>3. CASE pt[cur] # NoFrame
      BY <1>3, <2>1, <2>3, ReleaseFrames DEF UnmapPage
    <2> QED
      BY <2>2, <2>3
  <1>4. ASSUME NEW u \in UserPages, UserMap(u) PROVE FramesConserved'
    BY <1>4, TakeFrames DEF UserMap
  <1>5. ASSUME NEW u \in UserPages, UserUnmap(u) PROVE FramesConserved'
    BY <1>5, ReleaseFrames DEF UserUnmap
  <1>6. CASE KernelStep
    BY <1>1, <1>2, <1>3, <1>6
       DEF KernelStep, SearchFits, SearchNull, SearchForever, ReturnNull,
           MapPanic, MapDone, UnmapDone
  <1>7. CASE \/ \E n \in Sizes : Kmalloc(n)
             \/ \E b \in live : Kfree(b) \/ KfreeTable(b)
             \/ \E s \in Strategies : SetKHeapPlacementStrategy(s)
             \/ UNCHANGED vars
    BY <1>1, <1>7 DEF Kmalloc, Kfree, KfreeTable, SetKHeapPlacementStrategy, vars
  <1> QED
    BY <1>4, <1>5, <1>6, <1>7 DEF Next

-----------------------------------------------------------------------------
\* Every state has the declared types and no frame is lost or shared: the
\* free list, the reference counts and the page tables agree after any
\* sequence of kmalloc, kfree, user mappings and out-of-memory panics.
THEOREM FramesSafe == Spec => [](TypeOK /\ FramesConserved)
  <1>1. Init => TypeOK /\ FramesConserved /\ RunFree
    BY InitTypeOK, InitFrames DEF Init, RunFree
  <1>2. TypeOK /\ FramesConserved /\ RunFree /\ [Next]_vars
          => (TypeOK /\ FramesConserved /\ RunFree)'
    BY NextTypeOK, NextFrames, NextRunFree
  <1> QED
    BY <1>1, <1>2, PTL DEF Spec

-----------------------------------------------------------------------------
(* Isolation of held blocks *)

\* The ends of recorded blocks are pages of the heap.
LEMMA RecordTypes ==
    ASSUME TypeOK
    PROVE  /\ Len(kHeapArr) \in Nat
           /\ \A z \in 1 .. Len(kHeapArr) :
                 kHeapArr[z].first \in Pages /\ kHeapArr[z].last \in Pages
           /\ \A b \in live : b \in 1 .. Len(kHeapArr)
  <1>1. kHeapArr \in Seq(Blocks) /\ live \subseteq 1 .. Len(kHeapArr)
    BY DEF TypeOK
  <1>2. Len(kHeapArr) \in Nat
    BY <1>1, LenProperties
  <1>3. \A z \in 1 .. Len(kHeapArr) : kHeapArr[z] \in Blocks
    BY <1>1, ElementOfSeq
  <1> QED
    BY <1>1, <1>2, <1>3 DEF Blocks

\* The last record that matches the address of a held block is its own.
LEMMA OwnRecord ==
    ASSUME TypeOK, HeldInv, ~short, NEW b \in live,
           NEW z \in Nat, LastMatch(z, kHeapArr[b].first)
    PROVE  z = b
  <1>1. b \in 1 .. Len(kHeapArr) /\ b \in Matches(kHeapArr[b].first)
    BY RecordTypes DEF Matches
  <1>2. z \in 1 .. Len(kHeapArr) /\ kHeapArr[z].first = kHeapArr[b].first
        /\ b <= z
    BY <1>1 DEF LastMatch, Matches
  <1>3. ~(b < z)
    BY <1>2 DEF HeldInv
  <1> QED
    BY <1>1, <1>2, <1>3

\* kheap_virtual_address gives back the page of a frame or nothing.
LEMMA VirtualAddressOwn ==
    ASSUME TypeOK, FramesConserved, NEW p \in Pages
    PROVE  kheap_virtual_address(pt[p]) \in {p, NoPage}
  <1>1. CASE pt[p] = NoFrame \/ Backed(pt[p]) = {}
    BY <1>1 DEF kheap_virtual_address
  <1>2. CASE ~(pt[p] = NoFrame \/ Backed(pt[p]) = {})
    <2>1. \A q \in Backed(pt[p]) : q = p
      BY <1>2 DEF Backed, FramesConserved
    <2>2. p \in Backed(pt[p]) /\ p <= p
      BY <1>2, <2>1 DEF Pages
    <2>3. \E q \in Backed(pt[p]) : \A r \in Backed(pt[p]) : q <= r
      BY <2>1, <2>2
    <2>4. (CHOOSE q \in Backed(pt[p]) : \A r \in Backed(pt[p]) : q <= r)
             \in Backed(pt[p])
      BY <2>3
    <2> QED
      BY <1>2, <2>1, <2>4 DEF kheap_virtual_address
  <1> QED
    BY <1>1, <1>2

\* No step maps, unmaps or records anything across a block that stays held.
LEMMA NextHeldInv == IInv /\ [Next]_vars => HeldInv'
  <1> SUFFICES ASSUME IInv, [Next]_vars, ~short' PROVE HeldInv'
    BY DEF HeldInv
  <1>0. TypeOK /\ FramesConserved /\ RunFree /\ HeldInv
    BY DEF IInv
  <1> USE DEF frames, records, run
  <1>1. CASE UNCHANGED <<pt, kHeapArr, live, short>> /\ proc' \notin {"map", "unmap"}
    BY <1>0, <1>1 DEF HeldInv, PagesOf
  <1>2. CASE UNCHANGED <<pt, kHeapArr, live, short, proc, run>>
    BY <1>0, <1>2 DEF HeldInv, PagesOf
  <1>3. CASE SearchFits
    <2>1. PICK k \in Fits(size) : first' = At(k - size + 1) /\ last' = At(k)
      BY <1>3 DEF SearchFits
    <2>2. size \in Nat \ {0} /\ ~short /\ last' - first' + 1 = size
      BY <1>0, <1>3 DEF SearchFits, TypeOK
    <2>3. k \in Nat /\ k - size + 1 \in Nat
      BY <1>0, <2>1, <2>2 DEF Fits, Iterations, TypeOK
    <2>4. first' \in Pages /\ last' \in Pages
      BY <1>0, <2>1, <2>3, AtInHeap DEF TypeOK
    <2>5. \A p \in Pages : first' <= p /\ p <= last' => pt[p] = NoFrame
      BY <1>0, <2>1, <2>2, FoundRunFree
    <2>6. first' <= last' /\ cur' = first'
      BY <1>3, <2>2, <2>4 DEF SearchFits, Pages
    <2>7. \A b \in live : \A p \in PagesOf(b) : p \in Pages
      BY <1>0, RecordTypes DEF PagesOf, Pages
    <2>8. \A b \in live : \A p \in PagesOf(b) : ~(first' <= p /\ p <= last')
      BY <1>0, <2>2, <2>5, <2>7 DEF HeldInv
    <2>9. \A p \in Pages : ~(first' <= p /\ p < cur')
      BY <2>4, <2>6 DEF Pages
    <2>10. proc' = "map" /\ UNCHANGED <<pt, kHeapArr, live>>
      BY <1>3 DEF SearchFits
    <2>11. \A b \in live : PagesOf(b)' = PagesOf(b)
      BY <2>10 DEF PagesOf
    <2>12. /\ proc' \in {"map", "unmap"} =>
                /\ first' <= last' /\ first' <= cur'
                /\ \A b \in live' : \A p \in PagesOf(b)' :
                      ~(first' <= p /\ p <= last')
           /\ proc' = "map" => \A p \in Pages :
                  first' <= p /\ p < cur' => pt'[p] # NoFrame
      BY <2>4, <2>6, <2>8, <2>9, <2>10, <2>11 DEF Pages
    <2>13. /\ \A b \in live : kHeapArr[b].first <= kHeapArr[b].last
           /\ \A b \in live : \A p \in PagesOf(b) : pt[p] # NoFrame
           /\ \A b, c \in live : \A p \in PagesOf(b) : p \in PagesOf(c) => b = c
           /\ \A b \in live : \A c \in 1 .. Len(kHeapArr) :
                 b < c => kHeapArr[c].first # kHeapArr[b].first
      BY <1>0, <2>2 DEF HeldInv
    <2>14. /\ \A b \in live' : kHeapArr'[b].first <= kHeapArr'[b].last
           /\ \A b \in live' : \A p \in PagesOf(b)' : pt'[p] # NoFrame
           /\ \A b, c \in live' :
                 \A p \in PagesOf(b)' : p \in PagesOf(c)' => b = c
           /\ \A b \in live' : \A c \in 1 .. Len(kHeapArr') :
                 b < c => kHeapArr'[c].first # kHeapArr'[b].first
      BY <2>10, <2>11, <2>13
    <2> QED
      BY <2>12, <2>14 DEF HeldInv
  <1>4. CASE MapPage
    <2>1. ~short /\ cur \in Pages /\ Head(freeList) # NoFrame
      BY <1>0, <1>4, TakeFrameType DEF MapPage, TypeOK, Pages
    <2>2. /\ pt'[cur] # NoFrame
          /\ \A p \in Pages : p # cur => pt'[p] = pt[p]
      BY <1>0, <1>4, <2>1 DEF MapPage, TypeOK
    <2>3. \A p \in Pages : pt[p] # NoFrame => pt'[p] # NoFrame
      BY <2>2
    <2>4. \A b \in live : \A p \in PagesOf(b) : p \in Pages
      BY <1>0, RecordTypes DEF PagesOf, Pages
    <2>5. \A p \in Pages : first <= p /\ p < cur + 1 => pt'[p] # NoFrame
      BY <1>0, <1>4, <2>1, <2>2, <2>3 DEF HeldInv, MapPage, Pages
    <2>6. first <= cur + 1
      BY <1>0, <1>4, <2>1 DEF HeldInv, MapPage, TypeOK, Pages
    <2> QED
      BY <1>0, <1>4, <2>1, <2>3, <2>4, <2>5, <2>6 DEF HeldInv, MapPage, PagesOf
  <1>5. CASE MapDone
    <2>0. PICK m \in Nat : m = Len(kHeapArr)
      BY <1>0, RecordTypes
    <2>1. /\ m \in Nat /\ Len(kHeapArr') = m + 1
          /\ kHeapArr'[m + 1].first = first /\ kHeapArr'[m + 1].last = last
          /\ \A z \in 1 .. m : kHeapArr'[z] = kHeapArr[z]
      <3>1. [first |-> first, last |-> last] \in Blocks
        BY <1>0 DEF TypeOK, Blocks
      <3>2. kHeapArr \in Seq(Blocks)
            /\ kHeapArr' = Append(kHeapArr, [first |-> first, last |-> last])
        BY <1>0, <1>5 DEF TypeOK, MapDone
      <3>3. /\ Len(kHeapArr') = m + 1
            /\ kHeapArr'[m + 1] = [first |-> first, last |-> last]
            /\ \A z \in 1 .. m : kHeapArr'[z] = kHeapArr[z]
        BY <2>0, <3>1, <3>2, AppendProperties
      <3> QED
        BY <2>0, <3>3
    <2>2. live' = live \cup {m + 1} /\ pt' = pt /\ proc' = "idle" /\ ~short
      BY <1>5, <2>0 DEF MapDone, Return
    <2>3. \A b \in live : b \in 1 .. m
      BY <1>0, <2>0, RecordTypes
    <2>4. first <= last
          /\ \A b \in live : \A p \in PagesOf(b) : ~(first <= p /\ p <= last)
      BY <1>0, <1>5, <2>2 DEF HeldInv, MapDone
    <2>5. \A p \in first .. last : pt[p] # NoFrame
      BY <1>0, <1>5, <2>2 DEF HeldInv, MapDone, TypeOK, Pages
    <2>6. /\ \A b \in live : PagesOf(b)' = PagesOf(b)
          /\ PagesOf(m + 1)' = first .. last
      BY <2>1, <2>3 DEF PagesOf
    <2>7. \A b \in live' : kHeapArr'[b].first <= kHeapArr'[b].last
      BY <1>0, <2>1, <2>2, <2>3, <2>4 DEF HeldInv
    <2>8. \A b \in live' : \A p \in PagesOf(b)' : pt'[p] # NoFrame
      BY <1>0, <2>2, <2>5, <2>6 DEF HeldInv
    <2>9. \A b, c \in live' : \A p \in PagesOf(b)' : p \in PagesOf(c)' => b = c
      <3>1. first \in Int /\ last \in Int
        BY <1>0 DEF TypeOK, Pages
      <3>2. \A b \in live : \A p \in PagesOf(b) : p \notin first .. last
        BY <2>4, <3>1
      <3>3. ASSUME NEW b \in live', NEW c \in live', NEW p \in PagesOf(b)',
                   p \in PagesOf(c)'
            PROVE  b = c
        <4>1. CASE b \in live /\ c \in live
          BY <1>0, <2>2, <2>6, <3>3, <4>1 DEF HeldInv
        <4>2. CASE b = m + 1 /\ c \in live
          BY <2>6, <3>2, <3>3, <4>2
        <4>3. CASE b \in live /\ c = m + 1
          BY <2>6, <3>2, <3>3, <4>3
        <4> QED
          BY <2>2, <4>1, <4>2, <4>3
      <3> QED
        BY <3>3
    <2>10. \A b \in live' : \A c \in 1 .. Len(kHeapArr') :
             b < c => kHeapArr'[c].first # kHeapArr'[b].first
      <3> SUFFICES ASSUME NEW b \in live', NEW c \in 1 .. m + 1, b < c
                   PROVE  kHeapArr'[c].first # kHeapArr'[b].first
        BY <2>1
      <3>1. b \in live /\ b \in 1 .. m
        BY <2>1, <2>2, <2>3
      <3>2. CASE c \in 1 .. m
        BY <1>0, <2>0, <2>1, <2>2, <3>1, <3>2 DEF HeldInv
      <3>3. CASE c = m + 1
        <4>1. kHeapArr[b].first \in PagesOf(b)
          BY <1>0, <2>0, <2>2, <3>1, RecordTypes DEF HeldInv, PagesOf, Pages
        <4>2. kHeapArr[b].first # first
          BY <1>0, <2>4, <3>1, <4>1 DEF TypeOK, Pages
        <4> QED
          BY <2>1, <3>1, <3>3, <4>2
      <3> QED
        BY <2>1, <3>2, <3>3
    <2> QED
      BY <2>2, <2>7, <2>8, <2>9, <2>10 DEF HeldInv
  <1>6. ASSUME NEW b \in live, NEW va \in {kHeapArr[b].first, NoPage},
               proc = "idle", KfreeAt(va), live' = live \ {b},
               UNCHANGED <<frames, kHeapArr, short>>
        PROVE  HeldInv'
    <2>1. ~short
      BY <1>6
    <2>2. CASE UNCHANGED <<proc, run>>
      BY <1>0, <1>6, <2>1, <2>2 DEF HeldInv, PagesOf
    <2>3. CASE ~UNCHANGED <<proc, run>>
      <3>1. PICK z \in Matches(va) :
              /\ LastMatch(z, va)
              /\ proc' = "unmap"
              /\ first' = va /\ cur' = va
              /\ last' = kHeapArr[z].last
        BY <1>6, <2>3 DEF KfreeAt
      <3>2. z \in 1 .. Len(kHeapArr) /\ va \in Pages
        BY <1>0, <3>1, RecordTypes DEF Matches
      <3>3. va = kHeapArr[b].first
        BY <1>6, <3>2 DEF NoPage, Pages
      <3>4. z = b
        BY <1>0, <2>1, <3>1, <3>2, <3>3, OwnRecord
      <3>5. first' = kHeapArr[b].first /\ last' = kHeapArr[b].last
        BY <3>1, <3>3, <3>4
      <3>6. first' <= last' /\ first' <= cur'
        BY <1>0, <2>1, <3>1, <3>2, <3>3, <3>5 DEF HeldInv, Pages
      <3>7. ASSUME NEW c \in live', NEW p \in PagesOf(c)
            PROVE  ~(first' <= p /\ p <= last')
        <4>1. c \in live /\ c # b
          BY <1>6
        <4>2. p \notin PagesOf(b)
          BY <1>0, <2>1, <4>1 DEF HeldInv
        <4>3. p \in Int
          BY <1>0, <4>1, RecordTypes DEF PagesOf, Pages
        <4>4. first' \in Int /\ last' \in Int
          BY <1>0, <3>5, RecordTypes DEF Pages
        <4> QED
          BY <3>5, <4>2, <4>3, <4>4 DEF PagesOf
      <3> QED
        BY <1>0, <1>6, <2>1, <3>1, <3>6, <3>7 DEF HeldInv, PagesOf
    <2> QED
      BY <2>2, <2>3
  <1>7. ASSUME NEW b \in live, Kfree(b) PROVE HeldInv'
    BY <1>6, <1>7 DEF Kfree
  <1>8. ASSUME NEW b \in live, KfreeTable(b) PROVE HeldInv'
    <2>1. kHeapArr[b].first \in Pages
      BY <1>0, RecordTypes
    <2>2. kheap_virtual_address(kheap_physical_address(kHeapArr[b].first))
             \in {kHeapArr[b].first, NoPage}
      BY <1>0, <2>1, VirtualAddressOwn DEF kheap_physical_address
    <2> QED
      BY <1>6, <1>8, <2>2 DEF KfreeTable
  <1>9. CASE UnmapPage
    <2>1. ~short /\ cur \in Pages /\ first <= cur /\ cur <= last
      BY <1>0, <1>9 DEF UnmapPage, TypeOK, Pages, HeldInv
    <2>2. \A p \in Pages : p # cur => pt'[p] = pt[p]
      BY <1>0, <1>9, <2>1 DEF UnmapPage, TypeOK
    <2>3. \A b \in live : \A p \in PagesOf(b) : p \in Pages
      BY <1>0, RecordTypes DEF PagesOf, Pages
    <2>4. \A b \in live : \A p \in PagesOf(b) : ~(first <= p /\ p <= last)
      BY <1>0, <1>9, <2>1 DEF HeldInv, UnmapPage
    <2>5. \A b \in live : \A p \in PagesOf(b) : pt'[p] = pt[p]
      BY <2>1, <2>2, <2>3, <2>4
    <2>6. first <= cur + 1
      BY <1>0, <2>1 DEF TypeOK, Pages
    <2> QED
      BY <1>0, <1>9, <2>1, <2>4, <2>5, <2>6 DEF HeldInv, UnmapPage, PagesOf
  <1>10. ASSUME NEW n \in Sizes, Kmalloc(n) PROVE HeldInv'
    BY <1>1, <1>10 DEF Kmalloc
  <1>11. CASE SearchNull \/ SearchForever \/ ReturnNull \/ MapPanic \/ UnmapDone
    BY <1>1, <1>11 DEF SearchNull, SearchForever, ReturnNull, MapPanic,
                       UnmapDone, Return
  <1>12. CASE (\E u \in UserPages : UserMap(u) \/ UserUnmap(u))
              \/ (\E s \in Strategies : SetKHeapPlacementStrategy(s))
              \/ UNCHANGED vars
    BY <1>2, <1>12 DEF UserMap, UserUnmap, SetKHeapPlacementStrategy, vars
  <1> QED
    BY <1>3, <1>4, <1>5, <1>7, <1>8, <1>9, <1>10, <1>11, <1>12
       DEF Next, KernelStep

\* The four parts of the invariant support each other in every step.
LEMMA IInvInductive == IInv /\ [Next]_vars => IInv'
  BY NextTypeOK, NextFrames, NextRunFree, NextHeldInv DEF IInv

\* The inductive invariant holds in every reachable state.
LEMMA Invariance == Spec => []IInv
  <1>1. Init => IInv
    BY InitTypeOK, InitFrames DEF IInv, Init, RunFree, HeldInv
  <1> QED
    BY <1>1, IInvInductive, PTL DEF Spec

\* Blocks held by different callers of kmalloc are disjoint and fully mapped
\* until a run across the top of the heap is granted, for every heap.
THEOREM BlocksSafe == Spec => []BlocksIsolated
  <1>1. IInv => BlocksIsolated
    BY DEF IInv, HeldInv, BlocksIsolated
  <1> QED
    BY <1>1, Invariance, PTL

\* No step changes the frames behind a block that stays held: kfree finds
\* the record of its own caller and the map loop only touches free pages.
THEOREM HeldBlocksSafe == Spec => HeldBlocksUntouched
  <1>1. ASSUME IInv, [Next]_vars, ~short', NEW b \in live \cap live',
               NEW p \in PagesOf(b)
        PROVE  pt'[p] = pt[p]
    <2>1. TypeOK /\ HeldInv /\ p \in Pages
      BY <1>1, RecordTypes DEF IInv, PagesOf, Pages
    <2> USE DEF frames, records
    <2>2. CASE MapPage \/ UnmapPage
      <3>1. ~short /\ cur \in Pages /\ cur <= last /\ first <= cur
        BY <1>1, <2>1, <2>2 DEF MapPage, UnmapPage, TypeOK, Pages, HeldInv
      <3>2. ~(first <= p /\ p <= last)
        BY <1>1, <2>1, <2>2, <3>1 DEF HeldInv, MapPage, UnmapPage
      <3> QED
        BY <2>1, <2>2, <3>1, <3>2 DEF MapPage, UnmapPage, TypeOK
    <2>3. CASE ~(MapPage \/ UnmapPage)
      BY <1>1, <2>3
         DEF Next, KernelStep, vars, Kmalloc, SearchFits, SearchNull,
             SearchForever, ReturnNull, MapPanic, MapDone, Kfree, KfreeTable,
             UnmapDone, UserMap, UserUnmap, SetKHeapPlacementStrategy
    <2> QED
      BY <2>2, <2>3
  <1>2. IInv /\ [Next]_vars =>
          [~short' => \A b \in live \cap live' : \A p \in PagesOf(b) :
                        pt'[p] = pt[p]]_vars
    BY <1>1
  <1> QED
    BY <1>2, Invariance, PTL DEF Spec, HeldBlocksUntouched

-----------------------------------------------------------------------------
(* Pages by iteration; from here on a step cites NPagesAssumption. *)

HIDE NPagesAssumption

\* Quotient and remainder exist, and they are unique.
LEMMA Division ==
    /\ \A a \in Nat : /\ a \div NPages \in Int /\ a % NPages \in 0 .. NPages - 1
                      /\ a = NPages * (a \div NPages) + (a % NPages)
    /\ \A a, q \in Int : \A r \in 0 .. NPages - 1 :
          a = NPages * q + r => a % NPages = r
  BY NPagesAssumption

\* One iteration further is one page further, around the end of the heap.
LEMMA AtNext ==
    ASSUME startAdd \in 0 .. NPages, NEW k \in Nat
    PROVE  At(k + 1) = IF At(k) + 1 = NPages THEN 0 ELSE At(k) + 1
  <1> DEFINE a == startAdd + k
             q == a \div NPages
             r == a % NPages
  <1>1. a \in Nat /\ startAdd + (k + 1) = a + 1
    BY NPagesAssumption
  <1> HIDE DEF a
  <1>2. q \in Int /\ r \in 0 .. NPages - 1 /\ a = NPages * q + r
    BY <1>1, Division
  <1> HIDE DEF q, r
  <1>3. CASE r + 1 = NPages
    <2>1. a + 1 = NPages * (q + 1) + 0 /\ q + 1 \in Int /\ 0 \in 0 .. NPages - 1
      BY <1>1, <1>2, <1>3, NPagesAssumption
    <2>2. (a + 1) % NPages = 0
      BY <1>1, <2>1, Division
    <2> QED
      BY <1>1, <1>3, <2>2 DEF At, a, r
  <1>4. CASE r + 1 # NPages
    <2>1. a + 1 = NPages * q + (r + 1) /\ r + 1 \in 0 .. NPages - 1
      BY <1>1, <1>2, <1>4, NPagesAssumption
    <2>2. (a + 1) % NPages = r + 1
      BY <1>1, <1>2, <2>1, Division
    <2> QED
      BY <1>1, <1>4, <2>2 DEF At, a, r
  <1> QED
    BY <1>3, <1>4

\* The search sees the same pages in every lap.
LEMMA AtPeriod ==
    ASSUME startAdd \in 0 .. NPages, NEW k \in Nat, NPages <= k
    PROVE  At(k - NPages) = At(k)
  <1> DEFINE a == startAdd + k
             q == a \div NPages
             r == a % NPages
  <1>1. a \in Nat /\ startAdd + (k - NPages) = a - NPages /\ a - NPages \in Int
    BY NPagesAssumption
  <1> HIDE DEF a
  <1>2. q \in Int /\ r \in 0 .. NPages - 1 /\ a = NPages * q + r
    BY <1>1, Division
  <1> HIDE DEF q, r
  <1>3. a - NPages = NPages * (q - 1) + r /\ q - 1 \in Int
    BY <1>1, <1>2, NPagesAssumption
  <1>4. (a - NPages) % NPages = r
    BY <1>1, <1>2, <1>3, Division
  <1> QED
    BY <1>1, <1>4 DEF At, a, r

\* In the first lap the pages are those from startAdd on, then those before it.
LEMMA AtLap ==
    ASSUME startAdd \in 0 .. NPages - 1, NEW k \in 0 .. NPages
    PROVE  At(k) = IF startAdd + k < NPages THEN startAdd + k
                   ELSE startAdd + k - NPages
  <1> DEFINE a == startAdd + k
  <1>1. a \in Nat /\ a < NPages + NPages
    BY NPagesAssumption
  <1> HIDE DEF a
  <1>2. CASE a < NPages
    <2>1. a = NPages * 0 + a /\ a \in 0 .. NPages - 1
      BY <1>1, <1>2, NPagesAssumption
    <2> QED
      BY <1>1, <1>2, <2>1, Division DEF At, a
  <1>3. CASE ~(a < NPages)
    <2>1. a = NPages * 1 + (a - NPages) /\ a - NPages \in 0 .. NPages - 1
      BY <1>1, <1>3, NPagesAssumption
    <2>2. a % NPages = a - NPages
      BY <1>1, <2>1, Division
    <2>3. At(k) = a - NPages
      BY <2>2 DEF At, a
    <2> QED
      BY <1>1, <1>3, <2>3, NPagesAssumption DEF a
  <1> QED
    BY <1>2, <1>3

-----------------------------------------------------------------------------
(* The loop. *)

\* What the loop knows when iteration k begins: the page it looks at, the free
\* run of x pages that ends before it, how often it has been at startAdd, and
\* that no earlier iteration has completed a run that fits.
Searching(k) ==
    /\ Here = At(k)
    /\ x \in Nat /\ x <= k /\ x < size
    /\ \A j \in k - x .. k - 1 : pt[At(j)] = NoFrame
    /\ k - x >= 1 => pt[At(k - x - 1)] # NoFrame
    /\ x # 0 => from = At(k - x) /\ upto = At(k - 1)
    /\ startAdd = NPages => y = 0
    /\ startAdd # NPages => k <= NPages /\ y = IF k = 0 THEN 0 ELSE 1
    /\ \A j \in Nat : size - 1 <= j /\ j < k => ~RunEndsAt(j, size)

\* The locals of the loop are as Leave left them, except during a search.
LoopInv ==
    /\ proc # "search" => i = 0 /\ x = 0 /\ y = 0 /\ from = 0 /\ upto = 0
    /\ proc = "search" => \E k \in Nat : Searching(k)

\* The loop is at startAdd when the search begins and after one lap, never in
\* between, and never when startAdd is the end of the heap.
LEMMA VisitsCounted ==
    ASSUME TypeOK, NEW k \in Nat, Searching(k)
    PROVE  /\ Visits = 2 => startAdd # NPages /\ k = NPages
           /\ startAdd # NPages /\ k = NPages => Visits = 2
           /\ startAdd = NPages => Visits = 0
           /\ startAdd # NPages /\ k # NPages => Visits = 1
  <1>1. startAdd \in 0 .. NPages /\ At(k) \in Pages /\ Here = At(k)
    BY AtInHeap DEF TypeOK, Searching
  <1>2. CASE startAdd = NPages
    BY <1>1, <1>2, NPagesAssumption DEF Visits, Searching, Pages
  <1>3. CASE startAdd # NPages
    <2>1. startAdd \in 0 .. NPages - 1 /\ k \in 0 .. NPages
      BY <1>1, <1>3, NPagesAssumption DEF Searching
    <2>2. At(k) = startAdd <=> k = 0 \/ k = NPages
      BY <2>1, AtLap, NPagesAssumption
    <2> QED
      BY <1>1, <1>3, <2>1, <2>2, NPagesAssumption DEF Visits, Searching
  <1> QED
    BY <1>2, <1>3

\* The loop gives up after one lap without a run that fits.
LEMMA NullStep ==
    ASSUME TypeOK, NEW k \in Nat, Searching(k), LoopNull
    PROVE  SearchNull /\ LoopInv'
  <1>1. startAdd # NPages /\ k = NPages
    BY VisitsCounted DEF LoopNull
  <1>2. Fits(size) = {}
    BY <1>1, NPagesAssumption DEF Fits, Iterations, Searching, TypeOK
  <1> QED
    BY <1>1, <1>2 DEF LoopNull, SearchNull, LoopInv, Leave

\* The run that the loop has found is the first one that fits.  A search from
\* the end of the heap finds it before it has seen every page twice.
LEMMA FoundStep ==
    ASSUME TypeOK, NEW k \in Nat, Searching(k), LoopFound
    PROVE  SearchFits /\ LoopInv'
  <1>1. /\ startAdd \in 0 .. NPages /\ size \in Nat \ {0} /\ Here = At(k)
        /\ x \in Nat /\ x <= k /\ x < size /\ proc = "search"
    BY DEF TypeOK, Searching, LoopFound
  <1>2. pt[At(k)] = NoFrame /\ x + 1 = size /\ k - size + 1 = k - x
    BY <1>1 DEF LoopFound, RunLength, get_frame_info
  <1>3. RunEndsAt(k, size)
    <2>1. \A j \in k - x .. k : j = k \/ j \in k - x .. k - 1
      BY <1>1
    <2> QED
      BY <1>1, <1>2, <2>1 DEF RunEndsAt, Searching
  <1>4. k \in Iterations(size)
    <2>1. CASE startAdd # NPages
      <3>1. k # NPages /\ k <= NPages
        BY <1>1, <2>1, VisitsCounted DEF LoopFound, Searching
      <3> QED
        BY <1>1, <1>2, <2>1, <3>1, NPagesAssumption DEF Iterations
    <2>2. CASE startAdd = NPages
      <3>1. SUFFICES ASSUME k > NPages + size - 1 PROVE FALSE
        BY <1>1, <1>2, <2>2, NPagesAssumption DEF Iterations
      <3> DEFINE m == k - NPages
      <3>2. m \in Nat /\ size - 1 <= m /\ m < k
        BY <1>1, <3>1, NPagesAssumption
      <3>3. RunEndsAt(m, size)
        <4> SUFFICES ASSUME NEW j \in m - size + 1 .. m PROVE pt[At(j)] = NoFrame
          BY DEF RunEndsAt
        <4> DEFINE l == j + NPages
        <4>1. l \in Nat /\ NPages <= l /\ l - NPages = j /\ l \in k - size + 1 .. k
          BY <1>1, <3>2, NPagesAssumption
        <4> HIDE DEF l
        <4>2. At(j) = At(l)
          BY <1>1, <4>1, AtPeriod
        <4> QED
          BY <1>3, <4>1, <4>2 DEF RunEndsAt
      <3> QED
        BY <3>2, <3>3 DEF Searching
    <2> QED
      BY <2>1, <2>2
  <1>5. FirstFit(k, size)
    <2>1. k \in Fits(size)
      BY <1>3, <1>4 DEF Fits
    <2>2. ASSUME NEW m \in Fits(size) PROVE k <= m
      <3>1. m \in Nat /\ size - 1 <= m /\ RunEndsAt(m, size)
        BY <1>1, NPagesAssumption DEF Fits, Iterations
      <3> QED
        BY <3>1 DEF Searching
    <2> QED
      BY <2>1, <2>2 DEF FirstFit
  <1>6. first' = At(k - size + 1) /\ last' = At(k)
    <2>1. last' = At(k)
      BY <1>1, <1>2 DEF LoopFound, RunUpto, get_frame_info
    <2>2. CASE x = 0
      BY <1>1, <1>2, <2>1, <2>2 DEF LoopFound, RunFrom, get_frame_info
    <2>3. CASE x # 0
      BY <1>1, <1>2, <2>1, <2>3 DEF LoopFound, RunFrom, get_frame_info, Searching
    <2> QED
      BY <2>1, <2>2, <2>3
  <1>7. SearchFits
    BY <1>1, <1>5, <1>6 DEF SearchFits, LoopFound, FirstFit
  <1>8. LoopInv'
    BY DEF LoopFound, LoopInv, Leave
  <1> QED
    BY <1>7, <1>8

\* An iteration that goes on changes only the locals of the loop, and none of
\* the runs that fit ended in it.
LEMMA OnStep ==
    ASSUME TypeOK, NEW k \in Nat, Searching(k), LoopOn
    PROVE  UNCHANGED vars /\ LoopInv'
  <1>1. /\ startAdd \in 0 .. NPages /\ size \in Nat \ {0} /\ Here = At(k)
        /\ x \in Nat /\ x <= k /\ x < size /\ proc = "search"
    BY DEF TypeOK, Searching, LoopOn
  <1>2. /\ i' = Here + 1 /\ x' = RunLength /\ y' = Visits
        /\ from' = RunFrom /\ upto' = RunUpto /\ RunLength # size
        /\ UNCHANGED <<pt, startAdd, size, proc>>
    BY DEF LoopOn, vars, frames, records
  <1>3. \A j : At(j)' = At(j) /\ RunEndsAt(j, size)' = RunEndsAt(j, size)
    BY <1>2 DEF At, RunEndsAt
  <1>4. Here' = At(k + 1)
    BY <1>1, <1>2, AtNext DEF Here
  <1>5. startAdd = NPages => y' = 0
    BY <1>2, VisitsCounted
  <1>6. startAdd # NPages => k + 1 <= NPages /\ y' = 1
    BY <1>1, <1>2, VisitsCounted, NPagesAssumption DEF LoopOn, Searching
  <1>7. CASE pt[At(k)] = NoFrame
    <2>1. x' = x + 1 /\ x' < size /\ x' <= k + 1 /\ k + 1 - x' = k - x
      BY <1>1, <1>2, <1>7 DEF RunLength, get_frame_info
    <2>2. from' = At(k - x) /\ upto' = At(k)
      <3>1. CASE x = 0
        BY <1>1, <1>2, <1>7, <3>1 DEF RunFrom, RunUpto, get_frame_info
      <3>2. CASE x # 0
        BY <1>1, <1>2, <1>7, <3>2 DEF RunFrom, RunUpto, get_frame_info, Searching
      <3> QED
        BY <3>1, <3>2
    <2>3. \A j \in k - x .. k : pt[At(j)] = NoFrame
      <3>1. \A j \in k - x .. k : j = k \/ j \in k - x .. k - 1
        BY <1>1
      <3> QED
        BY <1>7, <3>1 DEF Searching
    <2>4. size - 1 <= k => ~RunEndsAt(k, size)
      <3> SUFFICES ASSUME size - 1 <= k, RunEndsAt(k, size) PROVE FALSE
        OBVIOUS
      <3>1. k - x >= 1 /\ k - x - 1 \in k - size + 1 .. k
        BY <1>1, <2>1
      <3> QED
        BY <3>1 DEF RunEndsAt, Searching
    <2>5. \A j \in Nat : size - 1 <= j /\ j < k + 1 => ~RunEndsAt(j, size)
      BY <1>1, <2>4 DEF Searching
    <2>6. k - x >= 1 => pt[At(k - x - 1)] # NoFrame
      BY DEF Searching
    <2>7. k + 1 - x' >= 1 => pt[At(k + 1 - x' - 1)] # NoFrame
      BY <2>1, <2>6
    <2>8. Searching(k + 1)'
      BY <1>1, <1>2, <1>3, <1>4, <1>5, <1>6, <2>1, <2>2, <2>3, <2>5, <2>7
         DEF Searching
    <2> QED
      BY <1>1, <1>2, <2>8 DEF LoopInv, LoopOn
  <1>8. CASE pt[At(k)] # NoFrame
    <2>1. x' = 0
      BY <1>1, <1>2, <1>8 DEF RunLength, get_frame_info
    <2>2. size - 1 <= k => ~RunEndsAt(k, size)
      BY <1>1, <1>8 DEF RunEndsAt
    <2>3. \A j \in Nat : size - 1 <= j /\ j < k + 1 => ~RunEndsAt(j, size)
      BY <1>1, <2>2 DEF Searching
    <2>4. k + 1 - x' - 1 = k /\ \A j \in k + 1 - x' .. k + 1 - 1 : FALSE
      BY <2>1
    <2>5. Searching(k + 1)'
      BY <1>1, <1>2, <1>3, <1>4, <1>5, <1>6, <1>8, <2>1, <2>3, <2>4 DEF Searching
    <2> QED
      BY <1>1, <1>2, <2>5 DEF LoopInv, LoopOn
  <1> QED
    BY <1>7, <1>8

-----------------------------------------------------------------------------
(* The theorems. *)

\* Every step of the loop and of the rest of the kernel is a step of KHeap or
\* changes nothing that KHeap sees.
LEMMA LoopImplements ==
    ASSUME IInv, LoopInv, [LNext]_lvars
    PROVE  [Next]_vars /\ LoopInv'
  <1>1. TypeOK
    BY DEF IInv
  <1>2. ASSUME NEW n \in Sizes, BeginSearch(n) PROVE Next /\ LoopInv'
    <2>1. Kmalloc(n) /\ x' = x /\ y' = y /\ from' = from /\ upto' = upto
      BY <1>2 DEF BeginSearch
    <2>2. /\ proc = "idle" /\ size' = n /\ n \in Nat \ {0}
          /\ x = 0 /\ y = 0 /\ i = 0 /\ from = 0 /\ upto = 0
          /\ startAdd' = startAdd /\ startAdd \in 0 .. NPages
      BY <1>1, <2>1, SizesAssumption DEF Kmalloc, LoopInv, records, TypeOK
    <2>3. CASE strategy = "NEXTFIT"
      <3>1. proc' = "search" /\ i' = startAdd
        BY <1>2, <2>1, <2>3 DEF BeginSearch, Kmalloc
      <3>2. Here' = At(0)'
        <4>1. startAdd + 0 = NPages * (IF startAdd = NPages THEN 1 ELSE 0)
                                + (IF startAdd = NPages THEN 0 ELSE startAdd)
          BY <2>2, NPagesAssumption
        <4>2. (IF startAdd = NPages THEN 0 ELSE startAdd) \in 0 .. NPages - 1
          BY <2>2, NPagesAssumption
        <4>3. (startAdd + 0) % NPages = IF startAdd = NPages THEN 0 ELSE startAdd
          BY <2>2, <4>1, <4>2, Division
        <4> QED
          BY <2>2, <3>1, <4>3 DEF Here, At
      <3>3. Searching(0)'
        BY <2>1, <2>2, <3>2, NPagesAssumption DEF Searching
      <3> QED
        BY <2>1, <3>1, <3>3 DEF LoopInv, Next
    <2>4. CASE strategy # "NEXTFIT"
      <3>1. proc' = "null" /\ i' = i
        BY <1>2, <2>1, <2>4 DEF BeginSearch, Kmalloc
      <3> QED
        BY <2>1, <2>2, <3>1 DEF LoopInv, Next
    <2> QED
      BY <2>3, <2>4
  <1>3. CASE LoopStep
    <2>1. proc = "search"
      BY <1>3 DEF LoopStep, LoopNull, LoopOn, LoopFound
    <2>2. PICK k \in Nat : Searching(k)
      BY <2>1 DEF LoopInv
    <2>3. CASE LoopNull
      BY <1>1, <2>2, <2>3, NullStep DEF Next, KernelStep
    <2>4. CASE LoopFound
      BY <1>1, <2>2, <2>4, FoundStep DEF Next, KernelStep
    <2>5. CASE LoopOn
      BY <1>1, <2>2, <2>5, OnStep
    <2> QED
      BY <1>3, <2>3, <2>4, <2>5 DEF LoopStep
  <1>4. CASE AfterSearch
    <2>1. UNCHANGED loop
      BY <1>4 DEF AfterSearch
    <2>2. proc # "search" /\ proc' # "search"
      BY <1>4 DEF AfterSearch, ReturnNull, MapPage, MapPanic, MapDone, UnmapPage,
                  UnmapDone, Return
    <2>3. KernelStep
      BY <1>4 DEF AfterSearch, KernelStep
    <2> QED
      BY <2>1, <2>2, <2>3 DEF LoopInv, loop, Next
  <1>5. CASE /\ \/ \E b \in live : Kfree(b)
                \/ \E b \in live : KfreeTable(b)
                \/ \E u \in UserPages : UserMap(u)
                \/ \E u \in UserPages : UserUnmap(u)
                \/ \E s \in Strategies : SetKHeapPlacementStrategy(s)
             /\ UNCHANGED loop
    <2>1. proc # "search" /\ proc' # "search"
      BY <1>5 DEF Kfree, KfreeTable, KfreeAt, UserMap, UserUnmap,
                  SetKHeapPlacementStrategy
    <2> QED
      BY <1>5, <2>1 DEF LoopInv, loop, Next
  <1>6. CASE UNCHANGED lvars
    <2>1. UNCHANGED vars /\ UNCHANGED loop
      BY <1>6 DEF lvars
    <2>2. /\ UNCHANGED <<pt, startAdd, size, proc>>
          /\ UNCHANGED <<i, x, y, from, upto>>
      BY <2>1 DEF vars, loop, frames, records
    <2>3. \A j : At(j)' = At(j) /\ RunEndsAt(j, size)' = RunEndsAt(j, size)
      BY <2>2 DEF At, RunEndsAt
    <2>4. ASSUME NEW k \in Nat, Searching(k) PROVE Searching(k)'
      BY <2>2, <2>3, <2>4 DEF Searching, Here
    <2> QED
      BY <2>1, <2>2, <2>4 DEF LoopInv
  <1> QED
    BY <1>2, <1>3, <1>4, <1>5, <1>6 DEF LNext

\* The loop of nextFitAlgo implements the closed form FirstFit: it finds the
\* first run that fits and gives up only where there is none, in every heap.
THEOREM LoopImplementsFirstFit == LSpec => ImplementsKHeap
  <1>1. LInit => Init /\ IInv /\ LoopInv
    BY InitTypeOK, InitFrames DEF IInv, Init, RunFree, HeldInv, LInit, LoopInv
  <1>2. IInv /\ LoopInv /\ [LNext]_lvars => [Next]_vars /\ (IInv /\ LoopInv)'
    BY LoopImplements, IInvInductive
  <1> QED
    BY <1>1, <1>2, PTL DEF LSpec, Spec, ImplementsKHeap

\* A search that found no run that fits has missed no hole, except one that
\* lies across the place where it began.
LEMMA NoFitNoHole ==
    ASSUME TypeOK, proc = "search", startAdd # NPages, Fits(size) = {},
           NEW p \in Pages, Hole(p, size)
    PROVE  p < startAdd /\ startAdd < p + size
  <1>1. /\ startAdd \in 0 .. NPages - 1 /\ size \in Nat \ {0}
        /\ p \in Nat /\ p + size <= NPages
    BY NPagesAssumption DEF TypeOK, Hole, Pages
  <1> SUFFICES ASSUME startAdd <= p \/ p + size <= startAdd PROVE FALSE
    BY <1>1, NPagesAssumption
  <1> DEFINE lap == IF startAdd <= p THEN 0 ELSE NPages
             k == p + size - 1 + lap - startAdd
  <1>2. k \in Nat /\ size - 1 <= k /\ k <= NPages - 1
    BY <1>1, NPagesAssumption
  <1>3. RunEndsAt(k, size)
    <2> SUFFICES ASSUME NEW j \in k - size + 1 .. k PROVE pt[At(j)] = NoFrame
      BY DEF RunEndsAt
    <2>1. j \in 0 .. NPages /\ At(j) = startAdd + j - lap
      BY <1>1, <1>2, AtLap, NPagesAssumption
    <2>2. At(j) \in p .. p + size - 1
      BY <1>1, <2>1, NPagesAssumption
    <2> QED
      BY <2>2 DEF Hole
  <1> HIDE DEF k
  <1>4. k \in Fits(size)
    BY <1>1, <1>2, <1>3, NPagesAssumption DEF Fits, Iterations
  <1> QED
    BY <1>4

\* kmalloc answers NULL only when every hole that is large enough lies across
\* the place where the search began.
THEOREM NullSafe == LSpec => []NullMeansNoHole
  <1>1. Init => NullMeansNoHole
    BY DEF Init, NullMeansNoHole
  <1>2. ASSUME IInv, NullMeansNoHole, [Next]_vars PROVE NullMeansNoHole'
    <2> SUFFICES ASSUME proc' = "null", strategy' = "NEXTFIT",
                        NEW p \in Pages, Hole(p, size)'
                 PROVE  (p < startAdd /\ startAdd < p + size)'
      BY DEF NullMeansNoHole
    <2>1. CASE SearchNull
      <3>1. UNCHANGED <<pt, startAdd, size>> /\ proc = "search"
        BY <2>1 DEF SearchNull, frames, records
      <3>2. Hole(p, size)
        BY <3>1 DEF Hole
      <3> QED
        BY <1>2, <2>1, <3>1, <3>2, NoFitNoHole DEF IInv, SearchNull
    <2>2. CASE UNCHANGED vars
      <3>1. UNCHANGED <<pt, startAdd, size, proc, strategy>>
        BY <2>2 DEF vars, frames, records
      <3>2. Hole(p, size)
        BY <3>1 DEF Hole
      <3> QED
        BY <1>2, <3>1, <3>2 DEF NullMeansNoHole
    <2>3. Next => SearchNull
      <3>1. \A n \in Sizes : ~Kmalloc(n)
        BY DEF Kmalloc
      <3>2. \A b \in live : ~Kfree(b) /\ ~KfreeTable(b)
        BY DEF Kfree, KfreeTable, KfreeAt
      <3>3. \A u \in UserPages : ~UserMap(u) /\ ~UserUnmap(u)
        BY DEF UserMap, UserUnmap
      <3>4. \A s \in Strategies : ~SetKHeapPlacementStrategy(s)
        BY DEF SetKHeapPlacementStrategy
      <3>5. /\ ~SearchFits /\ ~SearchForever /\ ~ReturnNull /\ ~MapPage
            /\ ~MapPanic /\ ~MapDone /\ ~UnmapPage /\ ~UnmapDone
        BY DEF SearchFits, SearchForever, ReturnNull, MapPage, MapPanic, MapDone,
               UnmapPage, UnmapDone, Return
      <3> QED
        BY <3>1, <3>2, <3>3, <3>4, <3>5 DEF Next, KernelStep
    <2> QED
      BY <1>2, <2>1, <2>2, <2>3
  <1>3. LSpec => Spec
    BY LoopImplementsFirstFit DEF ImplementsKHeap
  <1>4. Spec => []IInv
    BY Invariance
  <1> QED
    BY <1>1, <1>2, <1>3, <1>4, PTL DEF Spec
=============================================================================
