---------------------------- MODULE UHeapProofs ----------------------------
(***************************************************************************)
(* Proofs about the user heap, for a heap and a page file of any size and  *)
(* any request sizes.                                                      *)
(***************************************************************************)
EXTENDS UHeapSearch, FiniteSetTheorems, TLAPS

USE NPagesAssumption, DiskFramesAssumption, SizesAssumption

-----------------------------------------------------------------------------
(* Blocks. *)

\* The first page of a block is one of its pages, and its table entry covers
\* exactly its pages.
LEMMA BlockCovers ==
    ASSUME TypeOK, BlocksApart, NEW b \in live
    PROVE  /\ b.first \in Pages /\ b.size \in 1 .. NPages
           /\ b.first + b.size <= NPages
           /\ b.first \in PagesOf(b)
           /\ \A p \in Int : p \in PagesOf(b) <=> Covers(b.first, p)
  <1>1. b.first \in Pages /\ b.size \in 1 .. NPages /\ checkList[b.first] = b.size
        /\ PagesOf(b) \subseteq Pages
    BY DEF TypeOK, BlocksApart
  <1>2. b.first + b.size - 1 \in PagesOf(b)
    BY <1>1 DEF PagesOf, Pages
  <1>3. b.first + b.size - 1 \in 0 .. NPages - 1
    BY <1>1, <1>2 DEF Pages
  <1> QED
    BY <1>1, <1>3 DEF PagesOf, Pages, Covers

\* Two blocks with the same first page are the same block.
LEMMA SameFirst ==
    ASSUME TypeOK, BlocksApart, NEW b \in live, NEW c \in live,
           b.first = c.first
    PROVE  b = c
  BY BlockCovers DEF BlocksApart

\* A page that is not covered is in no block.
LEMMA VacantPages ==
    ASSUME TypeOK, BlocksApart, NEW t \in Int, NEW n \in Nat, Vacant(t, n),
           NEW p \in t .. t + n - 1, NEW b \in live
    PROVE  p \notin PagesOf(b)
  BY BlockCovers DEF Vacant

\* The place that next fit finds is inside the heap and free.
LEMMA FitsInHeap ==
    ASSUME TypeOK, NEW n \in Sizes, NEW t \in Pages, NextFit(t, n)
    PROVE  /\ n \in 1 .. NPages /\ t + n <= NPages
           /\ Vacant(t, n)
  BY DEF NextFit, Upper, Lower, TypeOK, Pages

\* Boot: no block, no page in the page file.
LEMMA InitTables == Init => TablesSound
  BY DEF Init, TablesSound, TypeOK, BlocksApart, StartAtBoundary, Pages, Covers

\* malloc keeps the types.
LEMMA GrantType ==
    ASSUME TypeOK, NEW n \in 1 .. NPages, NEW t \in Pages, t + n <= NPages,
           Grant(t, n)
    PROVE  /\ TypeOK'
           /\ pf \subseteq pf'
  <1> DEFINE k == Least(n, freeDisk)
  <1>1. k \in Nat /\ k <= n /\ k <= freeDisk
    BY DEF Least, TypeOK
  <1>2. /\ pf' = pf \cup (t .. t + k - 1) /\ freeDisk' = freeDisk - k
        /\ others' = others
    BY DEF Grant, AllocateMem
  <1> HIDE DEF k
  <1>3. t .. t + k - 1 \subseteq Pages
    BY <1>1 DEF Pages
  <1>4. pf' \subseteq Pages /\ freeDisk' \in Nat /\ others' \in Nat
    BY <1>1, <1>2, <1>3 DEF TypeOK
  <1>5. startAdd' \in Pages
    BY DEF Grant, Pages
  <1>6. /\ checkList' \in [Pages -> 0 .. NPages]
        /\ uHeapArr' \in [Pages -> 0 .. NPages]
    BY DEF Grant, TypeOK
  <1>7. live' \subseteq [first : Pages, size : 1 .. NPages]
    BY DEF Grant, TypeOK
  <1> QED
    BY <1>2, <1>4, <1>5, <1>6, <1>7 DEF TypeOK

\* malloc keeps the blocks apart and the next search at a boundary.
LEMMA GrantTables ==
    ASSUME TablesSound, NEW n \in 1 .. NPages, NEW t \in Pages, t + n <= NPages,
           Vacant(t, n), Grant(t, n)
    PROVE  TablesSound'
  <1> DEFINE new == [first |-> t, size |-> n]
  <1>1. TypeOK /\ BlocksApart /\ StartAtBoundary /\ TypeOK'
    BY GrantType DEF TablesSound
  <1>2. /\ checkList' = [checkList EXCEPT ![t] = n]
        /\ uHeapArr' = [uHeapArr EXCEPT ![t] = n]
        /\ live' = live \cup {new}
        /\ startAdd' = IF t + n >= NPages THEN 0 ELSE t
    BY DEF Grant
  <1>3. /\ checkList \in [Pages -> 0 .. NPages]
        /\ uHeapArr \in [Pages -> 0 .. NPages]
    BY <1>1 DEF TypeOK
  <1>4. new.first = t /\ new.size = n /\ PagesOf(new) = t .. t + n - 1
    BY DEF PagesOf
  <1>5. \A b \in live : PagesOf(b) \cap PagesOf(new) = {} /\ b.first # t
    <2>1. t \in t .. t + n - 1
      BY DEF Pages
    <2> QED
      BY <1>1, <1>4, <2>1, VacantPages, BlockCovers DEF Pages
  <1>6. PagesOf(new) \subseteq Pages
    BY <1>4 DEF Pages
  <1> HIDE DEF new
  <1>7. BlocksApart'
    <2>1. ASSUME NEW b \in live'
          PROVE  /\ PagesOf(b) \subseteq Pages
                 /\ checkList'[b.first] = b.size /\ uHeapArr'[b.first] = b.size
      <3>1. CASE b = new
        BY <1>2, <1>3, <1>4, <1>6, <3>1
      <3>2. CASE b \in live
        BY <1>1, <1>2, <1>3, <1>5, <3>2, BlockCovers DEF BlocksApart
      <3> QED
        BY <1>2, <3>1, <3>2
    <2>2. \A b, c \in live' : b # c => PagesOf(b) \cap PagesOf(c) = {}
      BY <1>1, <1>2, <1>5 DEF BlocksApart
    <2>3. ASSUME NEW p \in Pages, checkList'[p] > 0
          PROVE  \E b \in live' : b.first = p
      <3>1. CASE p = t
        BY <1>2, <1>4, <3>1
      <3>2. CASE p # t
        BY <1>1, <1>2, <1>3, <2>3, <3>2 DEF BlocksApart
      <3> QED
        BY <3>1, <3>2
    <2> QED
      BY <2>1, <2>2, <2>3 DEF BlocksApart, PagesOf
  <1>8. StartAtBoundary'
    <2>1. CASE t + n >= NPages
      BY <1>2, <1>3, <2>1 DEF StartAtBoundary, Covers, Pages
    <2>2. CASE t + n < NPages
      <3>1. startAdd' = t /\ checkList'[t] = n
        BY <1>2, <1>3, <2>2 DEF Pages
      <3>2. ASSUME NEW s \in Pages, s # t
            PROVE  checkList'[s] = checkList[s] /\ ~Covers(s, t)
        <4>1. t \in t .. t + n - 1
          BY DEF Pages
        <4> QED
          BY <1>2, <1>3, <3>2, <4>1 DEF Vacant
      <3>3. ASSUME NEW s \in Pages, Covers(s, startAdd)' PROVE s = t
        <4>1. s <= t /\ t < s + checkList'[s]
          BY <3>1, <3>3 DEF Covers
        <4>2. s # t => ~(s <= t /\ t < s + checkList[s])
          BY <3>2 DEF Covers
        <4> QED
          BY <3>2, <4>1, <4>2
      <3>4. startAdd' + checkList'[startAdd'] < NPages
        BY <2>2, <3>1
      <3> QED
        BY <3>1, <3>3, <3>4 DEF StartAtBoundary
    <2> QED
      BY <2>1, <2>2 DEF Pages
  <1> QED
    BY <1>1, <1>7, <1>8 DEF TablesSound

\* free of a block that is held keeps the types; it removes the pages of this
\* block from the page file and no others.
LEMMA FreeFacts ==
    ASSUME TypeOK, BlocksApart, NEW b \in live, Free(b)
    PROVE  /\ TypeOK'
           /\ pf' = pf \ PagesOf(b)
           /\ freeDisk' = freeDisk + Cardinality(pf \cap PagesOf(b))
           /\ others' = others
  <1>1. uHeapArr[b.first] = b.size /\ b.first \in Pages /\ b.size \in 1 .. NPages
    BY DEF BlocksApart, TypeOK
  <1>2. /\ pf' = pf \ (pf \cap PagesOf(b))
        /\ freeDisk' = freeDisk + Cardinality(pf \cap PagesOf(b))
        /\ others' = others
    BY <1>1 DEF Free, FreeMem, PagesOf
  <1>3. Cardinality(pf \cap PagesOf(b)) \in Nat
    <2> DEFINE lo == b.first
               hi == b.first + b.size - 1
    <2>1. IsFiniteSet(PagesOf(b))
      <3>1. lo \in Int /\ hi \in Int
        BY <1>1 DEF Pages
      <3> HIDE DEF lo, hi
      <3>2. IsFiniteSet(lo .. hi)
        BY <3>1, FS_Interval
      <3> QED
        BY <3>2 DEF PagesOf, lo, hi
    <2>2. IsFiniteSet(pf \cap PagesOf(b))
      BY <2>1, FS_Subset
    <2> QED
      BY <2>2, FS_CardinalityType
  <1>4. /\ checkList' \in [Pages -> 0 .. NPages]
        /\ uHeapArr' \in [Pages -> 0 .. NPages]
        /\ startAdd' \in Pages
        /\ live' \subseteq [first : Pages, size : 1 .. NPages]
    BY <1>1 DEF Free, TypeOK
  <1> QED
    BY <1>2, <1>3, <1>4 DEF TypeOK

\* free keeps the other blocks and does not put the next search inside a block.
LEMMA FreeTables ==
    ASSUME TablesSound, NEW b \in live, Free(b)
    PROVE  TablesSound'
  <1>1. TypeOK /\ BlocksApart /\ StartAtBoundary /\ TypeOK'
    BY FreeFacts DEF TablesSound
  <1>2. /\ checkList' = [checkList EXCEPT ![b.first] = 0]
        /\ uHeapArr' = [uHeapArr EXCEPT ![b.first] = 0]
        /\ live' = live \ {b} /\ startAdd' = startAdd
    BY DEF Free
  <1>3. /\ checkList \in [Pages -> 0 .. NPages]
        /\ uHeapArr \in [Pages -> 0 .. NPages]
        /\ b.first \in Pages
    BY <1>1 DEF TypeOK
  <1>4. \A c \in live' : c \in live /\ c.first # b.first /\ c.first \in Pages
    BY <1>1, <1>2, SameFirst DEF TypeOK
  <1>5. BlocksApart'
    <2>1. \A c \in live' : checkList'[c.first] = c.size /\ uHeapArr'[c.first] = c.size
      BY <1>1, <1>2, <1>3, <1>4 DEF BlocksApart
    <2>2. ASSUME NEW p \in Pages, checkList'[p] > 0
          PROVE  \E c \in live' : c.first = p
      <3>1. p # b.first /\ checkList[p] > 0
        BY <1>2, <1>3, <2>2
      <3>2. PICK c \in live : c.first = p
        BY <1>1, <3>1 DEF BlocksApart
      <3> QED
        BY <1>2, <3>1, <3>2
    <2> QED
      BY <1>1, <1>4, <2>1, <2>2 DEF BlocksApart, PagesOf
  <1>6. StartAtBoundary'
    <2>1. \A s \in Pages : checkList'[s] <= checkList[s] /\ checkList[s] \in Nat
                           /\ checkList'[s] \in Nat
      BY <1>2, <1>3
    <2>2. startAdd \in Pages
      BY <1>1 DEF TypeOK
    <2> QED
      BY <1>1, <1>2, <2>1, <2>2 DEF StartAtBoundary, Covers, Pages
  <1> QED
    BY <1>1, <1>5, <1>6 DEF TablesSound

\* Every call, and everything the other environments do, keeps the tables sound.
LEMMA NextTables == TablesSound /\ [Next]_vars => TablesSound'
  <1> SUFFICES ASSUME TablesSound, [Next]_vars PROVE TablesSound'
    OBVIOUS
  <1>1. TypeOK
    BY DEF TablesSound
  <1>2. ASSUME NEW n \in Sizes, Malloc(n) PROVE TablesSound'
    <2>1. PICK t \in Pages : NextFit(t, n) /\ Grant(t, n)
      BY <1>2 DEF Malloc
    <2> QED
      BY <1>1, <2>1, FitsInHeap, GrantTables
  <1>3. ASSUME NEW b \in live, Free(b) PROVE TablesSound'
    BY <1>3, FreeTables
  <1>4. CASE OthersTake \/ OthersReturn
    BY <1>1, <1>4 DEF OthersTake, OthersReturn, heap, TablesSound, TypeOK,
       BlocksApart, StartAtBoundary, Covers
  <1>5. CASE UNCHANGED vars
    BY <1>1, <1>5 DEF vars, heap, disk, TablesSound, TypeOK, BlocksApart,
       StartAtBoundary, Covers
  <1> QED
    BY <1>2, <1>3, <1>4, <1>5 DEF Next

\* For a heap of any size: the blocks that malloc handed out and that were not
\* freed stay apart, inside the heap and known to both tables, and the next
\* search starts at a boundary, through every mixture of malloc and free.
THEOREM TablesSafe == Spec => []TablesSound
  BY InitTables, NextTables, PTL DEF Spec

-----------------------------------------------------------------------------
(* The page file. *)

\* The pages in the page file are finitely many.
LEMMA PfFinite == ASSUME TypeOK PROVE IsFiniteSet(pf) /\ Cardinality(pf) \in Nat
  <1>1. IsFiniteSet(0 .. NPages - 1)
    BY FS_Interval
  <1>2. IsFiniteSet(pf)
    BY <1>1, FS_Subset DEF TypeOK, Pages
  <1> QED
    BY <1>2, FS_CardinalityType

\* Taking a part out of a finite set leaves the rest of its elements.
LEMMA CardinalityOfParts ==
    ASSUME NEW S, IsFiniteSet(S), NEW T
    PROVE  /\ IsFiniteSet(S \ T) /\ IsFiniteSet(S \cap T)
           /\ Cardinality(S \ T) \in Nat /\ Cardinality(S \cap T) \in Nat
           /\ Cardinality(S) = Cardinality(S \ T) + Cardinality(S \cap T)
  <1>1. IsFiniteSet(S \ T) /\ IsFiniteSet(S \cap T)
    BY FS_Subset
  <1>2. (S \ T) \cup (S \cap T) = S /\ (S \ T) \cap (S \cap T) = {}
    OBVIOUS
  <1>3. Cardinality(S) =
           Cardinality(S \ T) + Cardinality(S \cap T) - Cardinality({})
    BY <1>1, <1>2, FS_Union
  <1> QED
    BY <1>1, <1>3, FS_EmptySet, FS_CardinalityType

\* Boot: all disk frames are free.
LEMMA InitDisk == Init => DiskConserved
  BY FS_EmptySet DEF Init, DiskConserved

\* malloc takes one disk frame for each page it adds to the page file.
LEMMA GrantDisk ==
    ASSUME TablesSound, DiskConserved, NEW n \in 1 .. NPages, NEW t \in Pages,
           t + n <= NPages, Vacant(t, n), Grant(t, n)
    PROVE  DiskConserved'
  <1> DEFINE k == Least(n, freeDisk)
             add == t .. t + k - 1
             new == [first |-> t, size |-> n]
  <1>1. TypeOK /\ BlocksApart
    BY DEF TablesSound
  <1>2. k \in Nat /\ k <= n /\ t \in Int
    BY <1>1 DEF Least, TypeOK, Pages
  <1>3. /\ pf' = pf \cup add /\ freeDisk' = freeDisk - k /\ others' = others
        /\ live' = live \cup {new}
    BY DEF Grant, AllocateMem
  <1> HIDE DEF k
  <1>4. IsFiniteSet(add) /\ Cardinality(add) = k
    <2>1. t + k - 1 \in Int
      BY <1>2
    <2> QED
      BY <1>2, <2>1, FS_Interval
  <1>5. PagesOf(new) = t .. t + n - 1
    BY DEF PagesOf
  <1>6. add \subseteq PagesOf(new)
    BY <1>2, <1>5
  <1>7. pf \cap add = {}
    <2> SUFFICES ASSUME NEW p \in pf, p \in add PROVE FALSE
      OBVIOUS
    <2>1. PICK b \in live : p \in PagesOf(b)
      BY DEF DiskConserved
    <2>2. p \in t .. t + n - 1 /\ n \in Nat
      BY <1>2
    <2> QED
      BY <1>1, <1>2, <2>1, <2>2, VacantPages
  <1> HIDE DEF add, new
  <1>8. IsFiniteSet(pf) /\ Cardinality(pf) \in Nat
    BY <1>1, PfFinite
  <1>9. Cardinality(pf') = Cardinality(pf) + k
    <2>1. Cardinality(pf \cup add) =
             Cardinality(pf) + Cardinality(add) - Cardinality({})
      BY <1>4, <1>7, <1>8, FS_Union
    <2> QED
      BY <1>2, <1>3, <1>4, <1>8, <2>1, FS_EmptySet
  <1>10. freeDisk' + Cardinality(pf') + others' = DiskFrames
    BY <1>1, <1>2, <1>3, <1>8, <1>9 DEF DiskConserved, TypeOK
  <1>11. \A p \in pf' : \E b \in live' : p \in PagesOf(b)
    BY <1>3, <1>6 DEF DiskConserved
  <1> QED
    BY <1>10, <1>11 DEF DiskConserved, PagesOf

\* free gives back one disk frame for each page it removes.
LEMMA FreeDisk ==
    ASSUME TablesSound, DiskConserved, NEW b \in live, Free(b)
    PROVE  DiskConserved'
  <1>1. TypeOK /\ BlocksApart
    BY DEF TablesSound
  <1>2. /\ pf' = pf \ PagesOf(b) /\ others' = others
        /\ freeDisk' = freeDisk + Cardinality(pf \cap PagesOf(b))
        /\ live' = live \ {b}
    BY <1>1, FreeFacts DEF Free
  <1>3. /\ Cardinality(pf') \in Nat /\ Cardinality(pf \cap PagesOf(b)) \in Nat
        /\ Cardinality(pf) = Cardinality(pf') + Cardinality(pf \cap PagesOf(b))
    BY <1>1, <1>2, PfFinite, CardinalityOfParts
  <1>4. freeDisk' + Cardinality(pf') + others' = DiskFrames
    BY <1>1, <1>2, <1>3 DEF DiskConserved, TypeOK
  <1>5. \A p \in pf' : \E c \in live' : p \in PagesOf(c)
    BY <1>2 DEF DiskConserved
  <1> QED
    BY <1>4, <1>5 DEF DiskConserved, PagesOf

\* Every step conserves the disk frames.
LEMMA NextDisk == TablesSound /\ DiskConserved /\ [Next]_vars => DiskConserved'
  <1> SUFFICES ASSUME TablesSound, DiskConserved, [Next]_vars
               PROVE  DiskConserved'
    OBVIOUS
  <1>1. TypeOK
    BY DEF TablesSound
  <1>2. ASSUME NEW n \in Sizes, Malloc(n) PROVE DiskConserved'
    <2>1. PICK t \in Pages : NextFit(t, n) /\ Grant(t, n)
      BY <1>2 DEF Malloc
    <2> QED
      BY <1>1, <2>1, FitsInHeap, GrantDisk
  <1>3. ASSUME NEW b \in live, Free(b) PROVE DiskConserved'
    BY <1>3, FreeDisk
  <1>4. CASE OthersTake \/ OthersReturn
    <2>1. /\ pf' = pf /\ live' = live
          /\ \/ freeDisk' = freeDisk - 1 /\ others' = others + 1
             \/ freeDisk' = freeDisk + 1 /\ others' = others - 1
      BY <1>1, <1>4 DEF OthersTake, OthersReturn, heap, TypeOK
    <2> DEFINE c == Cardinality(pf)
    <2>2. c \in Nat /\ Cardinality(pf') = c /\ freeDisk \in Nat /\ others \in Nat
          /\ freeDisk + c + others = DiskFrames
      BY <1>1, <2>1, PfFinite DEF DiskConserved, TypeOK
    <2> HIDE DEF c
    <2>3. freeDisk' + Cardinality(pf') + others' = DiskFrames
      BY <2>1, <2>2
    <2> QED
      BY <2>1, <2>3 DEF DiskConserved, PagesOf
  <1>5. CASE UNCHANGED vars
    BY <1>5 DEF vars, heap, disk, DiskConserved, PagesOf
  <1> QED
    BY <1>2, <1>3, <1>4, <1>5 DEF Next

\* For a heap and a page file of any size, disk frames are neither lost nor
\* made by malloc, free and the other environments, and every heap page in the
\* page file belongs to a block that is held.
THEOREM DiskSafe == Spec => []DiskConserved
  <1>1. TablesSound /\ DiskConserved /\ [Next]_vars => TablesSound' /\ DiskConserved'
    BY NextTables, NextDisk
  <1>2. Init => TablesSound /\ DiskConserved
    BY InitTables, InitDisk
  <1> QED
    BY <1>1, <1>2, PTL DEF Spec

\* No call takes a page of a block that stays held out of the page file.
THEOREM HeldPagesSafe == Spec => HeldPagesKept
  <1> DEFINE Kept == \A b \in live \cap live' : PagesOf(b) \cap pf \subseteq pf'
  <1>1. TablesSound /\ [Next]_vars => [Kept]_vars
    <2> SUFFICES ASSUME TablesSound, Next PROVE Kept
      OBVIOUS
    <2>1. TypeOK /\ BlocksApart
      BY DEF TablesSound
    <2>2. ASSUME NEW n \in Sizes, Malloc(n) PROVE Kept
      <3>1. PICK t \in Pages : NextFit(t, n) /\ Grant(t, n)
        BY <2>2 DEF Malloc
      <3>2. pf \subseteq pf'
        BY <2>1, <3>1, FitsInHeap, GrantType
      <3> QED
        BY <3>2
    <2>3. ASSUME NEW b \in live, Free(b) PROVE Kept
      <3>1. pf' = pf \ PagesOf(b) /\ live' = live \ {b}
        BY <2>1, <2>3, FreeFacts DEF Free
      <3> QED
        BY <2>1, <3>1 DEF BlocksApart
    <2>4. CASE OthersTake \/ OthersReturn
      BY <2>4 DEF OthersTake, OthersReturn
    <2> QED
      BY <2>2, <2>3, <2>4 DEF Next
  <1> HIDE DEF Kept
  <1>2. HeldPagesKept <=> [][Kept]_vars
    BY PTL DEF HeldPagesKept, Kept
  <1> QED
    BY <1>1, <1>2, TablesSafe, PTL DEF Spec

-----------------------------------------------------------------------------
(* The loop of nextFitAlgo.  Its invariant: the walk has reached page a,   *)
(* which no block covers from before; a run of z free pages begins at s    *)
(* and reaches a; sp pages are still to be visited; n pages are wanted and *)
(* no run of n begins at a page that is behind.                            *)

BeforeEnd(a, s, sp, n) ==
    /\ startAdd <= s
    /\ sp = NPages - (a - startAdd)
    /\ \A t \in startAdd .. s - 1 : ~Vacant(t, n)

AfterEnd(a, s, sp, n) ==
    /\ a <= startAdd
    /\ sp = startAdd - a
    /\ Upper(n) = {}
    /\ \A t \in 0 .. s - 1 : ~Vacant(t, n)

Walking(a, z, s, sp, n) ==
    /\ n \in Sizes
    /\ a \in Pages /\ s \in 0 .. a
    /\ z = a - s /\ z < n
    /\ Vacant(s, z)
    /\ \A t \in Pages : Covers(t, a) => t = a
    /\ BeforeEnd(a, s, sp, n) \/ AfterEnd(a, s, sp, n)

RunStart == IF flag THEN tmp ELSE newAdd

LoopInv ==
    /\ pc \in {"idle", "loop", "null"}
    /\ flag \in BOOLEAN
    /\ pc = "loop" => Walking(newAdd, newSize, RunStart, spacePages, size)

SearchInv == TablesSound /\ LoopInv /\ NullMeansNoRun

\* A search begins at startAdd, with the whole heap to visit.
LEMMA WalkBegins ==
    ASSUME TablesSound, NEW n \in Sizes
    PROVE  Walking(startAdd, 0, startAdd, NPages, n)
  <1>1. startAdd \in Pages /\ StartAtBoundary
    BY DEF TablesSound, TypeOK
  <1>2. startAdd .. startAdd - 1 = {} /\ startAdd .. startAdd + 0 - 1 = {}
    BY <1>1 DEF Pages
  <1>3. Vacant(startAdd, 0)
    BY <1>2 DEF Vacant
  <1>4. BeforeEnd(startAdd, startAdd, NPages, n)
    BY <1>1, <1>2 DEF BeforeEnd, Pages
  <1> QED
    BY <1>1, <1>3, <1>4 DEF Walking, StartAtBoundary, Pages

\* Two lists of facts that the steps of the walk share.
LEMMA WalkTypes ==
    ASSUME TablesSound, NEW a, NEW z, NEW s, NEW sp, NEW n,
           Walking(a, z, s, sp, n)
    PROVE  /\ n \in Nat /\ n > 0 /\ a \in Int /\ 0 <= a /\ a < NPages
           /\ s \in Int /\ 0 <= s /\ s <= a /\ z = a - s /\ z \in Int /\ z < n
           /\ startAdd \in Int /\ 0 <= startAdd /\ startAdd < NPages
           /\ checkList \in [Pages -> 0 .. NPages]
           /\ \A t \in Pages : t \in Int /\ 0 <= t /\ t < NPages
           /\ \A t \in Pages : checkList[t] \in Int /\ 0 <= checkList[t]
           /\ a \in Pages
  BY DEF Walking, TablesSound, TypeOK, Pages

\* At the end of the heap the run is cut: nothing of it is long enough.
LEMMA WalkWraps ==
    ASSUME TablesSound, NEW s \in Nat, NEW n \in Sizes,
           startAdd <= s, s > NPages - n,
           \A t \in startAdd .. s - 1 : ~Vacant(t, n)
    PROVE  Walking(0, 0, 0, startAdd, n)
  <1>1. startAdd \in Int /\ 0 <= startAdd /\ startAdd < NPages /\ n \in Nat /\ n > 0
    BY DEF TablesSound, TypeOK, Pages
  <1>2. Upper(n) = {}
    <2> SUFFICES ASSUME NEW t \in startAdd .. NPages - n, Vacant(t, n)
                 PROVE  FALSE
      BY DEF Upper
    <2>1. t \in startAdd .. s - 1
      BY <1>1
    <2> QED
      BY <2>1
  <1>3. Vacant(0, 0)
    <2>1. 0 .. 0 + 0 - 1 = {}
      OBVIOUS
    <2> QED
      BY <2>1 DEF Vacant
  <1>4. \A t \in Pages : Covers(t, 0) => t = 0
    BY DEF Covers, Pages
  <1>5. AfterEnd(0, 0, startAdd, n)
    <2>1. 0 .. 0 - 1 = {}
      OBVIOUS
    <2> QED
      BY <1>1, <1>2, <2>1 DEF AfterEnd
  <1> QED
    BY <1>1, <1>3, <1>4, <1>5 DEF Walking, Pages

\* One free page on: the run grows, or is cut at the end of the heap, or is the
\* first one that is long enough.
LEMMA WalkFreePage ==
    ASSUME TablesSound, NEW a, NEW z, NEW s, NEW sp, NEW n,
           Walking(a, z, s, sp, n), sp # 0, checkList[a] = 0
    PROVE  /\ z + 1 < n /\ a + 1 < NPages => Walking(a + 1, z + 1, s, sp - 1, n)
           /\ z + 1 < n /\ a + 1 >= NPages => Walking(0, 0, 0, sp - 1, n)
           /\ z + 1 >= n => s \in Pages /\ NextFit(s, n)
  <1>1. /\ n \in Nat /\ n > 0 /\ a \in Int /\ 0 <= a /\ a < NPages
        /\ s \in Int /\ 0 <= s /\ s <= a /\ z = a - s /\ z \in Int /\ z < n
        /\ startAdd \in Int /\ 0 <= startAdd /\ startAdd < NPages
        /\ checkList \in [Pages -> 0 .. NPages]
        /\ \A t \in Pages : t \in Int /\ 0 <= t /\ t < NPages
        /\ \A t \in Pages : checkList[t] \in Int /\ 0 <= checkList[t]
        /\ a \in Pages
    BY WalkTypes
  <1>2. \A t \in Pages : ~Covers(t, a)
    BY <1>1 DEF Walking, Covers
  <1>3. Vacant(s, z + 1)
    <2> SUFFICES ASSUME NEW p \in s .. s + (z + 1) - 1, NEW t \in Pages
                 PROVE  ~Covers(t, p)
      BY DEF Vacant
    <2>1. CASE p = a
      BY <1>2, <2>1
    <2>2. CASE p # a
      <3>1. p \in s .. s + z - 1
        BY <1>1, <2>2
      <3> QED
        BY <3>1 DEF Walking, Vacant
    <2> QED
      BY <2>1, <2>2
  <1>4. BeforeEnd(a, s, sp, n) \/ (AfterEnd(a, s, sp, n) /\ a < startAdd)
    BY <1>1 DEF Walking, AfterEnd
  <1>5. ASSUME z + 1 < n, a + 1 < NPages
        PROVE  Walking(a + 1, z + 1, s, sp - 1, n)
    <2>1. \A t \in Pages : Covers(t, a + 1) => t = a + 1
      BY <1>1, <1>2 DEF Covers
    <2>2. BeforeEnd(a, s, sp, n) => BeforeEnd(a + 1, s, sp - 1, n)
      BY <1>1 DEF BeforeEnd
    <2>3. AfterEnd(a, s, sp, n) /\ a < startAdd => AfterEnd(a + 1, s, sp - 1, n)
      BY <1>1 DEF AfterEnd
    <2>4. a + 1 \in Pages /\ s \in 0 .. a + 1 /\ z + 1 = a + 1 - s /\ n \in Sizes
      BY <1>1, <1>5 DEF Pages, Walking
    <2>5. BeforeEnd(a + 1, s, sp - 1, n) \/ AfterEnd(a + 1, s, sp - 1, n)
      BY <1>4, <2>2, <2>3
    <2> QED
      BY <1>1, <1>3, <1>5, <2>1, <2>4, <2>5 DEF Walking
  <1>6. ASSUME z + 1 < n, a + 1 >= NPages
        PROVE  Walking(0, 0, 0, sp - 1, n)
    <2>1. BeforeEnd(a, s, sp, n) /\ n \in Sizes
      BY <1>1, <1>4, <1>6 DEF Walking
    <2>2. s \in Nat /\ s > NPages - n /\ startAdd <= s /\ sp - 1 = startAdd
      BY <1>1, <1>6, <2>1 DEF BeforeEnd
    <2> QED
      BY <2>1, <2>2, WalkWraps DEF BeforeEnd
  <1>7. ASSUME z + 1 >= n PROVE s \in Pages /\ NextFit(s, n)
    <2>1. z + 1 = n /\ Vacant(s, n) /\ a = s + n - 1 /\ s \in Pages
      BY <1>1, <1>3, <1>7 DEF Pages
    <2>2. CASE BeforeEnd(a, s, sp, n)
      <3>1. s \in Upper(n)
        BY <1>1, <2>1, <2>2 DEF BeforeEnd, Upper
      <3>2. ASSUME NEW t \in Upper(n) PROVE s <= t
        BY <1>1, <2>2 DEF BeforeEnd, Upper
      <3> QED
        BY <2>1, <3>1, <3>2 DEF NextFit
    <2>3. CASE AfterEnd(a, s, sp, n) /\ a < startAdd
      <3>1. s \in Lower(n)
        BY <1>1, <2>1, <2>3 DEF Lower
      <3>2. ASSUME NEW t \in Lower(n) PROVE s <= t
        BY <1>1, <2>3 DEF AfterEnd, Lower
      <3> QED
        BY <2>1, <2>3, <3>1, <3>2 DEF NextFit, AfterEnd
    <2> QED
      BY <1>4, <2>2, <2>3
  <1> QED
    BY <1>5, <1>6, <1>7

\* A block ends at a boundary: no other block covers the page after it.
LEMMA BlockEnd ==
    ASSUME TablesSound, NEW a \in Pages, checkList[a] > 0,
           \A t \in Pages : Covers(t, a) => t = a
    PROVE  /\ a + checkList[a] <= NPages
           /\ \A t \in Pages : Covers(t, a + checkList[a]) => t = a + checkList[a]
  <1>1. TypeOK /\ BlocksApart
    BY DEF TablesSound
  <1>2. PICK b \in live : b.first = a
    BY <1>1 DEF BlocksApart
  <1>3. b.size = checkList[a] /\ a + checkList[a] <= NPages
    BY <1>1, <1>2, BlockCovers DEF BlocksApart
  <1>4. a \in Int /\ checkList[a] \in Int
    BY <1>1 DEF TypeOK, Pages
  <1>5. ASSUME NEW t \in Pages, Covers(t, a + checkList[a])
        PROVE  t = a + checkList[a]
    <2>1. t \in Int /\ checkList[t] \in Int /\ t <= a + checkList[a]
          /\ a + checkList[a] < t + checkList[t]
      BY <1>1, <1>5 DEF Covers, TypeOK, Pages
    <2>2. ASSUME t < a + checkList[a] PROVE FALSE
      <3>1. t # a /\ checkList[t] > 0
        BY <1>4, <2>1, <2>2
      <3>2. ~(t < a)
        <4>1. t < a => Covers(t, a)
          BY <1>4, <2>1 DEF Covers
        <4> QED
          BY <3>1, <4>1
      <3>3. PICK c \in live : c.first = t
        BY <1>1, <3>1 DEF BlocksApart
      <3>4. t \in PagesOf(c) /\ t \in PagesOf(b)
        <4>1. t \in b.first .. b.first + b.size - 1
          BY <1>2, <1>3, <1>4, <2>1, <2>2, <3>2
        <4> QED
          BY <1>1, <3>3, <4>1, BlockCovers DEF PagesOf
      <3>5. b # c
        BY <1>2, <3>1, <3>3
      <3> QED
        BY <1>1, <3>4, <3>5 DEF BlocksApart
    <2> QED
      BY <1>4, <2>1, <2>2
  <1> QED
    BY <1>3, <1>5

\* One block on: nothing that begins before its end is long enough, and the
\* count of the pages to visit does not go below zero.
LEMMA WalkSkipBlock ==
    ASSUME TablesSound, NEW a, NEW z, NEW s, NEW sp, NEW n,
           Walking(a, z, s, sp, n), sp # 0, checkList[a] > 0
    PROVE  LET e == a + checkList[a]
               left == sp - checkList[a]
           IN /\ left \in 0 .. NPages
              /\ e < NPages => Walking(e, 0, e, left, n)
              /\ e >= NPages => Walking(0, 0, 0, left, n)
  <1> DEFINE e == a + checkList[a]
             left == sp - checkList[a]
  <1>1. /\ n \in Nat /\ n > 0 /\ a \in Int /\ 0 <= a /\ a < NPages
        /\ s \in Int /\ 0 <= s /\ s <= a /\ z = a - s /\ z \in Int /\ z < n
        /\ startAdd \in Int /\ 0 <= startAdd /\ startAdd < NPages
        /\ checkList \in [Pages -> 0 .. NPages]
        /\ \A t \in Pages : t \in Int /\ 0 <= t /\ t < NPages
        /\ \A t \in Pages : checkList[t] \in Int /\ 0 <= checkList[t]
        /\ a \in Pages
    BY WalkTypes
  <1>2. n \in Sizes /\ \A t \in Pages : Covers(t, a) => t = a
    BY DEF Walking
  <1>3. e <= NPages /\ \A t \in Pages : Covers(t, e) => t = e
    BY <1>1, <1>2, BlockEnd
  <1>4. e \in Int /\ e > a /\ checkList[a] = e - a
    BY <1>1
  <1>5. ASSUME NEW t \in s .. e - 1 PROVE ~Vacant(t, n)
    <2>1. CASE t <= a
      <3>1. a \in t .. t + n - 1 /\ Covers(a, a)
        BY <1>1, <1>4, <2>1 DEF Covers
      <3> QED
        BY <1>1, <3>1 DEF Vacant
    <2>2. CASE t > a
      <3>1. t \in t .. t + n - 1 /\ Covers(a, t)
        BY <1>1, <1>4, <2>2 DEF Covers
      <3> QED
        BY <1>1, <3>1 DEF Vacant
    <2> QED
      BY <1>1, <2>1, <2>2
  <1>6. BeforeEnd(a, s, sp, n) \/ (AfterEnd(a, s, sp, n) /\ a < startAdd)
    BY <1>1 DEF Walking, AfterEnd
  <1>7. AfterEnd(a, s, sp, n) /\ a < startAdd => e <= startAdd
    <2>1. StartAtBoundary /\ startAdd \in Pages
      BY DEF TablesSound, TypeOK
    <2>2. a < startAdd /\ startAdd < e => Covers(a, startAdd)
      BY <1>1, <1>4 DEF Covers
    <2> QED
      BY <1>1, <1>4, <2>1, <2>2 DEF StartAtBoundary
  <1>8. left = sp - (e - a)
    BY <1>4
  <1> HIDE DEF e, left
  <1>9. left \in 0 .. NPages
    <2>1. CASE BeforeEnd(a, s, sp, n)
      BY <1>1, <1>3, <1>4, <1>8, <2>1 DEF BeforeEnd
    <2>2. CASE AfterEnd(a, s, sp, n) /\ a < startAdd
      BY <1>1, <1>4, <1>7, <1>8, <2>2 DEF AfterEnd
    <2> QED
      BY <1>6, <2>1, <2>2
  <1>10. ASSUME e < NPages PROVE Walking(e, 0, e, left, n)
    <2>1. e \in Pages /\ e \in 0 .. e /\ 0 = e - e /\ 0 < n
      BY <1>1, <1>4, <1>10 DEF Pages
    <2>2. Vacant(e, 0)
      <3>1. e .. e + 0 - 1 = {}
        BY <1>4
      <3> QED
        BY <3>1 DEF Vacant
    <2>3. BeforeEnd(a, s, sp, n) => BeforeEnd(e, e, left, n)
      <3> SUFFICES ASSUME BeforeEnd(a, s, sp, n) PROVE BeforeEnd(e, e, left, n)
        OBVIOUS
      <3>1. startAdd <= e /\ left = NPages - (e - startAdd)
        BY <1>1, <1>4, <1>8 DEF BeforeEnd
      <3>2. \A t \in startAdd .. e - 1 : ~Vacant(t, n)
        <4> SUFFICES ASSUME NEW t \in startAdd .. e - 1 PROVE ~Vacant(t, n)
          OBVIOUS
        <4>1. t \in startAdd .. s - 1 \/ t \in s .. e - 1
          BY <1>1, <1>4
        <4> QED
          BY <1>5, <4>1 DEF BeforeEnd
      <3> QED
        BY <3>1, <3>2 DEF BeforeEnd
    <2>4. AfterEnd(a, s, sp, n) /\ a < startAdd => AfterEnd(e, e, left, n)
      <3> SUFFICES ASSUME AfterEnd(a, s, sp, n), a < startAdd
                   PROVE  AfterEnd(e, e, left, n)
        OBVIOUS
      <3>1. e <= startAdd /\ left = startAdd - e
        BY <1>1, <1>4, <1>7, <1>8 DEF AfterEnd
      <3>2. \A t \in 0 .. e - 1 : ~Vacant(t, n)
        <4> SUFFICES ASSUME NEW t \in 0 .. e - 1 PROVE ~Vacant(t, n)
          OBVIOUS
        <4>1. t \in 0 .. s - 1 \/ t \in s .. e - 1
          BY <1>1, <1>4
        <4> QED
          BY <1>5, <4>1 DEF AfterEnd
      <3> QED
        BY <3>1, <3>2 DEF AfterEnd
    <2> QED
      BY <1>2, <1>3, <1>6, <2>1, <2>2, <2>3, <2>4 DEF Walking
  <1>11. ASSUME e >= NPages PROVE Walking(0, 0, 0, left, n)
    <2>1. e = NPages /\ BeforeEnd(a, s, sp, n)
      BY <1>1, <1>3, <1>4, <1>6, <1>7, <1>11
    <2>2. left = startAdd /\ startAdd <= e
      BY <1>1, <1>4, <1>8, <2>1 DEF BeforeEnd
    <2>3. \A t \in startAdd .. e - 1 : ~Vacant(t, n)
      <3> SUFFICES ASSUME NEW t \in startAdd .. e - 1 PROVE ~Vacant(t, n)
        OBVIOUS
      <3>1. t \in startAdd .. s - 1 \/ t \in s .. e - 1
        BY <1>1, <1>4
      <3> QED
        BY <1>5, <2>1, <3>1 DEF BeforeEnd
    <2>4. e \in Nat /\ e > NPages - n
      BY <1>1, <2>1
    <2> QED
      BY <1>2, <2>2, <2>3, <2>4, WalkWraps
  <1> QED
    BY <1>9, <1>10, <1>11 DEF e, left

\* Nothing left to visit: there is no run of n pages.
LEMMA WalkEnds ==
    ASSUME TablesSound, NEW a, NEW z, NEW s, NEW n, Walking(a, z, s, 0, n)
    PROVE  Upper(n) \cup Lower(n) = {}
  <1>1. /\ n \in Nat /\ n > 0 /\ a \in Int /\ 0 <= a /\ a < NPages
        /\ s \in Int /\ 0 <= s /\ s <= a /\ z = a - s /\ z < n
        /\ startAdd \in Int /\ 0 <= startAdd /\ startAdd < NPages
    BY WalkTypes
  <1>2. AfterEnd(a, s, 0, n)
    BY <1>1 DEF Walking, BeforeEnd
  <1>3. ASSUME NEW t \in Lower(n) PROVE FALSE
    BY <1>1, <1>2, <1>3 DEF AfterEnd, Lower
  <1> QED
    BY <1>2, <1>3 DEF AfterEnd

\* A step that leaves the heap's tables alone does not change what is vacant.
LEMMA WalkingNext ==
    ASSUME UNCHANGED <<startAdd, checkList>>,
           Walking(newAdd', newSize', RunStart', spacePages', size')
    PROVE  Walking(newAdd, newSize, RunStart, spacePages, size)'
  <1>1. startAdd' = startAdd /\ checkList' = checkList
    OBVIOUS
  <1> QED
    BY <1>1 DEF Walking, BeforeEnd, AfterEnd, Upper, Vacant, Covers

\* A step of the loop that grants a run is a malloc of module UHeap; every other
\* step of the search leaves the heap alone.
LEMMA StepImplements ==
    ASSUME SearchInv, [SNext]_svars
    PROVE  [Next]_vars
  <1>1. TablesSound /\ LoopInv
    BY DEF SearchInv
  <1>2. CASE FreePage
    <2> DEFINE tm == IF flag THEN tmp ELSE newAdd
    <2>1. pc = "loop" /\ spacePages # 0 /\ checkList[newAdd] = 0
          /\ (UNCHANGED vars \/ Found(newSize + 1, tm))
      BY <1>2 DEF FreePage, WalkOn
    <2>2. Walking(newAdd, newSize, tm, spacePages, size) /\ size \in Sizes
      BY <1>1, <2>1 DEF LoopInv, RunStart, Walking
    <2> HIDE DEF tm
    <2>3. ASSUME Found(newSize + 1, tm) PROVE Next
      <3>1. newSize + 1 >= size /\ Grant(tm, size)
        BY <2>3 DEF Found
      <3>2. tm \in Pages /\ NextFit(tm, size)
        BY <1>1, <2>1, <2>2, <3>1, WalkFreePage
      <3> QED
        BY <2>2, <3>1, <3>2 DEF Next, Malloc
    <2> QED
      BY <2>1, <2>3
  <1>3. CASE SkipBlock \/ NoSpace \/ ReturnNull
    BY <1>3 DEF SkipBlock, WalkOn, NoSpace, ReturnNull
  <1>4. ASSUME NEW n \in Sizes, CallMalloc(n) PROVE [Next]_vars
    BY <1>4 DEF CallMalloc
  <1>5. ASSUME NEW b \in live, CallFree(b) PROVE [Next]_vars
    BY <1>5 DEF CallFree, Next
  <1>6. CASE OthersTake \/ OthersReturn
    BY <1>6 DEF Next
  <1>7. ASSUME NEW s, SetUHeapPlacementStrategy(s) PROVE [Next]_vars
    BY <1>7 DEF SetUHeapPlacementStrategy
  <1>8. CASE UNCHANGED svars
    BY <1>8 DEF svars
  <1> QED
    BY <1>2, <1>3, <1>4, <1>5, <1>6, <1>7, <1>8 DEF SNext, LoopStep

\* The loop keeps its invariant, and answers NULL only for lack of a run.
LEMMA SearchInductive == SearchInv /\ [SNext]_svars => SearchInv'
  <1> SUFFICES ASSUME SearchInv, [SNext]_svars PROVE LoopInv' /\ NullMeansNoRun'
    BY StepImplements, NextTables DEF SearchInv
  <1>1. TablesSound /\ LoopInv /\ NullMeansNoRun
    BY DEF SearchInv
  <1>2. ASSUME UNCHANGED <<startAdd, checkList, call>>
        PROVE  LoopInv' /\ NullMeansNoRun'
    <2>1. /\ startAdd' = startAdd /\ checkList' = checkList
          /\ pc' = pc /\ size' = size /\ newAdd' = newAdd /\ newSize' = newSize
          /\ tmp' = tmp /\ flag' = flag /\ spacePages' = spacePages
      BY <1>2 DEF call, walk
    <2>2. RunStart' = RunStart
      BY <2>1 DEF RunStart
    <2>3. LoopInv'
      BY <1>1, <2>1, <2>2, WalkingNext DEF LoopInv
    <2> QED
      BY <1>1, <2>1, <2>3 DEF NullMeansNoRun, Upper, Lower, Vacant, Covers
  <1>3. ASSUME pc' = "idle", flag' \in BOOLEAN PROVE LoopInv' /\ NullMeansNoRun'
    BY <1>3 DEF LoopInv, NullMeansNoRun
  <1>4. ASSUME NEW n \in Sizes, CallMalloc(n) PROVE LoopInv' /\ NullMeansNoRun'
    <2>1. /\ startAdd' = startAdd /\ checkList' = checkList
          /\ pc' = "loop" /\ size' = n /\ newAdd' = startAdd /\ newSize' = 0
          /\ flag' = FALSE /\ spacePages' = NPages
      BY <1>4 DEF CallMalloc, vars, heap
    <2>2. RunStart' = startAdd
      BY <2>1 DEF RunStart
    <2>3. Walking(newAdd', newSize', RunStart', spacePages', size')
      BY <1>1, <2>1, <2>2, WalkBegins
    <2> QED
      BY <2>1, <2>3, WalkingNext DEF LoopInv, NullMeansNoRun
  <1>5. CASE FreePage
    <2> DEFINE tm == IF flag THEN tmp ELSE newAdd
    <2>1. /\ pc = "loop" /\ spacePages # 0 /\ checkList[newAdd] = 0
          /\ \/ /\ spacePages' = spacePages - 1
                /\ WalkOn(newAdd + 1, newSize + 1, TRUE, tm)
             \/ Found(newSize + 1, tm)
      BY <1>5 DEF FreePage
    <2>2. Walking(newAdd, newSize, tm, spacePages, size)
      BY <1>1, <2>1 DEF LoopInv, RunStart
    <2> HIDE DEF tm
    <2>3. CASE Found(newSize + 1, tm)
      BY <1>3, <2>3 DEF Found, Leave
    <2>4. CASE /\ spacePages' = spacePages - 1
               /\ WalkOn(newAdd + 1, newSize + 1, TRUE, tm)
      <3>1. /\ startAdd' = startAdd /\ checkList' = checkList
            /\ pc' = "loop" /\ size' = size /\ tmp' = tm
            /\ newSize + 1 < size
            /\ \/ /\ newAdd + 1 < NPages /\ newAdd' = newAdd + 1
                  /\ newSize' = newSize + 1 /\ flag' = TRUE
               \/ /\ newAdd + 1 >= NPages /\ newAdd' = 0
                  /\ newSize' = 0 /\ flag' = FALSE
        BY <2>1, <2>4 DEF WalkOn, vars, heap
      <3>2. CASE /\ newAdd + 1 < NPages /\ newAdd' = newAdd + 1
                 /\ newSize' = newSize + 1 /\ flag' = TRUE
        <4>1. Walking(newAdd + 1, newSize + 1, tm, spacePages - 1, size)
          BY <1>1, <2>1, <2>2, <3>1, <3>2, WalkFreePage
        <4>2. RunStart' = tm
          BY <3>1, <3>2 DEF RunStart
        <4>3. Walking(newAdd', newSize', RunStart', spacePages', size')
          BY <2>4, <3>1, <3>2, <4>1, <4>2
        <4> QED
          BY <3>1, <3>2, <4>3, WalkingNext DEF LoopInv, NullMeansNoRun
      <3>3. CASE /\ newAdd + 1 >= NPages /\ newAdd' = 0
                 /\ newSize' = 0 /\ flag' = FALSE
        <4>1. Walking(0, 0, 0, spacePages - 1, size)
          BY <1>1, <2>1, <2>2, <3>1, <3>3, WalkFreePage
        <4>2. RunStart' = 0
          BY <3>3 DEF RunStart
        <4>3. Walking(newAdd', newSize', RunStart', spacePages', size')
          BY <2>4, <3>1, <3>3, <4>1, <4>2
        <4> QED
          BY <3>1, <3>3, <4>3, WalkingNext DEF LoopInv, NullMeansNoRun
      <3> QED
        BY <3>1, <3>2, <3>3
    <2> QED
      BY <2>1, <2>3, <2>4
  <1>6. CASE SkipBlock
    <2> DEFINE e == newAdd + checkList[newAdd]
               left == spacePages - checkList[newAdd]
    <2>1. /\ pc = "loop" /\ spacePages # 0 /\ checkList[newAdd] > 0
          /\ spacePages' = left % Width
          /\ WalkOn(e, 0, FALSE, tmp)
      BY <1>6 DEF SkipBlock
    <2>2. Walking(newAdd, newSize, RunStart, spacePages, size)
      BY <1>1, <2>1 DEF LoopInv
    <2>3. /\ left \in 0 .. NPages
          /\ e < NPages => Walking(e, 0, e, left, size)
          /\ e >= NPages => Walking(0, 0, 0, left, size)
      BY <1>1, <2>1, <2>2, WalkSkipBlock
    <2> HIDE DEF e, left
    <2>4. spacePages' = left
      <3>1. left \in Int /\ 0 <= left /\ left < Width /\ Width \in Nat /\ Width > 0
        BY <2>3, WidthAssumption
      <3> HIDE DEF Width
      <3>2. left % Width = left
        BY <3>1
      <3> QED
        BY <2>1, <3>2
    <2>5. /\ startAdd' = startAdd /\ checkList' = checkList
          /\ pc' = "loop" /\ size' = size /\ flag' = FALSE /\ newSize' = 0
          /\ \/ e < NPages /\ newAdd' = e
             \/ e >= NPages /\ newAdd' = 0
      BY <2>1 DEF WalkOn, vars, heap
    <2>6. RunStart' = newAdd'
      BY <2>5 DEF RunStart
    <2>7. Walking(newAdd', newSize', RunStart', spacePages', size')
      BY <2>3, <2>4, <2>5, <2>6
    <2> QED
      BY <2>5, <2>7, WalkingNext DEF LoopInv, NullMeansNoRun
  <1>7. CASE NoSpace
    <2>1. /\ pc = "loop" /\ spacePages = 0 /\ pc' = "null"
          /\ startAdd' = startAdd /\ checkList' = checkList /\ size' = size
          /\ flag' = flag
      BY <1>7 DEF NoSpace, vars, heap, walk
    <2>2. Upper(size) \cup Lower(size) = {}
      BY <1>1, <2>1, WalkEnds DEF LoopInv
    <2>3. NullMeansNoRun'
      BY <2>1, <2>2 DEF NullMeansNoRun, Upper, Lower, Vacant, Covers
    <2> QED
      BY <1>1, <2>1, <2>3 DEF LoopInv
  <1>8. CASE ReturnNull
    BY <1>3, <1>8 DEF ReturnNull, Leave
  <1>9. ASSUME NEW b \in live, CallFree(b) PROVE LoopInv' /\ NullMeansNoRun'
    BY <1>1, <1>3, <1>9 DEF CallFree, call, walk, LoopInv
  <1>10. CASE (OthersTake \/ OthersReturn) /\ UNCHANGED <<strategy, call>>
    BY <1>2, <1>10 DEF OthersTake, OthersReturn, heap
  <1>11. ASSUME NEW s, SetUHeapPlacementStrategy(s)
         PROVE  LoopInv' /\ NullMeansNoRun'
    BY <1>2, <1>11 DEF SetUHeapPlacementStrategy, vars, heap
  <1>12. CASE UNCHANGED svars
    BY <1>2, <1>12 DEF svars, vars, heap
  <1> QED
    BY <1>4, <1>5, <1>6, <1>7, <1>8, <1>9, <1>10, <1>11, <1>12
       DEF SNext, LoopStep

\* The invariant of the search holds from the start on.
LEMMA SearchInvariance == SSpec => []SearchInv
  <1>1. SInit => SearchInv
    BY InitTables DEF SInit, SearchInv, LoopInv, NullMeansNoRun
  <1> QED
    BY <1>1, SearchInductive, PTL DEF SSpec

\* For a heap of any size, with the page file changing under it: the loop of
\* nextFitAlgo, its page count and its flag implement the closed form of next
\* fit, in which malloc takes the first run from startAdd on.
THEOREM LoopImplementsNextFit == SSpec => ImplementsUHeap
  <1>1. SInit => Init
    BY DEF SInit
  <1>2. SearchInv /\ [SNext]_svars => [Next]_vars
    BY StepImplements
  <1> QED
    BY <1>1, <1>2, SearchInvariance, PTL DEF SSpec, ImplementsUHeap, Spec

\* For a heap of any size, NULL means that no run is long enough.
THEOREM NullSafe == SSpec => []NullMeansNoRun
  <1>1. SearchInv => NullMeansNoRun
    BY DEF SearchInv
  <1> QED
    BY <1>1, SearchInvariance, PTL
=============================================================================
