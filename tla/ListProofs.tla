---------------------------- MODULE ListProofs -----------------------------
(***************************************************************************)
(* The macros of inc/queue.h keep every list well linked and implement     *)
(* sequences, for any number of lists and of elements.                     *)
(***************************************************************************)
EXTENDS ListLinks, SequenceTheorems, FiniteSetTheorems, WellFoundedInduction,
        TLAPS

-----------------------------------------------------------------------------
(* Sequences. *)

\* A set of numbers has a least one: the induction of this module.
LEMMA Least ==
    ASSUME NEW T, T \subseteq Nat, T # {}
    PROVE  \E n \in T : \A m \in T : n <= m
  <1> DEFINE R == {ss \in Nat \X Nat : ss[1] < ss[2]}
  <1>1. IsWellFoundedOn(R, Nat)
    BY NatLessThanWellFounded DEF OpToRel
  <1> HIDE DEF R
  <1>2. PICK n \in T : \A m \in T : ~(<<m, n>> \in R)
    BY <1>1, WFMin
  <1>3. \A m \in T : ~(m < n)
    <2> TAKE m \in T
    <2>1. <<m, n>> \in Nat \X Nat /\ <<m, n>>[1] = m /\ <<m, n>>[2] = n
      OBVIOUS
    <2> QED
      BY <1>2, <2>1 DEF R
  <1> QED
    BY <1>2, <1>3

\* Positions of a sequence of elements.
LEMMA AtFacts ==
    ASSUME NEW s \in Seq(Elems)
    PROVE  /\ Len(s) \in Nat
           /\ \A i \in Int : At(s, i) \in Ref
           /\ \A i \in 1 .. Len(s) : At(s, i) = s[i] /\ s[i] \in Elems
           /\ \A i \in Int : i < 1 \/ Len(s) < i <=> At(s, i) = Null
  <1>1. Len(s) \in Nat /\ \A i \in 1 .. Len(s) : s[i] \in Elems
    BY LenProperties, ElementOfSeq
  <1> QED
    BY <1>1, ListsAssumption DEF At, Ref

\* Two sequences that follow the same links from the same element are equal.
LEMMA FollowsUnique ==
    ASSUME NEW link, NEW e, NEW s \in Seq(Elems), NEW t \in Seq(Elems),
           Follows(s, link, e), Follows(t, link, e)
    PROVE  s = t
  <1> DEFINE D == {i \in Nat : i # 0 /\ At(s, i) # At(t, i)}
  <1>1. D = {}
    <2> SUFFICES ASSUME D # {} PROVE FALSE
      OBVIOUS
    <2>1. PICK n \in D : \A m \in D : n <= m
      BY Least
    <2>2. n # 1
      BY <2>1 DEF Follows
    <2>3. n \in Nat /\ n # 0 /\ At(s, n) # At(t, n)
      BY <2>1
    <2>4. n - 1 \in Nat /\ n - 1 # 0 /\ n - 1 \notin D
      BY <2>1, <2>2, <2>3
    <2>5. At(s, n - 1) = At(t, n - 1)
      BY <2>4
    <2> HIDE DEF D
    <2>6. CASE At(s, n - 1) = Null
      <3>1. n - 1 \in Int /\ ~(n - 1 < 1)
        BY <2>3, <2>4
      <3>2. Len(s) < n - 1 /\ Len(t) < n - 1
        BY <2>5, <2>6, <3>1, AtFacts
      <3>3. At(s, n) = Null /\ At(t, n) = Null
        BY <2>3, <3>2, AtFacts
      <3> QED
        BY <2>3, <3>3
    <2>7. CASE At(s, n - 1) # Null
      <3>1. n - 1 \in 1 .. Len(s) /\ n - 1 \in 1 .. Len(t)
        BY <2>4, <2>5, <2>7, AtFacts
      <3>2. s[n - 1] = t[n - 1]
        BY <2>5, <3>1, AtFacts
      <3>3. (n - 1) + 1 = n
        BY <2>3
      <3>4. link[s[n - 1]] = At(s, n) /\ link[t[n - 1]] = At(t, n)
        BY <3>1, <3>3 DEF Follows
      <3> QED
        BY <2>3, <3>2, <3>4
    <2> QED
      BY <2>6, <2>7
  <1>2. \A i \in Nat \ {0} : At(s, i) = At(t, i)
    BY <1>1
  <1> HIDE DEF D
  <1>3. Len(s) \in Nat /\ Len(t) \in Nat
    BY AtFacts
  <1>4. Len(s) = Len(t)
    <2>1. ASSUME Len(s) < Len(t) PROVE FALSE
      <3>1. At(s, Len(t)) = Null /\ At(t, Len(t)) # Null
        BY <1>3, <2>1, AtFacts
      <3> QED
        BY <1>2, <1>3, <2>1, <3>1
    <2>2. ASSUME Len(t) < Len(s) PROVE FALSE
      <3>1. At(t, Len(s)) = Null /\ At(s, Len(s)) # Null
        BY <1>3, <2>2, AtFacts
      <3> QED
        BY <1>2, <1>3, <2>2, <3>1
    <2> QED
      BY <1>3, <2>1, <2>2
  <1>5. \A i \in 1 .. Len(s) : s[i] = t[i]
    BY <1>2, <1>3, <1>4, AtFacts
  <1> QED
    BY <1>3, <1>4, <1>5, SeqEqual

\* Chains are the sequences of at most as many elements as there are.
LEMMA ChainsFacts ==
    /\ Cardinality(Elems) \in Nat
    /\ Chains \subseteq Seq(Elems)
    /\ \A s \in Seq(Elems) : Len(s) <= Cardinality(Elems) => s \in Chains
  <1>1. Cardinality(Elems) \in Nat
    BY ListsAssumption, FS_CardinalityType
  <1>2. Chains = UNION {[1 .. m -> Elems] : m \in 0 .. Cardinality(Elems)}
    BY DEF Chains, BoundedSeq, SeqOf
  <1>3. Chains \subseteq Seq(Elems)
    BY <1>1, <1>2, SeqDef
  <1>4. ASSUME NEW s \in Seq(Elems), Len(s) <= Cardinality(Elems)
        PROVE  s \in Chains
    BY <1>1, <1>2, <1>4, LenProperties
  <1> QED
    BY <1>1, <1>3, <1>4

\* Every position of s holds an element of its own.
Distinct(s) == \A i, j \in 1 .. Len(s) : s[i] = s[j] => i = j

\* A sequence of different elements is no longer than there are elements.
LEMMA DistinctShort ==
    ASSUME NEW s \in Seq(Elems), Distinct(s)
    PROVE  Len(s) \in 0 .. Cardinality(Elems) /\ s \in Chains
  <1>1. Len(s) \in Nat /\ s \in [1 .. Len(s) -> Elems]
    BY LenProperties
  <1>2. IsFiniteSet(1 .. Len(s)) /\ Cardinality(1 .. Len(s)) = Len(s)
    BY <1>1, FS_Interval
  <1>3. Len(s) <= Cardinality(Elems)
    <2> SUFFICES ASSUME Cardinality(Elems) < Len(s) PROVE FALSE
      BY <1>1, ChainsFacts
    <2>1. \E x, y \in 1 .. Len(s) : x # y /\ s[x] = s[y]
      BY <1>1, <1>2, ListsAssumption, FS_PigeonHole
    <2> QED
      BY <2>1 DEF Distinct
  <1> QED
    BY <1>1, <1>3, ChainsFacts

\* A chain found by following links is the one.
LEMMA ChainIs ==
    ASSUME NEW link, NEW e, NEW s \in Seq(Elems), Distinct(s),
           Follows(s, link, e)
    PROVE  Chain(link, e) = s
  <1>1. s \in Chains
    BY DistinctShort
  <1>2. Chain(link, e) \in Chains /\ Follows(Chain(link, e), link, e)
    BY <1>1, Zenon DEF Chain
  <1> QED
    BY <1>2, ChainsFacts, FollowsUnique

-----------------------------------------------------------------------------
(* Insertion and removal in a sequence. *)

\* InsertAt(s, i, e) is s with e at position i.
LEMMA InsertAtFacts ==
    ASSUME NEW s \in Seq(Elems), NEW e \in Elems, NEW i \in 1 .. Len(s) + 1
    PROVE  /\ InsertAt(s, i, e) \in Seq(Elems)
           /\ Len(InsertAt(s, i, e)) = Len(s) + 1
           /\ \A k \in 1 .. Len(s) + 1 : InsertAt(s, i, e)[k] =
                 IF k < i THEN s[k] ELSE IF k = i THEN e ELSE s[k - 1]
  <1> DEFINE l == SubSeq(s, 1, i - 1)
             r == SubSeq(s, i, Len(s))
  <1>1. Len(s) \in Nat /\ i \in Int /\ \A k \in 1 .. Len(s) : s[k] \in Elems
    BY AtFacts
  <1>2. /\ l \in Seq(Elems) /\ Len(l) = i - 1
        /\ \A k \in 1 .. i - 1 : l[k] = s[k]
    BY <1>1, SubSeqProperties
  <1>3. /\ r \in Seq(Elems) /\ Len(r) = Len(s) - i + 1
        /\ \A k \in 1 .. Len(s) - i + 1 : r[k] = s[i + k - 1]
    BY <1>1, SubSeqProperties
  <1>4. <<e>> \in Seq(Elems) /\ Len(<<e>>) = 1 /\ <<e>>[1] = e
    OBVIOUS
  <1> HIDE DEF l, r
  <1>5. /\ l \o <<e>> \in Seq(Elems) /\ Len(l \o <<e>>) = i
        /\ \A k \in 1 .. i : (l \o <<e>>)[k] = IF k < i THEN s[k] ELSE e
    BY <1>1, <1>2, <1>4, ConcatProperties
  <1> DEFINE m == l \o <<e>>
  <1> HIDE DEF m
  <1>6. m \in Seq(Elems) /\ Len(m) = i /\ Len(m) + Len(r) = Len(s) + 1
    <2>1. m \in Seq(Elems) /\ Len(m) = i
      BY <1>5, Zenon DEF m
    <2> QED
      BY <1>1, <1>3, <2>1
  <1>7. /\ m \o r \in Seq(Elems)
        /\ Len(m \o r) = Len(s) + 1
        /\ \A k \in 1 .. Len(s) + 1 : (m \o r)[k] =
              IF k <= Len(m) THEN m[k] ELSE r[k - Len(m)]
    BY <1>3, <1>6, ConcatProperties
  <1>8. ASSUME NEW k \in 1 .. Len(s) + 1
        PROVE  (m \o r)[k] =
                  IF k < i THEN s[k] ELSE IF k = i THEN e ELSE s[k - 1]
    <2>1. k \in Int
      BY <1>1
    <2>2. CASE k <= i
      <3>1. k \in 1 .. i
        BY <1>1, <2>2
      <3>2. m[k] = IF k < i THEN s[k] ELSE e
        BY <1>5, <3>1 DEF m
      <3> QED
        BY <1>1, <1>6, <1>7, <2>1, <2>2, <3>2
    <2>3. CASE ~(k <= i)
      <3>1. /\ k - i \in 1 .. Len(s) - i + 1 /\ i + (k - i) - 1 = k - 1
            /\ ~(k < i) /\ k # i
        BY <1>1, <2>1, <2>3
      <3>2. r[k - i] = s[k - 1]
        BY <1>3, <3>1
      <3> QED
        BY <1>6, <1>7, <2>3, <3>1, <3>2
    <2> QED
      BY <2>2, <2>3
  <1> QED
    BY <1>7, <1>8 DEF InsertAt, l, r, m

\* RemoveAt(s, i) is s without position i.
LEMMA RemoveAtFacts ==
    ASSUME NEW s \in Seq(Elems), NEW i \in 1 .. Len(s)
    PROVE  /\ RemoveAt(s, i) \in Seq(Elems)
           /\ Len(RemoveAt(s, i)) = Len(s) - 1
           /\ \A k \in 1 .. Len(s) - 1 : RemoveAt(s, i)[k] =
                 IF k < i THEN s[k] ELSE s[k + 1]
  <1> DEFINE l == SubSeq(s, 1, i - 1)
             r == SubSeq(s, i + 1, Len(s))
  <1>1. Len(s) \in Nat /\ i \in Int /\ \A k \in 1 .. Len(s) : s[k] \in Elems
    BY AtFacts
  <1>2. /\ l \in Seq(Elems) /\ Len(l) = i - 1
        /\ \A k \in 1 .. i - 1 : l[k] = s[k]
    BY <1>1, SubSeqProperties
  <1>3. /\ r \in Seq(Elems) /\ Len(r) = Len(s) - i
        /\ \A k \in 1 .. Len(s) - i : r[k] = s[i + k]
    BY <1>1, SubSeqProperties
  <1> HIDE DEF l, r
  <1>4. /\ l \o r \in Seq(Elems)
        /\ Len(l \o r) = Len(s) - 1
        /\ \A k \in 1 .. Len(s) - 1 : (l \o r)[k] =
              IF k <= i - 1 THEN l[k] ELSE r[k - (i - 1)]
    <2>1. Len(l) + Len(r) = Len(s) - 1
      BY <1>1, <1>2, <1>3
    <2>2. /\ l \o r \in Seq(Elems) /\ Len(l \o r) = Len(l) + Len(r)
          /\ \A k \in 1 .. Len(l) + Len(r) : (l \o r)[k] =
                IF k <= Len(l) THEN l[k] ELSE r[k - Len(l)]
      BY <1>2, <1>3, ConcatProperties
    <2> QED
      BY <1>2, <2>1, <2>2, Zenon
  <1>5. ASSUME NEW k \in 1 .. Len(s) - 1
        PROVE  (l \o r)[k] = IF k < i THEN s[k] ELSE s[k + 1]
    <2>1. k \in Int
      BY <1>1
    <2>2. CASE k < i
      BY <1>1, <1>2, <1>4, <2>1, <2>2
    <2>3. CASE ~(k < i)
      <3>1. k - (i - 1) \in 1 .. Len(s) - i /\ i + (k - (i - 1)) = k + 1
        BY <1>1, <2>1, <2>3
      <3> QED
        BY <1>1, <1>3, <1>4, <2>1, <2>3, <3>1
    <2> QED
      BY <2>2, <2>3
  <1> QED
    BY <1>4, <1>5 DEF RemoveAt, l, r

-----------------------------------------------------------------------------
(* Lists and their links. *)

\* No element is in two lists or twice in one.
Apart(ls) ==
    \A g, h \in Heads : \A i \in 1 .. Len(ls[g]), j \in 1 .. Len(ls[h]) :
        ls[g][i] = ls[h][j] => g = h /\ i = j

LEMMA ApartAt ==
    ASSUME NEW ls, Apart(ls), NEW g \in Heads, NEW h \in Heads,
           NEW i \in 1 .. Len(ls[g]), NEW j \in 1 .. Len(ls[h]),
           ls[g][i] = ls[h][j]
    PROVE  g = h /\ i = j
  BY DEF Apart

\* The links nx and pv, the heads fs and lt and the sizes sz are those of the
\* sequences ls.
Linked(ls, nx, pv, fs, lt, sz) ==
    /\ ls \in [Heads -> Seq(Elems)] /\ Apart(ls)
    /\ nx \in [Elems -> Ref] /\ pv \in [Elems -> Ref]
    /\ fs = [h \in Heads |-> At(ls[h], 1)]
    /\ lt = [h \in Heads |-> At(ls[h], Len(ls[h]))]
    /\ sz = [h \in Heads |-> Len(ls[h])]
    /\ \A h \in Heads : \A i \in 1 .. Len(ls[h]) :
          /\ nx[ls[h][i]] = At(ls[h], i + 1)
          /\ pv[ls[h][i]] = At(ls[h], i - 1)

\* The sequences are found by following the links.
LEMMA LinkedChains ==
    ASSUME NEW ls, NEW nx, NEW pv, NEW fs, NEW lt, NEW sz,
           Linked(ls, nx, pv, fs, lt, sz), NEW h \in Heads
    PROVE  /\ ls[h] \in Chains /\ Follows(ls[h], nx, fs[h])
           /\ Reverse(ls[h]) \in Chains /\ Follows(Reverse(ls[h]), pv, lt[h])
           /\ Chain(nx, fs[h]) = ls[h]
           /\ Chain(pv, lt[h]) = Reverse(ls[h])
           /\ sz[h] \in 0 .. Cardinality(Elems)
  <1> DEFINE s == ls[h]
             n == Len(s)
             t == [i \in 1 .. n |-> s[(n - i) + 1]]
  <1>1. s \in Seq(Elems) /\ n \in Nat
    BY AtFacts DEF Linked
  <1>2. Distinct(s)
    BY DEF Linked, Apart, Distinct
  <1>3. Follows(s, nx, fs[h])
    BY DEF Linked, Follows
  <1>4. lt[h] = At(s, n) /\ \A i \in 1 .. n : pv[s[i]] = At(s, i - 1)
    BY DEF Linked
  <1>5. sz[h] = n
    BY DEF Linked
  <1> HIDE DEF s
  <1>6. t \in Seq(Elems) /\ Len(t) = n
    <2>1. \A i \in 1 .. n : s[(n - i) + 1] \in Elems
      <3> TAKE i \in 1 .. n
      <3>1. (n - i) + 1 \in 1 .. n
        BY <1>1
      <3> QED
        BY <1>1, <3>1, AtFacts
    <2>2. t \in [1 .. n -> Elems]
      BY <2>1
    <2> HIDE DEF n, t
    <2> QED
      BY <1>1, <2>2
  <1>7. \A i \in Int : At(t, i) = At(s, (n - i) + 1)
    <2> TAKE i \in Int
    <2>1. i \in 1 .. n <=> (n - i) + 1 \in 1 .. n
      BY <1>1
    <2> QED
      BY <1>1, <1>6, <2>1 DEF At
  <1>8. Distinct(t)
    <2> SUFFICES ASSUME NEW i \in 1 .. n, NEW j \in 1 .. n, t[i] = t[j]
                 PROVE  i = j
      BY <1>6 DEF Distinct
    <2>1. s[(n - i) + 1] = s[(n - j) + 1]
      OBVIOUS
    <2>2. (n - i) + 1 \in 1 .. n /\ (n - j) + 1 \in 1 .. n
      BY <1>1
    <2>3. (n - i) + 1 = (n - j) + 1
      BY <1>2, <2>1, <2>2 DEF Distinct
    <2> QED
      BY <1>1, <2>3
  <1>9. Follows(t, pv, lt[h])
    <2>1. lt[h] = At(t, 1)
      BY <1>1, <1>4, <1>7
    <2>2. ASSUME NEW i \in 1 .. n PROVE pv[t[i]] = At(t, i + 1)
      <3>1. (n - i) + 1 \in 1 .. n /\ t[i] = s[(n - i) + 1]
        BY <1>1
      <3>2. pv[t[i]] = At(s, ((n - i) + 1) - 1)
        BY <1>4, <3>1
      <3>3. At(t, i + 1) = At(s, (n - (i + 1)) + 1)
        BY <1>7
      <3>4. ((n - i) + 1) - 1 = (n - (i + 1)) + 1
        BY <1>1
      <3> QED
        BY <3>2, <3>3, <3>4
    <2> QED
      BY <1>6, <2>1, <2>2 DEF Follows
  <1>10. t = Reverse(s)
    BY DEF Reverse
  <1> HIDE DEF t, n
  <1>11. s \in Chains /\ n \in 0 .. Cardinality(Elems) /\ Chain(nx, fs[h]) = s
    BY <1>1, <1>2, <1>3, DistinctShort, ChainIs DEF n
  <1>12. t \in Chains /\ Chain(pv, lt[h]) = t
    BY <1>6, <1>8, <1>9, DistinctShort, ChainIs
  <1> QED
    BY <1>3, <1>5, <1>9, <1>10, <1>11, <1>12 DEF s

\* What an insertion between a and b at position i of list h does to the
\* positions of every list.
LEMMA InsertPositions ==
    ASSUME NEW s \in Seq(Elems), NEW e \in Elems, NEW i \in 1 .. Len(s) + 1
    PROVE  LET t == InsertAt(s, i, e) IN
           /\ \A k \in Int : At(t, k) = IF k < i THEN At(s, k)
                                        ELSE IF k = i THEN e ELSE At(s, k - 1)
           /\ \A k \in 1 .. Len(t) : \/ k < i /\ k \in 1 .. Len(s) /\ t[k] = s[k]
                                     \/ k = i /\ t[k] = e
                                     \/ /\ k > i /\ k - 1 \in 1 .. Len(s)
                                        /\ t[k] = s[k - 1]
  <1> DEFINE t == InsertAt(s, i, e)
  <1>1. /\ Len(s) \in Nat /\ Len(t) = Len(s) + 1
        /\ \A k \in 1 .. Len(s) + 1 :
              t[k] = IF k < i THEN s[k] ELSE IF k = i THEN e ELSE s[k - 1]
    BY AtFacts, InsertAtFacts
  <1> HIDE DEF t
  <1>2. ASSUME NEW k \in 1 .. Len(t)
        PROVE  \/ k < i /\ k \in 1 .. Len(s) /\ t[k] = s[k]
               \/ k = i /\ t[k] = e
               \/ k > i /\ k - 1 \in 1 .. Len(s) /\ t[k] = s[k - 1]
    BY <1>1
  <1>3. ASSUME NEW k \in Int
        PROVE  At(t, k) = IF k < i THEN At(s, k)
                          ELSE IF k = i THEN e ELSE At(s, k - 1)
    BY <1>1 DEF At
  <1> QED
    BY <1>2, <1>3 DEF t

LEMMA RemovePositions ==
    ASSUME NEW s \in Seq(Elems), NEW i \in 1 .. Len(s)
    PROVE  LET t == RemoveAt(s, i) IN
           /\ \A k \in Int : k >= 0 =>
                 At(t, k) = IF k < i THEN At(s, k) ELSE At(s, k + 1)
           /\ \A k \in 1 .. Len(t) : \/ k < i /\ k \in 1 .. Len(s) /\ t[k] = s[k]
                                     \/ /\ k >= i /\ k + 1 \in 1 .. Len(s)
                                        /\ t[k] = s[k + 1]
  <1> DEFINE t == RemoveAt(s, i)
  <1>1. /\ Len(s) \in Nat /\ Len(t) = Len(s) - 1
        /\ \A k \in 1 .. Len(s) - 1 : t[k] = IF k < i THEN s[k] ELSE s[k + 1]
    BY AtFacts, RemoveAtFacts
  <1> HIDE DEF t
  <1>2. ASSUME NEW k \in 1 .. Len(t)
        PROVE  \/ k < i /\ k \in 1 .. Len(s) /\ t[k] = s[k]
               \/ k >= i /\ k + 1 \in 1 .. Len(s) /\ t[k] = s[k + 1]
    BY <1>1
  <1>3. ASSUME NEW k \in Int, k >= 0
        PROVE  At(t, k) = IF k < i THEN At(s, k) ELSE At(s, k + 1)
    BY <1>1, <1>3 DEF At
  <1> QED
    BY <1>2, <1>3 DEF t

\* What SetHead leaves at each head.
LEMMA SetHeadFacts ==
    ASSUME NEW f, f = [g \in Heads |-> f[g]], NEW h \in Heads, NEW x, NEW y
    PROVE  SetHead(f, h, x, y) =
              [g \in Heads |-> IF g = h /\ x = Null THEN y ELSE f[g]]
  BY DEF SetHead

\* Linking e in between the elements at positions i - 1 and i of list h is
\* inserting e at position i.
LEMMA InsertLinked ==
    ASSUME NEW ls, NEW nx, NEW pv, NEW fs, NEW lt, NEW sz,
           Linked(ls, nx, pv, fs, lt, sz),
           NEW h \in Heads, NEW e \in Elems, NEW i \in 1 .. Len(ls[h]) + 1,
           \A g \in Heads : \A j \in 1 .. Len(ls[g]) : ls[g][j] # e,
           NEW a, a = At(ls[h], i - 1), NEW b, b = At(ls[h], i)
    PROVE  Linked([ls EXCEPT ![h] = InsertAt(ls[h], i, e)],
                  [Set(nx, a, e) EXCEPT ![e] = b],
                  [Set(pv, b, e) EXCEPT ![e] = a],
                  SetHead(fs, h, a, e), SetHead(lt, h, b, e),
                  [sz EXCEPT ![h] = @ + 1])
  <1> DEFINE s == ls[h]
             t == InsertAt(s, i, e)
             l2 == [ls EXCEPT ![h] = t]
             nx2 == [Set(nx, a, e) EXCEPT ![e] = b]
             pv2 == [Set(pv, b, e) EXCEPT ![e] = a]
  <1>1. /\ ls \in [Heads -> Seq(Elems)] /\ s \in Seq(Elems) /\ Len(s) \in Nat
        /\ i \in Int /\ a \in Ref /\ b \in Ref
        /\ a = At(s, i - 1) /\ b = At(s, i)
    BY AtFacts DEF Linked
  <1>2. t \in Seq(Elems) /\ Len(t) = Len(s) + 1
    BY <1>1, InsertAtFacts
  <1>3. /\ \A k \in Int : At(t, k) = IF k < i THEN At(s, k)
                                     ELSE IF k = i THEN e ELSE At(s, k - 1)
        /\ \A k \in 1 .. Len(t) : \/ k < i /\ k \in 1 .. Len(s) /\ t[k] = s[k]
                                  \/ k = i /\ t[k] = e
                                  \/ /\ k > i /\ k - 1 \in 1 .. Len(s)
                                     /\ t[k] = s[k - 1]
    BY <1>1, InsertPositions
  <1> HIDE DEF t
  <1>4. /\ l2 \in [Heads -> Seq(Elems)]
        /\ l2[h] = t /\ \A g \in Heads : g # h => l2[g] = ls[g]
    BY <1>1, <1>2
  <1>5. /\ nx2 \in [Elems -> Ref] /\ pv2 \in [Elems -> Ref]
        /\ \A d \in Elems : nx2[d] = IF d = e THEN b ELSE IF d = a THEN e
                                     ELSE nx[d]
        /\ \A d \in Elems : pv2[d] = IF d = e THEN a ELSE IF d = b THEN e
                                     ELSE pv[d]
    <2>1. nx \in [Elems -> Ref] /\ pv \in [Elems -> Ref] /\ e \in Ref
      BY DEF Linked, Ref
    <2> DEFINE F == Set(nx, a, e)
               G == Set(pv, b, e)
    <2>2. /\ F \in [Elems -> Ref]
          /\ \A d \in Elems : F[d] = IF d = a THEN e ELSE nx[d]
      BY <1>1, <2>1, ListsAssumption DEF Set, Ref
    <2>3. /\ G \in [Elems -> Ref]
          /\ \A d \in Elems : G[d] = IF d = b THEN e ELSE pv[d]
      BY <1>1, <2>1, ListsAssumption DEF Set, Ref
    <2>4. nx2 = [F EXCEPT ![e] = b] /\ pv2 = [G EXCEPT ![e] = a]
      OBVIOUS
    <2> HIDE DEF F, G, nx2, pv2
    <2> QED
      BY <1>1, <2>2, <2>3, <2>4
  <1> HIDE DEF l2, nx2, pv2
  <1>6. Apart(ls) /\ \A j \in 1 .. Len(s) : s[j] # e
    BY DEF Linked
  <1>7. Apart(l2)
    <2> SUFFICES ASSUME NEW g \in Heads, NEW f \in Heads,
                        NEW j \in 1 .. Len(l2[g]), NEW k \in 1 .. Len(l2[f]),
                        l2[g][j] = l2[f][k]
                 PROVE  g = f /\ j = k
      BY DEF Apart
    <2> DEFINE P(x, m) == IF x = h /\ m > i THEN m - 1 ELSE m
    <2>1. ASSUME NEW x \in Heads, NEW m \in 1 .. Len(l2[x])
          PROVE  IF x = h /\ m = i THEN l2[x][m] = e
                 ELSE P(x, m) \in 1 .. Len(ls[x]) /\ l2[x][m] = ls[x][P(x, m)]
      <3>1. CASE x = h
        <4>1. l2[x] = t /\ m \in 1 .. Len(t) /\ m \in Int
          BY <1>4, <3>1
        <4> QED
          BY <1>1, <1>3, <3>1, <4>1
      <3>2. CASE x # h
        BY <1>4, <3>2
      <3> QED
        BY <3>1, <3>2
    <2>2. j \in Int /\ k \in Int
      OBVIOUS
    <2>3. (g = h /\ j = i) <=> (f = h /\ k = i)
      BY <1>6, <2>1
    <2>4. CASE g = h /\ j = i
      BY <2>3, <2>4
    <2>5. CASE ~(g = h /\ j = i)
      <3>1. g = f /\ P(g, j) = P(f, k)
        <4> DEFINE p == P(g, j)
                   q == P(f, k)
        <4>1. /\ p \in 1 .. Len(ls[g]) /\ l2[g][j] = ls[g][p]
              /\ q \in 1 .. Len(ls[f]) /\ l2[f][k] = ls[f][q]
          BY <2>1, <2>3, <2>5
        <4> HIDE DEF p, q
        <4>2. Apart(ls) /\ ls[g][p] = ls[f][q]
          BY <1>6, <4>1
        <4>3. g = f /\ p = q
          BY <4>1, <4>2, Zenon DEF Apart
        <4> QED
          BY <4>3 DEF p, q
      <3> QED
        BY <1>1, <2>2, <2>3, <2>5, <3>1
    <2> QED
      BY <2>4, <2>5
  <1>8. SetHead(fs, h, a, e) = [g \in Heads |-> At(l2[g], 1)]
    <2>1. fs = [g \in Heads |-> At(ls[g], 1)]
      BY DEF Linked
    <2>2. a = Null <=> i = 1
      BY <1>1, AtFacts
    <2>3. At(t, 1) = IF a = Null THEN e ELSE At(s, 1)
      BY <1>1, <1>3, <2>2
    <2>4. SetHead(fs, h, a, e) =
             [g \in Heads |-> IF g = h /\ a = Null THEN e ELSE fs[g]]
      BY <2>1, SetHeadFacts
    <2> QED
      BY <1>4, <2>1, <2>3, <2>4
  <1>9. SetHead(lt, h, b, e) = [g \in Heads |-> At(l2[g], Len(l2[g]))]
    <2>1. lt = [g \in Heads |-> At(ls[g], Len(ls[g]))]
      BY DEF Linked
    <2>2. b = Null <=> i = Len(s) + 1
      BY <1>1, AtFacts
    <2>3. At(t, Len(t)) = IF b = Null THEN e ELSE At(s, Len(s))
      BY <1>1, <1>2, <1>3, <2>2
    <2>4. SetHead(lt, h, b, e) =
             [g \in Heads |-> IF g = h /\ b = Null THEN e ELSE lt[g]]
      BY <2>1, SetHeadFacts
    <2> QED
      BY <1>4, <2>1, <2>3, <2>4
  <1>10. [sz EXCEPT ![h] = @ + 1] = [g \in Heads |-> Len(l2[g])]
    <2>1. sz = [g \in Heads |-> Len(ls[g])]
      BY DEF Linked
    <2> QED
      BY <1>2, <1>4, <2>1
  <1>11. \A g \in Heads : \A k \in 1 .. Len(ls[g]) :
            /\ ls[g][k] \in Elems /\ ls[g][k] # e
            /\ nx[ls[g][k]] = At(ls[g], k + 1)
            /\ pv[ls[g][k]] = At(ls[g], k - 1)
    BY <1>1, AtFacts DEF Linked
  <1>12. /\ a # e /\ b # e
         /\ \A g \in Heads : \A k \in 1 .. Len(ls[g]) :
               /\ ls[g][k] = a <=> g = h /\ k = i - 1
               /\ ls[g][k] = b <=> g = h /\ k = i
    <2>1. CASE i = 1
      <3>1. a = Null
        BY <1>1, <2>1, AtFacts
      <3> QED
        BY <1>1, <1>6, <1>11, <2>1, <3>1, ListsAssumption DEF Apart, At
    <2>2. CASE i # 1
      <3>1. i - 1 \in 1 .. Len(s) /\ a = s[i - 1]
        BY <1>1, <2>2 DEF At
      <3> QED
        BY <1>1, <1>6, <1>11, <2>2, <3>1, ListsAssumption DEF Apart, At
    <2> QED
      BY <2>1, <2>2
  <1>13. ASSUME NEW g \in Heads, NEW k \in 1 .. Len(l2[g])
         PROVE  /\ nx2[l2[g][k]] = At(l2[g], k + 1)
                /\ pv2[l2[g][k]] = At(l2[g], k - 1)
    <2>1. CASE g # h
      <3>1. /\ l2[g] = ls[g] /\ k \in 1 .. Len(ls[g])
            /\ ls[g][k] # e /\ ls[g][k] # a /\ ls[g][k] # b
        BY <1>4, <1>11, <1>12, <2>1, Zenon
      <3> QED
        <4>1. /\ ls[g][k] \in Elems
              /\ nx[ls[g][k]] = At(ls[g], k + 1)
              /\ pv[ls[g][k]] = At(ls[g], k - 1)
          BY <1>11, <3>1
        <4> QED
          BY <1>5, <3>1, <4>1
    <2>2. CASE g = h
      <3>1. k \in Int /\ k \in 1 .. Len(t) /\ l2[g] = t
        BY <1>4, <2>2
      <3>2. CASE k < i /\ k \in 1 .. Len(s) /\ t[k] = s[k]
        <4>1. /\ nx2[t[k]] = IF k = i - 1 THEN e ELSE At(s, k + 1)
              /\ pv2[t[k]] = At(s, k - 1)
          <5>1. /\ s[k] \in Elems /\ s[k] # e /\ s[k] # b
                /\ s[k] = a <=> k = i - 1
                /\ nx[s[k]] = At(s, k + 1) /\ pv[s[k]] = At(s, k - 1)
            BY <1>1, <1>11, <1>12, <3>2
          <5> QED
            BY <1>5, <3>2, <5>1
        <4> QED
          BY <1>1, <1>3, <3>1, <3>2, <4>1
      <3>3. CASE k = i /\ t[k] = e
        BY <1>1, <1>3, <1>5, <3>1, <3>3
      <3>4. CASE k > i /\ k - 1 \in 1 .. Len(s) /\ t[k] = s[k - 1]
        <4>1. /\ nx2[t[k]] = At(s, (k - 1) + 1)
              /\ pv2[t[k]] = IF k - 1 = i THEN e ELSE At(s, (k - 1) - 1)
          <5>1. /\ s[k - 1] \in Elems /\ s[k - 1] # e /\ s[k - 1] # a
                /\ s[k - 1] = b <=> k - 1 = i
                /\ nx[s[k - 1]] = At(s, (k - 1) + 1)
                /\ pv[s[k - 1]] = At(s, (k - 1) - 1)
            <6>1. k - 1 # i - 1
              BY <1>1, <3>1, <3>4
            <6> QED
              BY <1>11, <1>12, <3>4, <6>1
          <5> QED
            BY <1>5, <3>4, <5>1
        <4> QED
          BY <1>1, <1>3, <3>1, <3>4, <4>1
      <3> QED
        BY <1>3, <3>1, <3>2, <3>3, <3>4
    <2> QED
      BY <2>1, <2>2
  <1>14. Linked(l2, nx2, pv2, SetHead(fs, h, a, e), SetHead(lt, h, b, e),
                [sz EXCEPT ![h] = @ + 1])
    BY <1>4, <1>5, <1>7, <1>8, <1>9, <1>10, <1>13, Zenon DEF Linked
  <1> QED
    BY <1>14 DEF l2, nx2, pv2, t

\* Linking the neighbours of the element at position i of list h with each
\* other is removing position i.
LEMMA RemoveLinked ==
    ASSUME NEW ls, NEW nx, NEW pv, NEW fs, NEW lt, NEW sz,
           Linked(ls, nx, pv, fs, lt, sz),
           NEW h \in Heads, NEW i \in 1 .. Len(ls[h]), NEW e, e = ls[h][i],
           NEW a, a = At(ls[h], i - 1), NEW b, b = At(ls[h], i + 1)
    PROVE  Linked([ls EXCEPT ![h] = RemoveAt(ls[h], i)],
                  [Set(nx, a, b) EXCEPT ![e] = Null],
                  [Set(pv, b, a) EXCEPT ![e] = Null],
                  SetHead(fs, h, a, b), SetHead(lt, h, b, a),
                  [sz EXCEPT ![h] = @ - 1])
  <1> DEFINE s == ls[h]
             t == RemoveAt(s, i)
             l2 == [ls EXCEPT ![h] = t]
             nx2 == [Set(nx, a, b) EXCEPT ![e] = Null]
             pv2 == [Set(pv, b, a) EXCEPT ![e] = Null]
  <1>1. /\ ls \in [Heads -> Seq(Elems)] /\ s \in Seq(Elems) /\ Len(s) \in Nat
        /\ i \in Int /\ a \in Ref /\ b \in Ref /\ e \in Elems /\ e = s[i]
        /\ a = At(s, i - 1) /\ b = At(s, i + 1)
    BY AtFacts DEF Linked
  <1>2. t \in Seq(Elems) /\ Len(t) = Len(s) - 1
    BY <1>1, RemoveAtFacts
  <1>3. /\ \A k \in Int : k >= 0 =>
              At(t, k) = IF k < i THEN At(s, k) ELSE At(s, k + 1)
        /\ \A k \in 1 .. Len(t) : \/ k < i /\ k \in 1 .. Len(s) /\ t[k] = s[k]
                                  \/ /\ k >= i /\ k + 1 \in 1 .. Len(s)
                                     /\ t[k] = s[k + 1]
    BY <1>1, RemovePositions
  <1> HIDE DEF t
  <1>4. /\ l2 \in [Heads -> Seq(Elems)]
        /\ l2[h] = t /\ \A g \in Heads : g # h => l2[g] = ls[g]
    BY <1>1, <1>2
  <1>5. /\ nx2 \in [Elems -> Ref] /\ pv2 \in [Elems -> Ref]
        /\ \A d \in Elems : nx2[d] = IF d = e THEN Null ELSE IF d = a THEN b
                                     ELSE nx[d]
        /\ \A d \in Elems : pv2[d] = IF d = e THEN Null ELSE IF d = b THEN a
                                     ELSE pv[d]
    <2>1. nx \in [Elems -> Ref] /\ pv \in [Elems -> Ref] /\ Null \in Ref
      BY DEF Linked, Ref
    <2> DEFINE F == Set(nx, a, b)
               G == Set(pv, b, a)
    <2>2. /\ F \in [Elems -> Ref]
          /\ \A d \in Elems : F[d] = IF d = a THEN b ELSE nx[d]
      BY <1>1, <2>1, ListsAssumption DEF Set, Ref
    <2>3. /\ G \in [Elems -> Ref]
          /\ \A d \in Elems : G[d] = IF d = b THEN a ELSE pv[d]
      BY <1>1, <2>1, ListsAssumption DEF Set, Ref
    <2>4. nx2 = [F EXCEPT ![e] = Null] /\ pv2 = [G EXCEPT ![e] = Null]
      OBVIOUS
    <2> HIDE DEF F, G, nx2, pv2
    <2> QED
      BY <1>1, <2>1, <2>2, <2>3, <2>4
  <1> HIDE DEF l2, nx2, pv2
  <1>6. Apart(ls)
    BY DEF Linked
  <1> DEFINE P(x, m) == IF x = h /\ m >= i THEN m + 1 ELSE m
  <1>7. Apart(l2)
    <2> SUFFICES ASSUME NEW g \in Heads, NEW f \in Heads,
                        NEW j \in 1 .. Len(l2[g]), NEW k \in 1 .. Len(l2[f]),
                        l2[g][j] = l2[f][k]
                 PROVE  g = f /\ j = k
      BY DEF Apart
    <2>1. ASSUME NEW x \in Heads, NEW m \in 1 .. Len(l2[x])
          PROVE  P(x, m) \in 1 .. Len(ls[x]) /\ l2[x][m] = ls[x][P(x, m)]
      <3>1. CASE x = h
        <4>1. l2[x] = t /\ m \in 1 .. Len(t) /\ m \in Int
          BY <1>4, <3>1
        <4>2. CASE m < i
          BY <1>1, <1>3, <3>1, <4>1, <4>2
        <4>3. CASE ~(m < i)
          <5>1. m >= i
            BY <1>1, <4>1, <4>3
          <5>2. m + 1 \in 1 .. Len(s) /\ t[m] = s[m + 1]
            BY <1>3, <4>1, <4>3
          <5> QED
            BY <3>1, <4>1, <5>1, <5>2
        <4> QED
          BY <4>2, <4>3
      <3>2. CASE x # h
        BY <1>4, <3>2
      <3> QED
        BY <3>1, <3>2
    <2> DEFINE p == P(g, j)
               q == P(f, k)
    <2>2. /\ p \in 1 .. Len(ls[g]) /\ l2[g][j] = ls[g][p]
          /\ q \in 1 .. Len(ls[f]) /\ l2[f][k] = ls[f][q]
      BY <2>1
    <2> HIDE DEF p, q
    <2>3. Apart(ls) /\ ls[g][p] = ls[f][q]
      BY <1>6, <2>2
    <2>4. g = f /\ p = q
      BY <2>2, <2>3, ApartAt, SMT
    <2>5. j \in Int /\ k \in Int
      OBVIOUS
    <2> QED
      BY <1>1, <2>4, <2>5 DEF p, q
  <1>8. SetHead(fs, h, a, b) = [g \in Heads |-> At(l2[g], 1)]
    <2>1. fs = [g \in Heads |-> At(ls[g], 1)]
      BY DEF Linked
    <2>2. a = Null <=> i = 1
      BY <1>1, AtFacts
    <2>3. At(t, 1) = IF a = Null THEN b ELSE At(s, 1)
      BY <1>1, <1>3, <2>2
    <2>4. SetHead(fs, h, a, b) =
             [g \in Heads |-> IF g = h /\ a = Null THEN b ELSE fs[g]]
      BY <2>1, SetHeadFacts
    <2> QED
      BY <1>4, <2>1, <2>3, <2>4
  <1>9. SetHead(lt, h, b, a) = [g \in Heads |-> At(l2[g], Len(l2[g]))]
    <2>1. lt = [g \in Heads |-> At(ls[g], Len(ls[g]))]
      BY DEF Linked
    <2>2. b = Null <=> i = Len(s)
      BY <1>1, AtFacts
    <2>3. At(t, Len(t)) = IF b = Null THEN a ELSE At(s, Len(s))
      BY <1>1, <1>2, <1>3, <2>2
    <2>4. SetHead(lt, h, b, a) =
             [g \in Heads |-> IF g = h /\ b = Null THEN a ELSE lt[g]]
      BY <2>1, SetHeadFacts
    <2> QED
      BY <1>4, <2>1, <2>3, <2>4
  <1>10. [sz EXCEPT ![h] = @ - 1] = [g \in Heads |-> Len(l2[g])]
    <2>1. sz = [g \in Heads |-> Len(ls[g])]
      BY DEF Linked
    <2> QED
      BY <1>2, <1>4, <2>1
  <1>11. \A g \in Heads : \A k \in 1 .. Len(ls[g]) :
            /\ ls[g][k] \in Elems
            /\ nx[ls[g][k]] = At(ls[g], k + 1)
            /\ pv[ls[g][k]] = At(ls[g], k - 1)
    BY <1>1, AtFacts DEF Linked
  <1>12. \A g \in Heads : \A k \in 1 .. Len(ls[g]) :
            /\ ls[g][k] = e <=> g = h /\ k = i
            /\ ls[g][k] = a <=> g = h /\ k = i - 1
            /\ ls[g][k] = b <=> g = h /\ k = i + 1
    <2> TAKE g \in Heads
    <2> TAKE k \in 1 .. Len(ls[g])
    <2>1. ls[g][k] = e <=> g = h /\ k = i
      BY <1>1, <1>6 DEF Apart
    <2>2. ls[g][k] = a <=> g = h /\ k = i - 1
      <3>1. CASE i = 1
        BY <1>1, <1>11, <3>1, ListsAssumption DEF At
      <3>2. CASE i # 1
        <4>1. i - 1 \in 1 .. Len(s) /\ a = s[i - 1]
          BY <1>1, <3>2 DEF At
        <4> QED
          BY <1>6, <4>1 DEF Apart
      <3> QED
        BY <3>1, <3>2
    <2>3. ls[g][k] = b <=> g = h /\ k = i + 1
      <3>1. CASE i = Len(s)
        BY <1>1, <1>11, <3>1, ListsAssumption DEF At
      <3>2. CASE i # Len(s)
        <4>1. i + 1 \in 1 .. Len(s) /\ b = s[i + 1]
          BY <1>1, <3>2 DEF At
        <4> QED
          BY <1>6, <4>1 DEF Apart
      <3> QED
        BY <3>1, <3>2
    <2> QED
      BY <2>1, <2>2, <2>3
  <1>13. ASSUME NEW g \in Heads, NEW k \in 1 .. Len(l2[g])
         PROVE  /\ nx2[l2[g][k]] = At(l2[g], k + 1)
                /\ pv2[l2[g][k]] = At(l2[g], k - 1)
    <2>1. CASE g # h
      <3>1. /\ l2[g] = ls[g] /\ k \in 1 .. Len(ls[g])
            /\ ls[g][k] # e /\ ls[g][k] # a /\ ls[g][k] # b
        BY <1>4, <1>12, <2>1, Zenon
      <3>2. /\ ls[g][k] \in Elems
            /\ nx[ls[g][k]] = At(ls[g], k + 1)
            /\ pv[ls[g][k]] = At(ls[g], k - 1)
        BY <1>11, <3>1
      <3> QED
        BY <1>5, <3>1, <3>2
    <2>2. CASE g = h
      <3>1. k \in Int /\ k >= 1 /\ k \in 1 .. Len(t) /\ l2[g] = t
        BY <1>4, <2>2
      <3>2. CASE k < i /\ k \in 1 .. Len(s) /\ t[k] = s[k]
        <4>1. /\ s[k] \in Elems /\ s[k] # e /\ s[k] # b
              /\ s[k] = a <=> k = i - 1
              /\ nx[s[k]] = At(s, k + 1) /\ pv[s[k]] = At(s, k - 1)
          BY <1>1, <1>11, <1>12, <3>2
        <4>2. /\ nx2[t[k]] = IF k = i - 1 THEN b ELSE At(s, k + 1)
              /\ pv2[t[k]] = At(s, k - 1)
          BY <1>5, <3>2, <4>1
        <4>3. At(t, k + 1) = IF k + 1 < i THEN At(s, k + 1)
                             ELSE At(s, (k + 1) + 1)
          <5>1. k + 1 \in Int /\ k + 1 >= 0
            BY <3>1
          <5> QED
            BY <1>3, <5>1
        <4>4. At(t, k - 1) = At(s, k - 1)
          BY <1>1, <1>3, <3>1, <3>2
        <4>5. k + 1 < i \/ (k = i - 1 /\ (k + 1) + 1 = i + 1)
          BY <1>1, <3>1, <3>2
        <4> QED
          BY <1>1, <3>1, <4>2, <4>3, <4>4, <4>5
      <3>3. CASE k >= i /\ k + 1 \in 1 .. Len(s) /\ t[k] = s[k + 1]
        <4>1. /\ s[k + 1] \in Elems /\ s[k + 1] # e /\ s[k + 1] # a
              /\ s[k + 1] = b <=> k + 1 = i + 1
              /\ nx[s[k + 1]] = At(s, (k + 1) + 1)
              /\ pv[s[k + 1]] = At(s, (k + 1) - 1)
          <5>1. k + 1 # i /\ k + 1 # i - 1
            BY <1>1, <3>1, <3>3
          <5> QED
            BY <1>11, <1>12, <3>3, <5>1
        <4>2. /\ nx2[t[k]] = At(s, (k + 1) + 1)
              /\ pv2[t[k]] = IF k = i THEN a ELSE At(s, (k + 1) - 1)
          <5>1. k + 1 = i + 1 <=> k = i
            BY <1>1, <3>1
          <5> QED
            BY <1>5, <3>3, <4>1, <5>1
        <4>3. At(t, k + 1) = At(s, (k + 1) + 1)
          BY <1>1, <1>3, <3>1, <3>3
        <4>4. At(t, k - 1) = IF k - 1 < i THEN At(s, k - 1)
                             ELSE At(s, (k - 1) + 1)
          BY <1>3, <3>1
        <4>5. (k = i /\ k - 1 < i /\ k - 1 = i - 1)
              \/ (k # i /\ ~(k - 1 < i) /\ (k - 1) + 1 = (k + 1) - 1)
          BY <1>1, <3>1, <3>3
        <4> QED
          BY <1>1, <3>1, <4>2, <4>3, <4>4, <4>5
      <3> QED
        BY <1>3, <3>1, <3>2, <3>3
    <2> QED
      BY <2>1, <2>2
  <1>14. Linked(l2, nx2, pv2, SetHead(fs, h, a, b), SetHead(lt, h, b, a),
                [sz EXCEPT ![h] = @ - 1])
    BY <1>4, <1>5, <1>7, <1>8, <1>9, <1>10, <1>13, Zenon DEF Linked
  <1> QED
    BY <1>14 DEF l2, nx2, pv2, t

\* Clearing the head of list h empties it and leaves its elements unlisted.
LEMMA InitLinked ==
    ASSUME NEW ls, NEW nx, NEW pv, NEW fs, NEW lt, NEW sz,
           Linked(ls, nx, pv, fs, lt, sz), NEW h \in Heads
    PROVE  Linked([ls EXCEPT ![h] = << >>], nx, pv, [fs EXCEPT ![h] = Null],
                  [lt EXCEPT ![h] = Null], [sz EXCEPT ![h] = 0])
  <1> DEFINE l2 == [ls EXCEPT ![h] = << >>]
  <1>1. /\ ls \in [Heads -> Seq(Elems)] /\ Apart(ls)
        /\ nx \in [Elems -> Ref] /\ pv \in [Elems -> Ref]
    BY DEF Linked
  <1>2. << >> \in Seq(Elems) /\ Len(<< >>) = 0 /\ \A k : At(<< >>, k) = Null
    BY DEF At
  <1>3. /\ l2 \in [Heads -> Seq(Elems)] /\ l2[h] = << >>
        /\ \A g \in Heads : g # h => l2[g] = ls[g]
    BY <1>1, <1>2
  <1> HIDE DEF l2
  <1>4. \A g \in Heads : \A k \in 1 .. Len(l2[g]) : g # h
    BY <1>2, <1>3
  <1>5. Apart(l2)
    BY <1>1, <1>3, <1>4 DEF Apart
  <1>6. [fs EXCEPT ![h] = Null] = [g \in Heads |-> At(l2[g], 1)]
    <2>1. fs = [g \in Heads |-> At(ls[g], 1)]
      BY DEF Linked
    <2>2. \A g \in Heads : At(l2[g], 1) = IF g = h THEN Null ELSE At(ls[g], 1)
      BY <1>2, <1>3
    <2> QED
      BY <2>1, <2>2
  <1>7. [lt EXCEPT ![h] = Null] = [g \in Heads |-> At(l2[g], Len(l2[g]))]
    <2>1. lt = [g \in Heads |-> At(ls[g], Len(ls[g]))]
      BY DEF Linked
    <2>2. \A g \in Heads : At(l2[g], Len(l2[g])) = IF g = h THEN Null ELSE At(ls[g], Len(ls[g]))
      BY <1>2, <1>3
    <2> QED
      BY <2>1, <2>2
  <1>8. [sz EXCEPT ![h] = 0] = [g \in Heads |-> Len(l2[g])]
    <2>1. sz = [g \in Heads |-> Len(ls[g])]
      BY DEF Linked
    <2>2. \A g \in Heads : Len(l2[g]) = IF g = h THEN 0 ELSE Len(ls[g])
      BY <1>2, <1>3
    <2> QED
      BY <2>1, <2>2
  <1>9. ASSUME NEW g \in Heads, NEW k \in 1 .. Len(l2[g])
        PROVE  /\ nx[l2[g][k]] = At(l2[g], k + 1)
               /\ pv[l2[g][k]] = At(l2[g], k - 1)
    BY <1>3, <1>4 DEF Linked
  <1>10. Linked(l2, nx, pv, [fs EXCEPT ![h] = Null], [lt EXCEPT ![h] = Null],
                [sz EXCEPT ![h] = 0])
    BY <1>1, <1>3, <1>5, <1>6, <1>7, <1>8, <1>9, Zenon DEF Linked
  <1> QED
    BY <1>10 DEF l2

\* The rest of a list from position k on.
Rest(s, k) == SubSeq(s, k, Len(s))

LEMMA RestFacts ==
    ASSUME NEW s \in Seq(Elems), NEW k \in 1 .. Len(s) + 1
    PROVE  /\ Rest(s, k) \in Seq(Elems) /\ Len(Rest(s, k)) = Len(s) - k + 1
           /\ \A j \in 1 .. Len(s) - k + 1 : /\ Rest(s, k)[j] = s[k + j - 1]
                                             /\ k + j - 1 \in 1 .. Len(s)
           /\ \A j \in Int : j >= 1 => At(Rest(s, k), j) = At(s, k + j - 1)
  <1>1. Len(s) \in Nat /\ k \in Int /\ \A j \in 1 .. Len(s) : s[j] \in Elems
    BY AtFacts
  <1>2. /\ Rest(s, k) \in Seq(Elems) /\ Len(Rest(s, k)) = Len(s) - k + 1
        /\ \A j \in 1 .. Len(s) - k + 1 : Rest(s, k)[j] = s[k + j - 1]
    BY <1>1, SubSeqProperties DEF Rest
  <1>3. \A j \in 1 .. Len(s) - k + 1 : k + j - 1 \in 1 .. Len(s)
    BY <1>1
  <1>4. ASSUME NEW j \in Int, j >= 1
        PROVE  At(Rest(s, k), j) = At(s, k + j - 1)
    <2>1. k + j - 1 \in 1 .. Len(s) <=> j \in 1 .. Len(s) - k + 1
      BY <1>1, <1>4
    <2> QED
      BY <1>2, <2>1 DEF At
  <1> QED
    BY <1>2, <1>3, <1>4

\* From the element at position k on, the links lead through the rest.
LEMMA RestChain ==
    ASSUME NEW ls, NEW nx, NEW pv, NEW fs, NEW lt, NEW sz,
           Linked(ls, nx, pv, fs, lt, sz), NEW h \in Heads,
           NEW k \in 1 .. Len(ls[h]) + 1
    PROVE  Chain(nx, At(ls[h], k)) = Rest(ls[h], k)
  <1> DEFINE s == ls[h]
             r == Rest(s, k)
  <1>1. s \in Seq(Elems) /\ Len(s) \in Nat /\ k \in Int
    BY AtFacts DEF Linked
  <1>2. \A i, j \in 1 .. Len(s) : s[i] = s[j] => i = j
    BY DEF Linked, Apart
  <1>3. \A i \in 1 .. Len(s) : nx[s[i]] = At(s, i + 1)
    BY DEF Linked
  <1> HIDE DEF s
  <1>4. /\ r \in Seq(Elems) /\ Len(r) = Len(s) - k + 1
        /\ \A j \in 1 .. Len(s) - k + 1 : /\ r[j] = s[k + j - 1]
                                          /\ k + j - 1 \in 1 .. Len(s)
        /\ \A j \in Int : j >= 1 => At(r, j) = At(s, k + j - 1)
    BY <1>1, RestFacts DEF s
  <1> HIDE DEF r
  <1>5. Distinct(r)
    <2> SUFFICES ASSUME NEW i \in 1 .. Len(r), NEW j \in 1 .. Len(r),
                        r[i] = r[j]
                 PROVE  i = j
      BY DEF Distinct
    <2>1. /\ i \in Int /\ k + i - 1 \in 1 .. Len(s) /\ r[i] = s[k + i - 1]
          /\ j \in Int /\ k + j - 1 \in 1 .. Len(s) /\ r[j] = s[k + j - 1]
      BY <1>4
    <2>2. k + i - 1 = k + j - 1
      BY <1>2, <2>1
    <2> QED
      BY <1>1, <2>1, <2>2
  <1>6. Follows(r, nx, At(s, k))
    <2>1. At(s, k) = At(r, 1)
      BY <1>1, <1>4
    <2>2. ASSUME NEW j \in 1 .. Len(r) PROVE nx[r[j]] = At(r, j + 1)
      <3>1. r[j] = s[k + j - 1] /\ k + j - 1 \in 1 .. Len(s) /\ j \in Int
        BY <1>4
      <3>2. nx[r[j]] = At(s, (k + j - 1) + 1)
        BY <1>3, <3>1
      <3>3. j + 1 \in Int /\ j + 1 >= 1 /\ k + (j + 1) - 1 = (k + j - 1) + 1
        BY <1>1, <1>4, <3>1
      <3>4. At(r, j + 1) = At(s, k + (j + 1) - 1)
        BY <1>4, <3>3
      <3> QED
        BY <3>2, <3>3, <3>4
    <2> QED
      BY <2>1, <2>2 DEF Follows
  <1>7. Chain(nx, At(s, k)) = r
    BY <1>4, <1>5, <1>6, ChainIs
  <1> QED
    BY <1>7 DEF s, r

\* A removal in front of the rest does not change the rest.
LEMMA RestRemove ==
    ASSUME NEW s \in Seq(Elems), NEW i \in 1 .. Len(s)
    PROVE  Rest(RemoveAt(s, i), i) = Rest(s, i + 1)
  <1> DEFINE t == RemoveAt(s, i)
             p == Rest(t, i)
             q == Rest(s, i + 1)
  <1>1. Len(s) \in Nat /\ i \in Int /\ i + 1 \in 1 .. Len(s) + 1
    BY AtFacts
  <1>2. /\ t \in Seq(Elems) /\ Len(t) = Len(s) - 1
        /\ \A k \in 1 .. Len(s) - 1 : t[k] = IF k < i THEN s[k] ELSE s[k + 1]
    BY RemoveAtFacts
  <1> HIDE DEF t
  <1>3. i \in 1 .. Len(t) + 1
    BY <1>1, <1>2
  <1>4. /\ p \in Seq(Elems) /\ Len(p) = Len(t) - i + 1
        /\ \A j \in 1 .. Len(t) - i + 1 : /\ p[j] = t[i + j - 1]
                                          /\ i + j - 1 \in 1 .. Len(t)
    BY <1>2, <1>3, RestFacts
  <1>5. /\ q \in Seq(Elems) /\ Len(q) = Len(s) - (i + 1) + 1
        /\ \A j \in 1 .. Len(s) - (i + 1) + 1 : q[j] = s[(i + 1) + j - 1]
    BY <1>1, RestFacts
  <1> HIDE DEF p, q
  <1>6. Len(p) = Len(q)
    BY <1>1, <1>2, <1>4, <1>5
  <1>7. ASSUME NEW j \in 1 .. Len(p) PROVE p[j] = q[j]
    <2>1. j \in Int /\ j >= 1 /\ i + j - 1 \in 1 .. Len(t) /\ p[j] = t[i + j - 1]
      BY <1>4
    <2>2. i + j - 1 \in 1 .. Len(s) - 1 /\ ~(i + j - 1 < i)
      BY <1>1, <1>2, <2>1
    <2>3. p[j] = s[(i + j - 1) + 1]
      BY <1>2, <2>1, <2>2
    <2>4. q[j] = s[(i + 1) + j - 1]
      BY <1>5, <1>6
    <2>5. (i + 1) + j - 1 = (i + j - 1) + 1
      BY <1>1, <2>1
    <2> QED
      BY <2>3, <2>4, <2>5
  <1>8. p = q
    BY <1>4, <1>5, <1>6, <1>7, SeqEqual
  <1> QED
    BY <1>8 DEF p, q, t

-----------------------------------------------------------------------------
(* The inductive invariant. *)

Seqs == [h \in Heads |-> Forward(h)]

Todo == IF loop = Null THEN << >> ELSE Chain(le_next, ptr_next[loop])

\* The loop will go on at position k of its list, and its variable, unless the
\* body has taken it out, is the element in front of that.
ReachedAt(k) ==
    /\ k \in 1 .. Len(Seqs[loop]) + 1
    /\ ptr_next[loop] = At(Seqs[loop], k)
    /\ \A j \in 1 .. Len(Seqs[loop]) : Seqs[loop][j] = var => j = k - 1

LoopInv ==
    /\ ptr_next \in [Heads -> Ref]
    /\ loop \in Heads \cup {Null} /\ var \in Ref
    /\ (loop = Null) <=> (var = Null)
    /\ loop # Null => \E k \in Nat : ReachedAt(k)

IInv == Linked(Seqs, le_next, le_prev, lh_first, lh_last, size) /\ LoopInv

\* The lists are the sequences their links make.
LEMMA SeqsAre ==
    ASSUME NEW ls, Linked(ls, le_next, le_prev, lh_first, lh_last, size)
    PROVE  Seqs = ls
  <1>1. \A h \in Heads : Forward(h) = ls[h]
    BY LinkedChains DEF Forward
  <1>2. ls \in [Heads -> Seq(Elems)]
    BY DEF Linked
  <1> QED
    BY <1>1, <1>2 DEF Seqs

LEMMA SeqsWillBe ==
    ASSUME NEW ls, Linked(ls, le_next', le_prev', lh_first', lh_last', size')
    PROVE  Seqs' = ls
  <1>1. \A h \in Heads : Chain(le_next', lh_first'[h]) = ls[h]
    BY LinkedChains
  <1>2. ls \in [Heads -> Seq(Elems)]
    BY DEF Linked
  <1> QED
    BY <1>1, <1>2 DEF Seqs, Forward

\* What follows from the invariant about one list.
LEMMA SeqFacts ==
    ASSUME IInv, NEW h \in Heads
    PROVE  /\ Seqs[h] = Forward(h) /\ Seqs[h] \in Seq(Elems)
           /\ Len(Seqs[h]) \in Nat
           /\ \A e : e \in ToSet(Forward(h)) <=>
                 \E i \in 1 .. Len(Seqs[h]) : Seqs[h][i] = e
  <1>1. Seqs[h] = Forward(h) /\ Seqs[h] \in Seq(Elems)
    BY DEF Seqs, IInv, Linked
  <1>2. Len(Seqs[h]) \in Nat /\ DOMAIN Seqs[h] = 1 .. Len(Seqs[h])
    BY <1>1, LenProperties
  <1> QED
    BY <1>1, <1>2 DEF ToSet

\* What LIST_FOREACH has yet to meet.
LEMMA TodoIs ==
    ASSUME IInv, loop # Null, NEW k, ReachedAt(k)
    PROVE  Todo = Rest(Seqs[loop], k)
  BY RestChain DEF Todo, IInv, LoopInv, ReachedAt

LEMMA TodoWillBe ==
    ASSUME NEW ls, Linked(ls, le_next', le_prev', lh_first', lh_last', size'),
           loop' \in Heads, loop' # Null, NEW k \in 1 .. Len(ls[loop']) + 1,
           ptr_next'[loop'] = At(ls[loop'], k)
    PROVE  Todo' = Rest(ls[loop'], k)
  <1>1. Chain(le_next', At(ls[loop'], k)) = Rest(ls[loop'], k)
    BY RestChain
  <1> QED
    BY <1>1 DEF Todo

\* At first every list is empty.
LEMMA InitInv == Init => IInv /\ Seqs = [h \in Heads |-> << >>] /\ Todo = << >>
  <1> SUFFICES ASSUME Init PROVE IInv /\ Seqs = [h \in Heads |-> << >>]
                                      /\ Todo = << >>
    OBVIOUS
  <1> DEFINE ls == [h \in Heads |-> << >>]
  <1>1. << >> \in Seq(Elems) /\ Len(<< >>) = 0 /\ \A k : At(<< >>, k) = Null
    BY DEF At
  <1>2. Linked(ls, le_next, le_prev, lh_first, lh_last, size)
    BY <1>1 DEF Init, Linked, Apart, Ref
  <1>3. Seqs = ls
    BY <1>2, SeqsAre
  <1>4. LoopInv /\ Todo = << >>
    BY DEF Init, LoopInv, Ref, Todo
  <1> QED
    BY <1>2, <1>3, <1>4 DEF IInv

\* The invariant implies what the run checks.
LEMMA InvWellLinked == ASSUME IInv PROVE WellLinked
  <1>1. \A h \in Heads :
           /\ Forward(h) = Seqs[h] /\ Backward(h) = Reverse(Seqs[h])
           /\ Forward(h) \in Chains /\ Follows(Forward(h), le_next, lh_first[h])
           /\ Reverse(Forward(h)) \in Chains
           /\ Follows(Reverse(Forward(h)), le_prev, lh_last[h])
           /\ size[h] = Len(Forward(h)) /\ size[h] \in 0 .. Cardinality(Elems)
    <2> TAKE h \in Heads
    <2>1. Linked(Seqs, le_next, le_prev, lh_first, lh_last, size)
      BY DEF IInv
    <2>2. Seqs[h] = Forward(h) /\ size[h] = Len(Seqs[h])
      BY <2>1, SeqFacts DEF Linked
    <2> QED
      BY <2>1, <2>2, LinkedChains DEF Backward
  <1>2. Ends
    BY <1>1 DEF Ends
  <1>3. BackLinks /\ SizeMaintained
    BY <1>1 DEF BackLinks, SizeMaintained
  <1>4. /\ lh_first \in [Heads -> Ref] /\ lh_last \in [Heads -> Ref]
        /\ size \in [Heads -> 0 .. Cardinality(Elems)]
    <2>1. /\ lh_first = [h \in Heads |-> At(Seqs[h], 1)]
          /\ lh_last = [h \in Heads |-> At(Seqs[h], Len(Seqs[h]))]
          /\ size = [h \in Heads |-> Len(Seqs[h])]
      BY DEF IInv, Linked
    <2>2. \A h \in Heads : /\ At(Seqs[h], 1) \in Ref
                           /\ At(Seqs[h], Len(Seqs[h])) \in Ref
      BY SeqFacts, AtFacts
    <2> QED
      BY <1>1, <2>1, <2>2
  <1>5. TypeOK
    BY <1>4 DEF TypeOK, IInv, LoopInv, Linked
  <1> QED
    BY <1>2, <1>3, <1>5 DEF WellLinked

-----------------------------------------------------------------------------
(* Every macro preserves the invariant and is a step of Lists. *)

\* An insertion while no loop runs, or into another list than the loop's.
LEMMA InsertStep ==
    ASSUME IInv, NEW h \in Heads, NEW e \in Elems, MayInsert(h, e),
           NEW i \in 1 .. Len(Seqs[h]) + 1,
           NEW a, a = At(Seqs[h], i - 1), NEW b, b = At(Seqs[h], i),
           le_next' = [Set(le_next, a, e) EXCEPT ![e] = b],
           le_prev' = [Set(le_prev, b, e) EXCEPT ![e] = a],
           lh_first' = SetHead(lh_first, h, a, e),
           lh_last' = SetHead(lh_last, h, b, e),
           Grow(h), UNCHANGED foreach
    PROVE  IInv' /\ Abstract!Insert(h, e, i)
  <1> DEFINE ls == [Seqs EXCEPT ![h] = InsertAt(Seqs[h], i, e)]
  <1>1. \A g \in Heads : \A j \in 1 .. Len(Seqs[g]) : Seqs[g][j] # e
    BY SeqFacts DEF MayInsert
  <1>2. Linked(ls, le_next', le_prev', lh_first', lh_last', size')
    BY <1>1, InsertLinked DEF IInv, Grow
  <1>3. Seqs' = ls
    BY <1>2, SeqsWillBe
  <1>4. loop' = loop /\ var' = var /\ ptr_next' = ptr_next
    BY DEF foreach
  <1> HIDE DEF ls
  <1>5. LoopInv' /\ Todo' = Todo
    <2>1. CASE loop = Null
      BY <1>4, <2>1 DEF IInv, LoopInv, Todo
    <2>2. CASE loop # Null
      <3>1. loop \in Heads /\ h # loop
        BY <2>2 DEF IInv, LoopInv, MayInsert
      <3>2. ls[loop] = Seqs[loop]
        BY <3>1 DEF Seqs, ls
      <3>3. PICK k \in Nat : ReachedAt(k)
        BY <2>2 DEF IInv, LoopInv
      <3>4. Todo = Rest(Seqs[loop], k)
        BY <2>2, <3>3, TodoIs
      <3>5. Todo' = Rest(ls[loop'], k)
        BY <1>2, <1>4, <2>2, <3>1, <3>2, <3>3, TodoWillBe DEF ReachedAt
      <3>6. ReachedAt(k)'
        BY <1>3, <1>4, <3>2, <3>3 DEF ReachedAt
      <3> QED
        BY <1>4, <3>2, <3>3, <3>4, <3>5, <3>6 DEF IInv, LoopInv
    <2> QED
      BY <2>1, <2>2
  <1>6. IInv'
    BY <1>2, <1>3, <1>5 DEF IInv
  <1>7. Abstract!MayInsert(h, e)
    BY DEF MayInsert, Abstract!MayInsert, Abstract!Unlisted, Abstract!In,
           ToSet, Abstract!ToSet
  <1>8. Seqs' = [Seqs EXCEPT ![h] = InsertAt(Seqs[h], i, e)]
    BY <1>3 DEF ls
  <1>9. Abstract!Insert(h, e, i)
    BY <1>4, <1>5, <1>7, <1>8
       DEF Abstract!Insert, Abstract!loopVars, Seqs, Todo, InsertAt,
           Abstract!InsertAt
  <1> QED
    BY <1>6, <1>9

\* The four macros that insert are insertions in between two neighbours.
LEMMA InsertHead ==
    ASSUME IInv, NEW h \in Heads, NEW e \in Elems, LIST_INSERT_HEAD(h, e)
    PROVE  IInv' /\ Abstract!Insert(h, e, 1)
  <1> DEFINE b == At(Seqs[h], 1)
  <1>1. Seqs[h] \in Seq(Elems) /\ 1 \in 1 .. Len(Seqs[h]) + 1
    BY SeqFacts
  <1>2. Null = At(Seqs[h], 1 - 1) /\ lh_first[h] = b
    BY <1>1, AtFacts DEF IInv, Linked
  <1>3. /\ Set(le_next, Null, e) = le_next
        /\ SetHead(lh_first, h, Null, e) = [lh_first EXCEPT ![h] = e]
    BY DEF Set, SetHead
  <1>4. /\ MayInsert(h, e) /\ Grow(h) /\ UNCHANGED foreach
        /\ le_next' = [Set(le_next, Null, e) EXCEPT ![e] = b]
        /\ le_prev' = [Set(le_prev, b, e) EXCEPT ![e] = Null]
        /\ lh_first' = SetHead(lh_first, h, Null, e)
        /\ lh_last' = SetHead(lh_last, h, b, e)
    BY <1>2, <1>3, Zenon DEF LIST_INSERT_HEAD
  <1> HIDE DEF b
  <1> QED
    BY <1>1, <1>2, <1>4, InsertStep, Zenon DEF b

LEMMA InsertTail ==
    ASSUME IInv, NEW h \in Heads, NEW e \in Elems, LIST_INSERT_TAIL(h, e)
    PROVE  \E i \in 1 .. Len(Seqs[h]) + 1 : IInv' /\ Abstract!Insert(h, e, i)
  <1> DEFINE n == Len(Seqs[h])
             a == At(Seqs[h], n)
  <1>1. /\ Seqs[h] \in Seq(Elems) /\ n + 1 \in 1 .. n + 1 /\ n = (n + 1) - 1
        /\ n + 1 \in Int /\ n < n + 1
    BY SeqFacts
  <1>2. Null = At(Seqs[h], n + 1) /\ lh_last[h] = a
    BY <1>1, AtFacts DEF IInv, Linked
  <1>3. /\ Set(le_prev, Null, e) = le_prev
        /\ SetHead(lh_last, h, Null, e) = [lh_last EXCEPT ![h] = e]
    BY DEF Set, SetHead
  <1>4. /\ MayInsert(h, e) /\ Grow(h) /\ UNCHANGED foreach
        /\ le_next' = [Set(le_next, a, e) EXCEPT ![e] = Null]
        /\ le_prev' = [Set(le_prev, Null, e) EXCEPT ![e] = a]
        /\ lh_first' = SetHead(lh_first, h, a, e)
        /\ lh_last' = SetHead(lh_last, h, Null, e)
    BY <1>2, <1>3, Zenon DEF LIST_INSERT_TAIL
  <1>5. a = At(Seqs[h], (n + 1) - 1)
    BY <1>1
  <1> HIDE DEF a
  <1> QED
    BY <1>1, <1>2, <1>4, <1>5, InsertStep

LEMMA InsertAfter ==
    ASSUME IInv, NEW h \in Heads, NEW e \in Elems, NEW x \in Elems,
           LIST_INSERT_AFTER(h, x, e)
    PROVE  \E i \in 1 .. Len(Seqs[h]) + 1 : IInv' /\ Abstract!Insert(h, e, i)
  <1>1. PICK k \in 1 .. Len(Seqs[h]) : Seqs[h][k] = x
    BY SeqFacts DEF LIST_INSERT_AFTER
  <1> DEFINE b == At(Seqs[h], k + 1)
  <1>2. /\ Seqs[h] \in Seq(Elems) /\ Len(Seqs[h]) \in Nat
        /\ k + 1 \in 1 .. Len(Seqs[h]) + 1 /\ (k + 1) - 1 = k
    BY SeqFacts
  <1>3. x = At(Seqs[h], (k + 1) - 1) /\ le_next[x] = b
    BY <1>1, <1>2, AtFacts DEF IInv, Linked
  <1>4. x # e /\ x # Null /\ le_next \in [Elems -> Ref]
    BY <1>1, SeqFacts, ListsAssumption
       DEF LIST_INSERT_AFTER, MayInsert, IInv, Linked
  <1>5. /\ Set(le_next, x, e) = [le_next EXCEPT ![x] = e]
        /\ SetHead(lh_first, h, x, e) = lh_first
    BY <1>4 DEF Set, SetHead
  <1>6. [le_next EXCEPT ![e] = b, ![x] = e] =
           [[le_next EXCEPT ![x] = e] EXCEPT ![e] = b]
    <2> HIDE DEF b
    <2> QED
      BY <1>4
  <1>7. /\ MayInsert(h, e) /\ Grow(h) /\ UNCHANGED foreach
        /\ le_next' = [Set(le_next, x, e) EXCEPT ![e] = b]
        /\ le_prev' = [Set(le_prev, b, e) EXCEPT ![e] = x]
        /\ lh_first' = SetHead(lh_first, h, x, e)
        /\ lh_last' = SetHead(lh_last, h, b, e)
    <2> HIDE DEF b
    <2>1. le_next' = [le_next EXCEPT ![e] = b, ![x] = e]
      BY <1>3 DEF LIST_INSERT_AFTER
    <2>2. le_next' = [Set(le_next, x, e) EXCEPT ![e] = b]
      BY <1>5, <1>6, <2>1, Zenon
    <2> QED
      BY <1>3, <1>5, <2>2, Zenon DEF LIST_INSERT_AFTER
  <1>8. b = At(Seqs[h], k + 1)
    OBVIOUS
  <1> HIDE DEF b
  <1> QED
    BY <1>2, <1>3, <1>7, <1>8, InsertStep

LEMMA InsertBefore ==
    ASSUME IInv, NEW h \in Heads, NEW e \in Elems, NEW x \in Elems,
           LIST_INSERT_BEFORE(h, x, e)
    PROVE  \E i \in 1 .. Len(Seqs[h]) + 1 : IInv' /\ Abstract!Insert(h, e, i)
  <1>1. PICK k \in 1 .. Len(Seqs[h]) : Seqs[h][k] = x
    BY SeqFacts DEF LIST_INSERT_BEFORE
  <1> DEFINE a == At(Seqs[h], k - 1)
  <1>2. /\ Seqs[h] \in Seq(Elems) /\ Len(Seqs[h]) \in Nat
        /\ k \in 1 .. Len(Seqs[h]) + 1
    BY SeqFacts
  <1>3. x = At(Seqs[h], k) /\ le_prev[x] = a
    BY <1>1, <1>2, AtFacts DEF IInv, Linked
  <1>4. x # e /\ x # Null /\ le_prev \in [Elems -> Ref]
    BY <1>1, SeqFacts, ListsAssumption
       DEF LIST_INSERT_BEFORE, MayInsert, IInv, Linked
  <1>5. /\ Set(le_prev, x, e) = [le_prev EXCEPT ![x] = e]
        /\ SetHead(lh_last, h, x, e) = lh_last
    BY <1>4 DEF Set, SetHead
  <1>6. [le_prev EXCEPT ![e] = a, ![x] = e] =
           [[le_prev EXCEPT ![x] = e] EXCEPT ![e] = a]
    <2> HIDE DEF a
    <2> QED
      BY <1>4
  <1>7. /\ MayInsert(h, e) /\ Grow(h) /\ UNCHANGED foreach
        /\ le_next' = [Set(le_next, a, e) EXCEPT ![e] = x]
        /\ le_prev' = [Set(le_prev, x, e) EXCEPT ![e] = a]
        /\ lh_first' = SetHead(lh_first, h, a, e)
        /\ lh_last' = SetHead(lh_last, h, x, e)
    <2> HIDE DEF a
    <2>1. le_prev' = [le_prev EXCEPT ![e] = a, ![x] = e]
      BY <1>3 DEF LIST_INSERT_BEFORE
    <2>2. le_prev' = [Set(le_prev, x, e) EXCEPT ![e] = a]
      BY <1>5, <1>6, <2>1, Zenon
    <2> QED
      BY <1>3, <1>5, <2>2, Zenon DEF LIST_INSERT_BEFORE
  <1>8. a = At(Seqs[h], k - 1)
    OBVIOUS
  <1> HIDE DEF a
  <1> QED
    BY <1>2, <1>3, <1>7, <1>8, InsertStep

\* A removal: a running loop has the removed element in hand and goes on
\* behind it.
LEMMA RemoveStep ==
    ASSUME IInv, NEW h \in Heads, NEW e \in Elems, LIST_REMOVE(h, e)
    PROVE  IInv' /\ Abstract!Unlink(h, e)
  <1>1. PICK i \in 1 .. Len(Seqs[h]) : Seqs[h][i] = e
    BY SeqFacts DEF LIST_REMOVE
  <1> DEFINE s == Seqs[h]
             t == RemoveAt(s, i)
             a == At(s, i - 1)
             b == At(s, i + 1)
             ls == [Seqs EXCEPT ![h] = t]
  <1>2. s \in Seq(Elems) /\ Len(s) \in Nat /\ i \in Int
    BY SeqFacts
  <1>3. le_next[e] = b /\ le_prev[e] = a
    BY <1>1 DEF IInv, Linked
  <1>4. /\ le_prev' = [Set(le_prev, b, a) EXCEPT ![e] = Null]
        /\ le_next' = [Set(le_next, a, b) EXCEPT ![e] = Null]
        /\ lh_last' = SetHead(lh_last, h, b, a)
        /\ lh_first' = SetHead(lh_first, h, a, b)
        /\ size' = [size EXCEPT ![h] = @ - 1]
        /\ loop' = loop /\ var' = var /\ ptr_next' = ptr_next
    <2> HIDE DEF a, b
    <2> QED
      BY <1>3 DEF LIST_REMOVE, foreach
  <1>5. Linked(ls, le_next', le_prev', lh_first', lh_last', size')
    <2>1. a = At(Seqs[h], i - 1) /\ b = At(Seqs[h], i + 1) /\ e = Seqs[h][i]
      BY <1>1
    <2>2. Linked(Seqs, le_next, le_prev, lh_first, lh_last, size)
      BY DEF IInv
    <2> HIDE DEF a, b
    <2> QED
      BY <1>4, <2>1, <2>2, RemoveLinked
  <1>6. Seqs' = ls
    BY <1>5, SeqsWillBe
  <1>7. t \in Seq(Elems) /\ Len(t) = Len(s) - 1 /\ ls[h] = t
    BY <1>2, RemoveAtFacts DEF Seqs
  <1> HIDE DEF ls
  <1>8. LoopInv' /\ Todo' = Todo
    <2>1. CASE loop = Null
      BY <1>4, <2>1 DEF IInv, LoopInv, Todo
    <2>2. CASE loop # Null
      <3>1. loop = h /\ e = var
        BY <2>2 DEF LIST_REMOVE
      <3>2. PICK k \in Nat : ReachedAt(k)
        BY <2>2 DEF IInv, LoopInv
      <3>3. i = k - 1 /\ k = i + 1
        BY <1>1, <1>2, <3>1, <3>2 DEF ReachedAt
      <3>4. Todo = Rest(s, i + 1)
        BY <2>2, <3>1, <3>2, <3>3, TodoIs
      <3>5. i \in 1 .. Len(t) + 1 /\ i \in Nat
        BY <1>2, <1>7
      <3>6. ptr_next[h] = At(t, i)
        <4>1. At(t, i) = At(s, i + 1)
          BY <1>2, RemovePositions
        <4> QED
          BY <3>1, <3>2, <3>3, <4>1 DEF ReachedAt
      <3>7. Todo' = Rest(t, i)
        BY <1>4, <1>5, <1>7, <2>2, <3>1, <3>5, <3>6, TodoWillBe
      <3>8. Rest(t, i) = Rest(s, i + 1)
        BY <1>2, RestRemove
      <3>9. ASSUME NEW j \in 1 .. Len(t) PROVE t[j] # var
        <4>1. \/ j < i /\ j \in 1 .. Len(s) /\ t[j] = s[j]
              \/ j >= i /\ j + 1 \in 1 .. Len(s) /\ t[j] = s[j + 1]
          BY <1>2, RemovePositions
        <4>2. \A m \in 1 .. Len(s) : s[m] = s[i] => m = i
          BY DEF IInv, Linked, Apart
        <4> QED
          BY <1>1, <1>2, <3>1, <4>1, <4>2
      <3> HIDE DEF t
      <3>10. ReachedAt(i)'
        BY <1>4, <1>6, <1>7, <3>1, <3>5, <3>6, <3>9 DEF ReachedAt
      <3>11. LoopInv'
        BY <1>4, <3>5, <3>10 DEF IInv, LoopInv
      <3> QED
        BY <3>4, <3>7, <3>8, <3>11
    <2> QED
      BY <2>1, <2>2
  <1>9. IInv'
    BY <1>5, <1>6, <1>8 DEF IInv
  <1>10. Abstract!Unlink(h, e)
    <2>1. /\ Seqs' = [Seqs EXCEPT ![h] = RemoveAt(Seqs[h], i)]
          /\ i \in DOMAIN Seqs[h]
      BY <1>2, <1>6 DEF ls
    <2>2. loop = Null \/ (loop = h /\ e = var)
      BY DEF LIST_REMOVE
    <2> QED
      BY <1>1, <1>4, <1>8, <2>1, <2>2
         DEF Abstract!Unlink, Abstract!loopVars, Seqs, Todo, RemoveAt,
             Abstract!RemoveAt
  <1> QED
    BY <1>9, <1>10

LEMMA ClearStep ==
    ASSUME IInv, NEW h \in Heads, LIST_INIT(h)
    PROVE  IInv' /\ Abstract!Clear(h)
  <1> DEFINE ls == [Seqs EXCEPT ![h] = << >>]
  <1>1. Linked(ls, le_next', le_prev', lh_first', lh_last', size')
    BY InitLinked DEF IInv, LIST_INIT, links
  <1>2. Seqs' = ls
    BY <1>1, SeqsWillBe
  <1>3. loop = Null /\ loop' = loop /\ var' = var /\ ptr_next' = ptr_next
    BY DEF LIST_INIT, foreach
  <1>4. LoopInv' /\ Todo' = Todo
    BY <1>3 DEF IInv, LoopInv, Todo
  <1>5. IInv'
    BY <1>1, <1>2, <1>4 DEF IInv
  <1>6. Abstract!Clear(h)
    BY <1>2, <1>3, <1>4 DEF Abstract!Clear, Abstract!loopVars, Seqs, Todo
  <1> QED
    BY <1>5, <1>6

\* The condition of the loop, evaluated when var has come to position k.
LEMMA TestStep ==
    ASSUME IInv, NEW h \in Heads, NEW k \in 1 .. Len(Seqs[h]) + 1,
           Test(h, At(Seqs[h], k))
    PROVE  /\ IInv' /\ Seqs' = Seqs
           /\ IF Rest(Seqs[h], k) = << >>
              THEN loop' = Null /\ var' = Null /\ Todo' = << >>
              ELSE /\ loop' = h /\ var' = Head(Rest(Seqs[h], k))
                   /\ Todo' = Tail(Rest(Seqs[h], k))
  <1> DEFINE s == Seqs[h]
             r == Rest(s, k)
  <1>1. s \in Seq(Elems) /\ Len(s) \in Nat /\ k \in Int /\ h # Null
    BY SeqFacts, ListsAssumption
  <1>2. UNCHANGED <<lh_first, lh_last, size, le_next, le_prev>>
    BY DEF Test, heads, links
  <1>3. Linked(Seqs, le_next', le_prev', lh_first', lh_last', size')
    BY <1>2 DEF IInv
  <1>4. Seqs' = Seqs
    BY <1>3, SeqsWillBe
  <1>5. /\ r \in Seq(Elems) /\ Len(r) = Len(s) - k + 1
        /\ \A j \in 1 .. Len(s) - k + 1 : /\ r[j] = s[k + j - 1]
                                          /\ k + j - 1 \in 1 .. Len(s)
    BY <1>1, RestFacts
  <1>6. ptr_next \in [Heads -> Ref] /\ le_next \in [Elems -> Ref]
    BY DEF IInv, LoopInv, Linked
  <1>7. CASE k = Len(s) + 1
    <2>1. At(s, k) = Null
      BY <1>1, <1>7, AtFacts
    <2>2. /\ var' = Null /\ ptr_next' = [ptr_next EXCEPT ![h] = Null]
          /\ loop' = Null
      BY <1>6, <2>1 DEF Test, LOOP_LIST_NEXT
    <2>3. r = << >>
      BY <1>1, <1>5, <1>7, EmptySeq
    <2>4. LoopInv' /\ Todo' = << >>
      BY <1>6, <2>2 DEF LoopInv, Todo, Ref
    <2> QED
      BY <1>3, <1>4, <2>2, <2>3, <2>4 DEF IInv
  <1>8. CASE k # Len(s) + 1
    <2> DEFINE e == s[k]
               d == At(s, k + 1)
    <2>1. k \in 1 .. Len(s) /\ k + 1 \in 1 .. Len(s) + 1 /\ k + 1 \in Nat
      BY <1>1, <1>8
    <2>2. e \in Elems /\ e # Null /\ At(s, k) = e /\ d \in Ref
      BY <1>1, <2>1, AtFacts, ListsAssumption
    <2>3. le_next[e] = d
      BY <2>1 DEF IInv, Linked
    <2> HIDE DEF e, d
    <2>4. /\ var' = e /\ ptr_next' = [ptr_next EXCEPT ![h] = d] /\ loop' = h
      BY <1>6, <2>2, <2>3 DEF Test, LOOP_LIST_NEXT
    <2>5. ptr_next' \in [Heads -> Ref] /\ ptr_next'[h] = d
      BY <1>6, <2>2, <2>4
    <2>6. Todo' = Rest(s, k + 1)
      BY <1>1, <1>3, <2>1, <2>4, <2>5, TodoWillBe DEF d
    <2>7. ASSUME NEW j \in 1 .. Len(s), s[j] = e PROVE j = (k + 1) - 1
      <3>1. j = k
        BY <2>1, <2>7 DEF IInv, Linked, Apart, e
      <3> QED
        BY <1>1, <3>1
    <2>8. ReachedAt(k + 1)'
      BY <1>4, <2>1, <2>4, <2>5, <2>7 DEF ReachedAt, d
    <2>9. LoopInv'
      BY <1>1, <2>1, <2>2, <2>4, <2>5, <2>8 DEF LoopInv, Ref
    <2>10. r # << >> /\ Head(r) = e
      <3>1. 1 \in 1 .. Len(s) - k + 1 /\ k + 1 - 1 = k
        BY <1>1, <2>1
      <3>2. r[1] = e /\ Len(r) # 0
        BY <1>1, <1>5, <2>1, <3>1 DEF e
      <3>3. r # << >>
        BY <3>2
      <3> QED
        BY <1>5, <3>2, <3>3, HeadTailProperties
    <2>11. Tail(r) = Rest(s, k + 1)
      <3> DEFINE q == Rest(s, k + 1)
      <3>1. /\ Tail(r) \in Seq(Elems) /\ Len(Tail(r)) = Len(r) - 1
            /\ \A j \in 1 .. Len(Tail(r)) : Tail(r)[j] = r[j + 1]
        BY <1>5, <2>10, HeadTailProperties
      <3>2. /\ q \in Seq(Elems) /\ Len(q) = Len(s) - (k + 1) + 1
            /\ \A j \in 1 .. Len(s) - (k + 1) + 1 : q[j] = s[(k + 1) + j - 1]
        BY <1>1, <2>1, RestFacts
      <3> HIDE DEF r, q
      <3>3. Len(Tail(r)) = Len(q)
        BY <1>1, <1>5, <3>1, <3>2
      <3>4. ASSUME NEW j \in 1 .. Len(Tail(r)) PROVE Tail(r)[j] = q[j]
        <4>1. /\ j \in Int /\ j + 1 \in 1 .. Len(s) - k + 1
              /\ k + (j + 1) - 1 = (k + 1) + j - 1
          BY <1>1, <1>5, <3>1
        <4>2. Tail(r)[j] = s[k + (j + 1) - 1]
          BY <1>5, <3>1, <4>1
        <4>3. q[j] = s[(k + 1) + j - 1]
          BY <3>2, <3>3
        <4> QED
          BY <4>1, <4>2, <4>3
      <3>5. Tail(r) = q
        BY <3>1, <3>2, <3>3, <3>4, SeqEqual
      <3> QED
        BY <3>5 DEF q
    <2> QED
      BY <1>3, <1>4, <2>4, <2>6, <2>9, <2>10, <2>11 DEF IInv
  <1> QED
    BY <1>7, <1>8

LEMMA ForeachStep ==
    ASSUME IInv, NEW h \in Heads, Foreach(h)
    PROVE  IInv' /\ Abstract!Foreach(h)
  <1>1. Seqs[h] \in Seq(Elems) /\ 1 \in 1 .. Len(Seqs[h]) + 1
    BY SeqFacts
  <1>2. Rest(Seqs[h], 1) = Seqs[h]
    <2>1. /\ Rest(Seqs[h], 1) \in Seq(Elems)
          /\ Len(Rest(Seqs[h], 1)) = Len(Seqs[h]) - 1 + 1
          /\ \A j \in 1 .. Len(Seqs[h]) - 1 + 1 :
                Rest(Seqs[h], 1)[j] = Seqs[h][1 + j - 1]
      BY <1>1, RestFacts
    <2>2. Len(Seqs[h]) \in Nat
      BY SeqFacts
    <2>3. Len(Rest(Seqs[h], 1)) = Len(Seqs[h])
      BY <2>1, <2>2
    <2>4. \A j \in 1 .. Len(Rest(Seqs[h], 1)) : Rest(Seqs[h], 1)[j] = Seqs[h][j]
      BY <2>1, <2>2
    <2> QED
      BY <1>1, <2>1, <2>3, <2>4, SeqEqual
  <1>3. loop = Null /\ Test(h, At(Seqs[h], 1))
    <2>1. lh_first[h] = At(Seqs[h], 1)
      BY DEF IInv, Linked
    <2> QED
      BY <2>1 DEF Foreach
  <1>4. /\ IInv' /\ Seqs' = Seqs
        /\ IF Seqs[h] = << >>
           THEN loop' = Null /\ var' = Null /\ Todo' = << >>
           ELSE loop' = h /\ var' = Head(Seqs[h]) /\ Todo' = Tail(Seqs[h])
    BY <1>1, <1>2, <1>3, TestStep
  <1> QED
    BY <1>3, <1>4 DEF Abstract!Foreach, Abstract!Visit, Seqs, Todo

LEMMA ForeachNextStep ==
    ASSUME IInv, ForeachNext
    PROVE  IInv' /\ Abstract!ForeachNext
  <1>1. loop # Null /\ loop \in Heads /\ Test(loop, ptr_next[loop])
    BY DEF IInv, LoopInv, ForeachNext
  <1>2. PICK k \in Nat : ReachedAt(k)
    BY <1>1 DEF IInv, LoopInv
  <1>3. Todo = Rest(Seqs[loop], k)
    BY <1>1, <1>2, TodoIs
  <1>4. k \in 1 .. Len(Seqs[loop]) + 1 /\ Test(loop, At(Seqs[loop], k))
    BY <1>1, <1>2 DEF ReachedAt
  <1>5. /\ IInv' /\ Seqs' = Seqs
        /\ IF Todo = << >>
           THEN loop' = Null /\ var' = Null /\ Todo' = << >>
           ELSE loop' = loop /\ var' = Head(Todo) /\ Todo' = Tail(Todo)
    BY <1>1, <1>3, <1>4, TestStep
  <1> QED
    BY <1>1, <1>5 DEF Abstract!ForeachNext, Abstract!Visit, Seqs, Todo

LEMMA LeaveStep ==
    ASSUME IInv, Leave
    PROVE  IInv' /\ Abstract!Leave
  <1>1. /\ loop # Null /\ loop' = Null /\ var' = Null /\ ptr_next' = ptr_next
        /\ UNCHANGED <<lh_first, lh_last, size, le_next, le_prev>>
    BY DEF Leave, heads, links
  <1>2. Linked(Seqs, le_next', le_prev', lh_first', lh_last', size')
    BY <1>1 DEF IInv
  <1>3. Seqs' = Seqs
    BY <1>2, SeqsWillBe
  <1>4. LoopInv' /\ Todo' = << >>
    BY <1>1 DEF IInv, LoopInv, Ref, Todo
  <1> QED
    BY <1>1, <1>2, <1>3, <1>4 DEF IInv, Abstract!Leave, Seqs, Todo

LEMMA StutterStep ==
    ASSUME IInv, UNCHANGED vars
    PROVE  IInv' /\ UNCHANGED Abstract!vars
  <1>1. /\ loop' = loop /\ var' = var /\ ptr_next' = ptr_next
        /\ UNCHANGED <<lh_first, lh_last, size, le_next, le_prev>>
    BY DEF vars, heads, links, foreach
  <1>2. Linked(Seqs, le_next', le_prev', lh_first', lh_last', size')
    BY <1>1 DEF IInv
  <1>3. Seqs' = Seqs
    BY <1>2, SeqsWillBe
  <1>4. LoopInv' /\ Todo' = Todo
    BY <1>1, <1>3 DEF IInv, LoopInv, ReachedAt, Todo
  <1> QED
    BY <1>1, <1>2, <1>3, <1>4 DEF IInv, Abstract!vars, Seqs, Todo

\* One case per macro.
LEMMA NextStep ==
    ASSUME IInv, [Next]_vars
    PROVE  IInv' /\ [Abstract!Next]_(Abstract!vars)
  <1>1. ASSUME NEW h \in Heads, NEW e \in Elems,
               \E i \in 1 .. Len(Seqs[h]) + 1 :
                  IInv' /\ Abstract!Insert(h, e, i)
        PROVE  IInv' /\ Abstract!Next
    BY <1>1, Zenon DEF Abstract!Next, Seqs
  <1>2. ASSUME NEW h \in Heads, LIST_INIT(h)
        PROVE  IInv' /\ Abstract!Next
    BY <1>2, ClearStep, Zenon DEF Abstract!Next
  <1>3. ASSUME NEW h \in Heads, Foreach(h)
        PROVE  IInv' /\ Abstract!Next
    BY <1>3, ForeachStep, Zenon DEF Abstract!Next
  <1>4. ASSUME NEW h \in Heads, NEW e \in Elems, LIST_INSERT_HEAD(h, e)
        PROVE  IInv' /\ Abstract!Next
    <2>1. 1 \in 1 .. Len(Seqs[h]) + 1
      BY SeqFacts
    <2> QED
      BY <1>1, <1>4, <2>1, InsertHead, Zenon
  <1>5. ASSUME NEW h \in Heads, NEW e \in Elems, LIST_INSERT_TAIL(h, e)
        PROVE  IInv' /\ Abstract!Next
    BY <1>1, <1>5, InsertTail, Zenon
  <1>6. ASSUME NEW h \in Heads, NEW e \in Elems, LIST_REMOVE(h, e)
        PROVE  IInv' /\ Abstract!Next
    BY <1>6, RemoveStep, Zenon DEF Abstract!Next
  <1>7. ASSUME NEW h \in Heads, NEW e \in Elems, NEW x \in Elems,
               LIST_INSERT_AFTER(h, x, e)
        PROVE  IInv' /\ Abstract!Next
    BY <1>1, <1>7, InsertAfter, Zenon
  <1>8. ASSUME NEW h \in Heads, NEW e \in Elems, NEW x \in Elems,
               LIST_INSERT_BEFORE(h, x, e)
        PROVE  IInv' /\ Abstract!Next
    BY <1>1, <1>8, InsertBefore, Zenon
  <1>9. ASSUME ForeachNext PROVE IInv' /\ Abstract!Next
    BY <1>9, ForeachNextStep, Zenon DEF Abstract!Next
  <1>10. ASSUME Leave PROVE IInv' /\ Abstract!Next
    BY <1>10, LeaveStep, Zenon DEF Abstract!Next
  <1>11. CASE UNCHANGED vars
    BY <1>11, StutterStep
  <1>12. CASE Next
    <2>1. IInv' /\ Abstract!Next
      BY <1>2, <1>3, <1>4, <1>5, <1>6, <1>7, <1>8, <1>9, <1>10, <1>12, Zenon
         DEF Next
    <2> QED
      BY <2>1
  <1> QED
    BY <1>11, <1>12

-----------------------------------------------------------------------------

LEMMA InvAlways == Spec => []IInv
  <1>1. Init => IInv
    BY InitInv
  <1>2. IInv /\ [Next]_vars => IInv'
    BY NextStep
  <1> QED
    BY <1>1, <1>2, PTL DEF Spec

\* Whatever is inserted, removed, cleared and walked over by LIST_FOREACH, in
\* any number of lists of any elements: following the links ends, the links
\* back are the reverse of the links on, and LIST_SIZE counts the elements.
THEOREM AlwaysWellLinked == Spec => []WellLinked
  <1>1. IInv => WellLinked
    BY InvWellLinked
  <1> QED
    BY <1>1, InvAlways, PTL

\* The macros implement the sequences of Lists, which Sched and VMem take for
\* granted, and LIST_FOREACH meets every element of its list once although the
\* body moves the element in hand to another list.
THEOREM LinksImplementLists == Spec => ImplementsLists
  <1>1. Init => Abstract!Init
    BY InitInv DEF Init, Abstract!Init, Seqs, Todo
  <1>2. IInv /\ [Next]_vars => [Abstract!Next]_(Abstract!vars)
    BY NextStep
  <1> QED
    BY <1>1, <1>2, InvAlways, PTL DEF Spec, ImplementsLists, Abstract!Spec
============================================================================
