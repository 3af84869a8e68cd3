---------------------------- MODULE SchedProofs ----------------------------
(***************************************************************************)
(* Proofs about the environment lists and the scheduler, for any number of *)
(* slots of envs[] and any order of the free list.                         *)
(***************************************************************************)
EXTENDS Sched, SequenceTheorems, TLAPS

-----------------------------------------------------------------------------
(* What the operations on the lists do to their members. *)

\* An empty list has no member.
LEMMA EmptyList == Once(<< >>) /\ \A x : ~In(x, << >>)
  BY DEF Once, In

\* A list without a member is empty.
LEMMA NoMembers ==
    ASSUME NEW S, NEW q \in Seq(S)
    PROVE  /\ q = << >> <=> Len(q) = 0
           /\ q # << >> <=> \E x : In(x, q)
  <1>1. q = << >> <=> Len(q) = 0
    BY EmptySeq
  <1>2. ASSUME q # << >> PROVE \E x : In(x, q)
    <2>1. 1 \in 1 .. Len(q)
      BY <1>2, EmptySeq
    <2>2. In(q[1], q)
      BY <2>1 DEF In
    <2> QED
      BY <2>2
  <1> QED
    BY <1>1, <1>2, EmptyList

\* A member of a list over S is in S.
LEMMA MemberType ==
    ASSUME NEW S, NEW q \in Seq(S), NEW x, In(x, q)
    PROVE  x \in S
  BY ElementOfSeq DEF In

\* LIST_INSERT_HEAD moves everyone one position on.
LEMMA PushFacts ==
    ASSUME NEW S, NEW q \in Seq(S), NEW e \in S
    PROVE  /\ Push(e, q) \in Seq(S)
           /\ Len(q) \in Nat
           /\ Len(Push(e, q)) = Len(q) + 1
           /\ Push(e, q)[1] = e
           /\ \A i \in 1 .. Len(q) : Push(e, q)[i + 1] = q[i]
           /\ \A i \in 1 .. Len(q) + 1 : i # 1 =>
                 i - 1 \in 1 .. Len(q) /\ Push(e, q)[i] = q[i - 1]
  <1>1. /\ <<e>> \in Seq(S) /\ Len(<<e>>) = 1 /\ <<e>>[1] = e
        /\ Len(q) \in Nat
    BY LenProperties
  <1>2. /\ Push(e, q) \in Seq(S)
        /\ Len(Push(e, q)) = 1 + Len(q)
        /\ \A i \in 1 .. 1 + Len(q) :
              Push(e, q)[i] = IF i <= 1 THEN <<e>>[i] ELSE q[i - 1]
    BY <1>1, ConcatProperties DEF Push
  <1> QED
    BY <1>1, <1>2

\* LIST_INSERT_HEAD adds exactly one member.
LEMMA PushMembers ==
    ASSUME NEW S, NEW q \in Seq(S), NEW e \in S
    PROVE  /\ Push(e, q) \in Seq(S)
           /\ \A x : In(x, Push(e, q)) <=> x = e \/ In(x, q)
           /\ Once(q) /\ ~In(e, q) => Once(Push(e, q))
  <1> DEFINE n == Len(q)
             t == Push(e, q)
  <1>1. /\ t \in Seq(S) /\ n \in Nat /\ Len(t) = n + 1 /\ t[1] = e
        /\ \A i \in 1 .. n : t[i + 1] = q[i]
        /\ \A i \in 1 .. n + 1 : i # 1 => i - 1 \in 1 .. n /\ t[i] = q[i - 1]
    <2>1. t \in Seq(S) /\ n \in Nat /\ Len(t) = n + 1 /\ t[1] = e
      BY PushFacts
    <2>2. \A i \in 1 .. n : t[i + 1] = q[i]
      BY PushFacts
    <2>3. \A i \in 1 .. n + 1 : i # 1 => i - 1 \in 1 .. n /\ t[i] = q[i - 1]
      BY PushFacts
    <2> QED
      BY <2>1, <2>2, <2>3
  <1> HIDE DEF n, t
  <1>2. ASSUME NEW x, In(x, t) PROVE x = e \/ In(x, q)
    <2>1. PICK i \in 1 .. n + 1 : t[i] = x
      BY <1>1, <1>2 DEF In
    <2> QED
      BY <1>1, <2>1 DEF In, n
  <1>3. In(e, t)
    BY <1>1 DEF In
  <1>4. ASSUME NEW x, In(x, q) PROVE In(x, t)
    <2>1. PICK i \in 1 .. n : q[i] = x
      BY <1>4 DEF In, n
    <2>2. i + 1 \in 1 .. n + 1 /\ t[i + 1] = x
      BY <1>1, <2>1
    <2> QED
      BY <1>1, <2>2 DEF In
  <1>5. ASSUME Once(q), ~In(e, q) PROVE Once(t)
    <2> SUFFICES ASSUME NEW i \in 1 .. n + 1, NEW j \in 1 .. n + 1, t[i] = t[j]
                 PROVE  i = j
      BY <1>1 DEF Once
    <2>1. \A k \in 1 .. n : q[k] # e
      BY <1>5 DEF In, n
    <2>2. CASE i = 1 \/ j = 1
      BY <1>1, <2>1, <2>2
    <2>3. CASE i # 1 /\ j # 1
      <3>1. /\ i - 1 \in 1 .. n /\ j - 1 \in 1 .. n /\ q[i - 1] = q[j - 1]
        BY <1>1, <2>3
      <3>2. i - 1 = j - 1
        BY <1>5, <3>1 DEF Once, n
      <3> QED
        BY <1>1, <3>2
    <2> QED
      BY <2>2, <2>3
  <1> QED
    BY <1>1, <1>2, <1>3, <1>4, <1>5 DEF t

\* LIST_REMOVE closes the gap.
LEMMA RemoveAtFacts ==
    ASSUME NEW S, NEW q \in Seq(S), NEW i \in 1 .. Len(q)
    PROVE  /\ RemoveAt(q, i) \in Seq(S)
           /\ Len(q) \in Nat \ {0}
           /\ Len(RemoveAt(q, i)) = Len(q) - 1
           /\ \A j \in 1 .. Len(q) - 1 :
                 RemoveAt(q, i)[j] = IF j < i THEN q[j] ELSE q[j + 1]
  <1> DEFINE n == Len(q)
             t == RemoveAt(q, i)
  <1>1. n \in Nat \ {0} /\ i \in 1 .. n
    BY LenProperties
  <1>2. \A j \in 1 .. n - 1 : (IF j < i THEN q[j] ELSE q[j + 1]) \in S
    <2>1. \A k \in 1 .. n : q[k] \in S
      BY ElementOfSeq
    <2> QED
      BY <1>1, <2>1
  <1>3. t = [j \in 1 .. n - 1 |-> IF j < i THEN q[j] ELSE q[j + 1]]
    BY DEF RemoveAt
  <1> HIDE DEF n, t
  <1>4. t \in [1 .. n - 1 -> S] /\ n - 1 \in Nat
    BY <1>1, <1>2, <1>3
  <1>5. t \in Seq(S) /\ Len(t) = n - 1
    <2>1. t \in Seq(S)
      BY <1>4, SeqDef
    <2>2. DOMAIN t = 1 .. n - 1 /\ DOMAIN t = 1 .. Len(t) /\ Len(t) \in Nat
      BY <1>4, <2>1, LenProperties
    <2> QED
      BY <1>4, <2>1, <2>2
  <1> QED
    BY <1>1, <1>3, <1>5 DEF n, t

\* LIST_REMOVE takes out exactly one member of a list without repetitions.
LEMMA RemoveAtMembers ==
    ASSUME NEW S, NEW q \in Seq(S), NEW i \in 1 .. Len(q), Once(q)
    PROVE  /\ RemoveAt(q, i) \in Seq(S)
           /\ In(q[i], q)
           /\ \A x : In(x, RemoveAt(q, i)) <=> In(x, q) /\ x # q[i]
           /\ Once(RemoveAt(q, i))
  <1> DEFINE n == Len(q)
             t == RemoveAt(q, i)
  <1>1. /\ t \in Seq(S) /\ n \in Nat \ {0} /\ Len(t) = n - 1 /\ i \in 1 .. n
        /\ \A j \in 1 .. n - 1 : t[j] = IF j < i THEN q[j] ELSE q[j + 1]
        /\ \A j, k \in 1 .. n : q[j] = q[k] => j = k
    BY RemoveAtFacts DEF Once
  <1> HIDE DEF n, t
  <1>2. In(q[i], q)
    BY <1>1 DEF In, n
  <1>3. ASSUME NEW x, In(x, t) PROVE In(x, q) /\ x # q[i]
    <2>1. PICK j \in 1 .. n - 1 : t[j] = x
      BY <1>1, <1>3 DEF In
    <2>2. PICK k \in 1 .. n : q[k] = x /\ k # i
      <3>1. CASE j < i
        <4>1. j \in 1 .. n /\ j # i /\ q[j] = x
          BY <1>1, <2>1, <3>1
        <4> QED
          BY <4>1
      <3>2. CASE ~(j < i)
        <4>1. j + 1 \in 1 .. n /\ j + 1 # i /\ q[j + 1] = x
          BY <1>1, <2>1, <3>2
        <4> QED
          BY <4>1
      <3> QED
        BY <3>1, <3>2
    <2> QED
      BY <1>1, <2>2 DEF In, n
  <1>4. ASSUME NEW x, In(x, q), x # q[i] PROVE In(x, t)
    <2>1. PICK k \in 1 .. n : q[k] = x /\ k # i
      BY <1>4 DEF In, n
    <2>2. PICK j \in 1 .. n - 1 : t[j] = x
      <3>1. CASE k < i
        <4>1. k \in 1 .. n - 1
          BY <1>1, <2>1, <3>1
        <4> QED
          BY <1>1, <2>1, <3>1, <4>1
      <3>2. CASE k > i
        <4>1. k - 1 \in 1 .. n - 1 /\ ~(k - 1 < i) /\ (k - 1) + 1 = k
          BY <1>1, <2>1, <3>2
        <4> QED
          BY <1>1, <2>1, <4>1
      <3> QED
        BY <1>1, <2>1, <3>1, <3>2
    <2> QED
      BY <1>1, <2>2 DEF In
  <1>5. Once(t)
    BY <1>1 DEF Once
  <1> QED
    BY <1>1, <1>2, <1>3, <1>4, <1>5 DEF t

\* The head of a list is its first member; the tail has all the others.
LEMMA TailMembers ==
    ASSUME NEW S, NEW q \in Seq(S), q # << >>, Once(q)
    PROVE  /\ Head(q) \in S /\ Tail(q) \in Seq(S)
           /\ In(Head(q), q)
           /\ \A x : In(x, Tail(q)) <=> In(x, q) /\ x # Head(q)
           /\ Once(Tail(q))
  <1> DEFINE n == Len(q)
             t == Tail(q)
  <1>1. /\ n \in Nat \ {0} /\ t \in Seq(S) /\ Len(t) = n - 1
        /\ Head(q) = q[1] /\ Head(q) \in S
        /\ \A i \in 1 .. n - 1 : t[i] = q[i + 1]
        /\ \A j, k \in 1 .. n : q[j] = q[k] => j = k
    BY HeadTailProperties, LenProperties, EmptySeq DEF Once
  <1> HIDE DEF n, t
  <1>2. In(Head(q), q)
    BY <1>1 DEF In, n
  <1>3. ASSUME NEW x, In(x, t) PROVE In(x, q) /\ x # Head(q)
    <2>1. PICK j \in 1 .. n - 1 : t[j] = x
      BY <1>1, <1>3 DEF In
    <2>2. j + 1 \in 1 .. n /\ q[j + 1] = x /\ j + 1 # 1 /\ 1 \in 1 .. n
      BY <1>1, <2>1
    <2> QED
      BY <1>1, <2>2 DEF In, n
  <1>4. ASSUME NEW x, In(x, q), x # Head(q) PROVE In(x, t)
    <2>1. PICK k \in 1 .. n : q[k] = x
      BY <1>4 DEF In, n
    <2>2. k - 1 \in 1 .. n - 1 /\ t[k - 1] = x
      BY <1>1, <1>4, <2>1
    <2> QED
      BY <1>1, <2>2 DEF In
  <1>5. Once(t)
    BY <1>1 DEF Once
  <1> QED
    BY <1>1, <1>2, <1>3, <1>4, <1>5 DEF t

\* The loop that empties a list into another one keeps the members of both.
LEMMA MoveAllMembers ==
    ASSUME NEW S, NEW a \in Seq(S), NEW b \in Seq(S), Once(a), Once(b),
           \A x : ~(In(x, a) /\ In(x, b))
    PROVE  /\ MoveAll(a, b) \in Seq(S)
           /\ \A x : In(x, MoveAll(a, b)) <=> In(x, a) \/ In(x, b)
           /\ Once(MoveAll(a, b))
  <1> DEFINE m == Len(a)
             n == Len(b)
             t == MoveAll(a, b)
  <1>1. /\ m \in Nat /\ n \in Nat
        /\ \A i \in 1 .. m : a[i] \in S
        /\ \A i \in 1 .. n : b[i] \in S
    BY LenProperties, ElementOfSeq
  <1>2. t = [i \in 1 .. m + n |-> IF i <= m THEN a[m + 1 - i] ELSE b[i - m]]
    BY DEF MoveAll
  <1>3. /\ \A i, j \in 1 .. m : a[i] = a[j] => i = j
        /\ \A i, j \in 1 .. n : b[i] = b[j] => i = j
        /\ \A i \in 1 .. m : \A j \in 1 .. n : a[i] # b[j]
    BY DEF Once, In
  <1> HIDE DEF m, n, t
  <1>4. \A i \in 1 .. m + n :
           (IF i <= m THEN a[m + 1 - i] ELSE b[i - m]) \in S
    BY <1>1
  <1>5. t \in [1 .. m + n -> S] /\ m + n \in Nat
    BY <1>1, <1>2, <1>4
  <1>6. t \in Seq(S) /\ Len(t) = m + n
    <2>1. t \in Seq(S)
      BY <1>5, SeqDef
    <2>2. DOMAIN t = 1 .. m + n /\ DOMAIN t = 1 .. Len(t) /\ Len(t) \in Nat
      BY <1>5, <2>1, LenProperties
    <2> QED
      BY <1>5, <2>2
  <1>7. ASSUME NEW x, In(x, t) PROVE In(x, a) \/ In(x, b)
    <2>1. PICK i \in 1 .. m + n : t[i] = x
      BY <1>6, <1>7 DEF In
    <2>2. CASE i <= m
      <3>1. m + 1 - i \in 1 .. m /\ a[m + 1 - i] = x
        BY <1>1, <1>2, <2>1, <2>2
      <3> QED
        BY <3>1 DEF In, m
    <2>3. CASE ~(i <= m)
      <3>1. i - m \in 1 .. n /\ b[i - m] = x
        BY <1>1, <1>2, <2>1, <2>3
      <3> QED
        BY <3>1 DEF In, n
    <2> QED
      BY <2>2, <2>3
  <1>8. ASSUME NEW x, In(x, a) \/ In(x, b) PROVE In(x, t)
    <2>1. CASE In(x, a)
      <3>1. PICK i \in 1 .. m : a[i] = x
        BY <2>1 DEF In, m
      <3>2. /\ m + 1 - i \in 1 .. m + n /\ m + 1 - i <= m
            /\ m + 1 - (m + 1 - i) = i
        BY <1>1, <3>1
      <3>3. t[m + 1 - i] = x
        BY <1>2, <3>1, <3>2
      <3> QED
        BY <1>6, <3>2, <3>3 DEF In
    <2>2. CASE In(x, b)
      <3>1. PICK i \in 1 .. n : b[i] = x
        BY <2>2 DEF In, n
      <3>2. i + m \in 1 .. m + n /\ ~(i + m <= m) /\ (i + m) - m = i
        BY <1>1, <3>1
      <3>3. t[i + m] = x
        BY <1>2, <3>1, <3>2
      <3> QED
        BY <1>6, <3>2, <3>3 DEF In
    <2> QED
      BY <1>8, <2>1, <2>2
  <1>9. Once(t)
    <2> SUFFICES ASSUME NEW i \in 1 .. m + n, NEW j \in 1 .. m + n, t[i] = t[j]
                 PROVE  i = j
      BY <1>6 DEF Once
    <2>1. CASE i <= m /\ j <= m
      <3>1. /\ m + 1 - i \in 1 .. m /\ m + 1 - j \in 1 .. m
            /\ a[m + 1 - i] = a[m + 1 - j]
        BY <1>1, <1>2, <2>1
      <3>2. m + 1 - i = m + 1 - j
        BY <1>3, <3>1
      <3> QED
        BY <1>1, <3>2
    <2>2. CASE ~(i <= m) /\ ~(j <= m)
      <3>1. i - m \in 1 .. n /\ j - m \in 1 .. n /\ b[i - m] = b[j - m]
        BY <1>1, <1>2, <2>2
      <3>2. i - m = j - m
        BY <1>3, <3>1
      <3> QED
        BY <1>1, <3>2
    <2>3. CASE i <= m /\ ~(j <= m)
      BY <1>1, <1>2, <1>3, <2>3
    <2>4. CASE ~(i <= m) /\ j <= m
      BY <1>1, <1>2, <1>3, <2>4
    <2> QED
      BY <2>1, <2>2, <2>3, <2>4
  <1> QED
    BY <1>6, <1>7, <1>8, <1>9 DEF t

-----------------------------------------------------------------------------
(* Order. *)

\* List b keeps the order of list a: who is in both is in the same order, and
\* who is only in b is before everyone who is in both.
Keeps(a, b) ==
    \A e, f :
        /\ Before(e, f, a) /\ In(e, b) /\ In(f, b) => Before(e, f, b)
        /\ ~In(e, a) /\ In(e, b) /\ In(f, a) /\ In(f, b) => Before(e, f, b)

\* A list keeps its own order, and every list keeps the order of the empty one.
LEMMA KeepsItself == \A a : Keeps(a, a) /\ Keeps(<< >>, a)
  BY DEF Keeps, In, Before

\* Inserting at the head keeps the order, the newcomer comes first.
LEMMA PushKeeps ==
    ASSUME NEW S, NEW q \in Seq(S), NEW e \in S
    PROVE  Keeps(q, Push(e, q))
  <1> DEFINE n == Len(q)
             t == Push(e, q)
  <1>1. /\ n \in Nat /\ Len(t) = n + 1 /\ t[1] = e
    BY PushFacts
  <1>2. \A i \in 1 .. n : t[i + 1] = q[i]
    BY PushFacts
  <1>3. \A x : In(x, t) => x = e \/ In(x, q)
    BY PushMembers
  <1> HIDE DEF n, t
  <1>4. ASSUME NEW c, NEW d, Before(c, d, q) PROVE Before(c, d, t)
    <2>1. PICK i \in 1 .. n, j \in 1 .. n : i < j /\ q[i] = c /\ q[j] = d
      BY <1>4 DEF Before, n
    <2>2. /\ i + 1 \in 1 .. n + 1 /\ j + 1 \in 1 .. n + 1
          /\ i + 1 < j + 1 /\ t[i + 1] = c /\ t[j + 1] = d
      BY <1>1, <1>2, <2>1
    <2> QED
      BY <1>1, <2>2 DEF Before
  <1>5. ASSUME NEW d, In(d, q) PROVE Before(e, d, t)
    <2>1. PICK j \in 1 .. n : q[j] = d
      BY <1>5 DEF In, n
    <2>2. /\ 1 \in 1 .. n + 1 /\ j + 1 \in 1 .. n + 1
          /\ 1 < j + 1 /\ t[1] = e /\ t[j + 1] = d
      BY <1>1, <1>2, <2>1
    <2> QED
      BY <1>1, <2>2 DEF Before
  <1> QED
    BY <1>3, <1>4, <1>5 DEF Keeps, t

\* Removing an element keeps the order of the others.
LEMMA RemoveAtKeeps ==
    ASSUME NEW S, NEW q \in Seq(S), NEW i \in 1 .. Len(q), Once(q),
           NEW a, Keeps(a, q)
    PROVE  Keeps(a, RemoveAt(q, i))
  <1> DEFINE n == Len(q)
             t == RemoveAt(q, i)
  <1>1. /\ n \in Nat \ {0} /\ Len(t) = n - 1 /\ i \in 1 .. n
        /\ \A j \in 1 .. n - 1 : t[j] = IF j < i THEN q[j] ELSE q[j + 1]
    BY RemoveAtFacts
  <1>2. \A x : In(x, t) => In(x, q) /\ x # q[i]
    BY RemoveAtMembers
  <1> HIDE DEF n, t
  <1>3. ASSUME NEW c, NEW d, Before(c, d, q), In(c, t), In(d, t)
        PROVE  Before(c, d, t)
    <2>1. PICK j \in 1 .. n, k \in 1 .. n : j < k /\ q[j] = c /\ q[k] = d
      BY <1>3 DEF Before, n
    <2>2. j # i /\ k # i
      BY <1>2, <1>3, <2>1
    <2> DEFINE at(l) == IF l < i THEN l ELSE l - 1
    <2>3. ASSUME NEW l \in 1 .. n, l # i
          PROVE  at(l) \in 1 .. n - 1 /\ t[at(l)] = q[l]
      <3>1. CASE l < i
        <4>1. l \in 1 .. n - 1
          BY <1>1, <3>1
        <4> QED
          BY <1>1, <3>1, <4>1
      <3>2. CASE ~(l < i)
        <4>1. l - 1 \in 1 .. n - 1 /\ ~(l - 1 < i) /\ (l - 1) + 1 = l
          BY <1>1, <2>3, <3>2
        <4> QED
          BY <1>1, <3>2, <4>1
      <3> QED
        BY <3>1, <3>2
    <2>4. at(j) < at(k)
      BY <1>1, <2>1, <2>2
    <2>5. /\ at(j) \in 1 .. n - 1 /\ at(k) \in 1 .. n - 1
          /\ t[at(j)] = c /\ t[at(k)] = d
      BY <2>1, <2>2, <2>3
    <2> HIDE DEF at
    <2> QED
      BY <1>1, <2>4, <2>5 DEF Before
  <1> QED
    BY <1>2, <1>3 DEF Keeps, t

\* The last element of a list is before nobody.
LEMMA LastBeforeNone ==
    ASSUME NEW S, NEW q \in Seq(S), q # << >>, Once(q), NEW f
    PROVE  ~Before(q[Len(q)], f, q)
  <1>1. Len(q) \in Nat \ {0}
    BY EmptySeq
  <1> QED
    BY <1>1 DEF Before, Once

USE NoEnvAssumption

-----------------------------------------------------------------------------
(* An operation changes the lists in stages (an environment is taken out   *)
(* of one list, then the scheduler or a panic runs on what is left).  The  *)
(* invariant is stated for the values between the stages: free list f,     *)
(* queues n, r and x, running environment c, statuses st.                  *)

Apart(f, n, r, x, c, st) ==
    \A e \in Envs :
        /\ In(e, f) => st[e] \in {"FREE", "UNKNOWN"} /\ ~In(e, n)
                       /\ ~In(e, r) /\ ~In(e, x) /\ c # e
        /\ In(e, n) => st[e] = "NEW" /\ ~In(e, r) /\ ~In(e, x) /\ c # e
        /\ In(e, r) => st[e] \in {"READY", "RUNNABLE"} /\ ~In(e, x) /\ c # e
        /\ In(e, x) => st[e] = "EXIT" /\ c # e
        /\ c = e => st[e] = "RUNNABLE"

Sound(f, n, r, x, c, st) ==
    /\ f \in Seq(Envs) /\ n \in Seq(Envs) /\ r \in Seq(Envs) /\ x \in Seq(Envs)
    /\ c \in Envs \cup {NoEnv}
    /\ st \in [Envs -> Statuses]
    /\ Once(f) /\ Once(n) /\ Once(r) /\ Once(x)
    /\ Apart(f, n, r, x, c, st)

\* What a command or a system call does not look at.
Flags == intr \in [Envs -> BOOLEAN] /\ down \in BOOLEAN

\* The invariant is soundness of the current values, and the prompt rule.
LEMMA SoundNow ==
    /\ QueuesSound <=>
          /\ Sound(free, newQ, ready, exitQ, curenv, status)
          /\ PromptOnlyWhenIdle /\ Flags
          /\ schedStatus \in {"STOPPED", "STARTED"}
    /\ QueuesSound' <=>
          /\ Sound(free', newQ', ready', exitQ', curenv', status')
          /\ PromptOnlyWhenIdle' /\ Flags'
          /\ schedStatus' \in {"STOPPED", "STARTED"}
  BY Zenon DEF QueuesSound, TypeOK, OnePlace, Sound, Apart, Flags

\* env_init leaves every slot in the free list once.
LEMMA InitSound == Init => QueuesSound
  <1> SUFFICES ASSUME Init PROVE QueuesSound
    OBVIOUS
  <1>1. Once(InitFree) /\ InitFree \in Seq(Envs) /\ << >> \in Seq(Envs)
    BY InitFreeAssumption, EmptySeq DEF Once
  <1> QED
    BY <1>1, EmptyList
       DEF Init, QueuesSound, TypeOK, OnePlace, PromptOnlyWhenIdle, Statuses

-----------------------------------------------------------------------------
(* The scheduler. *)

\* The queue from which fos_scheduler dispatches: the current environment is
\* at its head.
WaitingQueue(r, cur) == IF cur = NoEnv THEN r ELSE Push(cur, r)

\* fos_scheduler dispatches the last environment of the queue, and everyone
\* else, the current one included, is in the queue afterwards.
LEMMA Dispatch ==
    ASSUME NEW r \in Seq(Envs), Once(r),
           NEW cur \in Envs \cup {NoEnv}, ~In(cur, r),
           NEW st \in [Envs -> Statuses],
           fos_scheduler(r, cur, st)
    PROVE  /\ ready' \in Seq(Envs) /\ Once(ready')
           /\ curenv' \in Envs \cup {NoEnv}
           /\ status' \in [Envs -> Statuses]
           /\ \A e \in Envs : In(e, ready') \/ curenv' = e <=> In(e, r) \/ cur = e
           /\ ~In(curenv', ready')
           /\ \A e \in Envs :
                 status'[e] = IF curenv' = e THEN "RUNNABLE" ELSE st[e]
           /\ schedStatus' \in {"STOPPED", "STARTED"}
           /\ PromptOnlyWhenIdle'
  <1> DEFINE q == WaitingQueue(r, cur)
             n == Len(q)
  <1>1. /\ q \in Seq(Envs) /\ Once(q)
        /\ \A e \in Envs : In(e, q) <=> In(e, r) \/ cur = e
    BY PushMembers DEF WaitingQueue
  <1>2. n \in Nat /\ (n = 0 <=> q = << >>)
    BY <1>1, LenProperties, NoMembers
  <1>3. \/ /\ n = 0 /\ curenv' = NoEnv /\ ready' = q /\ status' = st
           /\ schedStatus' = "STOPPED"
        \/ /\ n > 0 /\ curenv' = q[n] /\ ready' = RemoveAt(q, n)
           /\ status' = [st EXCEPT ![q[n]] = "RUNNABLE"]
           /\ schedStatus' = "STARTED"
    BY DEF fos_scheduler, env_run, WaitingQueue
  <1> HIDE DEF q
  <1>4. CASE n = 0
    <2>1. q = << >> /\ \A e : ~In(e, q)
      BY <1>2, <1>4, EmptyList
    <2> HIDE DEF n
    <2> QED
      BY <1>1, <1>3, <1>4, <2>1 DEF PromptOnlyWhenIdle
  <1>5. CASE n > 0
    <2>1. n \in 1 .. Len(q)
      BY <1>2, <1>5
    <2>2. /\ RemoveAt(q, n) \in Seq(Envs) /\ Once(RemoveAt(q, n))
          /\ \A e : In(e, RemoveAt(q, n)) <=> In(e, q) /\ e # q[n]
          /\ In(q[n], q) /\ q[n] \in Envs
      BY <1>1, <2>1, RemoveAtMembers, ElementOfSeq
    <2> HIDE DEF n
    <2>3. /\ curenv' = q[n] /\ ready' = RemoveAt(q, n)
          /\ status' = [st EXCEPT ![q[n]] = "RUNNABLE"]
          /\ schedStatus' = "STARTED"
      BY <1>2, <1>3, <1>5
    <2>4. status' \in [Envs -> Statuses]
          /\ \A e \in Envs : status'[e] = IF curenv' = e THEN "RUNNABLE" ELSE st[e]
      BY <2>2, <2>3 DEF Statuses
    <2>5. curenv' \in Envs /\ curenv' # NoEnv
      BY <2>2, <2>3
    <2> QED
      BY <1>1, <2>2, <2>3, <2>4, <2>5 DEF PromptOnlyWhenIdle
  <1> QED
    BY <1>2, <1>4, <1>5

\* The scheduler keeps sound lists sound.
LEMMA DispatchSound ==
    ASSUME NEW f, NEW n, NEW r, NEW x, NEW cur, NEW st,
           Sound(f, n, r, x, cur, st), fos_scheduler(r, cur, st)
    PROVE  /\ Sound(f, n, ready', x, curenv', status')
           /\ PromptOnlyWhenIdle'
           /\ schedStatus' \in {"STOPPED", "STARTED"}
  <1>1. ~In(cur, r)
    BY MemberType DEF Sound, Apart
  <1>2. /\ ready' \in Seq(Envs) /\ Once(ready')
        /\ curenv' \in Envs \cup {NoEnv}
        /\ status' \in [Envs -> Statuses]
        /\ \A e \in Envs : In(e, ready') \/ curenv' = e <=> In(e, r) \/ cur = e
        /\ ~In(curenv', ready')
        /\ \A e \in Envs : status'[e] = IF curenv' = e THEN "RUNNABLE" ELSE st[e]
        /\ schedStatus' \in {"STOPPED", "STARTED"}
        /\ PromptOnlyWhenIdle'
    BY <1>1, Dispatch DEF Sound
  <1>3. Apart(f, n, ready', x, curenv', status')
    BY <1>2 DEF Sound, Apart
  <1> QED
    BY <1>2, <1>3 DEF Sound

\* sched_run_env and sched_run_all may find the scheduler started.
LEMMA InvokeSound ==
    ASSUME NEW f, NEW n, NEW r, NEW x, NEW st,
           Sound(f, n, r, x, curenv, st), PromptOnlyWhenIdle,
           schedStatus \in {"STOPPED", "STARTED"}, InvokeIfStopped(r, st)
    PROVE  /\ Sound(f, n, ready', x, curenv', status')
           /\ PromptOnlyWhenIdle'
           /\ schedStatus' \in {"STOPPED", "STARTED"}
  <1>1. CASE fos_scheduler(r, curenv, st)
    BY <1>1, DispatchSound
  <1>2. CASE /\ schedStatus = "STARTED"
             /\ ready' = r /\ status' = st
             /\ UNCHANGED <<curenv, schedStatus>>
    BY <1>2 DEF PromptOnlyWhenIdle
  <1> QED
    BY <1>1, <1>2 DEF InvokeIfStopped

\* sched_exit_env of the running environment, and the scheduler after it.
LEMMA ExitSound ==
    ASSUME NEW f, NEW n, NEW r, NEW x, NEW st,
           Sound(f, n, r, x, curenv, st), curenv # NoEnv, env_exit(r, x, st)
    PROVE  /\ Sound(f, n, ready', exitQ', curenv', status')
           /\ PromptOnlyWhenIdle'
           /\ schedStatus' \in {"STOPPED", "STARTED"}
  <1> DEFINE y == Push(curenv, x)
             sx == [st EXCEPT ![curenv] = "EXIT"]
  <1>1. curenv \in Envs /\ ~In(curenv, x)
    BY DEF Sound, Apart
  <1>2. y \in Seq(Envs) /\ Once(y) /\ \A e : In(e, y) <=> e = curenv \/ In(e, x)
    BY <1>1, PushMembers DEF Sound
  <1>3. sx \in [Envs -> Statuses]
        /\ \A e \in Envs : sx[e] = IF e = curenv THEN "EXIT" ELSE st[e]
    BY <1>1 DEF Sound, Statuses
  <1>4. exitQ' = y /\ fos_scheduler(r, NoEnv, sx)
    BY DEF env_exit
  <1> HIDE DEF y, sx
  <1>5. Sound(f, n, r, y, NoEnv, sx)
    BY <1>1, <1>2, <1>3 DEF Sound, Apart
  <1> QED
    BY <1>4, <1>5, DispatchSound

\* A panic keeps sound lists sound, whoever runs.
LEMMA PanicSound ==
    ASSUME NEW f, NEW n, NEW r, NEW x, NEW st,
           Sound(f, n, r, x, curenv, st), Panic(r, x, st)
    PROVE  /\ Sound(f, n, ready', exitQ', curenv', status')
           /\ PromptOnlyWhenIdle'
           /\ schedStatus' \in {"STOPPED", "STARTED"}
  <1>1. CASE curenv # NoEnv /\ env_exit(r, x, st)
    BY <1>1, ExitSound
  <1>2. CASE exitQ' = x /\ fos_scheduler(r, curenv, st)
    BY <1>2, DispatchSound
  <1> QED
    BY <1>1, <1>2 DEF Panic

-----------------------------------------------------------------------------
(* The first stage of the operations: taking an environment out of a list. *)

\* Out of the NEW queue: dropped by a kill, or on to the ready queue.
LEMMA TakeNew ==
    ASSUME NEW f, NEW n, NEW r, NEW x, NEW c, NEW st,
           Sound(f, n, r, x, c, st), NEW i \in 1 .. Len(n)
    PROVE  /\ n[i] \in Envs
           /\ Sound(f, RemoveAt(n, i), r, x, c, [st EXCEPT ![n[i]] = "UNKNOWN"])
           /\ Sound(f, RemoveAt(n, i), Push(n[i], r), x, c,
                    [st EXCEPT ![n[i]] = "READY"])
  <1> DEFINE e == n[i]
             m == RemoveAt(n, i)
             p == Push(e, r)
             su == [st EXCEPT ![e] = "UNKNOWN"]
             sr == [st EXCEPT ![e] = "READY"]
  <1>1. /\ m \in Seq(Envs) /\ Once(m) /\ In(e, n) /\ e \in Envs
        /\ \A y : In(y, m) <=> In(y, n) /\ y # e
    BY RemoveAtMembers, ElementOfSeq DEF Sound
  <1>2. ~In(e, r)
    BY <1>1 DEF Sound, Apart
  <1>3. p \in Seq(Envs) /\ Once(p) /\ \A y : In(y, p) <=> y = e \/ In(y, r)
    BY <1>1, <1>2, PushMembers DEF Sound
  <1>4. /\ su \in [Envs -> Statuses] /\ sr \in [Envs -> Statuses]
        /\ \A y \in Envs : su[y] = IF y = e THEN "UNKNOWN" ELSE st[y]
        /\ \A y \in Envs : sr[y] = IF y = e THEN "READY" ELSE st[y]
    BY <1>1 DEF Sound, Statuses
  <1> HIDE DEF e, m, p, su, sr
  <1>5. Sound(f, m, r, x, c, su)
    BY <1>1, <1>4 DEF Sound, Apart
  <1>6. Sound(f, m, p, x, c, sr)
    BY <1>1, <1>3, <1>4 DEF Sound, Apart
  <1> QED
    BY <1>1, <1>5, <1>6 DEF e, m, p, su, sr

\* Out of the ready queue: sched_kill_env leaves the status alone.
LEMMA TakeReady ==
    ASSUME NEW f, NEW n, NEW r, NEW x, NEW c, NEW st,
           Sound(f, n, r, x, c, st), NEW i \in 1 .. Len(r)
    PROVE  Sound(f, n, RemoveAt(r, i), x, c, st)
  <1>1. /\ RemoveAt(r, i) \in Seq(Envs) /\ Once(RemoveAt(r, i))
        /\ \A y : In(y, RemoveAt(r, i)) <=> In(y, r) /\ y # r[i]
    BY RemoveAtMembers DEF Sound
  <1> QED
    BY <1>1 DEF Sound, Apart

\* Out of the exit queue.
LEMMA TakeExit ==
    ASSUME NEW f, NEW n, NEW r, NEW x, NEW c, NEW st,
           Sound(f, n, r, x, c, st), NEW i \in 1 .. Len(x)
    PROVE  Sound(f, n, r, RemoveAt(x, i), c, [st EXCEPT ![x[i]] = "UNKNOWN"])
  <1> DEFINE e == x[i]
             y == RemoveAt(x, i)
             su == [st EXCEPT ![e] = "UNKNOWN"]
  <1>1. /\ y \in Seq(Envs) /\ Once(y) /\ In(e, x) /\ e \in Envs
        /\ \A z : In(z, y) <=> In(z, x) /\ z # e
    BY RemoveAtMembers, ElementOfSeq DEF Sound
  <1>2. /\ su \in [Envs -> Statuses]
        /\ \A z \in Envs : su[z] = IF z = e THEN "UNKNOWN" ELSE st[z]
    BY <1>1 DEF Sound, Statuses
  <1> HIDE DEF e, y, su
  <1>3. Sound(f, n, r, y, c, su)
    BY <1>1, <1>2 DEF Sound, Apart
  <1> QED
    BY <1>3 DEF e, y, su

\* Out of the free list: to the NEW queue (load), to the ready queue (run), to
\* no list (a panic after the commit), or still in it (a panic before).
LEMMA TakeFree ==
    ASSUME NEW f, NEW n, NEW r, NEW x, NEW c, NEW st,
           Sound(f, n, r, x, c, st), f # << >>
    PROVE  /\ Head(f) \in Envs
           /\ Sound(Tail(f), Push(Head(f), n), r, x, c,
                    [st EXCEPT ![Head(f)] = "NEW"])
           /\ Sound(Tail(f), n, Push(Head(f), r), x, c,
                    [st EXCEPT ![Head(f)] = "READY"])
           /\ Sound(Tail(f), n, r, x, c, [st EXCEPT ![Head(f)] = "NEW"])
           /\ Sound(f, n, r, x, c, [st EXCEPT ![Head(f)] = "UNKNOWN"])
  <1> DEFINE e == Head(f)
             g == Tail(f)
             m == Push(e, n)
             p == Push(e, r)
             sn == [st EXCEPT ![e] = "NEW"]
             sr == [st EXCEPT ![e] = "READY"]
             su == [st EXCEPT ![e] = "UNKNOWN"]
  <1>1. /\ e \in Envs /\ g \in Seq(Envs) /\ Once(g) /\ In(e, f)
        /\ \A y : In(y, g) <=> In(y, f) /\ y # e
    BY TailMembers DEF Sound
  <1>2. ~In(e, n) /\ ~In(e, r)
    BY <1>1 DEF Sound, Apart
  <1>3. /\ m \in Seq(Envs) /\ Once(m) /\ \A y : In(y, m) <=> y = e \/ In(y, n)
        /\ p \in Seq(Envs) /\ Once(p) /\ \A y : In(y, p) <=> y = e \/ In(y, r)
    BY <1>1, <1>2, PushMembers DEF Sound
  <1>4. /\ sn \in [Envs -> Statuses] /\ sr \in [Envs -> Statuses]
        /\ su \in [Envs -> Statuses]
        /\ \A y \in Envs : sn[y] = IF y = e THEN "NEW" ELSE st[y]
        /\ \A y \in Envs : sr[y] = IF y = e THEN "READY" ELSE st[y]
        /\ \A y \in Envs : su[y] = IF y = e THEN "UNKNOWN" ELSE st[y]
    BY <1>1 DEF Sound, Statuses
  <1> HIDE DEF e, g, m, p, sn, sr, su
  <1>5. Sound(g, m, r, x, c, sn)
    BY <1>1, <1>3, <1>4 DEF Sound, Apart
  <1>6. Sound(g, n, p, x, c, sr)
    BY <1>1, <1>3, <1>4 DEF Sound, Apart
  <1>7. Sound(g, n, r, x, c, sn)
    BY <1>1, <1>4 DEF Sound, Apart
  <1>8. Sound(f, n, r, x, c, su)
    BY <1>1, <1>4 DEF Sound, Apart
  <1> QED
    BY <1>1, <1>5, <1>6, <1>7, <1>8 DEF e, g, m, p, sn, sr, su

\* run all: the whole NEW queue goes to the ready queue.
LEMMA TakeAllNew ==
    ASSUME NEW f, NEW n, NEW r, NEW x, NEW c, NEW st,
           Sound(f, n, r, x, c, st)
    PROVE  Sound(f, << >>, MoveAll(n, r), x, c,
                 [e \in Envs |-> IF In(e, n) THEN "READY" ELSE st[e]])
  <1> DEFINE p == MoveAll(n, r)
             sr == [e \in Envs |-> IF In(e, n) THEN "READY" ELSE st[e]]
  <1>1. \A y : ~(In(y, n) /\ In(y, r))
    BY MemberType DEF Sound, Apart
  <1>2. p \in Seq(Envs) /\ Once(p) /\ \A y : In(y, p) <=> In(y, n) \/ In(y, r)
    BY <1>1, MoveAllMembers DEF Sound
  <1>3. /\ sr \in [Envs -> Statuses]
        /\ \A y \in Envs : sr[y] = IF In(y, n) THEN "READY" ELSE st[y]
    BY DEF Sound, Statuses
  <1>4. << >> \in Seq(Envs)
    BY EmptySeq
  <1> HIDE DEF p, sr
  <1>5. Sound(f, << >>, p, x, c, sr)
    BY <1>2, <1>3, <1>4, EmptyList DEF Sound, Apart
  <1> QED
    BY <1>5 DEF p, sr

-----------------------------------------------------------------------------
(* The actions. *)

\* intr and down keep their types under every action.
LEMMA NextFlags ==
    ASSUME QueuesSound, [Next]_vars
    PROVE  Flags'
  <1>1. Flags /\ free \in Seq(Envs)
    BY DEF QueuesSound, TypeOK, Flags
  <1>2. ASSUME NEW e \in Envs, Create(e)
        PROVE  intr' \in [Envs -> BOOLEAN]
    BY <1>1, <1>2 DEF Create, Flags
  <1>3. CASE UNCHANGED vars
    BY <1>1, <1>3 DEF Flags, vars
  <1>4. CASE ClockInterrupt \/ SysEnvExit \/ EnvPanics
             \/ CommandRunAll \/ CommandKillAll \/ CommandSchedRR
    BY <1>1, <1>4 DEF Flags, ClockInterrupt, SysEnvExit, EnvPanics,
       CommandRunAll, CommandKillAll, CommandSchedRR, KillNew, KillReady, KillExit
  <1>5. CASE SysDisableInterrupt \/ SysEnableInterrupt
    BY <1>1, <1>5 DEF Flags, SysDisableInterrupt, SysEnableInterrupt
  <1>6. ASSUME NEW e \in Envs, sched_run_env(e) \/ sched_kill_env(e)
        PROVE  Flags'
    BY <1>1, <1>6 DEF Flags, sched_run_env, sched_kill_env,
       KillNew, KillReady, KillExit, KillCurrent, KillMissing
  <1>7. ASSUME NEW e \in Envs,
               SysCreateEnv(e) \/ CommandLoad(e) \/ CommandRun(e)
               \/ CreateNoDirectory(e) \/ CreateOutOfSpace(e)
        PROVE  Flags'
    BY <1>1, <1>2, <1>7 DEF Flags, SysCreateEnv, CommandLoad, CommandRun,
       CreateNoDirectory, CreateOutOfSpace, sched_new_env
  <1> QED
    BY <1>3, <1>4, <1>5, <1>6, <1>7
       DEF Next, SysRunEnv, SysFreeEnv, SysEnvDestroy, CommandKill

\* sched_kill_env keeps the lists sound, wherever the environment is.
LEMMA KillSound ==
    ASSUME QueuesSound, NEW e, sched_kill_env(e)
    PROVE  /\ Sound(free', newQ', ready', exitQ', curenv', status')
           /\ PromptOnlyWhenIdle'
           /\ schedStatus' \in {"STOPPED", "STARTED"}
  <1>1. /\ Sound(free, newQ, ready, exitQ, curenv, status)
        /\ PromptOnlyWhenIdle /\ schedStatus \in {"STOPPED", "STARTED"}
    BY SoundNow
  <1>2. CASE KillNew(e)
    <2>1. PICK i \in 1 .. Len(newQ) : newQ[i] = e /\ newQ' = RemoveAt(newQ, i)
      BY <1>2 DEF KillNew
    <2>2. /\ Panic(ready, exitQ, [status EXCEPT ![e] = "UNKNOWN"])
          /\ free' = free
      BY <1>2 DEF KillNew
    <2>3. Sound(free, newQ', ready, exitQ, curenv, [status EXCEPT ![e] = "UNKNOWN"])
      BY <1>1, <2>1, TakeNew
    <2> QED
      BY <2>2, <2>3, PanicSound
  <1>3. CASE KillReady(e)
    <2>1. PICK i \in 1 .. Len(ready) : Panic(RemoveAt(ready, i), exitQ, status)
      BY <1>3 DEF KillReady
    <2>2. Sound(free, newQ, RemoveAt(ready, i), exitQ, curenv, status)
      BY <1>1, TakeReady
    <2>3. free' = free /\ newQ' = newQ
      BY <1>3 DEF KillReady
    <2> QED
      BY <2>1, <2>2, <2>3, PanicSound
  <1>4. CASE KillExit(e)
    <2>1. PICK i \in 1 .. Len(exitQ) :
             /\ exitQ[i] = e
             /\ Panic(ready, RemoveAt(exitQ, i), [status EXCEPT ![e] = "UNKNOWN"])
      BY <1>4 DEF KillExit
    <2>2. Sound(free, newQ, ready, RemoveAt(exitQ, i), curenv,
                [status EXCEPT ![e] = "UNKNOWN"])
      BY <1>1, <2>1, TakeExit
    <2>3. free' = free /\ newQ' = newQ
      BY <1>4 DEF KillExit
    <2> QED
      BY <2>1, <2>2, <2>3, PanicSound
  <1>5. CASE KillCurrent(e)
    BY <1>1, <1>5, PanicSound DEF KillCurrent
  <1>6. CASE KillMissing(e)
    BY <1>1, <1>6 DEF KillMissing, queues, PromptOnlyWhenIdle
  <1> QED
    BY <1>2, <1>3, <1>4, <1>5, <1>6 DEF sched_kill_env

\* Every step keeps the lists sound.
LEMMA NextSound == QueuesSound /\ [Next]_vars => QueuesSound'
  <1> SUFFICES ASSUME QueuesSound, [Next]_vars
               PROVE  /\ Sound(free', newQ', ready', exitQ', curenv', status')
                      /\ PromptOnlyWhenIdle'
                      /\ schedStatus' \in {"STOPPED", "STARTED"}
    BY SoundNow, NextFlags
  <1>1. /\ Sound(free, newQ, ready, exitQ, curenv, status)
        /\ PromptOnlyWhenIdle /\ schedStatus \in {"STOPPED", "STARTED"}
    BY SoundNow
  <1>2. CASE UNCHANGED vars
    BY <1>1, <1>2 DEF vars, queues, PromptOnlyWhenIdle
  <1>3. CASE ClockInterrupt
    BY <1>1, <1>3, DispatchSound DEF ClockInterrupt, queues
  <1>4. CASE SysEnvExit
    BY <1>1, <1>4, ExitSound DEF SysEnvExit
  <1>5. CASE EnvPanics
    BY <1>1, <1>5, PanicSound DEF EnvPanics
  <1>6. CASE SysDisableInterrupt \/ SysEnableInterrupt
    BY <1>1, <1>6
       DEF SysDisableInterrupt, SysEnableInterrupt, queues, PromptOnlyWhenIdle
  <1>7. ASSUME NEW e \in Envs, sched_run_env(e)
        PROVE  /\ Sound(free', newQ', ready', exitQ', curenv', status')
               /\ PromptOnlyWhenIdle'
               /\ schedStatus' \in {"STOPPED", "STARTED"}
    <2>1. PICK i \in 1 .. Len(newQ) :
             /\ newQ[i] = e /\ newQ' = RemoveAt(newQ, i)
             /\ InvokeIfStopped(Push(e, ready), [status EXCEPT ![e] = "READY"])
      BY <1>7 DEF sched_run_env
    <2>2. Sound(free, newQ', Push(e, ready), exitQ, curenv,
                [status EXCEPT ![e] = "READY"])
      BY <1>1, <2>1, TakeNew
    <2>3. free' = free /\ exitQ' = exitQ
      BY <1>7 DEF sched_run_env
    <2> QED
      BY <1>1, <2>1, <2>2, <2>3, InvokeSound
  <1>8. ASSUME NEW e \in Envs, Create(e), sched_new_env(e)
        PROVE  /\ Sound(free', newQ', ready', exitQ', curenv', status')
               /\ PromptOnlyWhenIdle'
               /\ schedStatus' \in {"STOPPED", "STARTED"}
    <2>1. Sound(Tail(free), Push(e, newQ), ready, exitQ, curenv,
                [status EXCEPT ![e] = "NEW"])
      BY <1>1, <1>8, TakeFree DEF Create
    <2> QED
      BY <1>1, <1>8, <2>1 DEF Create, sched_new_env, PromptOnlyWhenIdle
  <1>9. ASSUME NEW e \in Envs, CommandRun(e)
        PROVE  /\ Sound(free', newQ', ready', exitQ', curenv', status')
               /\ PromptOnlyWhenIdle'
               /\ schedStatus' \in {"STOPPED", "STARTED"}
    <2>1. /\ free # << >> /\ e = Head(free) /\ free' = Tail(free)
          /\ InvokeIfStopped(Push(e, ready), [status EXCEPT ![e] = "READY"])
          /\ newQ' = newQ /\ exitQ' = exitQ
      BY <1>9 DEF CommandRun, Create
    <2>2. Sound(free', newQ, Push(e, ready), exitQ, curenv,
                [status EXCEPT ![e] = "READY"])
      BY <1>1, <2>1, TakeFree
    <2> QED
      BY <1>1, <2>1, <2>2, InvokeSound
  <1>10. ASSUME NEW e \in Envs, CreateNoDirectory(e)
         PROVE  /\ Sound(free', newQ', ready', exitQ', curenv', status')
                /\ PromptOnlyWhenIdle'
                /\ schedStatus' \in {"STOPPED", "STARTED"}
    <2>1. Sound(free, newQ, ready, exitQ, curenv,
                [status EXCEPT ![e] = "UNKNOWN"])
      BY <1>1, <1>10, TakeFree DEF CreateNoDirectory
    <2> QED
      BY <1>10, <2>1, PanicSound DEF CreateNoDirectory
  <1>11. ASSUME NEW e \in Envs, CreateOutOfSpace(e)
         PROVE  /\ Sound(free', newQ', ready', exitQ', curenv', status')
                /\ PromptOnlyWhenIdle'
                /\ schedStatus' \in {"STOPPED", "STARTED"}
    <2>1. Sound(Tail(free), newQ, ready, exitQ, curenv,
                [status EXCEPT ![e] = "NEW"])
      BY <1>1, <1>11, TakeFree DEF CreateOutOfSpace, Create
    <2> QED
      BY <1>11, <2>1, PanicSound DEF CreateOutOfSpace, Create
  <1>12. CASE CommandRunAll
    <2>1. Sound(free, << >>, MoveAll(newQ, ready), exitQ, curenv,
                [e \in Envs |-> IF In(e, newQ) THEN "READY" ELSE status[e]])
      BY <1>1, TakeAllNew
    <2> QED
      BY <1>1, <1>12, <2>1, InvokeSound DEF CommandRunAll
  <1>13. CASE CommandKillAll
    <2>1. CASE /\ curenv = NoEnv
               /\ fos_scheduler(ready, NoEnv, status)
               /\ UNCHANGED queues
      BY <1>1, <2>1, DispatchSound DEF queues
    <2>2. CASE \E e : KillNew(e) \/ KillReady(e) \/ KillExit(e)
      BY <2>2, KillSound DEF sched_kill_env
    <2> QED
      BY <1>13, <2>1, <2>2 DEF CommandKillAll
  <1>14. CASE CommandSchedRR
    <2>1. << >> \in Seq(Envs)
      BY EmptySeq
    <2> QED
      BY <1>1, <1>14, <2>1, EmptyList
         DEF CommandSchedRR, queues, Sound, Apart, PromptOnlyWhenIdle
  <1> QED
    BY <1>2, <1>3, <1>4, <1>5, <1>6, <1>7, <1>8, <1>9, <1>10, <1>11, <1>12,
       <1>13, <1>14, KillSound
       DEF Next, SysRunEnv, SysCreateEnv, CommandLoad, SysFreeEnv,
           SysEnvDestroy, CommandKill

\* For any number of environment slots and any order of creations, runs, exits,
\* kills and panics, the lists of sched.c stay sound: an environment is in one
\* list at most, once, the running one in none, its status says which list it
\* is in, and the prompt opens only when nobody can run.
THEOREM ListsSafe == Spec => []QueuesSound
  <1>1. Init => QueuesSound
    BY InitSound
  <1>2. QueuesSound /\ [Next]_vars => QueuesSound'
    BY NextSound
  <1> QED
    BY <1>1, <1>2, PTL DEF Spec

-----------------------------------------------------------------------------
(* Round robin. *)

\* One step overtakes nobody.
KeepsOrder ==
    /\ Keeps(ready, ready')
    /\ \A e, f : Before(e, f, ready) /\ curenv' = e => ~In(f, ready')

\* With the list a to compare with, the scheduler keeps its order if the queue
\* it dispatches from does, and takes the processor to nobody out of turn.
LEMMA DispatchOrder ==
    ASSUME NEW r \in Seq(Envs), Once(r),
           NEW cur \in Envs \cup {NoEnv}, ~In(cur, r), NEW st,
           fos_scheduler(r, cur, st),
           NEW a, Keeps(a, WaitingQueue(r, cur))
    PROVE  /\ Keeps(a, ready')
           /\ \A e, f : Before(e, f, a) /\ curenv' = e => ~In(f, ready')
  <1> DEFINE q == WaitingQueue(r, cur)
             n == Len(q)
  <1>1. q \in Seq(Envs) /\ Once(q) /\ Keeps(a, q)
    BY PushMembers DEF WaitingQueue
  <1>2. n \in Nat /\ (n = 0 <=> q = << >>)
    BY <1>1, LenProperties, NoMembers
  <1>3. \/ n = 0 /\ ready' = q
        \/ n > 0 /\ curenv' = q[n] /\ ready' = RemoveAt(q, n)
    BY DEF fos_scheduler, env_run, WaitingQueue
  <1> HIDE DEF q
  <1>4. CASE n = 0
    BY <1>1, <1>2, <1>3, <1>4, EmptyList
  <1>5. CASE n > 0
    <2>1. n \in 1 .. Len(q) /\ q # << >>
      BY <1>2, <1>5
    <2>2. Keeps(a, RemoveAt(q, n))
      BY <1>1, <2>1, RemoveAtKeeps
    <2>3. /\ \A x : In(x, RemoveAt(q, n)) => In(x, q)
          /\ In(q[n], q)
          /\ \A f : ~Before(q[n], f, q)
      BY <1>1, <2>1, RemoveAtMembers, LastBeforeNone
    <2>4. curenv' = q[n] /\ ready' = RemoveAt(q, n)
      BY <1>2, <1>3, <1>5
    <2> HIDE DEF n
    <2> QED
      BY <1>1, <2>2, <2>3, <2>4 DEF Keeps
  <1> QED
    BY <1>2, <1>4, <1>5

\* A panic keeps the order of the queue with which it starts.
LEMMA PanicOrder ==
    ASSUME NEW f, NEW n, NEW r, NEW x, NEW st,
           Sound(f, n, r, x, curenv, st), Keeps(ready, r), Panic(r, x, st)
    PROVE  KeepsOrder
  <1>1. r \in Seq(Envs) /\ Once(r) /\ ~In(NoEnv, r)
    BY MemberType DEF Sound
  <1>2. WaitingQueue(r, NoEnv) = r
    BY DEF WaitingQueue
  <1>3. \E s : fos_scheduler(r, NoEnv, s)
    BY DEF Panic, env_exit
  <1> QED
    BY <1>1, <1>2, <1>3, DispatchOrder DEF KeepsOrder

\* Every step keeps the order of those who wait.
LEMMA NextKeepsOrder ==
    ASSUME QueuesSound, [Next]_vars
    PROVE  KeepsOrder
  <1>1. /\ Sound(free, newQ, ready, exitQ, curenv, status)
        /\ PromptOnlyWhenIdle /\ schedStatus \in {"STOPPED", "STARTED"}
    BY SoundNow
  <1>2. ready \in Seq(Envs) /\ Once(ready) /\ ~In(curenv, ready)
        /\ curenv \in Envs \cup {NoEnv}
    BY <1>1, MemberType DEF Sound, Apart
  <1>3. Keeps(ready, ready)
    BY KeepsItself
  <1>4. \A e, f : Before(e, f, ready) => In(e, ready)
    BY DEF Before, In
  <1>5. CASE curenv = NoEnv
    <2>1. ready = << >>
      BY <1>1, <1>5 DEF PromptOnlyWhenIdle
    <2> QED
      BY <1>4, <2>1, EmptyList, KeepsItself DEF KeepsOrder
  <1>6. CASE UNCHANGED <<ready, curenv>>
    BY <1>2, <1>3, <1>4, <1>6 DEF KeepsOrder
  <1>7. CASE curenv # NoEnv /\ ClockInterrupt
    <2>1. curenv \in Envs /\ WaitingQueue(ready, curenv) = Push(curenv, ready)
      BY <1>2, <1>7 DEF WaitingQueue
    <2>2. Keeps(ready, Push(curenv, ready))
      BY <1>2, <2>1, PushKeeps
    <2> QED
      BY <1>2, <1>7, <2>1, <2>2, DispatchOrder DEF ClockInterrupt, KeepsOrder
  <1>8. CASE SysEnvExit
    <2>1. ~In(NoEnv, ready) /\ WaitingQueue(ready, NoEnv) = ready
      BY <1>2, MemberType DEF WaitingQueue
    <2> QED
      BY <1>2, <1>3, <1>8, <2>1, DispatchOrder DEF SysEnvExit, env_exit, KeepsOrder
  <1>9. CASE EnvPanics
    BY <1>1, <1>3, <1>9, PanicOrder DEF EnvPanics
  <1>10. ASSUME NEW e \in Envs, curenv # NoEnv, sched_run_env(e)
         PROVE  KeepsOrder
    <2>1. ready' = Push(e, ready) /\ curenv' = curenv
      BY <1>1, <1>10 DEF sched_run_env, InvokeIfStopped, PromptOnlyWhenIdle
    <2> QED
      BY <1>2, <1>4, <2>1, PushKeeps DEF KeepsOrder
  <1>11. ASSUME NEW e, KillNew(e) PROVE KeepsOrder
    <2>1. PICK i \in 1 .. Len(newQ) : newQ[i] = e
      BY <1>11 DEF KillNew
    <2>2. Sound(free, RemoveAt(newQ, i), ready, exitQ, curenv,
                [status EXCEPT ![e] = "UNKNOWN"])
      BY <1>1, <2>1, TakeNew
    <2> QED
      BY <1>3, <1>11, <2>2, PanicOrder DEF KillNew
  <1>12. ASSUME NEW e, KillReady(e) PROVE KeepsOrder
    <2>1. PICK i \in 1 .. Len(ready) : Panic(RemoveAt(ready, i), exitQ, status)
      BY <1>12 DEF KillReady
    <2>2. Sound(free, newQ, RemoveAt(ready, i), exitQ, curenv, status)
      BY <1>1, TakeReady
    <2>3. Keeps(ready, RemoveAt(ready, i))
      BY <1>2, <1>3, RemoveAtKeeps
    <2> QED
      BY <2>1, <2>2, <2>3, PanicOrder
  <1>13. ASSUME NEW e, KillExit(e) PROVE KeepsOrder
    <2>1. PICK i \in 1 .. Len(exitQ) :
             /\ exitQ[i] = e
             /\ Panic(ready, RemoveAt(exitQ, i), [status EXCEPT ![e] = "UNKNOWN"])
      BY <1>13 DEF KillExit
    <2>2. Sound(free, newQ, ready, RemoveAt(exitQ, i), curenv,
                [status EXCEPT ![e] = "UNKNOWN"])
      BY <1>1, <2>1, TakeExit
    <2> QED
      BY <1>3, <2>1, <2>2, PanicOrder
  <1>14. ASSUME NEW e, sched_kill_env(e) PROVE KeepsOrder
    <2>1. CASE KillCurrent(e)
      BY <1>1, <1>3, <2>1, PanicOrder DEF KillCurrent
    <2>2. CASE KillMissing(e)
      BY <1>6, <2>2 DEF KillMissing
    <2> QED
      BY <1>11, <1>12, <1>13, <1>14, <2>1, <2>2 DEF sched_kill_env
  <1>15. ASSUME NEW e \in Envs, CreateNoDirectory(e) PROVE KeepsOrder
    <2>1. Sound(free, newQ, ready, exitQ, curenv,
                [status EXCEPT ![e] = "UNKNOWN"])
      BY <1>1, <1>15, TakeFree DEF CreateNoDirectory
    <2> QED
      BY <1>3, <1>15, <2>1, PanicOrder DEF CreateNoDirectory
  <1>16. ASSUME NEW e \in Envs, CreateOutOfSpace(e) PROVE KeepsOrder
    <2>1. Sound(Tail(free), newQ, ready, exitQ, curenv,
                [status EXCEPT ![e] = "NEW"])
      BY <1>1, <1>16, TakeFree DEF CreateOutOfSpace, Create
    <2> QED
      BY <1>3, <1>16, <2>1, PanicOrder DEF CreateOutOfSpace
  <1>17. ASSUME NEW e \in Envs, SysCreateEnv(e) PROVE KeepsOrder
    BY <1>6, <1>17 DEF SysCreateEnv, sched_new_env
  <1>18. CASE SysDisableInterrupt \/ SysEnableInterrupt \/ UNCHANGED vars
    BY <1>6, <1>18 DEF SysDisableInterrupt, SysEnableInterrupt, vars
  <1> QED
    BY <1>5, <1>7, <1>8, <1>9, <1>10, <1>14, <1>15, <1>16, <1>17, <1>18
       DEF Next, SysRunEnv, SysFreeEnv, SysEnvDestroy, CommandKill, CommandLoad,
           CommandRun, CommandRunAll, CommandKillAll, CommandSchedRR

\* For any number of environments: round robin never lets one overtake another.
THEOREM RoundRobinSafe == Spec => NoOvertaking
  <1>1. QueuesSound /\ [Next]_vars =>
           [\A e, f \in Envs :
               /\ Before(e, f, ready) /\ In(e, ready') /\ In(f, ready')
                     => Before(e, f, ready')
               /\ ~In(e, ready) /\ In(e, ready') /\ In(f, ready) /\ In(f, ready')
                     => Before(e, f, ready')
               /\ Before(e, f, ready) /\ curenv' = e => ~In(f, ready')]_vars
    BY NextKeepsOrder DEF KeepsOrder, Keeps
  <1> QED
    BY <1>1, ListsSafe, PTL DEF Spec, NoOvertaking

\* For any number of environments, the assertions of the scheduler's self-check
\* hold at every clock interrupt.
THEOREM SelfCheckSafe == Spec => SelfCheckHolds
  <1> DEFINE Check == /\ curenv' = IF ready = << >> THEN curenv
                                   ELSE ready[Len(ready)]
                      /\ ~In(curenv', ready')
                      /\ curenv' # curenv => In(curenv, ready')
  <1>1. ASSUME QueuesSound, ClockInterrupt PROVE Check
    <2>1. Sound(free, newQ, ready, exitQ, curenv, status)
      BY <1>1, SoundNow
    <2>2. /\ ready \in Seq(Envs) /\ Once(ready) /\ ~In(curenv, ready)
          /\ curenv \in Envs /\ status \in [Envs -> Statuses]
          /\ fos_scheduler(ready, curenv, status)
      BY <1>1, <2>1, MemberType DEF Sound, Apart, ClockInterrupt
    <2>3. /\ ~In(curenv', ready')
          /\ curenv' # curenv => In(curenv, ready')
      BY <2>2, Dispatch
    <2> DEFINE q == Push(curenv, ready)
               n == Len(ready)
    <2>4. n \in Nat /\ (n = 0 <=> ready = << >>)
      BY <2>2, LenProperties, NoMembers
    <2>5. Len(q) = n + 1 /\ q[1] = curenv
      BY <2>2, PushFacts
    <2>6. \A i \in 1 .. n : q[i + 1] = ready[i]
      BY <2>2, PushFacts
    <2>7. curenv' = q[Len(q)]
      <3>1. curenv # NoEnv /\ Len(q) # 0
        BY <2>2, <2>4, <2>5
      <3> HIDE DEF q
      <3> QED
        BY <2>2, <3>1 DEF fos_scheduler, env_run, q
    <2> HIDE DEF q, n
    <2>8. curenv' = IF ready = << >> THEN curenv ELSE ready[n]
      BY <2>4, <2>5, <2>6, <2>7
    <2> QED
      BY <2>3, <2>8 DEF n
  <1> HIDE DEF Check
  <1>2. QueuesSound => [ClockInterrupt => Check]_vars
    BY <1>1
  <1>3. SelfCheckHolds <=> [][ClockInterrupt => Check]_vars
    BY PTL DEF SelfCheckHolds, Check
  <1> QED
    BY <1>2, <1>3, ListsSafe, PTL

-----------------------------------------------------------------------------
(* The queues implement EnvLife. *)

\* The moves of one environment in a step: nothing becomes free, nothing is
\* ready that was not new, running or ready, nothing runs or is ready that had
\* exited or was lost, only the running one exits, and it is never lost.
MovesOf(e) ==
    /\ In(e, free') => In(e, free)
    /\ In(e, newQ') => In(e, newQ) \/ In(e, free)
    /\ In(e, ready') => In(e, ready) \/ In(e, newQ) \/ curenv = e
    /\ curenv' = e => curenv = e \/ In(e, ready) \/ In(e, newQ) \/ In(e, free)
    /\ In(e, exitQ') => In(e, exitQ) \/ curenv = e
    /\ curenv = e => curenv' = e \/ In(e, ready') \/ In(e, exitQ')

\* In sound lists the place of an environment is the one list it is in.
LEMMA PlaceIs ==
    ASSUME QueuesSound, NEW e \in Envs
    PROVE  /\ Place(e) \in Life!Places
           /\ Place(e) = "running" <=> curenv = e
           /\ Place(e) = "ready" <=> In(e, ready)
           /\ Place(e) = "new" <=> In(e, newQ)
           /\ Place(e) = "exit" <=> In(e, exitQ)
           /\ Place(e) = "free" <=> In(e, free)
  BY DEF QueuesSound, OnePlace, Place, Life!Places

\* The same after a step.
LEMMA PlaceWillBe ==
    ASSUME QueuesSound', NEW e \in Envs
    PROVE  /\ Place(e)' \in Life!Places
           /\ Place(e)' = "running" <=> curenv' = e
           /\ Place(e)' = "ready" <=> In(e, ready')
           /\ Place(e)' = "new" <=> In(e, newQ')
           /\ Place(e)' = "exit" <=> In(e, exitQ')
           /\ Place(e)' = "free" <=> In(e, free')
  BY DEF QueuesSound, OnePlace, Place, Life!Places

\* Who was in the ready queue is there or runs after a panic; the environment
\* that ran has exited.
LEMMA PanicMoves ==
    ASSUME NEW f, NEW n, NEW r, NEW x, NEW st,
           Sound(f, n, r, x, curenv, st), Panic(r, x, st)
    PROVE  \A e \in Envs :
              /\ In(e, ready') \/ curenv' = e <=> In(e, r)
              /\ In(e, exitQ') <=> In(e, x) \/ curenv = e
  <1>1. r \in Seq(Envs) /\ Once(r) /\ ~In(NoEnv, r) /\ x \in Seq(Envs)
        /\ curenv \in Envs \cup {NoEnv} /\ st \in [Envs -> Statuses]
    BY MemberType DEF Sound
  <1>2. PICK s \in [Envs -> Statuses] : fos_scheduler(r, NoEnv, s)
    <2>1. curenv # NoEnv => [st EXCEPT ![curenv] = "EXIT"] \in [Envs -> Statuses]
      BY <1>1 DEF Statuses
    <2> QED
      BY <1>1, <2>1 DEF Panic, env_exit
  <1>3. \A e \in Envs : In(e, ready') \/ curenv' = e <=> In(e, r)
    BY <1>1, <1>2, Dispatch
  <1>4. \A e \in Envs : In(e, exitQ') <=> In(e, x) \/ curenv = e
    <2>1. CASE curenv # NoEnv
      <3>1. exitQ' = Push(curenv, x) /\ curenv \in Envs
        BY <1>1, <2>1 DEF Panic, env_exit
      <3> QED
        BY <1>1, <3>1, PushMembers
    <2>2. CASE curenv = NoEnv
      BY <2>2 DEF Panic
    <2> QED
      BY <2>1, <2>2
  <1> QED
    BY <1>3, <1>4

\* sched_kill_env takes nobody anywhere else than to "lost".
LEMMA KillMoves ==
    ASSUME QueuesSound, NEW k, sched_kill_env(k), NEW e \in Envs
    PROVE  MovesOf(e)
  <1>1. Sound(free, newQ, ready, exitQ, curenv, status)
    BY SoundNow
  <1>2. CASE KillNew(k)
    <2>1. PICK i \in 1 .. Len(newQ) : newQ[i] = k /\ newQ' = RemoveAt(newQ, i)
      BY <1>2 DEF KillNew
    <2>2. Sound(free, newQ', ready, exitQ, curenv, [status EXCEPT ![k] = "UNKNOWN"])
      BY <1>1, <2>1, TakeNew
    <2>3. In(e, newQ') => In(e, newQ)
      BY <1>1, <2>1, RemoveAtMembers DEF Sound
    <2>4. /\ In(e, ready') \/ curenv' = e <=> In(e, ready)
          /\ In(e, exitQ') <=> In(e, exitQ) \/ curenv = e
          /\ free' = free
      BY <1>2, <2>2, PanicMoves DEF KillNew
    <2> QED
      BY <2>3, <2>4 DEF MovesOf
  <1>3. CASE KillReady(k)
    <2>1. PICK i \in 1 .. Len(ready) : Panic(RemoveAt(ready, i), exitQ, status)
      BY <1>3 DEF KillReady
    <2>2. Sound(free, newQ, RemoveAt(ready, i), exitQ, curenv, status)
      BY <1>1, TakeReady
    <2>3. In(e, RemoveAt(ready, i)) => In(e, ready)
      BY <1>1, <2>1, RemoveAtMembers DEF Sound
    <2>4. /\ In(e, ready') \/ curenv' = e <=> In(e, RemoveAt(ready, i))
          /\ In(e, exitQ') <=> In(e, exitQ) \/ curenv = e
          /\ free' = free /\ newQ' = newQ
      BY <1>3, <2>1, <2>2, PanicMoves DEF KillReady
    <2> QED
      BY <2>3, <2>4 DEF MovesOf
  <1>4. CASE KillExit(k)
    <2>1. PICK i \in 1 .. Len(exitQ) :
             /\ exitQ[i] = k
             /\ Panic(ready, RemoveAt(exitQ, i), [status EXCEPT ![k] = "UNKNOWN"])
      BY <1>4 DEF KillExit
    <2>2. Sound(free, newQ, ready, RemoveAt(exitQ, i), curenv,
                [status EXCEPT ![k] = "UNKNOWN"])
      BY <1>1, <2>1, TakeExit
    <2>3. In(e, RemoveAt(exitQ, i)) => In(e, exitQ)
      BY <1>1, <2>1, RemoveAtMembers DEF Sound
    <2>4. /\ In(e, ready') \/ curenv' = e <=> In(e, ready)
          /\ In(e, exitQ') <=> In(e, RemoveAt(exitQ, i)) \/ curenv = e
          /\ free' = free /\ newQ' = newQ
      BY <1>4, <2>1, <2>2, PanicMoves DEF KillExit
    <2> QED
      BY <2>3, <2>4 DEF MovesOf
  <1>5. CASE KillCurrent(k)
    <2>1. /\ In(e, ready') \/ curenv' = e <=> In(e, ready)
          /\ In(e, exitQ') <=> In(e, exitQ) \/ curenv = e
          /\ free' = free /\ newQ' = newQ
      BY <1>1, <1>5, PanicMoves DEF KillCurrent
    <2> QED
      BY <2>1 DEF MovesOf
  <1>6. CASE KillMissing(k)
    BY <1>6 DEF KillMissing, MovesOf, queues
  <1> QED
    BY <1>2, <1>3, <1>4, <1>5, <1>6 DEF sched_kill_env

\* Every step moves every environment as EnvLife allows.
LEMMA NextMoves ==
    ASSUME QueuesSound, [Next]_vars, NEW e \in Envs
    PROVE  MovesOf(e)
  <1>1. /\ Sound(free, newQ, ready, exitQ, curenv, status)
        /\ PromptOnlyWhenIdle /\ schedStatus \in {"STOPPED", "STARTED"}
    BY SoundNow
  <1>2. /\ ready \in Seq(Envs) /\ Once(ready) /\ ~In(curenv, ready)
        /\ ~In(NoEnv, ready) /\ curenv \in Envs \cup {NoEnv}
        /\ status \in [Envs -> Statuses]
        /\ newQ \in Seq(Envs) /\ Once(newQ) /\ free \in Seq(Envs) /\ Once(free)
        /\ exitQ \in Seq(Envs)
    BY <1>1, MemberType DEF Sound, Apart
  <1>3. CASE UNCHANGED <<free, newQ, ready, exitQ, curenv>>
    BY <1>3 DEF MovesOf
  <1>4. CASE UNCHANGED vars \/ SysDisableInterrupt \/ SysEnableInterrupt
    BY <1>3, <1>4 DEF vars, queues, SysDisableInterrupt, SysEnableInterrupt
  <1>5. CASE ClockInterrupt
    <2>1. In(e, ready') \/ curenv' = e <=> In(e, ready) \/ curenv = e
      BY <1>2, <1>5, Dispatch DEF ClockInterrupt
    <2> QED
      BY <1>5, <2>1 DEF ClockInterrupt, queues, MovesOf
  <1>6. CASE SysEnvExit
    <2>1. curenv \in Envs /\ [status EXCEPT ![curenv] = "EXIT"] \in [Envs -> Statuses]
      BY <1>2, <1>6 DEF SysEnvExit, Statuses
    <2>2. In(e, ready') \/ curenv' = e <=> In(e, ready)
      BY <1>2, <1>6, <2>1, Dispatch DEF SysEnvExit, env_exit
    <2>3. In(e, exitQ') <=> e = curenv \/ In(e, exitQ)
      BY <1>2, <1>6, <2>1, PushMembers DEF SysEnvExit, env_exit
    <2> QED
      BY <1>6, <2>2, <2>3 DEF SysEnvExit, MovesOf
  <1>7. CASE EnvPanics
    <2>1. /\ In(e, ready') \/ curenv' = e <=> In(e, ready)
          /\ In(e, exitQ') <=> In(e, exitQ) \/ curenv = e
      BY <1>1, <1>7, PanicMoves DEF EnvPanics
    <2> QED
      BY <1>7, <2>1 DEF EnvPanics, MovesOf
  <1>8. ASSUME NEW r, NEW n, NEW f, NEW st,
               Sound(f, n, r, exitQ, curenv, st), InvokeIfStopped(r, st)
        PROVE  In(e, ready') \/ curenv' = e <=> In(e, r) \/ curenv = e
    <2>1. /\ r \in Seq(Envs) /\ Once(r) /\ ~In(curenv, r)
          /\ st \in [Envs -> Statuses]
      BY <1>8, MemberType DEF Sound, Apart
    <2>2. CASE fos_scheduler(r, curenv, st)
      BY <1>2, <2>1, <2>2, Dispatch
    <2>3. CASE ready' = r /\ curenv' = curenv
      BY <2>3
    <2> QED
      BY <1>8, <2>2, <2>3 DEF InvokeIfStopped
  <1>9. ASSUME NEW g \in Envs, sched_run_env(g) PROVE MovesOf(e)
    <2>1. PICK i \in 1 .. Len(newQ) :
             /\ newQ[i] = g /\ newQ' = RemoveAt(newQ, i)
             /\ InvokeIfStopped(Push(g, ready), [status EXCEPT ![g] = "READY"])
      BY <1>9 DEF sched_run_env
    <2>2. Sound(free, newQ', Push(g, ready), exitQ, curenv,
                [status EXCEPT ![g] = "READY"])
      BY <1>1, <2>1, TakeNew
    <2>3. In(e, ready') \/ curenv' = e <=> In(e, Push(g, ready)) \/ curenv = e
      BY <1>8, <2>1, <2>2
    <2>4. /\ In(e, Push(g, ready)) <=> e = g \/ In(e, ready)
          /\ In(g, newQ)
          /\ In(e, newQ') => In(e, newQ)
      BY <1>2, <2>1, PushMembers, RemoveAtMembers
    <2> QED
      BY <1>9, <2>3, <2>4 DEF sched_run_env, MovesOf
  <1>10. ASSUME NEW g \in Envs, Create(g)
         PROVE  In(g, free) /\ (In(e, free') => In(e, free))
    BY <1>2, <1>10, TailMembers DEF Create
  <1>11. ASSUME NEW g \in Envs, Create(g), sched_new_env(g) PROVE MovesOf(e)
    <2>1. In(e, newQ') <=> e = g \/ In(e, newQ)
      BY <1>2, <1>11, PushMembers DEF sched_new_env
    <2> QED
      BY <1>10, <1>11, <2>1 DEF sched_new_env, MovesOf
  <1>12. ASSUME NEW g \in Envs, CommandRun(g) PROVE MovesOf(e)
    <2>1. /\ free # << >> /\ g = Head(free) /\ free' = Tail(free) /\ Create(g)
          /\ InvokeIfStopped(Push(g, ready), [status EXCEPT ![g] = "READY"])
          /\ newQ' = newQ /\ exitQ' = exitQ /\ curenv = NoEnv
      BY <1>12 DEF CommandRun, Create
    <2>2. Sound(free', newQ, Push(g, ready), exitQ, curenv,
                [status EXCEPT ![g] = "READY"])
      BY <1>1, <2>1, TakeFree
    <2>3. \A y : In(y, Push(g, ready)) <=> y = g
      <3>1. ready = << >>
        BY <1>1, <2>1 DEF PromptOnlyWhenIdle
      <3> QED
        BY <1>2, <3>1, PushMembers, EmptyList
    <2>4. /\ Push(g, ready) \in Seq(Envs) /\ Once(Push(g, ready))
          /\ [status EXCEPT ![g] = "READY"] \in [Envs -> Statuses]
          /\ ~In(NoEnv, Push(g, ready))
          /\ fos_scheduler(Push(g, ready), NoEnv, [status EXCEPT ![g] = "READY"])
      BY <1>1, <2>1, <2>2, <2>3 DEF Sound, InvokeIfStopped, PromptOnlyWhenIdle
    <2>5. /\ ready' \in Seq(Envs) /\ ~In(curenv', ready')
          /\ curenv' \in Envs \cup {NoEnv} /\ PromptOnlyWhenIdle'
          /\ \A y \in Envs :
                In(y, ready') \/ curenv' = y <=> In(y, Push(g, ready)) \/ NoEnv = y
      BY <2>4, Dispatch
    <2>6. curenv' = NoEnv => \A y : ~In(y, ready')
      BY <2>5, EmptyList DEF PromptOnlyWhenIdle
    <2>7. curenv' = g /\ ~In(e, ready')
      BY <2>3, <2>5, <2>6
    <2> QED
      BY <1>10, <2>1, <2>7 DEF MovesOf
  <1>13. ASSUME NEW g \in Envs, CreateNoDirectory(g) PROVE MovesOf(e)
    <2>1. Sound(free, newQ, ready, exitQ, curenv,
                [status EXCEPT ![g] = "UNKNOWN"])
      BY <1>1, <1>13, TakeFree DEF CreateNoDirectory
    <2>2. /\ In(e, ready') \/ curenv' = e <=> In(e, ready)
          /\ In(e, exitQ') <=> In(e, exitQ) \/ curenv = e
      BY <1>13, <2>1, PanicMoves DEF CreateNoDirectory
    <2> QED
      BY <1>13, <2>2 DEF CreateNoDirectory, MovesOf
  <1>14. ASSUME NEW g \in Envs, CreateOutOfSpace(g) PROVE MovesOf(e)
    <2>1. Sound(Tail(free), newQ, ready, exitQ, curenv,
                [status EXCEPT ![g] = "NEW"])
      BY <1>1, <1>14, TakeFree DEF CreateOutOfSpace, Create
    <2>2. /\ In(e, ready') \/ curenv' = e <=> In(e, ready)
          /\ In(e, exitQ') <=> In(e, exitQ) \/ curenv = e
      BY <1>14, <2>1, PanicMoves DEF CreateOutOfSpace
    <2> QED
      BY <1>10, <1>14, <2>2 DEF CreateOutOfSpace, MovesOf
  <1>15. CASE CommandRunAll
    <2> DEFINE st == [g \in Envs |-> IF In(g, newQ) THEN "READY" ELSE status[g]]
    <2>1. Sound(free, << >>, MoveAll(newQ, ready), exitQ, curenv, st)
      BY <1>1, TakeAllNew
    <2>2. InvokeIfStopped(MoveAll(newQ, ready), st)
      BY <1>15 DEF CommandRunAll
    <2>3. In(e, ready') \/ curenv' = e <=> In(e, MoveAll(newQ, ready)) \/ curenv = e
      BY <1>8, <2>1, <2>2
    <2>4. In(e, MoveAll(newQ, ready)) <=> In(e, newQ) \/ In(e, ready)
      <3>1. \A y : ~(In(y, newQ) /\ In(y, ready))
        BY <1>1, MemberType DEF Sound, Apart
      <3> QED
        BY <1>2, <3>1, MoveAllMembers
    <2>5. newQ' = << >> /\ free' = free /\ exitQ' = exitQ
      BY <1>15 DEF CommandRunAll
    <2> QED
      BY <2>3, <2>4, <2>5, EmptyList DEF MovesOf
  <1>16. CASE CommandKillAll
    <2>1. CASE /\ curenv = NoEnv
               /\ fos_scheduler(ready, NoEnv, status)
               /\ UNCHANGED queues
      <3>1. In(e, ready') \/ curenv' = e <=> In(e, ready)
        BY <1>2, <2>1, Dispatch
      <3> QED
        BY <2>1, <3>1 DEF queues, MovesOf
    <2>2. CASE \E g : KillNew(g) \/ KillReady(g) \/ KillExit(g)
      BY <2>2, KillMoves DEF sched_kill_env
    <2> QED
      BY <1>16, <2>1, <2>2 DEF CommandKillAll
  <1>17. CASE CommandSchedRR
    BY <1>17, EmptyList DEF CommandSchedRR, queues, MovesOf
  <1> QED
    BY <1>4, <1>5, <1>6, <1>7, <1>9, <1>11, <1>12, <1>13, <1>14, <1>15, <1>16,
       <1>17, KillMoves
       DEF Next, SysRunEnv, SysCreateEnv, CommandLoad, SysFreeEnv,
           SysEnvDestroy, CommandKill

\* Boot: every slot of envs[] is in the free list.
LEMMA InitLife == Init => Life!Init
  <1> SUFFICES ASSUME Init, NEW e \in Envs PROVE Place(e) = "free"
    BY DEF Life!Init
  <1>1. In(e, free)
    BY InitFreeAssumption DEF Init, In
  <1> QED
    BY <1>1, InitSound, PlaceIs

\* Every step of the queues is a step of EnvLife, or none of its business.
LEMMA NextLife ==
    ASSUME QueuesSound, QueuesSound', [Next]_vars
    PROVE  Life!Next
  <1>1. \A e \in Envs : Place(e)' \in Life!Places
    BY PlaceWillBe
  <1>2. ASSUME NEW e \in Envs, Place(e)' # Place(e)
        PROVE  <<Place(e), Place(e)'>> \in Life!Moves
    <2>1. MovesOf(e)
      BY NextMoves
    <2>2. /\ Place(e) \in Life!Places
          /\ Place(e) = "running" <=> curenv = e
          /\ Place(e) = "ready" <=> In(e, ready)
          /\ Place(e) = "new" <=> In(e, newQ)
          /\ Place(e) = "exit" <=> In(e, exitQ)
          /\ Place(e) = "free" <=> In(e, free)
      BY PlaceIs
    <2>3. /\ Place(e)' \in Life!Places
          /\ Place(e)' = "running" <=> curenv' = e
          /\ Place(e)' = "ready" <=> In(e, ready')
          /\ Place(e)' = "new" <=> In(e, newQ')
          /\ Place(e)' = "exit" <=> In(e, exitQ')
          /\ Place(e)' = "free" <=> In(e, free')
      BY PlaceWillBe
    <2> QED
      BY <1>2, <2>1, <2>2, <2>3 DEF MovesOf, Life!Places, Life!Moves
  <1>3. \A e \in Envs : Place(e)' = "running" <=> curenv' = e
    BY PlaceWillBe
  <1>4. ASSUME \A e \in Envs : Place(e)' # "running", NEW e \in Envs
        PROVE  Place(e)' # "ready"
    <2>1. curenv' = NoEnv
      BY <1>3, <1>4 DEF QueuesSound, TypeOK
    <2>2. ready' = << >>
      BY <2>1 DEF QueuesSound, PromptOnlyWhenIdle
    <2> QED
      BY <2>2, PlaceWillBe, EmptyList
  <1> QED
    BY <1>1, <1>2, <1>3, <1>4 DEF Life!Next, Life!Running

\* The scheduler and its queues implement EnvLife for any number of slots: who
\* has exited or been killed never runs again, and the processor is never idle
\* while somebody is ready.
THEOREM LifeImplemented == Spec => ImplementsLife
  <1>1. QueuesSound /\ QueuesSound' /\ [Next]_vars => Life!Next
    BY NextLife
  <1>2. QueuesSound /\ QueuesSound' /\ [Next]_vars
           => [Life!Next]_([e \in Envs |-> Place(e)])
    BY <1>1
  <1> QED
    BY <1>2, InitLife, ListsSafe, PTL DEF Spec, ImplementsLife, Life!Spec
=============================================================================
