---------------------------- MODULE VMemProofs -----------------------------
(***************************************************************************)
(* Proofs about demand paging, for any number of environments, frames and  *)
(* pages and any sizes of the working sets and of the modified buffer.     *)
(***************************************************************************)
EXTENDS VMem, SequenceTheorems, FiniteSetTheorems, TLAPS

-----------------------------------------------------------------------------
(* What the operations on the lists do to their members. *)

\* An empty list has no member.
LEMMA EmptyList == Once(<< >>) /\ \A x : ~In(x, << >>)
  BY DEF Once, In

\* A member of a list over S is in S.
LEMMA MemberType ==
    ASSUME NEW S, NEW q \in Seq(S), NEW x, In(x, q)
    PROVE  x \in S
  BY ElementOfSeq DEF In

\* LIST_INSERT_HEAD moves everyone one position on.
LEMMA PushFacts ==
    ASSUME NEW S, NEW q \in Seq(S), NEW e \in S
    PROVE  /\ Push(e, q) \in Seq(S)
           /\ Len(q) \in Nat
           /\ Len(Push(e, q)) = Len(q) + 1
           /\ Push(e, q)[1] = e
           /\ \A i \in 1 .. Len(q) : Push(e, q)[i + 1] = q[i]
           /\ \A i \in 1 .. Len(q) + 1 : i # 1 =>
                 i - 1 \in 1 .. Len(q) /\ Push(e, q)[i] = q[i - 1]
  <1>1. /\ <<e>> \in Seq(S) /\ Len(<<e>>) = 1 /\ <<e>>[1] = e
        /\ Len(q) \in Nat
    BY LenProperties
  <1>2. /\ Push(e, q) \in Seq(S)
        /\ Len(Push(e, q)) = 1 + Len(q)
        /\ \A i \in 1 .. 1 + Len(q) :
              Push(e, q)[i] = IF i <= 1 THEN <<e>>[i] ELSE q[i - 1]
    BY <1>1, ConcatProperties DEF Push
  <1> QED
    BY <1>1, <1>2

\* LIST_INSERT_HEAD adds exactly one member.
LEMMA PushMembers ==
    ASSUME NEW S, NEW q \in Seq(S), NEW e \in S
    PROVE  /\ Push(e, q) \in Seq(S)
           /\ \A x : In(x, Push(e, q)) <=> x = e \/ In(x, q)
           /\ Once(q) /\ ~In(e, q) => Once(Push(e, q))
  <1> DEFINE n == Len(q)
             t == Push(e, q)
  <1>1. /\ t \in Seq(S) /\ n \in Nat /\ Len(t) = n + 1 /\ t[1] = e
        /\ \A i \in 1 .. n : t[i + 1] = q[i]
        /\ \A i \in 1 .. n + 1 : i # 1 => i - 1 \in 1 .. n /\ t[i] = q[i - 1]
    <2>1. t \in Seq(S) /\ n \in Nat /\ Len(t) = n + 1 /\ t[1] = e
      BY PushFacts
    <2>2. \A i \in 1 .. n : t[i + 1] = q[i]
      BY PushFacts
    <2>3. \A i \in 1 .. n + 1 : i # 1 => i - 1 \in 1 .. n /\ t[i] = q[i - 1]
      BY PushFacts
    <2> QED
      BY <2>1, <2>2, <2>3
  <1> HIDE DEF n, t
  <1>2. ASSUME NEW x, In(x, t) PROVE x = e \/ In(x, q)
    <2>1. PICK i \in 1 .. n + 1 : t[i] = x
      BY <1>1, <1>2 DEF In
    <2> QED
      BY <1>1, <2>1 DEF In, n
  <1>3. In(e, t)
    BY <1>1 DEF In
  <1>4. ASSUME NEW x, In(x, q) PROVE In(x, t)
    <2>1. PICK i \in 1 .. n : q[i] = x
      BY <1>4 DEF In, n
    <2>2. i + 1 \in 1 .. n + 1 /\ t[i + 1] = x
      BY <1>1, <2>1
    <2> QED
      BY <1>1, <2>2 DEF In
  <1>5. ASSUME Once(q), ~In(e, q) PROVE Once(t)
    <2> SUFFICES ASSUME NEW i \in 1 .. n + 1, NEW j \in 1 .. n + 1, t[i] = t[j]
                 PROVE  i = j
      BY <1>1 DEF Once
    <2>1. \A k \in 1 .. n : q[k] # e
      BY <1>5 DEF In, n
    <2>2. CASE i = 1 \/ j = 1
      BY <1>1, <2>1, <2>2
    <2>3. CASE i # 1 /\ j # 1
      <3>1. /\ i - 1 \in 1 .. n /\ j - 1 \in 1 .. n /\ q[i - 1] = q[j - 1]
        BY <1>1, <2>3
      <3>2. i - 1 = j - 1
        BY <1>5, <3>1 DEF Once, n
      <3> QED
        BY <1>1, <3>2
    <2> QED
      BY <2>2, <2>3
  <1> QED
    BY <1>1, <1>2, <1>3, <1>4, <1>5 DEF t

\* LIST_REMOVE closes the gap.
LEMMA RemoveAtFacts ==
    ASSUME NEW S, NEW q \in Seq(S), NEW i \in 1 .. Len(q)
    PROVE  /\ RemoveAt(q, i) \in Seq(S)
           /\ Len(q) \in Nat \ {0}
           /\ Len(RemoveAt(q, i)) = Len(q) - 1
           /\ \A j \in 1 .. Len(q) - 1 :
                 RemoveAt(q, i)[j] = IF j < i THEN q[j] ELSE q[j + 1]
  <1> DEFINE n == Len(q)
             t == RemoveAt(q, i)
  <1>1. n \in Nat \ {0} /\ i \in 1 .. n
    BY LenProperties
  <1>2. \A j \in 1 .. n - 1 : (IF j < i THEN q[j] ELSE q[j + 1]) \in S
    <2>1. \A k \in 1 .. n : q[k] \in S
      BY ElementOfSeq
    <2> QED
      BY <1>1, <2>1
  <1>3. t = [j \in 1 .. n - 1 |-> IF j < i THEN q[j] ELSE q[j + 1]]
    BY DEF RemoveAt
  <1> HIDE DEF n, t
  <1>4. t \in [1 .. n - 1 -> S] /\ n - 1 \in Nat
    BY <1>1, <1>2, <1>3
  <1>5. t \in Seq(S) /\ Len(t) = n - 1
    <2>1. t \in Seq(S)
      BY <1>4, SeqDef
    <2>2. DOMAIN t = 1 .. n - 1 /\ DOMAIN t = 1 .. Len(t) /\ Len(t) \in Nat
      BY <1>4, <2>1, LenProperties
    <2> QED
      BY <1>4, <2>1, <2>2
  <1> QED
    BY <1>1, <1>3, <1>5 DEF n, t

\* LIST_REMOVE takes out exactly one member of a list without repetitions.
LEMMA RemoveAtMembers ==
    ASSUME NEW S, NEW q \in Seq(S), NEW i \in 1 .. Len(q), Once(q)
    PROVE  /\ RemoveAt(q, i) \in Seq(S)
           /\ In(q[i], q)
           /\ \A x : In(x, RemoveAt(q, i)) <=> In(x, q) /\ x # q[i]
           /\ Once(RemoveAt(q, i))
  <1> DEFINE n == Len(q)
             t == RemoveAt(q, i)
  <1>1. /\ t \in Seq(S) /\ n \in Nat \ {0} /\ Len(t) = n - 1 /\ i \in 1 .. n
        /\ \A j \in 1 .. n - 1 : t[j] = IF j < i THEN q[j] ELSE q[j + 1]
        /\ \A j, k \in 1 .. n : q[j] = q[k] => j = k
    BY RemoveAtFacts DEF Once
  <1> HIDE DEF n, t
  <1>2. In(q[i], q)
    BY <1>1 DEF In, n
  <1>3. ASSUME NEW x, In(x, t) PROVE In(x, q) /\ x # q[i]
    <2>1. PICK j \in 1 .. n - 1 : t[j] = x
      BY <1>1, <1>3 DEF In
    <2>2. PICK k \in 1 .. n : q[k] = x /\ k # i
      <3>1. CASE j < i
        <4>1. j \in 1 .. n /\ j # i /\ q[j] = x
          BY <1>1, <2>1, <3>1
        <4> QED
          BY <4>1
      <3>2. CASE ~(j < i)
        <4>1. j + 1 \in 1 .. n /\ j + 1 # i /\ q[j + 1] = x
          BY <1>1, <2>1, <3>2
        <4> QED
          BY <4>1
      <3> QED
        BY <3>1, <3>2
    <2> QED
      BY <1>1, <2>2 DEF In, n
  <1>4. ASSUME NEW x, In(x, q), x # q[i] PROVE In(x, t)
    <2>1. PICK k \in 1 .. n : q[k] = x /\ k # i
      BY <1>4 DEF In, n
    <2>2. PICK j \in 1 .. n - 1 : t[j] = x
      <3>1. CASE k < i
        <4>1. k \in 1 .. n - 1
          BY <1>1, <2>1, <3>1
        <4> QED
          BY <1>1, <2>1, <3>1, <4>1
      <3>2. CASE k > i
        <4>1. k - 1 \in 1 .. n - 1 /\ ~(k - 1 < i) /\ (k - 1) + 1 = k
          BY <1>1, <2>1, <3>2
        <4> QED
          BY <1>1, <2>1, <4>1
      <3> QED
        BY <1>1, <2>1, <3>1, <3>2
    <2> QED
      BY <1>1, <2>2 DEF In
  <1>5. Once(t)
    BY <1>1 DEF Once
  <1> QED
    BY <1>1, <1>2, <1>3, <1>4, <1>5 DEF t

\* The head of a list is its first member; the tail has all the others.
LEMMA TailMembers ==
    ASSUME NEW S, NEW q \in Seq(S), q # << >>, Once(q)
    PROVE  /\ Head(q) \in S /\ Tail(q) \in Seq(S)
           /\ In(Head(q), q)
           /\ \A x : In(x, Tail(q)) <=> In(x, q) /\ x # Head(q)
           /\ Once(Tail(q))
  <1> DEFINE n == Len(q)
             t == Tail(q)
  <1>1. /\ n \in Nat \ {0} /\ t \in Seq(S) /\ Len(t) = n - 1
        /\ Head(q) = q[1] /\ Head(q) \in S
        /\ \A i \in 1 .. n - 1 : t[i] = q[i + 1]
        /\ \A j, k \in 1 .. n : q[j] = q[k] => j = k
    BY HeadTailProperties, LenProperties, EmptySeq DEF Once
  <1> HIDE DEF n, t
  <1>2. In(Head(q), q)
    BY <1>1 DEF In, n
  <1>3. ASSUME NEW x, In(x, t) PROVE In(x, q) /\ x # Head(q)
    <2>1. PICK j \in 1 .. n - 1 : t[j] = x
      BY <1>1, <1>3 DEF In
    <2>2. j + 1 \in 1 .. n /\ q[j + 1] = x /\ j + 1 # 1 /\ 1 \in 1 .. n
      BY <1>1, <2>1
    <2> QED
      BY <1>1, <2>2 DEF In, n
  <1>4. ASSUME NEW x, In(x, q), x # Head(q) PROVE In(x, t)
    <2>1. PICK k \in 1 .. n : q[k] = x
      BY <1>4 DEF In, n
    <2>2. k - 1 \in 1 .. n - 1 /\ t[k - 1] = x
      BY <1>1, <1>4, <2>1
    <2> QED
      BY <1>1, <2>2 DEF In
  <1>5. Once(t)
    BY <1>1 DEF Once
  <1> QED
    BY <1>1, <1>2, <1>3, <1>4, <1>5 DEF t

\* LIST_INSERT_TAIL adds exactly one member.
LEMMA AppendMembers ==
    ASSUME NEW S, NEW q \in Seq(S), NEW e \in S
    PROVE  /\ Append(q, e) \in Seq(S) /\ Append(q, e) # << >>
           /\ \A x : In(x, Append(q, e)) <=> x = e \/ In(x, q)
           /\ Once(q) /\ ~In(e, q) => Once(Append(q, e))
  <1> DEFINE n == Len(q)
             t == Append(q, e)
  <1>1. /\ t \in Seq(S) /\ t # << >> /\ n \in Nat /\ Len(t) = n + 1
        /\ \A i \in 1 .. n : t[i] = q[i]
        /\ t[n + 1] = e
    BY AppendProperties, LenProperties
  <1> HIDE DEF n, t
  <1>2. ASSUME NEW x, In(x, t) PROVE x = e \/ In(x, q)
    <2>1. PICK i \in 1 .. n + 1 : t[i] = x
      BY <1>1, <1>2 DEF In
    <2>2. i = n + 1 \/ i \in 1 .. n
      BY <1>1
    <2> QED
      BY <1>1, <2>1, <2>2 DEF In, n
  <1>3. In(e, t)
    BY <1>1 DEF In
  <1>4. ASSUME NEW x, In(x, q) PROVE In(x, t)
    <2>1. PICK i \in 1 .. n : q[i] = x
      BY <1>4 DEF In, n
    <2>2. i \in 1 .. n + 1 /\ t[i] = x
      BY <1>1, <2>1
    <2> QED
      BY <1>1, <2>2 DEF In
  <1>5. ASSUME Once(q), ~In(e, q) PROVE Once(t)
    <2> SUFFICES ASSUME NEW i \in 1 .. n + 1, NEW j \in 1 .. n + 1, t[i] = t[j]
                 PROVE  i = j
      BY <1>1 DEF Once
    <2>1. \A k \in 1 .. n : q[k] # e
      BY <1>5 DEF In, n
    <2>2. (i = n + 1 \/ i \in 1 .. n) /\ (j = n + 1 \/ j \in 1 .. n)
      BY <1>1
    <2>3. CASE i \in 1 .. n /\ j \in 1 .. n
      BY <1>1, <1>5, <2>3 DEF Once, n
    <2> QED
      BY <1>1, <2>1, <2>2, <2>3
  <1> QED
    BY <1>1, <1>2, <1>3, <1>4, <1>5 DEF t

\* The members of two lists together.
LEMMA ConcatMembers ==
    ASSUME NEW S, NEW a \in Seq(S), NEW b \in Seq(S), NEW x
    PROVE  In(x, a \o b) <=> In(x, a) \/ In(x, b)
  <1> DEFINE m == Len(a)
             n == Len(b)
             t == a \o b
  <1>1. /\ m \in Nat /\ n \in Nat /\ Len(t) = m + n
        /\ \A i \in 1 .. m + n : t[i] = IF i <= m THEN a[i] ELSE b[i - m]
    BY ConcatProperties, LenProperties
  <1> HIDE DEF m, n, t
  <1>2. ASSUME In(x, t) PROVE In(x, a) \/ In(x, b)
    <2>1. PICK i \in 1 .. m + n : t[i] = x
      BY <1>1, <1>2 DEF In
    <2>2. (i \in 1 .. m /\ a[i] = x) \/ (i - m \in 1 .. n /\ b[i - m] = x)
      BY <1>1, <2>1
    <2> QED
      BY <2>2 DEF In, m, n
  <1>3. ASSUME In(x, a) PROVE In(x, t)
    <2>1. PICK i \in 1 .. m : a[i] = x
      BY <1>3 DEF In, m
    <2>2. i \in 1 .. m + n /\ t[i] = x
      BY <1>1, <2>1
    <2> QED
      BY <1>1, <2>2 DEF In
  <1>4. ASSUME In(x, b) PROVE In(x, t)
    <2>1. PICK i \in 1 .. n : b[i] = x
      BY <1>4 DEF In, n
    <2>2. m + i \in 1 .. m + n /\ ~(m + i <= m) /\ m + i - m = i
      BY <1>1
    <2>3. t[m + i] = x
      BY <1>1, <2>1, <2>2
    <2> QED
      BY <1>1, <2>2, <2>3 DEF In
  <1> QED
    BY <1>2, <1>3, <1>4 DEF t

\* Two lists without repetitions and without a common member, one behind the
\* other, have no repetitions.
LEMMA ConcatOnce ==
    ASSUME NEW S, NEW a \in Seq(S), NEW b \in Seq(S), Once(a), Once(b),
           \A x : ~(In(x, a) /\ In(x, b))
    PROVE  a \o b \in Seq(S) /\ Once(a \o b)
  <1> DEFINE m == Len(a)
             n == Len(b)
             t == a \o b
  <1>1. /\ m \in Nat /\ n \in Nat /\ Len(t) = m + n /\ t \in Seq(S)
        /\ \A i \in 1 .. m + n : t[i] = IF i <= m THEN a[i] ELSE b[i - m]
    BY ConcatProperties, LenProperties
  <1>2. /\ \A i, j \in 1 .. m : a[i] = a[j] => i = j
        /\ \A i, j \in 1 .. n : b[i] = b[j] => i = j
        /\ \A i \in 1 .. m : \A j \in 1 .. n : a[i] # b[j]
    BY DEF Once, In
  <1> HIDE DEF m, n, t
  <1>3. ASSUME NEW i \in 1 .. m + n, NEW j \in 1 .. m + n, t[i] = t[j]
        PROVE  i = j
    <2>1. /\ (i \in 1 .. m /\ t[i] = a[i]) \/ (i - m \in 1 .. n /\ t[i] = b[i - m])
          /\ (j \in 1 .. m /\ t[j] = a[j]) \/ (j - m \in 1 .. n /\ t[j] = b[j - m])
      BY <1>1
    <2>2. CASE i - m \in 1 .. n /\ j - m \in 1 .. n /\ b[i - m] = b[j - m]
      BY <1>1, <1>2, <2>2
    <2> QED
      BY <1>2, <1>3, <2>1, <2>2
  <1> QED
    BY <1>1, <1>3 DEF Once, t

USE SizesAssumption, PagesAssumption

All == Envs \X Pages

-----------------------------------------------------------------------------
(* A fault moves frames in stages: a victim leaves, a frame is taken, a    *)
(* table is dropped.  The invariant is stated for the values between the   *)
(* stages: lists fr and mo, marks ib, heap tables ta, page-table entries   *)
(* fm, and the pages pr present, bu buffered and md modified.              *)

Owns(fr, mo, ib, ta, fm, pr, bu, md) ==
    /\ fr \in Seq(Frames) /\ mo \in Seq(Frames) /\ ib \subseteq Frames
    /\ ta \in [Envs -> Frames \cup {NoFrame}]
    /\ fm \in [All -> Frames \cup {NoFrame}]
    /\ pr \subseteq All /\ bu \subseteq All /\ md \subseteq All
    /\ Once(fr) /\ Once(mo) /\ \A f : ~(In(f, fr) /\ In(f, mo))
    /\ \A x \in pr : /\ fm[x] # NoFrame /\ x \notin bu
                     /\ ~In(fm[x], fr) /\ ~In(fm[x], mo)
    /\ \A e \in Envs : ta[e] # NoFrame =>
          /\ ~In(ta[e], fr) /\ ~In(ta[e], mo)
          /\ \A x \in pr : fm[x] # ta[e]
          /\ \A d \in Envs : ta[d] = ta[e] => d = e
    /\ \A x \in bu : /\ fm[x] \in ib
                     /\ x \in md => In(fm[x], mo) \/ In(fm[x], fr)
                     /\ x \notin md => In(fm[x], fr)
    /\ \A x, y \in pr \cup bu : fm[x] = fm[y] => x = y
    /\ \A x \in All : fm[x] # NoFrame => x \in pr \cup bu

\* With buffer length k, the list mo is shorter than k, and without a flush
\* every buffered modified page has its frame in it.
Kept(k, mo, fm, bu, md) ==
    /\ k = 0 \/ Len(mo) < k
    /\ k = 0 => \A x \in bu : x \in md => In(fm[x], mo)

\* The fault handler evicts a page v: its frame goes, marked as buffered, to the
\* tail of the list that its modified bit names, and the flush (fl) moves the
\* modified list behind the free list.
LEMMA EvictOwns ==
    ASSUME NEW fr, NEW mo, NEW ib, NEW ta, NEW fm, NEW pr, NEW bu, NEW md,
           Owns(fr, mo, ib, ta, fm, pr, bu, md), NEW v \in pr, NEW fl,
           NEW fr1, fr1 = IF v \notin md THEN Append(fr, fm[v])
                          ELSE IF fl THEN fr \o Append(mo, fm[v]) ELSE fr,
           NEW mo1, mo1 = IF v \notin md THEN mo
                          ELSE IF fl THEN << >> ELSE Append(mo, fm[v])
    PROVE  Owns(fr1, mo1, ib \cup {fm[v]}, ta, fm, pr \ {v}, bu \cup {v}, md)
  <1> DEFINE f == fm[v]
             mo2 == Append(mo, f)
  <1>1. /\ f \in Frames /\ v \in All /\ ~In(f, fr) /\ ~In(f, mo)
        /\ fr \in Seq(Frames) /\ mo \in Seq(Frames)
        /\ Once(fr) /\ Once(mo) /\ \A g : ~(In(g, fr) /\ In(g, mo))
    BY DEF Owns
  <1>2. /\ mo2 \in Seq(Frames) /\ Once(mo2)
        /\ \A x : In(x, mo2) <=> x = f \/ In(x, mo)
    BY <1>1, AppendMembers
  <1>3. \A x : ~(In(x, fr) /\ In(x, mo2))
    BY <1>1, <1>2
  <1>4. /\ fr \o mo2 \in Seq(Frames) /\ Once(fr \o mo2)
        /\ \A x : In(x, fr \o mo2) <=> In(x, fr) \/ In(x, mo2)
    <2> HIDE DEF mo2
    <2>1. fr \o mo2 \in Seq(Frames) /\ Once(fr \o mo2)
      BY <1>1, <1>2, <1>3, ConcatOnce
    <2>2. \A x : In(x, fr \o mo2) <=> In(x, fr) \/ In(x, mo2)
      BY <1>1, <1>2, ConcatMembers
    <2> QED
      BY <2>1, <2>2
  <1>5. CASE v \notin md
    <2>1. /\ fr1 \in Seq(Frames) /\ Once(fr1) /\ mo1 = mo
          /\ \A x : In(x, fr1) <=> x = f \/ In(x, fr)
      BY <1>1, <1>5, AppendMembers
    <2> QED
      BY <1>1, <1>5, <2>1 DEF Owns
  <1>6. CASE v \in md /\ fl
    <2>1. /\ fr1 = fr \o mo2 /\ mo1 = << >> /\ mo1 \in Seq(Frames)
          /\ Once(mo1) /\ \A x : ~In(x, mo1)
      BY <1>6, EmptyList, EmptySeq
    <2>2. /\ fr1 \in Seq(Frames) /\ Once(fr1)
          /\ \A x : In(x, fr1) <=> In(x, fr) \/ x = f \/ In(x, mo)
      BY <1>2, <1>4, <2>1
    <2> QED
      BY <1>1, <1>6, <2>1, <2>2 DEF Owns
  <1>7. CASE v \in md /\ ~fl
    <2>1. fr1 = fr /\ mo1 = mo2
      BY <1>7
    <2> QED
      BY <1>1, <1>2, <1>7, <2>1 DEF Owns
  <1> QED
    BY <1>5, <1>6, <1>7

\* The modified list stays shorter than the buffer length.
LEMMA EvictKept ==
    ASSUME NEW k \in Nat, NEW mo \in Seq(Frames), NEW fm, NEW bu, NEW md,
           Kept(k, mo, fm, bu, md), NEW v, fm[v] \in Frames,
           NEW mo1, mo1 = IF v \notin md THEN mo
                          ELSE IF k = Len(mo) + 1 THEN << >>
                          ELSE Append(mo, fm[v])
    PROVE  Kept(k, mo1, fm, bu \cup {v}, md)
  <1>1. /\ Len(mo) \in Nat /\ Len(<< >>) = 0
        /\ Len(Append(mo, fm[v])) = Len(mo) + 1
        /\ \A x : In(x, Append(mo, fm[v])) <=> x = fm[v] \/ In(x, mo)
    BY LenProperties, AppendProperties, AppendMembers, EmptySeq
  <1>2. k = 0 => k # Len(mo) + 1
    BY <1>1
  <1>3. k = 0 \/ Len(mo1) < k
    BY <1>1 DEF Kept
  <1>4. k = 0 => \A x \in bu \cup {v} : x \in md => In(fm[x], mo1)
    BY <1>1, <1>2 DEF Kept
  <1> QED
    BY <1>3, <1>4 DEF Kept

\* allocate_frame and map_frame give page x the head of the free list, which
\* is nobody's buffered frame.
LEMMA TakeOwns ==
    ASSUME NEW fr, NEW mo, NEW ib, NEW ta, NEW fm, NEW pr, NEW bu, NEW md,
           Owns(fr, mo, ib, ta, fm, pr, bu, md), NEW x \in All, x \notin pr,
           Ready(fr, ib)
    PROVE  Owns(Tail(fr), mo, ib, ta, [fm EXCEPT ![x] = Head(fr)],
                pr \cup {x}, bu \ {x}, md \ {x})
  <1> DEFINE f == Head(fr)
             fm1 == [fm EXCEPT ![x] = f]
  <1>1. /\ f \in Frames /\ f \notin ib /\ In(f, fr)
        /\ Tail(fr) \in Seq(Frames) /\ Once(Tail(fr))
        /\ \A y : In(y, Tail(fr)) <=> In(y, fr) /\ y # f
    BY TailMembers DEF Owns, Ready
  <1>2. /\ fm1 \in [All -> Frames \cup {NoFrame}] /\ fm1[x] = f
        /\ \A y \in All : y # x => fm1[y] = fm[y]
    BY <1>1 DEF Owns
  <1>3. \A y \in pr \cup bu : fm[y] # f
    BY <1>1 DEF Owns
  <1> HIDE DEF f, fm1
  <1> QED
    BY <1>1, <1>2, <1>3 DEF Owns, f, fm1

\* table_fault_handler gives the heap of e the head of the free list.
LEMMA NewTableOwns ==
    ASSUME NEW fr, NEW mo, NEW ib, NEW ta, NEW fm, NEW pr, NEW bu, NEW md,
           Owns(fr, mo, ib, ta, fm, pr, bu, md), NEW e \in Envs,
           Ready(fr, ib)
    PROVE  Owns(Tail(fr), mo, ib, [ta EXCEPT ![e] = Head(fr)], fm, pr, bu, md)
  <1> DEFINE f == Head(fr)
             ta1 == [ta EXCEPT ![e] = f]
  <1>1. /\ f \in Frames /\ f \notin ib /\ In(f, fr)
        /\ Tail(fr) \in Seq(Frames) /\ Once(Tail(fr))
        /\ \A y : In(y, Tail(fr)) <=> In(y, fr) /\ y # f
    BY TailMembers DEF Owns, Ready
  <1>2. /\ ta1 \in [Envs -> Frames \cup {NoFrame}] /\ ta1[e] = f
        /\ \A d \in Envs : d # e => ta1[d] = ta[d]
    BY <1>1 DEF Owns
  <1> HIDE DEF f, ta1
  <1> QED
    BY <1>1, <1>2 DEF Owns, f, ta1

\* LIST_REMOVE takes a frame of the list out of it.
LEMMA WithoutMembers ==
    ASSUME NEW q \in Seq(Frames), Once(q), NEW g, In(g, q)
    PROVE  /\ Without(q, g) \in Seq(Frames) /\ Once(Without(q, g))
           /\ \A y : In(y, Without(q, g)) <=> In(y, q) /\ y # g
  <1> DEFINE k == CHOOSE i \in 1 .. Len(q) : q[i] = g
  <1>1. k \in 1 .. Len(q) /\ q[k] = g
    BY DEF In
  <1> HIDE DEF k
  <1> QED
    BY <1>1, RemoveAtMembers DEF Without, k

\* The fault handler takes the frame of a buffered page x back from the list
\* that its modified bit names.
LEMMA TakeBackOwns ==
    ASSUME NEW fr, NEW mo, NEW ib, NEW ta, NEW fm, NEW pr, NEW bu, NEW md,
           Owns(fr, mo, ib, ta, fm, pr, bu, md), NEW x \in bu,
           x \in md => In(fm[x], mo),
           NEW fr1, fr1 = IF x \in md THEN fr ELSE Without(fr, fm[x]),
           NEW mo1, mo1 = IF x \in md THEN Without(mo, fm[x]) ELSE mo
    PROVE  Owns(fr1, mo1, ib \ {fm[x]}, ta, fm, pr \cup {x}, bu \ {x}, md)
  <1> DEFINE g == fm[x]
  <1>1. /\ g \in Frames /\ x \in All /\ x \notin pr
        /\ \A y \in pr \cup bu : y # x => fm[y] # g
    BY DEF Owns
  <1>2. /\ fr1 \in Seq(Frames) /\ Once(fr1)
        /\ \A y : In(y, fr1) <=> In(y, fr) /\ y # g
    BY <1>1, WithoutMembers DEF Owns
  <1>3. /\ mo1 \in Seq(Frames) /\ Once(mo1)
        /\ \A y : In(y, mo1) <=> In(y, mo) /\ y # g
    BY <1>1, WithoutMembers DEF Owns
  <1> QED
    BY <1>1, <1>2, <1>3 DEF Owns

\* Taking a frame back from the modified list makes it shorter.
LEMMA TakeBackKept ==
    ASSUME NEW k \in Nat, NEW mo \in Seq(Frames), Once(mo), NEW fm, NEW bu,
           NEW md, Kept(k, mo, fm, bu, md), NEW x \in bu,
           \A y \in bu : fm[y] = fm[x] => y = x,
           x \in md => In(fm[x], mo),
           NEW mo1, mo1 = IF x \in md THEN Without(mo, fm[x]) ELSE mo
    PROVE  Kept(k, mo1, fm, bu \ {x}, md)
  <1> DEFINE g == fm[x]
  <1>1. CASE x \in md
    <2>1. \A y : In(y, mo1) <=> In(y, mo) /\ y # g
      BY <1>1, WithoutMembers
    <2>2. Len(mo) \in Nat /\ Len(mo1) = Len(mo) - 1
      <3> DEFINE n == CHOOSE i \in 1 .. Len(mo) : mo[i] = g
      <3>1. n \in 1 .. Len(mo)
        BY <1>1 DEF In
      <3> HIDE DEF n
      <3> QED
        BY <1>1, <3>1, RemoveAtFacts DEF Without, n
    <2>3. k = 0 \/ Len(mo1) < k
      BY <2>2 DEF Kept
    <2> QED
      BY <2>1, <2>3 DEF Kept
  <1>2. CASE x \notin md
    BY <1>2 DEF Kept
  <1> QED
    BY <1>1, <1>2

\* unmap_frame gives the frame of a page x back to the free list.
LEMMA UnmapOwns ==
    ASSUME NEW fr, NEW mo, NEW ib, NEW ta, NEW fm, NEW pr, NEW bu, NEW md,
           Owns(fr, mo, ib, ta, fm, pr, bu, md), NEW x \in pr
    PROVE  Owns(Push(fm[x], fr), mo, ib, ta, [fm EXCEPT ![x] = NoFrame],
                pr \ {x}, bu, md \ {x})
  <1> DEFINE f == fm[x]
             fm1 == [fm EXCEPT ![x] = NoFrame]
             fr1 == Push(f, fr)
  <1>1. f \in Frames /\ x \in All /\ x \notin bu /\ ~In(f, fr)
    BY DEF Owns
  <1>2. /\ fr1 \in Seq(Frames) /\ Once(fr1)
        /\ \A y : In(y, fr1) <=> y = f \/ In(y, fr)
    BY <1>1, PushMembers DEF Owns
  <1>3. /\ fm1 \in [All -> Frames \cup {NoFrame}] /\ fm1[x] = NoFrame
        /\ \A y \in All : y # x => fm1[y] = fm[y]
    BY <1>1 DEF Owns
  <1>4. \A y \in pr \cup bu : y # x => fm[y] # f
    BY DEF Owns
  <1>5. ~In(f, mo) /\ \A e \in Envs : ta[e] # f
    BY DEF Owns
  <1> HIDE DEF f, fm1, fr1
  <1> QED
    BY <1>1, <1>2, <1>3, <1>4, <1>5 DEF Owns, f, fm1, fr1

\* freeMem drops the heap table of e, with the entries D of the heap: none of
\* them is in memory.
LEMMA DropTableOwns ==
    ASSUME NEW fr, NEW mo, NEW ib, NEW ta, NEW fm, NEW pr, NEW bu, NEW md,
           Owns(fr, mo, ib, ta, fm, pr, bu, md), NEW e \in Envs,
           ta[e] # NoFrame, NEW D, \A x \in D : x \notin pr,
           NEW fm1, fm1 = [x \in All |-> IF x \in D THEN NoFrame ELSE fm[x]]
    PROVE  Owns(Push(ta[e], fr), mo, ib, [ta EXCEPT ![e] = NoFrame], fm1,
                pr, bu \ D, md \ D)
  <1> DEFINE f == ta[e]
             ta1 == [ta EXCEPT ![e] = NoFrame]
             fr1 == Push(f, fr)
  <1>1. f \in Frames /\ ~In(f, fr) /\ ~In(f, mo)
    BY DEF Owns
  <1>2. /\ fr1 \in Seq(Frames) /\ Once(fr1)
        /\ \A y : In(y, fr1) <=> y = f \/ In(y, fr)
    BY <1>1, PushMembers DEF Owns
  <1>3. /\ fm1 \in [All -> Frames \cup {NoFrame}]
        /\ \A x \in All : fm1[x] = IF x \in D THEN NoFrame ELSE fm[x]
    BY DEF Owns
  <1>4. /\ ta1 \in [Envs -> Frames \cup {NoFrame}] /\ ta1[e] = NoFrame
        /\ \A d \in Envs : d # e => ta1[d] = ta[d] /\ ta[d] # f
    BY <1>1 DEF Owns
  <1>5. \A x \in pr : fm[x] # f
    BY DEF Owns
  <1> HIDE DEF f, ta1, fr1
  <1> QED
    BY <1>1, <1>2, <1>3, <1>4, <1>5 DEF Owns, f, ta1, fr1

-----------------------------------------------------------------------------
(* Working sets: w is the working set of e while the pages pr are present. *)

WSOf(e, w, pr) ==
    /\ \A p \in Pages : <<e, p>> \in pr <=> \E i \in Slots(e) : w[i] = p
    /\ \A i, j \in Slots(e) : w[i] = w[j] /\ w[i] # NoPage => i = j

\* env_page_ws_set_entry puts a page that was not in memory into a slot, empty
\* or with the page that is leaving.
LEMMA SetEntry ==
    ASSUME NEW e \in Envs, NEW w \in [Slots(e) -> Pages \cup {NoPage}],
           NEW pr, WSOf(e, w, pr), NEW i \in Slots(e),
           NEW p \in Pages, <<e, p>> \notin pr,
           NEW w1, w1 = [w EXCEPT ![i] = p],
           NEW pr1, \A q \in Pages :
               <<e, q>> \in pr1 <=> (<<e, q>> \in pr /\ q # w[i]) \/ q = p
    PROVE  WSOf(e, w1, pr1)
  <1>1. /\ w1[i] = p /\ p # NoPage
        /\ \A j \in Slots(e) : j # i => w1[j] = w[j] /\ w[j] # p
    BY DEF WSOf, Pages
  <1>2. ASSUME NEW q \in Pages
        PROVE  <<e, q>> \in pr1 <=> \E j \in Slots(e) : w1[j] = q
    <2>1. CASE q = p
      BY <1>1, <2>1
    <2>2. CASE q # p
      <3>1. <<e, q>> \in pr1 <=> q # w[i] /\ \E j \in Slots(e) : w[j] = q
        BY <2>2 DEF WSOf
      <3>2. q # NoPage
        BY DEF Pages
      <3> QED
        BY <1>1, <2>2, <3>1, <3>2 DEF WSOf
    <2> QED
      BY <2>1, <2>2
  <1>3. \A j, k \in Slots(e) : w1[j] = w1[k] /\ w1[j] # NoPage => j = k
    BY <1>1 DEF WSOf
  <1> QED
    BY <1>2, <1>3 DEF WSOf

\* env_page_ws_invalidate empties the slot of a page that leaves memory.
LEMMA ClearEntry ==
    ASSUME NEW e \in Envs, NEW w \in [Slots(e) -> Pages \cup {NoPage}],
           NEW pr, WSOf(e, w, pr), NEW p \in Pages,
           NEW w1, w1 = [i \in Slots(e) |-> IF w[i] = p THEN NoPage ELSE w[i]],
           NEW pr1, \A q \in Pages :
               <<e, q>> \in pr1 <=> <<e, q>> \in pr /\ q # p
    PROVE  WSOf(e, w1, pr1)
  <1>1. /\ \A i \in Slots(e) : w1[i] = IF w[i] = p THEN NoPage ELSE w[i]
        /\ \A q \in Pages : q # NoPage
    BY DEF Pages
  <1>2. ASSUME NEW q \in Pages
        PROVE  <<e, q>> \in pr1 <=> \E j \in Slots(e) : w1[j] = q
    BY <1>1 DEF WSOf
  <1>3. \A j, k \in Slots(e) : w1[j] = w1[k] /\ w1[j] # NoPage => j = k
    BY <1>1 DEF WSOf
  <1> QED
    BY <1>2, <1>3 DEF WSOf

\* What happens to the pages of e leaves the working sets of others alone.
LEMMA OtherWS ==
    ASSUME NEW d, NEW w, NEW pr, WSOf(d, w, pr),
           NEW pr1, \A q \in Pages : <<d, q>> \in pr1 <=> <<d, q>> \in pr
    PROVE  WSOf(d, w, pr1)
  BY DEF WSOf

-----------------------------------------------------------------------------
(* The inductive invariant. *)

\* What Owns does not type.
Typed ==
    /\ used \subseteq All /\ pf \subseteq All /\ alive \subseteq Envs
    /\ DOMAIN ws = Envs /\ DOMAIN last = Envs
    /\ \A e \in Envs : /\ ws[e] \in [Slots(e) -> Pages \cup {NoPage}]
                       /\ last[e] \in Slots(e)
    /\ mbLen \in Nat
    /\ newestDisk \subseteq All /\ newestMem \subseteq Frames
    /\ dropped \subseteq All
    /\ down \in BOOLEAN

\* Frames have one owner.
Owned == Owns(free, modif, isBuffered, table, frame, present, buffered, modified)

\* The modified list is kept below the buffer length.
Flushed == Kept(mbLen, modif, frame, buffered, modified)

\* The working sets of living environments are exact.
InWS == \A e \in alive : WSOf(e, ws[e], present)

\* A living environment has frames only for pages that the page file has; a
\* page that the page file does not have was never written, and the others are
\* as ContentsKept says.
Written ==
    \A x \in All :
        /\ x \notin pf => x \in newestDisk
        /\ x[1] \in alive =>
              /\ frame[x] # NoFrame => x \in pf
              /\ x \in pf /\ x \notin dropped =>
                    /\ frame[x] # NoFrame => frame[x] \in newestMem
                    /\ frame[x] = NoFrame \/ x \notin modified => x \in newestDisk

Sane == Typed /\ Owned /\ Flushed /\ InWS /\ Written

Inv == TypeOK /\ (~down => Sane)

\* A sane state satisfies the invariant, before and after a step.
LEMMA SaneInv == (Sane => Inv) /\ (Sane' => Inv')
  BY DEF Inv, Sane, Typed, Owned, Owns, TypeOK, All

\* The invariant says that frames are apart and buffered pages can be taken
\* back, that working sets are exact and that contents are kept.
LEMMA InvSafe == Inv => FramesSound /\ WSMatches /\ ContentsKept
  <1> SUFFICES ASSUME Inv, ~down, Sane
               PROVE  /\ FramesApart /\ BufferedKept /\ ModifiedBounded
                      /\ WSMatches /\ ContentsKept
    BY DEF Inv, FramesSound, FramesApart, BufferedKept, ModifiedBounded,
           WSMatches, ContentsKept
  <1>1. free \in Seq(Frames) /\ modif \in Seq(Frames)
    BY DEF Sane, Owned, Owns
  <1>2. \A f : In(f, free \o modif) <=> In(f, free) \/ In(f, modif)
    BY <1>1, ConcatMembers
  <1>3. ~In(NoFrame, free) /\ ~In(NoFrame, modif)
    BY <1>1, MemberType
  <1>4. FrameInOneList
    BY DEF Sane, Owned, Owns, FrameInOneList
  <1>5. \A x \in present : frame[x] # NoFrame /\ ~In(frame[x], free \o modif)
    BY <1>2 DEF Sane, Owned, Owns
  <1>6. \A e \in Envs : /\ ~In(table[e], free \o modif)
                        /\ \A x \in present : frame[x] # table[e]
    BY <1>2, <1>3, <1>5 DEF Sane, Owned, Owns
  <1>7. \A x, y \in present \cup buffered : frame[x] = frame[y] => x = y
    BY DEF Sane, Owned, Owns
  <1>8. FramesApart
    BY <1>4, <1>5, <1>6, <1>7 DEF FramesApart
  <1>9. BufferedKept
    BY DEF Sane, Owned, Owns, Flushed, Kept, BufferedKept
  <1>9a. ModifiedBounded
    BY DEF Sane, Flushed, Kept, ModifiedBounded
  <1>10. WSMatches
    BY DEF Sane, InWS, WSOf, WSMatches
  <1>11. ContentsKept
    BY DEF Sane, Typed, Written, ContentsKept
  <1> QED
    BY <1>8, <1>9, <1>9a, <1>10, <1>11

\* env_create has given every environment a frame of its own and left the
\* others in the free list.
LEMMA InitSane == Init => Sane
  <1> SUFFICES ASSUME Init PROVE Sane
    OBVIOUS
  <1> DEFINE n == Cardinality(Frames)
  <1>1. n \in Nat /\ NEnvs \in Nat /\ NEnvs <= n /\ NEnvs >= 1
    BY FS_CardinalityType
  <1>2. PICK s \in [1 .. n -> Frames] :
          /\ \A i, j \in 1 .. n : s[i] = s[j] => i = j
          /\ free = SubSeq(s, NEnvs + 1, Len(s))
          /\ frame = [x \in Envs \X Pages |->
                         IF x[2] = Top THEN s[x[1]] ELSE NoFrame]
          /\ newestMem = {s[e] : e \in Envs}
    BY DEF Init, Orders
  <1> HIDE DEF n
  <1>3. s \in Seq(Frames) /\ Len(s) = n
    <2>1. s \in Seq(Frames)
      BY <1>1, <1>2, SeqDef
    <2> QED
      BY <1>1, <1>2, <2>1, LenProperties
  <1>4. /\ free \in Seq(Frames)
        /\ Len(free) = n - NEnvs
        /\ \A i \in 1 .. n - NEnvs : free[i] = s[NEnvs + i]
    <2> DEFINE t == SubSeq(s, NEnvs + 1, n)
    <2>1. \A i \in NEnvs + 1 .. n : s[i] \in Frames
      BY <1>1, <1>2
    <2>2. /\ t \in Seq(Frames)
          /\ Len(t) = IF NEnvs + 1 <= n THEN n - (NEnvs + 1) + 1 ELSE 0
          /\ \A i \in 1 .. n - (NEnvs + 1) + 1 : t[i] = s[NEnvs + 1 + i - 1]
      BY <1>1, <2>1, SubSeqProperties
    <2>3. free = t
      BY <1>2, <1>3
    <2> HIDE DEF t
    <2>4. Len(t) = n - NEnvs /\ n - (NEnvs + 1) + 1 = n - NEnvs
      BY <1>1, <2>2
    <2>5. \A i \in 1 .. n - NEnvs : t[i] = s[NEnvs + i]
      BY <1>1, <2>2, <2>4
    <2> QED
      BY <2>2, <2>3, <2>4, <2>5
  <1>5. Once(free) /\ \A e \in Envs : ~In(s[e], free)
    <2> DEFINE m == n - NEnvs
    <2>0. \A i, j \in 1 .. n : s[i] = s[j] => i = j
      BY <1>2
    <2>1. m \in Nat /\ NEnvs + m = n /\ Len(free) = m
      BY <1>1, <1>4
    <2>1a. \A i \in 1 .. m : NEnvs + i \in 1 .. n /\ free[i] = s[NEnvs + i]
      BY <1>1, <1>4
    <2> HIDE DEF m
    <2>2. Once(free)
      <3> SUFFICES ASSUME NEW i \in 1 .. m, NEW j \in 1 .. m, free[i] = free[j]
                   PROVE  i = j
        BY <2>1 DEF Once
      <3>1. NEnvs + i = NEnvs + j
        BY <2>0, <2>1a
      <3> QED
        BY <1>1, <3>1
    <2>3. \A e \in Envs : e \in 1 .. n /\ \A i \in 1 .. m : NEnvs + i # e
      BY <1>1 DEF Envs
    <2>4. ASSUME NEW e \in Envs, In(s[e], free) PROVE FALSE
      <3>1. PICK i \in 1 .. m : free[i] = s[e]
        BY <2>1, <2>4 DEF In
      <3>2. NEnvs + i = e
        BY <2>0, <2>1a, <2>3, <3>1
      <3> QED
        BY <2>3, <3>2
    <2> QED
      BY <2>2, <2>4
  <1>6. \A e \in Envs : e \in 1 .. n /\ s[e] \in Frames
    BY <1>1, <1>2 DEF Envs
  <1>7. modif = << >> /\ modif \in Seq(Frames) /\ Once(modif) /\ \A f : ~In(f, modif)
    BY EmptySeq, EmptyList DEF Init
  <1>8. /\ present = Envs \X {Top} /\ buffered = {} /\ modified = present
        /\ isBuffered = {} /\ table = [e \in Envs |-> NoFrame] /\ Top \in Pages
    BY DEF Init, Pages
  <1>9. /\ frame \in [All -> Frames \cup {NoFrame}]
        /\ \A x \in present : x \in All /\ x[1] \in Envs /\ x[2] = Top /\ frame[x] = s[x[1]]
        /\ \A x \in All : frame[x] # NoFrame => x \in present
    BY <1>2, <1>6, <1>8 DEF All
  <1>10. \A x, y \in present : frame[x] = frame[y] => x = y
    <2> SUFFICES ASSUME NEW x \in present, NEW y \in present, frame[x] = frame[y]
                 PROVE  x = y
      OBVIOUS
    <2>1. x[1] = y[1] /\ x[2] = y[2]
      BY <1>2, <1>6, <1>9
    <2> QED
      BY <1>8, <2>1
  <1>11. Owned
    BY <1>4, <1>5, <1>6, <1>7, <1>8, <1>9, <1>10 DEF Owned, Owns
  <1>12. Typed
    <2>1. used \subseteq All /\ pf \subseteq All /\ dropped \subseteq All
      BY <1>8, <1>9 DEF Init
    <2>2. newestMem \subseteq Frames
      BY <1>2, <1>6
    <2>2a. newestDisk \subseteq All /\ alive \subseteq Envs
      BY DEF Init, All
    <2>3. \A e \in Envs : /\ ws[e] \in [Slots(e) -> Pages \cup {NoPage}]
                          /\ last[e] \in Slots(e)
      <3> SUFFICES ASSUME NEW e \in Envs
                   PROVE  /\ ws[e] \in [Slots(e) -> Pages \cup {NoPage}]
                          /\ last[e] \in Slots(e)
        OBVIOUS
      <3>1. WSMax[e] \in Nat \ {0}
        BY DEF Envs
      <3>2. last[e] = 1 % WSMax[e]
        BY DEF Init
      <3>3. 1 % WSMax[e] \in Slots(e)
        BY <3>1 DEF Slots
      <3>4. ws[e] = [i \in Slots(e) |-> IF i = 0 THEN Top ELSE NoPage]
        BY DEF Init
      <3> QED
        BY <1>8, <3>2, <3>3, <3>4
    <2>4. DOMAIN ws = Envs /\ DOMAIN last = Envs /\ mbLen \in Nat /\ down \in BOOLEAN
      BY DEF Init
    <2> QED
      BY <2>1, <2>2, <2>2a, <2>3, <2>4 DEF Typed
  <1>13. InWS
    <2> SUFFICES ASSUME NEW e \in Envs PROVE WSOf(e, ws[e], present)
      BY DEF InWS, Init
    <2>1. ws[e] = [i \in Slots(e) |-> IF i = 0 THEN Top ELSE NoPage]
      BY DEF Init
    <2>2. 0 \in Slots(e) /\ \A q \in Pages : q # NoPage
      BY DEF Slots, Envs, Pages
    <2> QED
      BY <1>8, <2>1, <2>2 DEF WSOf
  <1>14. Written
    BY <1>2, <1>6, <1>8, <1>9 DEF Written, Init, All
  <1>15. Flushed
    <2>1. Len(modif) = 0 /\ mbLen \in Nat
      BY <1>7, <1>12, EmptySeq DEF Typed
    <2> QED
      BY <1>8, <2>1 DEF Flushed, Kept
  <1> QED
    BY <1>11, <1>12, <1>13, <1>14, <1>15 DEF Sane

-----------------------------------------------------------------------------
(* User code. *)

\* Who runs is alive in a sane state, and its page is a page.
LEMMA Running ==
    ASSUME Inv, NEW e \in Envs, NEW p \in Pages, Runs(e)
    PROVE  /\ Sane /\ ~down /\ e \in alive
           /\ <<e, p>> \in All /\ <<e, p>>[1] = e /\ <<e, p>>[2] = p
  BY DEF Inv, Runs, All

\* A read sets a used bit, and nothing that matters here depends on it.
LEMMA ReadSane ==
    ASSUME Inv, NEW e \in Envs, NEW p \in Pages, Read(e, p)
    PROVE  Sane'
  <1>1. Sane /\ <<e, p>> \in All
    BY Running DEF Read
  <1> QED
    BY <1>1 DEF Read, Sane, Typed, Owned, Flushed, InWS, Written, lists, sets, ghosts

\* A write is to a page in memory: its frame is newest now, and the page is
\* marked modified.
LEMMA WriteSane ==
    ASSUME Inv, NEW e \in Envs, NEW p \in Pages, Write(e, p)
    PROVE  Sane'
  <1> DEFINE x == <<e, p>>
  <1>1. Sane /\ e \in alive /\ x \in All /\ x[1] = e /\ x \in present
    BY Running DEF Write
  <1>2. frame[x] \in Frames /\ x \notin buffered
    BY <1>1 DEF Sane, Owned, Owns
  <1>3. /\ used' = used \cup {x} /\ modified' = modified \cup {x}
        /\ newestMem' = newestMem \cup {frame[x]}
        /\ newestDisk' = newestDisk \ {x} /\ dropped' = dropped \ {x}
        /\ UNCHANGED <<free, modif, isBuffered, table, frame, present, buffered,
                       ws, last, pf, alive, mbLen, down>>
    BY DEF Write, lists, sets
  <1> HIDE DEF x
  <1>4. Owned'
    BY <1>1, <1>2, <1>3 DEF Sane, Owned, Owns
  <1>5. Typed'
    BY <1>1, <1>2, <1>3 DEF Sane, Typed
  <1>6. InWS'
    BY <1>1, <1>3 DEF Sane, InWS
  <1>7. Written'
    BY <1>1, <1>2, <1>3 DEF Sane, Written
  <1>8. Flushed'
    BY <1>1, <1>2, <1>3 DEF Sane, Flushed, Kept
  <1> QED
    BY <1>4, <1>5, <1>6, <1>7, <1>8 DEF Sane

\* The death of an environment changes nothing else.
LEMMA ExitSane ==
    ASSUME Sane, NEW e, alive' = alive \ {e},
           UNCHANGED <<lists, tables, sets, pf, mbLen, ghosts, down>>
    PROVE  Sane'
  BY DEF Sane, Typed, Owned, Flushed, InWS, Written, lists, tables, sets, ghosts

\* allocateMem adds a page that has no frame.
LEMMA AllocateSane ==
    ASSUME Inv, NEW e \in Envs, NEW p \in Pages, AllocateMem(e, p)
    PROVE  Sane'
  <1> DEFINE x == <<e, p>>
  <1>1. Sane /\ e \in alive /\ x \in All /\ x[1] = e /\ x \notin pf
    BY Running DEF AllocateMem
  <1>2. frame[x] = NoFrame
    BY <1>1 DEF Sane, Written
  <1>3. /\ pf' = pf \cup {x} /\ newestDisk' = newestDisk \cup {x}
        /\ dropped' = dropped \ {x}
        /\ UNCHANGED <<free, modif, isBuffered, table, frame, present, buffered,
                       used, modified, ws, last, alive, mbLen, newestMem, down>>
    BY DEF AllocateMem, lists, tables, sets
  <1> HIDE DEF x
  <1>4. Owned' /\ Flushed' /\ InWS'
    BY <1>1, <1>3 DEF Sane, Owned, Flushed, InWS
  <1>5. Typed'
    BY <1>1, <1>3 DEF Sane, Typed
  <1>6. Written'
    BY <1>1, <1>2, <1>3 DEF Sane, Written
  <1> QED
    BY <1>4, <1>5, <1>6 DEF Sane

\* A kernel that follows a NULL pointer keeps the types of its variables.
LEMMA BrokenInv == ASSUME Inv, Broken PROVE Inv'
  BY DEF Broken, Inv, TypeOK, lists, tables, sets, ghosts

-----------------------------------------------------------------------------
(* Faults with room in the working set. *)

\* A table fault gives the table a frame, ends the environment, or stops.
LEMMA TableFaultInv ==
    ASSUME Inv, NEW e \in Envs, NEW p \in Pages, TableFault(e, p)
    PROVE  Inv'
  <1>1. Sane /\ e \in alive
    BY Running DEF TableFault
  <1>2. CASE /\ Ready(free, isBuffered)
             /\ table' = [table EXCEPT ![e] = Head(free)]
             /\ free' = Tail(free)
             /\ UNCHANGED <<modif, isBuffered, frame, present, buffered, used,
                            modified, sets, pf, alive, mbLen, ghosts, down>>
    <2>1. Owned'
      BY <1>1, <1>2, NewTableOwns DEF Sane, Owned
    <2>2. Typed' /\ Flushed' /\ InWS' /\ Written'
      BY <1>1, <1>2 DEF Sane, Typed, Flushed, InWS, Written, sets, ghosts
    <2> QED
      BY <2>1, <2>2, SaneInv DEF Sane
  <1>3. CASE /\ alive' = alive \ {e}
             /\ UNCHANGED <<lists, tables, sets, pf, mbLen, ghosts, down>>
    BY <1>1, <1>3, ExitSane, SaneInv
  <1>4. CASE Broken
    BY <1>4, BrokenInv
  <1> QED
    BY <1>2, <1>3, <1>4 DEF TableFault

\* Indices of a working set wrap around.
LEMMA Wrap ==
    ASSUME NEW e \in Envs, NEW i \in Slots(e)
    PROVE  (i + 1) % WSMax[e] \in Slots(e)
  <1>1. WSMax[e] \in Nat \ {0} /\ i + 1 \in Nat
    BY DEF Slots, Envs
  <1> QED
    BY <1>1 DEF Slots

\* The head of the free list may become the frame of a page x that is not in
\* memory: the contents of every other page stay what they are.
LEMMA MapContents ==
    ASSUME Sane, NEW e \in Envs, NEW p \in Pages, NEW fr, NEW mo, NEW ib,
           NEW pr, NEW bu,
           Owns(fr, mo, ib, table, frame, pr, bu, modified),
           Ready(fr, ib), Map(e, p, Head(fr)), <<e, p>> \notin pr
    PROVE  /\ newestMem' \subseteq Frames
           /\ frame' = [frame EXCEPT ![<<e, p>>] = Head(fr)]
           /\ frame'[<<e, p>>] = Head(fr) /\ Head(fr) \in Frames
           /\ \A y \in All : y # <<e, p>> =>
                 /\ frame'[y] = frame[y]
                 /\ frame[y] # NoFrame /\ frame[y] \in newestMem =>
                       frame[y] \in newestMem'
           /\ <<e, p>> \in newestDisk => Head(fr) \in newestMem'
  <1> DEFINE x == <<e, p>>
             f == Head(fr)
  <1>1. f \in Frames /\ f \notin ib /\ In(f, fr)
    BY TailMembers DEF Owns, Ready
  <1>2. \A y \in pr \cup bu : frame[y] # f
    BY <1>1 DEF Owns
  <1>3. x \in All /\ newestMem \subseteq Frames /\ frame \in [All -> Frames \cup {NoFrame}]
    BY DEF All, Sane, Typed, Owned, Owns
  <1>4. /\ frame' = [frame EXCEPT ![x] = f]
        /\ newestMem' = IF x \in newestDisk
                        THEN newestMem \cup {f} ELSE newestMem \ {f}
    BY DEF Map
  <1>5. \A y \in All : frame[y] # NoFrame => y \in pr \cup bu
    BY DEF Owns
  <1> HIDE DEF x, f
  <1>6. \A y \in All : y # x => frame'[y] = frame[y]
    BY <1>3, <1>4
  <1>7. frame'[x] = f
    BY <1>3, <1>4
  <1> QED
    BY <1>1, <1>2, <1>3, <1>4, <1>5, <1>6, <1>7 DEF x, f

\* Placement: the page gets a frame and the first empty slot.
LEMMA PlacementSane ==
    ASSUME Inv, NEW e \in Envs, NEW p \in Pages, Faults(e, p), Placement(e, p)
    PROVE  Sane'
  <1> DEFINE x == <<e, p>>
             f == Head(free)
  <1>1. Sane /\ e \in alive /\ x \in All /\ x[1] = e /\ x \notin present
    BY Running DEF Faults
  <1>2. /\ Ready(free, isBuffered) /\ Map(e, p, f)
        /\ free' = Tail(free)
        /\ present' = present \cup {x} /\ buffered' = buffered \ {x}
        /\ used' = used \cup {x} /\ modified' = modified \ {x}
        /\ pf' = pf \cup {x} /\ dropped' = dropped \cup ({x} \ newestDisk)
        /\ last' = [last EXCEPT ![e] = (last[e] + 1) % WSMax[e]]
        /\ UNCHANGED <<modif, isBuffered, table, alive, mbLen, newestDisk, down>>
    BY DEF Placement
  <1>3. PICK i \in Slots(e) : ws[e][i] = NoPage /\ ws' = [ws EXCEPT ![e][i] = p]
    BY DEF Placement, FirstEmpty
  <1>4. Owns(free, modif, isBuffered, table, frame, present, buffered, modified)
    BY <1>1 DEF Sane, Owned
  <1>5. /\ newestMem' \subseteq Frames
        /\ frame' = [frame EXCEPT ![x] = f]
        /\ frame'[x] = f /\ f \in Frames
        /\ \A y \in All : y # x =>
              /\ frame'[y] = frame[y]
              /\ frame[y] # NoFrame /\ frame[y] \in newestMem =>
                    frame[y] \in newestMem'
        /\ x \in newestDisk => f \in newestMem'
    BY <1>1, <1>2, <1>4, MapContents
  <1>6. Owned'
    BY <1>1, <1>2, <1>4, <1>5, TakeOwns DEF Owned
  <1>7. /\ ws'[e] = [ws[e] EXCEPT ![i] = p]
        /\ DOMAIN ws' = Envs
        /\ \A d \in Envs : d # e => ws'[d] = ws[d]
        /\ ws[e] \in [Slots(e) -> Pages \cup {NoPage}]
    BY <1>1, <1>3 DEF Sane, Typed
  <1>8. /\ (last[e] + 1) % WSMax[e] \in Slots(e)
        /\ DOMAIN last' = Envs /\ last'[e] = (last[e] + 1) % WSMax[e]
        /\ \A d \in Envs : d # e => last'[d] = last[d]
    BY <1>1, <1>2, Wrap DEF Sane, Typed
  <1>9. Typed'
    <2>1. \A d \in Envs : /\ ws'[d] \in [Slots(d) -> Pages \cup {NoPage}]
                          /\ last'[d] \in Slots(d)
      <3>1. ws'[e] \in [Slots(e) -> Pages \cup {NoPage}] /\ last'[e] \in Slots(e)
        BY <1>7, <1>8
      <3>2. ASSUME NEW d \in Envs, d # e
            PROVE  /\ ws'[d] \in [Slots(d) -> Pages \cup {NoPage}]
                   /\ last'[d] \in Slots(d)
        BY <1>1, <1>7, <1>8, <3>2 DEF Sane, Typed
      <3> QED
        BY <3>1, <3>2
    <2> QED
      BY <1>1, <1>2, <1>5, <1>7, <1>8, <2>1 DEF Sane, Typed
  <1>10. InWS'
    <2>1. WSOf(e, ws'[e], present')
      <3>1. \A q \in Pages :
              <<e, q>> \in present' <=> (<<e, q>> \in present /\ q # ws[e][i]) \/ q = p
        BY <1>2, <1>3 DEF Pages
      <3> QED
        BY <1>1, <1>7, <3>1, SetEntry DEF Sane, InWS
    <2>2. ASSUME NEW d \in alive, d # e PROVE WSOf(d, ws'[d], present')
      <3>1. \A q \in Pages : <<d, q>> \in present' <=> <<d, q>> \in present
        BY <1>2, <2>2
      <3>2. ws'[d] = ws[d] /\ WSOf(d, ws[d], present)
        BY <1>1, <1>7, <2>2 DEF Sane, InWS, Typed
      <3>3. WSOf(d, ws[d], present')
        BY <3>1, <3>2, OtherWS
      <3> QED
        BY <3>2, <3>3
    <2> QED
      BY <1>2, <2>1, <2>2 DEF InWS
  <1> HIDE DEF x, f
  <1>11. Written'
    BY <1>1, <1>2, <1>5 DEF Sane, Written
  <1>12. Flushed'
    BY <1>1, <1>2, <1>4, <1>5 DEF Sane, Flushed, Kept, Owns
  <1> QED
    BY <1>6, <1>9, <1>10, <1>11, <1>12 DEF Sane

\* The page is not allowed: it gets the frame and its environment ends.
LEMMA PlacementPanicSane ==
    ASSUME Inv, NEW e \in Envs, NEW p \in Pages, Faults(e, p),
           PlacementPanic(e, p)
    PROVE  Sane'
  <1> DEFINE x == <<e, p>>
             f == Head(free)
  <1>1. Sane /\ e \in alive /\ x \in All /\ x[1] = e /\ x \notin present
    BY Running DEF Faults
  <1>2. /\ Ready(free, isBuffered) /\ Map(e, p, f)
        /\ free' = Tail(free)
        /\ present' = present \cup {x} /\ buffered' = buffered \ {x}
        /\ used' = used \ {x} /\ modified' = modified \ {x}
        /\ alive' = alive \ {e}
        /\ UNCHANGED <<modif, isBuffered, table, ws, last, pf, mbLen,
                       newestDisk, dropped, down>>
    BY DEF PlacementPanic, sets
  <1>3. Owns(free, modif, isBuffered, table, frame, present, buffered, modified)
    BY <1>1 DEF Sane, Owned
  <1>4. /\ newestMem' \subseteq Frames
        /\ frame' = [frame EXCEPT ![x] = f]
        /\ \A y \in All : y # x =>
              /\ frame'[y] = frame[y]
              /\ frame[y] # NoFrame /\ frame[y] \in newestMem =>
                    frame[y] \in newestMem'
    BY <1>1, <1>2, <1>3, MapContents
  <1>5. Owned'
    BY <1>1, <1>2, <1>3, <1>4, TakeOwns DEF Owned
  <1>6. Typed'
    BY <1>1, <1>2, <1>4 DEF Sane, Typed
  <1>7. InWS'
    <2> SUFFICES ASSUME NEW d \in alive, d # e PROVE WSOf(d, ws[d], present')
      BY <1>2 DEF InWS
    <2>1. \A q \in Pages : <<d, q>> \in present' <=> <<d, q>> \in present
      BY <1>2
    <2> QED
      BY <1>1, <2>1, OtherWS DEF Sane, InWS
  <1> HIDE DEF x, f
  <1>8. Written'
    BY <1>1, <1>2, <1>4 DEF Sane, Written
  <1>9. Flushed'
    BY <1>1, <1>2, <1>3, <1>4 DEF Sane, Flushed, Kept, Owns
  <1> QED
    BY <1>5, <1>6, <1>7, <1>8, <1>9 DEF Sane

-----------------------------------------------------------------------------
(* Faults with a full working set. *)

\* The page in a slot of a living environment is in memory, and after its
\* eviction frames still have one owner each.
LEMMA VictimLeaves ==
    ASSUME Sane, NEW e \in alive, NEW i \in Slots(e), Full(e),
           NEW v, v = <<e, ws[e][i]>>
    PROVE  /\ e \in Envs /\ ws[e][i] \in Pages
           /\ v \in present /\ v \in All /\ v[1] = e /\ v \notin buffered
           /\ frame[v] \in Frames
           /\ Owns(FreeAfter(v, frame[v]), ModifAfter(v, frame[v]),
                   isBuffered \cup {frame[v]}, table, frame,
                   present \ {v}, buffered \cup {v}, modified)
           /\ Kept(mbLen, ModifAfter(v, frame[v]), frame,
                   buffered \cup {v}, modified)
  <1>1. /\ e \in Envs /\ ws[e] \in [Slots(e) -> Pages \cup {NoPage}]
        /\ WSOf(e, ws[e], present)
    BY DEF Sane, Typed, InWS
  <1>2. ws[e][i] \in Pages
    BY <1>1 DEF Full
  <1>3. v \in present /\ v \in All /\ v[1] = e
    BY <1>1, <1>2 DEF WSOf, All
  <1>4. Owns(free, modif, isBuffered, table, frame, present, buffered, modified)
    BY DEF Sane, Owned
  <1>5. frame[v] \in Frames /\ v \notin buffered
    BY <1>3, <1>4 DEF Owns
  <1>6. Owns(FreeAfter(v, frame[v]), ModifAfter(v, frame[v]),
             isBuffered \cup {frame[v]}, table, frame,
             present \ {v}, buffered \cup {v}, modified)
    <2> DEFINE fl == mbLen = Len(modif) + 1
               f == frame[v]
               fr1 == FreeAfter(v, f)
               mo1 == ModifAfter(v, f)
    <2>1. /\ fr1 = IF v \notin modified THEN Append(free, f)
                   ELSE IF fl THEN free \o Append(modif, f) ELSE free
          /\ mo1 = IF v \notin modified THEN modif
                   ELSE IF fl THEN << >> ELSE Append(modif, f)
      BY DEF FreeAfter, ModifAfter, Flushes
    <2> HIDE DEF fl, fr1, mo1
    <2> QED
      BY <1>3, <1>4, <2>1, EvictOwns DEF fr1, mo1
  <1>7. Kept(mbLen, ModifAfter(v, frame[v]), frame, buffered \cup {v}, modified)
    <2> DEFINE mo1 == ModifAfter(v, frame[v])
    <2>1. mo1 = IF v \notin modified THEN modif
                ELSE IF mbLen = Len(modif) + 1 THEN << >>
                ELSE Append(modif, frame[v])
      BY DEF ModifAfter, Flushes
    <2>2. /\ mbLen \in Nat /\ modif \in Seq(Frames)
          /\ Kept(mbLen, modif, frame, buffered, modified)
      BY <1>4 DEF Sane, Typed, Flushed, Owns
    <2> HIDE DEF mo1
    <2> QED
      BY <1>5, <2>1, <2>2, EvictKept DEF mo1
  <1> QED
    BY <1>1, <1>2, <1>3, <1>5, <1>6, <1>7

\* A slot is set and the clock hand moves behind it.
LEMMA SlotSet ==
    ASSUME Sane, NEW e \in Envs, NEW i \in Slots(e),
           NEW q \in Pages \cup {NoPage}, ws' = [ws EXCEPT ![e][i] = q],
           last' = [last EXCEPT ![e] = (i + 1) % WSMax[e]]
    PROVE  /\ DOMAIN ws' = Envs /\ DOMAIN last' = Envs
           /\ \A d \in Envs : /\ ws'[d] \in [Slots(d) -> Pages \cup {NoPage}]
                              /\ last'[d] \in Slots(d)
           /\ ws'[e] = [ws[e] EXCEPT ![i] = q]
           /\ \A d \in Envs : d # e => ws'[d] = ws[d]
  <1>1. /\ ws'[e] = [ws[e] EXCEPT ![i] = q]
        /\ DOMAIN ws' = Envs
        /\ \A d \in Envs : d # e => ws'[d] = ws[d]
        /\ ws[e] \in [Slots(e) -> Pages \cup {NoPage}]
    BY DEF Sane, Typed
  <1>2. /\ (i + 1) % WSMax[e] \in Slots(e)
        /\ DOMAIN last' = Envs /\ last'[e] = (i + 1) % WSMax[e]
        /\ \A d \in Envs : d # e => last'[d] = last[d]
    BY Wrap DEF Sane, Typed
  <1>3. ws'[e] \in [Slots(e) -> Pages \cup {NoPage}] /\ last'[e] \in Slots(e)
    BY <1>1, <1>2
  <1>4. ASSUME NEW d \in Envs, d # e
        PROVE  /\ ws'[d] \in [Slots(d) -> Pages \cup {NoPage}]
               /\ last'[d] \in Slots(d)
    BY <1>1, <1>2, <1>4 DEF Sane, Typed
  <1> QED
    BY <1>1, <1>2, <1>3, <1>4

\* The working sets of the others stay exact.
LEMMA OthersInWS ==
    ASSUME Sane, NEW e, \A d \in Envs : d # e => ws'[d] = ws[d],
           \A d \in Envs : \A q \in Pages :
               d # e => (<<d, q>> \in present' <=> <<d, q>> \in present)
    PROVE  \A d \in alive : d # e => WSOf(d, ws'[d], present')
  <1> SUFFICES ASSUME NEW d \in alive, d # e PROVE WSOf(d, ws'[d], present')
    OBVIOUS
  <1>1. /\ d \in Envs /\ ws'[d] = ws[d] /\ WSOf(d, ws[d], present)
        /\ \A q \in Pages : <<d, q>> \in present' <=> <<d, q>> \in present
    BY DEF Sane, InWS, Typed
  <1>2. WSOf(d, ws[d], present')
    BY <1>1, OtherWS
  <1> QED
    BY <1>1, <1>2

\* The fault page takes the slot of the victim.
LEMMA Replaced ==
    ASSUME Sane, NEW e \in alive, NEW p \in Pages, NEW i \in Slots(e), Full(e),
           <<e, p>> \notin present, ws' = [ws EXCEPT ![e][i] = p],
           last' = [last EXCEPT ![e] = (i + 1) % WSMax[e]],
           present' = (present \ {<<e, ws[e][i]>>}) \cup {<<e, p>>},
           alive' = alive
    PROVE  InWS'
  <1>1. e \in Envs /\ ws[e][i] \in Pages
    BY VictimLeaves
  <1>2. /\ ws'[e] = [ws[e] EXCEPT ![i] = p]
        /\ \A d \in Envs : d # e => ws'[d] = ws[d]
        /\ ws[e] \in [Slots(e) -> Pages \cup {NoPage}]
    BY <1>1, SlotSet DEF Sane, Typed
  <1>3. \A q \in Pages :
          <<e, q>> \in present' <=> (<<e, q>> \in present /\ q # ws[e][i]) \/ q = p
    BY <1>1
  <1>4. WSOf(e, ws'[e], present')
    <2>1. WSOf(e, ws[e], present)
      BY DEF Sane, InWS
    <2>2. WSOf(e, [ws[e] EXCEPT ![i] = p], present')
      BY <1>1, <1>2, <1>3, <2>1, SetEntry
    <2> QED
      BY <1>2, <2>2
  <1>5. \A d \in Envs : \A q \in Pages :
          d # e => (<<d, q>> \in present' <=> <<d, q>> \in present)
    OBVIOUS
  <1>6. \A d \in alive : d # e => WSOf(d, ws'[d], present')
    BY <1>2, <1>5, OthersInWS
  <1> QED
    BY <1>4, <1>6 DEF InWS

\* A panic after the victim has left.
LEMMA EvictPanicSane ==
    ASSUME Sane, NEW e \in alive, NEW i \in Slots(e), Full(e), EvictPanic(e, i)
    PROVE  Sane'
  <1> DEFINE v == <<e, ws[e][i]>>
             f == frame[v]
  <1>1. /\ e \in Envs /\ v \in All /\ v[1] = e
        /\ Owns(FreeAfter(v, f), ModifAfter(v, f), isBuffered \cup {f}, table,
                frame, present \ {v}, buffered \cup {v}, modified)
        /\ Kept(mbLen, ModifAfter(v, f), frame, buffered \cup {v}, modified)
    BY VictimLeaves
  <1>2. /\ free' = FreeAfter(v, f) /\ modif' = ModifAfter(v, f)
        /\ isBuffered' = isBuffered \cup {f}
        /\ used' = used \ {<<e, ws[e][j]>> : j \in Cleared(e, i)}
        /\ present' = present \ {v} /\ buffered' = buffered \cup {v}
        /\ ws' = [ws EXCEPT ![e][i] = NoPage]
        /\ last' = [last EXCEPT ![e] = (i + 1) % WSMax[e]]
        /\ alive' = alive \ {e}
        /\ UNCHANGED <<table, frame, modified, pf, mbLen, newestDisk, newestMem,
                       dropped, down>>
    BY DEF EvictPanic, UsedAfter, ghosts
  <1>3. Owned' /\ Flushed'
    BY <1>1, <1>2 DEF Owned, Flushed
  <1>4. /\ DOMAIN ws' = Envs /\ DOMAIN last' = Envs
        /\ \A d \in Envs : /\ ws'[d] \in [Slots(d) -> Pages \cup {NoPage}]
                           /\ last'[d] \in Slots(d)
        /\ \A d \in Envs : d # e => ws'[d] = ws[d]
    BY <1>1, <1>2, SlotSet
  <1>5. Typed'
    BY <1>2, <1>4 DEF Sane, Typed
  <1>6. \A d \in Envs : \A q \in Pages :
          d # e => (<<d, q>> \in present' <=> <<d, q>> \in present)
    BY <1>2
  <1>7. InWS'
    BY <1>2, <1>4, <1>6, OthersInWS DEF InWS
  <1>8. Written'
    BY <1>2 DEF Sane, Written
  <1> QED
    BY <1>3, <1>5, <1>7, <1>8 DEF Sane

\* The fault page is taken back from its list; from the wrong one only the
\* types survive.
LEMMA ReclaimInv ==
    ASSUME Sane, TypeOK, NEW e \in alive, NEW p \in Pages, NEW i \in Slots(e),
           Full(e), <<e, p>> \notin present, Reclaim(e, p, i)
    PROVE  Inv'
  <1> DEFINE x == <<e, p>>
             v == <<e, ws[e][i]>>
             f == frame[v]
             g == frame[x]
             fr == FreeAfter(v, f)
             mo == ModifAfter(v, f)
             wrong == x \in modified /\ ~In(g, mo)
  <1>1. /\ e \in Envs /\ v \in All /\ v \in present /\ x \in All
        /\ Owns(fr, mo, isBuffered \cup {f}, table,
                frame, present \ {v}, buffered \cup {v}, modified)
        /\ Kept(mbLen, mo, frame, buffered \cup {v}, modified)
    BY VictimLeaves DEF All
  <1>2. /\ x \in buffered
        /\ free' = IF x \in modified /\ ~wrong THEN fr ELSE Without(fr, g)
        /\ modif' = IF x \in modified /\ ~wrong THEN Without(mo, g) ELSE mo
        /\ down' = wrong
        /\ isBuffered' = (isBuffered \cup {f}) \ {g}
        /\ present' = (present \ {v}) \cup {x}
        /\ buffered' = (buffered \cup {v}) \ {x}
        /\ used' = used \ {<<e, ws[e][j]>> : j \in Cleared(e, i)}
        /\ ws' = [ws EXCEPT ![e][i] = p]
        /\ last' = [last EXCEPT ![e] = (i + 1) % WSMax[e]]
        /\ UNCHANGED <<table, frame, modified, pf, alive, mbLen, newestDisk,
                       newestMem, dropped>>
    BY DEF Reclaim, UsedAfter, ghosts
  <1>3. /\ DOMAIN ws' = Envs /\ DOMAIN last' = Envs
        /\ \A d \in Envs : /\ ws'[d] \in [Slots(d) -> Pages \cup {NoPage}]
                           /\ last'[d] \in Slots(d)
    BY <1>1, <1>2, SlotSet
  <1>4. wrong \in BOOLEAN
    OBVIOUS
  <1>5. Typed'
    BY <1>2, <1>3, <1>4 DEF Sane, Typed
  <1>6. CASE ~wrong
    <2>1. Owned'
      <3>1. /\ x \in modified => In(frame[x], mo)
            /\ free' = IF x \in modified THEN fr ELSE Without(fr, frame[x])
            /\ modif' = IF x \in modified THEN Without(mo, frame[x]) ELSE mo
        BY <1>2, <1>6
      <3> HIDE DEF x, v, f, fr, mo, wrong
      <3> QED
        BY <1>1, <1>2, <3>1, TakeBackOwns DEF Owned, g
    <2>2. Flushed'
      <3>1. /\ x \in modified => In(frame[x], mo)
            /\ modif' = IF x \in modified THEN Without(mo, frame[x]) ELSE mo
            /\ mbLen \in Nat
        BY <1>2, <1>6 DEF Sane, Typed
      <3>2. /\ mo \in Seq(Frames) /\ Once(mo)
            /\ \A y \in buffered \cup {v} : frame[y] = frame[x] => y = x
        BY <1>1, <1>2 DEF Owns
      <3> HIDE DEF x, v, f, fr, mo, wrong
      <3> QED
        BY <1>1, <1>2, <3>1, <3>2, TakeBackKept DEF Flushed
    <2>3. InWS'
      BY <1>2, Replaced
    <2>4. Written'
      BY <1>2 DEF Sane, Written
    <2> QED
      BY <1>5, <2>1, <2>2, <2>3, <2>4, SaneInv DEF Sane
  <1>7. CASE wrong
    <2>1. /\ fr \in Seq(Frames) /\ mo \in Seq(Frames) /\ Once(fr) /\ In(g, fr)
          /\ f \in Frames
      BY <1>1, <1>2, <1>7, VictimLeaves DEF Owns
    <2>2. Without(fr, g) \in Seq(Frames)
      <3> HIDE DEF fr, g
      <3> QED
        BY <2>1, WithoutMembers
    <2>3. free' \in Seq(Frames) /\ modif' \in Seq(Frames)
      BY <1>2, <1>7, <2>1, <2>2
    <2>4. /\ isBuffered' \subseteq Frames /\ present' \subseteq Envs \X Pages
          /\ buffered' \subseteq Envs \X Pages
      BY <1>1, <1>2, <2>1 DEF TypeOK, All
    <2>5. TypeOK'
      BY <1>2, <1>5, <2>3, <2>4 DEF TypeOK, Typed, All
    <2> QED
      BY <1>2, <1>7, <2>5 DEF Inv
  <1> QED
    BY <1>6, <1>7

\* The fault page is read from the page file into the head of the free list.
LEMMA LoadSane ==
    ASSUME Sane, NEW e \in alive, NEW p \in Pages, NEW i \in Slots(e), Full(e),
           <<e, p>> \notin present, Load(e, p, i)
    PROVE  Sane'
  <1> DEFINE x == <<e, p>>
             v == <<e, ws[e][i]>>
             f == frame[v]
             fr == FreeAfter(v, f)
             mo == ModifAfter(v, f)
             h == Head(fr)
  <1>1. /\ e \in Envs /\ v \in All /\ v \in present /\ v[1] = e
        /\ Owns(fr, mo, isBuffered \cup {f}, table,
                frame, present \ {v}, buffered \cup {v}, modified)
        /\ Kept(mbLen, mo, frame, buffered \cup {v}, modified)
    BY VictimLeaves
  <1>2. /\ x \notin buffered /\ Ready(fr, isBuffered \cup {f}) /\ Map(e, p, h)
        /\ free' = Tail(fr) /\ modif' = mo
        /\ isBuffered' = isBuffered \cup {f}
        /\ present' = (present \ {v}) \cup {x}
        /\ buffered' = buffered \cup {v}
        /\ used' = (used \ {<<e, ws[e][j]>> : j \in Cleared(e, i)})
                     \cup ({x} \cap pf)
        /\ modified' = modified \ {x}
        /\ last' = [last EXCEPT ![e] = (i + 1) % WSMax[e]]
        /\ UNCHANGED <<table, mbLen, newestDisk, dropped, down>>
    BY DEF Load, UsedAfter
  <1>3. x \in All /\ x[1] = e /\ x # v /\ x \notin present \ {v}
    BY <1>1 DEF All
  <1>4. \/ pf' = pf \cup {x} /\ ws' = [ws EXCEPT ![e][i] = p] /\ alive' = alive
        \/ pf' = pf /\ ws' = [ws EXCEPT ![e][i] = NoPage] /\ alive' = alive \ {e}
    BY DEF Load
  <1>5. /\ newestMem' \subseteq Frames
        /\ frame' = [frame EXCEPT ![x] = h]
        /\ frame'[x] = h /\ h \in Frames
        /\ \A y \in All : y # x =>
              /\ frame'[y] = frame[y]
              /\ frame[y] # NoFrame /\ frame[y] \in newestMem =>
                    frame[y] \in newestMem'
        /\ x \in newestDisk => h \in newestMem'
    BY <1>1, <1>2, <1>3, MapContents
  <1>6. Owned'
    <2>1. (buffered \cup {v}) \ {x} = buffered \cup {v}
      BY <1>2, <1>3
    <2> HIDE DEF x, v, f, fr, mo
    <2>2. Owns(Tail(fr), mo, isBuffered \cup {f}, table,
               [frame EXCEPT ![x] = Head(fr)], (present \ {v}) \cup {x},
               (buffered \cup {v}) \ {x}, modified \ {x})
      BY <1>1, <1>2, <1>3, TakeOwns
    <2> QED
      BY <1>2, <1>5, <2>1, <2>2 DEF Owned
  <1>7. /\ DOMAIN ws' = Envs /\ DOMAIN last' = Envs
        /\ \A d \in Envs : /\ ws'[d] \in [Slots(d) -> Pages \cup {NoPage}]
                           /\ last'[d] \in Slots(d)
        /\ \A d \in Envs : d # e => ws'[d] = ws[d]
    BY <1>1, <1>2, <1>4, SlotSet
  <1>8. Typed'
    BY <1>2, <1>3, <1>4, <1>5, <1>7 DEF Sane, Typed
  <1>9. InWS'
    <2>1. CASE ws' = [ws EXCEPT ![e][i] = p] /\ alive' = alive
      BY <1>2, <2>1, Replaced
    <2>2. CASE alive' = alive \ {e}
      <3>1. \A d \in Envs : \A q \in Pages :
              d # e => (<<d, q>> \in present' <=> <<d, q>> \in present)
        BY <1>2
      <3> QED
        BY <1>7, <2>2, <3>1, OthersInWS DEF InWS
    <2> QED
      BY <1>4, <2>1, <2>2
  <1>10. frame[x] = NoFrame
    BY <1>2, <1>3 DEF Sane, Owned, Owns
  <1> HIDE DEF x, v, f, fr, mo, h
  <1>11. Written'
    BY <1>2, <1>3, <1>4, <1>5, <1>10 DEF Sane, Written
  <1>12. Flushed'
    <2> DEFINE bu1 == buffered'
               md1 == modified'
               fm1 == frame'
               bu == buffered \cup {v}
    <2>1. \A y \in bu1 : /\ y \in bu /\ fm1[y] = frame[y]
                         /\ y \in md1 => y \in modified
      BY <1>1, <1>2, <1>3, <1>5 DEF Owns
    <2>2. Kept(mbLen, mo, frame, bu, modified)
      BY <1>1
    <2> HIDE DEF bu1, md1, fm1, bu
    <2>3. Kept(mbLen, mo, fm1, bu1, md1)
      BY <2>1, <2>2 DEF Kept
    <2> QED
      BY <1>2, <2>3 DEF Flushed, fm1, bu1, md1
  <1> QED
    BY <1>6, <1>8, <1>9, <1>11, <1>12 DEF Sane

\* Every outcome of a fault with a full working set.
LEMMA ReplacementInv ==
    ASSUME Inv, NEW e \in Envs, NEW p \in Pages, Faults(e, p), Full(e),
           NEW i \in Slots(e), Replacement(e, p, i)
    PROVE  Inv'
  <1>1. Sane /\ e \in alive /\ <<e, p>> \notin present
    BY Running DEF Faults
  <1>2. CASE EvictPanic(e, i)
    BY <1>1, <1>2, EvictPanicSane, SaneInv
  <1>3. CASE Reclaim(e, p, i)
    BY <1>1, <1>3, ReclaimInv DEF Inv
  <1>4. CASE Load(e, p, i)
    BY <1>1, <1>4, LoadSane, SaneInv
  <1>5. CASE Broken
    BY <1>5, BrokenInv
  <1> QED
    BY <1>2, <1>3, <1>4, <1>5 DEF Replacement

\* Every outcome of a page fault.
LEMMA PageFaultInv ==
    ASSUME Inv, NEW e \in Envs, NEW p \in Pages, PageFault(e, p)
    PROVE  Inv'
  <1>1. Faults(e, p) /\ Sane
    BY Running DEF PageFault, Faults
  <1>2. CASE Placement(e, p)
    BY <1>1, <1>2, PlacementSane, SaneInv
  <1>3. CASE PlacementPanic(e, p)
    BY <1>1, <1>3, PlacementPanicSane, SaneInv
  <1>4. CASE PlacementNoFrame(e)
    BY <1>1, <1>4, ExitSane, SaneInv, BrokenInv DEF PlacementNoFrame
  <1>5. CASE Full(e) /\ \E i \in Slots(e) : Replacement(e, p, i)
    BY <1>1, <1>5, ReplacementInv
  <1> QED
    BY <1>2, <1>3, <1>4, <1>5 DEF PageFault

-----------------------------------------------------------------------------
(* freeMem. *)

\* After the page x has left memory, the heap table goes if it is empty.
LEMMA ReleaseSound ==
    ASSUME Sane, NEW e \in Envs, NEW p \in Heap, NEW x, x = <<e, p>>,
           NEW l, NEW pr, Release(e, p, l, pr), present' = pr,
           Owns(l, modif, isBuffered, table, [frame EXCEPT ![x] = NoFrame],
                pr, buffered, modified \ {x}),
           \A y \in present : y # x => y \in pr,
           pf' = pf \ {x}, newestDisk' = newestDisk \cup {x},
           newestMem' = newestMem \ {frame[x]},
           UNCHANGED <<modif, isBuffered, alive, mbLen>>
    PROVE  /\ Owned' /\ Flushed' /\ Written'
           /\ used' \subseteq All /\ dropped' \subseteq All
  <1> DEFINE D == {e} \X Heap
             fm == [frame EXCEPT ![x] = NoFrame]
  <1>1. /\ x \in All /\ x \in D /\ D \subseteq All
        /\ \A y \in All : y \in D <=> y[1] = e /\ y[2] \in Heap
    BY DEF All, Pages
  <1>2. /\ frame \in [All -> Frames \cup {NoFrame}]
        /\ fm \in [All -> Frames \cup {NoFrame}] /\ fm[x] = NoFrame
        /\ \A y \in All : y # x => fm[y] = frame[y]
    BY <1>1 DEF Sane, Owned, Owns
  <1>3. \A y \in All : y # x /\ frame[y] # NoFrame => frame[y] # frame[x]
    BY <1>1 DEF Sane, Owned, Owns
  <1>4. /\ \A y \in All : frame[y] # NoFrame => y \in present \cup buffered
        /\ used \subseteq All /\ dropped \subseteq All /\ buffered \subseteq All
    BY DEF Sane, Typed, Owned, Owns
  <1>5. CASE table[e] # NoFrame /\ TableEmpty(e, pr)
    <2>1. /\ free' = <<table[e]>> \o l
          /\ table' = [table EXCEPT ![e] = NoFrame]
          /\ frame' = [y \in Envs \X Pages |->
                         IF y[1] = e /\ y[2] \in Heap THEN NoFrame ELSE frame[y]]
          /\ buffered' = buffered \ D /\ used' = used \ D
          /\ modified' = modified \ D
          /\ dropped' = (dropped \cup ((buffered \cap D) \ newestDisk)) \ {x}
      BY <1>5 DEF Release
    <2>2. \A y \in D : y \notin pr
      BY <1>5 DEF TableEmpty
    <2>3. /\ frame' = [y \in All |-> IF y \in D THEN NoFrame ELSE fm[y]]
          /\ \A y \in All : frame'[y] = IF y \in D THEN NoFrame ELSE frame[y]
      BY <1>1, <1>2, <2>1 DEF All
    <2>4. (modified \ {x}) \ D = modified \ D /\ free' = Push(table[e], l)
      BY <1>1, <2>1 DEF Push
    <2>4a. Owns(l, modif, isBuffered, table, fm, pr, buffered, modified \ {x})
      OBVIOUS
    <2> HIDE DEF D, fm
    <2>5. Owns(Push(table[e], l), modif, isBuffered,
               [table EXCEPT ![e] = NoFrame], frame', pr, buffered \ D,
               (modified \ {x}) \ D)
      BY <1>5, <2>2, <2>3, <2>4a, DropTableOwns
    <2>6. Owned'
      BY <2>1, <2>4, <2>5 DEF Owned
    <2>7. \A y \in D : y # x => y \notin present
      BY <2>2
    <2>8. Written'
      BY <1>1, <1>3, <1>4, <2>1, <2>3, <2>7 DEF Sane, Written
    <2>9. Flushed'
      BY <1>4, <2>1, <2>3 DEF Sane, Flushed, Kept
    <2> QED
      BY <1>1, <1>4, <2>1, <2>6, <2>8, <2>9
  <1>6. CASE ~(table[e] # NoFrame /\ TableEmpty(e, pr))
    <2>1. /\ free' = l /\ frame' = fm /\ used' = used \ {x}
          /\ modified' = modified \ {x} /\ dropped' = dropped \ {x}
          /\ UNCHANGED <<table, buffered>>
      BY <1>6 DEF Release
    <2>2. Owned'
      BY <2>1 DEF Owned
    <2> HIDE DEF fm
    <2>3. Written'
      BY <1>1, <1>2, <1>3, <2>1 DEF Sane, Written
    <2>4. x \notin buffered
      BY <1>2, <2>2 DEF Owns, fm
    <2>5. Flushed'
      BY <1>2, <1>4, <2>1, <2>4 DEF Sane, Flushed, Kept
    <2> QED
      BY <1>4, <2>1, <2>2, <2>3, <2>5
  <1> QED
    BY <1>5, <1>6

\* freeMem of a page in memory, of a page without a frame, and of a buffered
\* page, which breaks the lists.
LEMMA FreeMemInv ==
    ASSUME Inv, NEW e \in Envs, NEW p \in Pages, FreeMem(e, p)
    PROVE  Inv'
  <1> DEFINE x == <<e, p>>
  <1>1. /\ Sane /\ e \in alive /\ x \in All /\ x[1] = e /\ p \in Heap
        /\ Owns(free, modif, isBuffered, table, frame, present, buffered, modified)
    BY Running DEF FreeMem, Sane, Owned
  <1>2. /\ pf' = pf \ {x} /\ newestDisk' = newestDisk \cup {x}
        /\ newestMem' = newestMem \ {frame[x]}
        /\ UNCHANGED <<last, alive, mbLen>>
    BY DEF FreeMem
  <1>3. CASE /\ x \in present
             /\ ws' = [ws EXCEPT ![e] =
                  [i \in Slots(e) |-> IF ws[e][i] = p THEN NoPage ELSE ws[e][i]]]
             /\ present' = present \ {x}
             /\ Release(e, p, <<frame[x]>> \o free, present \ {x})
             /\ UNCHANGED <<modif, isBuffered, down>>
    <2>1. <<frame[x]>> \o free = Push(frame[x], free)
      BY DEF Push
    <2>2. Owns(<<frame[x]>> \o free, modif, isBuffered, table,
               [frame EXCEPT ![x] = NoFrame], present \ {x}, buffered,
               modified \ {x})
      <3> HIDE DEF x
      <3>1. Owns(Push(frame[x], free), modif, isBuffered, table,
                 [frame EXCEPT ![x] = NoFrame], present \ {x}, buffered,
                 modified \ {x})
        BY <1>1, <1>3, UnmapOwns
      <3> QED
        BY <2>1, <3>1
    <2>3. \A y \in present : y # x => y \in present \ {x}
      OBVIOUS
    <2>4. Owned' /\ Flushed' /\ Written' /\ used' \subseteq All /\ dropped' \subseteq All
      BY <1>1, <1>2, <1>3, <2>2, <2>3, ReleaseSound
    <2>5. /\ DOMAIN ws' = Envs /\ ws[e] \in [Slots(e) -> Pages \cup {NoPage}]
          /\ ws'[e] = [i \in Slots(e) |-> IF ws[e][i] = p THEN NoPage ELSE ws[e][i]]
          /\ \A d \in Envs : d # e => ws'[d] = ws[d]
      BY <1>1, <1>3 DEF Sane, Typed
    <2>6. \A d \in Envs : ws'[d] \in [Slots(d) -> Pages \cup {NoPage}]
      <3>1. ws'[e] \in [Slots(e) -> Pages \cup {NoPage}]
        BY <2>5
      <3>2. ASSUME NEW d \in Envs, d # e
            PROVE  ws'[d] \in [Slots(d) -> Pages \cup {NoPage}]
        BY <1>1, <2>5, <3>2 DEF Sane, Typed
      <3> QED
        BY <3>1, <3>2
    <2>7. Typed'
      BY <1>1, <1>2, <1>3, <2>4, <2>5, <2>6 DEF Sane, Typed
    <2>8. WSOf(e, ws'[e], present')
      <3>1. \A q \in Pages : <<e, q>> \in present' <=> <<e, q>> \in present /\ q # p
        BY <1>3
      <3>2. WSOf(e, ws[e], present)
        BY <1>1 DEF Sane, InWS
      <3> DEFINE w == ws[e]
                 w1 == ws'[e]
                 pr == present
                 pr1 == present'
      <3>3. /\ w \in [Slots(e) -> Pages \cup {NoPage}] /\ WSOf(e, w, pr)
            /\ w1 = [i \in Slots(e) |-> IF w[i] = p THEN NoPage ELSE w[i]]
            /\ \A q \in Pages : <<e, q>> \in pr1 <=> <<e, q>> \in pr /\ q # p
        BY <2>5, <3>1, <3>2
      <3> HIDE DEF w, w1, pr, pr1
      <3>4. WSOf(e, w1, pr1)
        BY <3>3, ClearEntry
      <3> QED
        BY <3>4 DEF w1, pr1
    <2>9. \A d \in Envs : \A q \in Pages :
            d # e => (<<d, q>> \in present' <=> <<d, q>> \in present)
      BY <1>3
    <2>10. InWS'
      BY <1>1, <1>2, <2>5, <2>8, <2>9, OthersInWS DEF InWS
    <2> QED
      BY <2>4, <2>7, <2>10, SaneInv DEF Sane
  <1>4. CASE /\ frame[x] = NoFrame
             /\ Release(e, p, free, present)
             /\ UNCHANGED <<modif, isBuffered, present, ws, down>>
    <2>1. [frame EXCEPT ![x] = NoFrame] = frame
      BY <1>1, <1>4 DEF Owns
    <2>2. x \notin present /\ x \notin buffered
      BY <1>1, <1>4 DEF Owns
    <2>3. Owns(free, modif, isBuffered, table, frame, present, buffered,
               modified \ {x})
      BY <1>1, <2>2 DEF Owns
    <2>4. \A y \in present : y # x => y \in present
      OBVIOUS
    <2>5. Owned' /\ Flushed' /\ Written' /\ used' \subseteq All /\ dropped' \subseteq All
      BY <1>1, <1>2, <1>4, <2>1, <2>3, <2>4, ReleaseSound
    <2>6. Typed' /\ InWS'
      BY <1>1, <1>2, <1>4, <2>5 DEF Sane, Typed, InWS
    <2> QED
      BY <2>5, <2>6, SaneInv DEF Sane
  <1>5. CASE /\ x \in buffered
             /\ free' = <<frame[x]>> \o free
             /\ isBuffered' = isBuffered \ {frame[x]}
             /\ buffered' = buffered \ {x}
             /\ frame' = [frame EXCEPT ![x] = NoFrame]
             /\ modified' = modified \ {x}
             /\ down' = TRUE
             /\ UNCHANGED <<modif, table, present, used, ws, dropped>>
    <2>1. frame[x] \in Frames /\ free \in Seq(Frames)
      BY <1>1, <1>5 DEF Owns
    <2>2. free' \in Seq(Frames)
      BY <1>5, <2>1, PushMembers DEF Push
    <2>3. frame' \in [Envs \X Pages -> Frames \cup {NoFrame}]
      BY <1>1, <1>5 DEF Owns, All
    <2>4. TypeOK
      BY DEF Inv
    <2>5. TypeOK'
      BY <1>1, <1>2, <1>5, <2>2, <2>3, <2>4 DEF TypeOK, All
    <2> QED
      BY <1>5, <2>5 DEF Inv
  <1> QED
    BY <1>3, <1>4, <1>5 DEF FreeMem

-----------------------------------------------------------------------------
(* The theorems. *)

\* Every step keeps the invariant.
LEMMA NextInv == Inv /\ [Next]_vars => Inv'
  <1> SUFFICES ASSUME Inv, [Next]_vars PROVE Inv'
    OBVIOUS
  <1>1. \A x \in Touches : x[1] \in Envs /\ x[2] \in Pages
    BY DEF Envs, Pages
  <1>2. ASSUME NEW e \in Envs, Exit(e) PROVE Inv'
    BY <1>2, ExitSane, SaneInv DEF Exit, Runs, Inv
  <1>3. ASSUME NEW e \in Envs, NEW p \in Pages,
               \/ Read(e, p) \/ Write(e, p) \/ PageFault(e, p)
               \/ AllocateMem(e, p) \/ FreeMem(e, p) \/ TableFault(e, p)
        PROVE  Inv'
    BY <1>3, ReadSane, WriteSane, PageFaultInv, AllocateSane, FreeMemInv,
       TableFaultInv, SaneInv
  <1>4. CASE UNCHANGED vars
    BY <1>4 DEF Inv, Sane, TypeOK, Typed, Owned, Flushed, InWS, Written, vars, lists,
                tables, sets, ghosts
  <1> QED
    BY <1>1, <1>2, <1>3, <1>4 DEF Next

\* Whatever the programs touch, allocate and free: the frame lists, page tables
\* and working sets stay well formed, no frame has two owners, every evicted page
\* waits in one of the lists, where only a flush moves it, and the modified list
\* stays below its length, until the kernel frees a buffered page, takes a
\* flushed page back through the wrong list or follows a NULL pointer (down).
THEOREM FramesSafe == Spec => []FramesSound
  BY InitSane, SaneInv, NextInv, InvSafe, PTL DEF Spec

\* The working set of a living environment is exactly its pages in memory, with
\* and without a flush in the fault, as long as the kernel's lists are intact.
THEOREM WorkingSetsSafe == Spec => []WSMatches
  BY InitSane, SaneInv, NextInv, InvSafe, PTL DEF Spec

\* Eviction, the flush, taking back and reloading keep what was written last in
\* the page's frame or in the page file, until the kernel breaks its own lists
\* (down), except for the pages that placement or the release of a table drops.
THEOREM ContentsSafe == Spec => []ContentsKept
  BY InitSane, SaneInv, NextInv, InvSafe, PTL DEF Spec
=============================================================================
