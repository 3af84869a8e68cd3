------------------------------ MODULE Strings ------------------------------
(***************************************************************************)
(* The string library that the kernel and the user programs share           *)
(* (lib/string.c).  Where a routine moves bytes, its memory is a function   *)
(* from addresses to bytes, so that overlapping operands and bytes beyond   *)
(* the destination are visible; a string it only reads is the sequence of   *)
(* its characters before the terminating zero.  A long has LongBits bits.   *)
(***************************************************************************)
EXTENDS Integers, Sequences, FiniteSetsExt, SequencesExt

CONSTANTS LongBits, MAX_ARGUMENTS

\* Two's complement: the value a long holds after an operation gave v.
Wrap(v) == LET u == v % 2^LongBits IN IF u >= 2^(LongBits - 1) THEN u - 2^LongBits ELSE u
\* C's / and %, which round towards zero.
CDiv(a, b) == IF a >= 0 THEN a \div b ELSE -((-a) \div b)
CMod(a, b) == a - b * CDiv(a, b)

Upto(n) == [i \in 1..n |-> i - 1]
\* The least n for which the byte n after s satisfies Stop.
Scan(m, s, Stop(_)) == CHOOSE n \in 0..Cardinality(DOMAIN m) :
                          Stop(m[s + n]) /\ \A k \in 0..(n - 1) : ~Stop(m[s + k])
StringAt(m, s) == LET n == Scan(m, s, LAMBDA c : c = 0) IN [i \in 1..n |-> m[s + i - 1]]

-----------------------------------------------------------------------------
strlen(m, s) == Scan(m, s, LAMBDA c : c = 0)

memset(m, v, c, n) == [a \in DOMAIN m |-> IF a \in v..(v + n - 1) THEN c ELSE m[a]]
Moved(m, d, s, offsets) == FoldLeft(LAMBDA a, i : [a EXCEPT ![d + i] = a[s + i]], m, offsets)
memcpy(m, d, s, n) == Moved(m, d, s, Upto(n))
\* Mutant: the test for an overlap asks for the wrong end.
memmoveForward(m, d, s, n) == Moved(m, d, s, Upto(n))
memmove(m, d, s, n) == Moved(m, d, s, IF s < d /\ s + n > d THEN Reverse(Upto(n)) ELSE Upto(n))
memcmp(m, p, q, n) == LET diff == {i \in 0..(n - 1) : m[p + i] # m[q + i]}
                      IN  IF diff = {} THEN 0 ELSE m[p + Min(diff)] - m[q + Min(diff)]
memfind(m, s, c, n) == LET hits == {a \in s..(s + n - 1) : m[a] = c}
                       IN  IF hits = {} THEN s + n ELSE Min(hits)

strcpy(m, d, s) == memcpy(m, d, s, strlen(m, s) + 1)
\* The source pointer stays on the terminating zero, which pads the rest.
strncpy(m, d, s, size) ==
  FoldLeft(LAMBDA a, i : [a EXCEPT ![d + i] = a[s + Min({i, strlen(m, s)})]], m, Upto(size))
strlcpy(m, d, s, size) ==
  LET n == IF size > 0 THEN Min({size - 1, strlen(m, s)}) ELSE 0
  IN  [mem |-> IF size > 0 THEN [memcpy(m, d, s, n) EXCEPT ![d + n] = 0] ELSE m, ret |-> n]

-----------------------------------------------------------------------------
\* A character of a string, or its terminating zero.
At(s, i) == IF i <= Len(s) THEN s[i] ELSE 0
strcmp(p, q) == LET i == CHOOSE n \in 1..(Len(p) + 1) :
                            /\ At(p, n) = 0 \/ At(p, n) # At(q, n)
                            /\ \A k \in 1..(n - 1) : p[k] = At(q, k)
                IN  At(p, i) - At(q, i)
strncmp(p, q, n) == strcmp(SubSeq(p, 1, Min({n, Len(p)})), SubSeq(q, 1, Min({n, Len(q)})))
\* The index of the first c, 0 for the null pointer; strfind gives the zero's.
strchr(s, c) == LET hits == {i \in 1..Len(s) : s[i] = c} IN IF hits = {} THEN 0 ELSE Min(hits)
strfind(s, c) == IF strchr(s, c) = 0 THEN Len(s) + 1 ELSE strchr(s, c)

-----------------------------------------------------------------------------
DigitOf(c) == CASE c \in 48..57 -> c - 48 [] c \in 97..122 -> c - 87 [] c \in 65..90 -> c - 55 [] OTHER -> 99
Blank == {32, 9}

\* The number at the head of s and the index of the first character after it.
strtol(s, base0) ==
  LET b == CHOOSE n \in 1..(Len(s) + 1) : At(s, n) \notin Blank /\ \A k \in 1..(n - 1) : s[k] \in Blank
      neg == At(s, b) = 45
      d == IF At(s, b) \in {43, 45} THEN b + 1 ELSE b
      hex == base0 \in {0, 16} /\ At(s, d) = 48 /\ At(s, d + 1) = 120
      oct == base0 = 0 /\ At(s, d) = 48 /\ ~hex
      base == CASE hex -> 16 [] oct -> 8 [] base0 = 0 /\ ~hex /\ ~oct -> 10 [] OTHER -> base0
      first == CASE hex -> d + 2 [] oct -> d + 1 [] OTHER -> d
      end == CHOOSE n \in first..(Len(s) + 1) :
                /\ DigitOf(At(s, n)) >= base
                /\ \A k \in first..(n - 1) : DigitOf(s[k]) < base
      val == FoldLeft(LAMBDA v, c : Wrap(v * base + DigitOf(c)), 0, SubSeq(s, first, end - 1))
  IN  [val |-> IF neg THEN Wrap(-val) ELSE val, end |-> end]

\* The digits of ltostr's loop, least significant first: it stops when the
\* digit it would write next is zero.
LongDigits[v \in -(2^LongBits)..(2^LongBits)] ==
  <<48 + CMod(v, 10)>> \o (IF CMod(CDiv(v, 10), 10) # 0 THEN LongDigits[CDiv(v, 10)] ELSE <<>>)
ltostr(v) == IF v < 0 THEN <<45>> \o Reverse(LongDigits[Wrap(-v)]) ELSE Reverse(LongDigits[v])

\* Where the arguments of a line begin.
Starts(s, split) == {i \in 1..Len(s) : s[i] \notin split /\ (i = 1 \/ s[i - 1] \in split)}
\* The arguments that fit: one entry of argv is kept for the closing null.
strsplit(s, split) ==
  LET starts == SetToSortSeq(Starts(s, split), <)
      upto(i) == CHOOSE n \in i..(Len(s) + 1) : (n = Len(s) + 1 \/ At(s, n) \in split) /\ \A k \in i..(n - 1) : s[k] \notin split
  IN  [ret |-> IF Len(starts) > MAX_ARGUMENTS - 1 THEN 0 ELSE 1,
       argv |-> [k \in 1..Min({Len(starts), MAX_ARGUMENTS - 1}) |-> SubSeq(s, starts[k], upto(starts[k]) - 1)]]
=============================================================================
