------------------------------ MODULE Sorting ------------------------------
(***************************************************************************)
(* The algorithms of the sorting and statistics programs under user/: quick *)
(* sort and merge sort in all their variants and arrayOperations.  An array *)
(* is a function from 0 .. n-1.  Names are those of user/quicksort.c and    *)
(* user/mergesort_noleakage.c.                                              *)
(***************************************************************************)
EXTENDS Integers, Sequences, FiniteSetsExt, SequencesExt

Swap(E, i, j) == [E EXCEPT ![i] = E[j], ![j] = E[i]]

RECURSIVE Partition(_, _, _, _, _), QSort(_, _, _), MSort(_, _, _), KthSet(_, _, _, _)
\* The while loop: i walks over what is not above the pivot E[s], j over what
\* is not below it.
Partition(E, s, f, i, j) ==
  IF i > j THEN [E |-> E, i |-> i, j |-> j]
  ELSE LET i2 == CHOOSE k \in i..(f + 1) : (k > f \/ E[s] < E[k]) /\ \A x \in i..(k - 1) : E[s] >= E[x]
           j2 == CHOOSE k \in s..j : (k = s \/ E[s] > E[k]) /\ \A x \in (k + 1)..j : E[s] <= E[x]
       IN  Partition(IF i2 <= j2 THEN Swap(E, i2, j2) ELSE E, s, f, i2, j2)
\* Mutant: the part above the pivot is left out.
QSortLower(E, s, f) ==
  IF s >= f THEN E
  ELSE LET p == Partition(E, s, f, s + 1, f)
       IN  QSort(Swap(p.E, s, p.j), s, p.j - 1)
QSort(E, s, f) ==
  IF s >= f THEN E
  ELSE LET p == Partition(E, s, f, s + 1, f)
       IN  QSort(QSort(Swap(p.E, s, p.j), s, p.j - 1), p.i, f)
QuickSort(E) == QSort(E, 0, Cardinality(DOMAIN E) - 1)

\* Two sorted runs p..q and q+1..r of A, counted from 1, become one.
Merge(A, p, q, r) ==
  LET Left == [i \in 1..(q - p + 1) |-> A[p + i - 2]]
      Right == [i \in 1..(r - q) |-> A[q + i - 1]]
      step(m, k) == LET left == m.l <= Len(Left) /\ (m.r > Len(Right) \/ Left[m.l] < Right[m.r])
                    IN  [A |-> [m.A EXCEPT ![k - 1] = IF left THEN Left[m.l] ELSE Right[m.r]],
                         l |-> IF left THEN m.l + 1 ELSE m.l, r |-> IF left THEN m.r ELSE m.r + 1]
  IN  FoldLeft(step, [A |-> A, l |-> 1, r |-> 1], [k \in 1..(r - p + 1) |-> p + k - 1]).A
MSort(A, p, r) == IF p >= r THEN A
                  ELSE LET q == (p + r) \div 2 IN Merge(MSort(MSort(A, p, q), q + 1, r), p, q, r)

CheckSorted(E) == \A i \in DOMAIN E : i + 1 \in DOMAIN E => E[i] <= E[i + 1]

InitializeAscending(n) == [i \in 0..(n - 1) |-> i]
InitializeDescending(n) == [i \in 0..(n - 1) |-> n - i - 1]
\* Fewer than three elements divide by zero: the processor's trap is the result.
DIVIDE == [i \in {-1} |-> -1]
InitializeSemiRandom(n) == IF n < 3 /\ n > 0 THEN DIVIDE ELSE [i \in 0..(n - 1) |-> i % (n \div 3)]

-----------------------------------------------------------------------------
\* arrayOperations_stats.c: the pivot is drawn with the clock, so the outcome
\* is a set; RAND never draws the last element.
KthSet(E, s, f, k) ==
  IF s >= f THEN {E[f]}
  ELSE UNION {LET p == Partition(Swap(E, s, v), s, f, s + 1, f)
                  G == Swap(p.E, s, p.j)
              IN  IF k = p.j THEN {G[k]}
                  ELSE IF k < p.j THEN KthSet(G, s, p.j - 1, k) ELSE KthSet(G, p.i, f, k) : v \in s..(f - 1)}
KthElement(E, k) == KthSet(E, 0, Cardinality(DOMAIN E) - 1, k - 1)
\* Elements are not negative here; the sums do not depend on the order in which
\* KthElement leaves the array.
ArrayStats(E) == LET n == Cardinality(DOMAIN E)
                     mean == FoldFunction(+, 0, E) \div n
                 IN  [mean |-> mean, var |-> FoldFunction(+, 0, [i \in DOMAIN E |-> (E[i] - mean) * (E[i] - mean)]) \div n,
                      min |-> Min({E[i] : i \in DOMAIN E}), max |-> Max({E[i] : i \in DOMAIN E}),
                      med |-> KthElement(E, n \div 2)]
=============================================================================
