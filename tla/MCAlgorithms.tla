---- MODULE MCAlgorithms ----
EXTENDS Algorithms

\* Distinct bytes for moves; two texts of at most three characters for copies.
Distinct == [a \in 0..6 |-> a + 65]
Texts == {[a \in 0..7 |-> IF a < 3 THEN t[a + 1] ELSE IF a = 3 THEN 0 ELSE 90] : t \in [1..3 -> {0, 65, 66}]}
MoveJobs ==
  [fn : {"memmove", "memcpy", "memset", "memcmp", "memfind"}, mem : {Distinct}, d : 0..3, s : 0..3, n : 0..3]
  \cup [fn : {"strcpy", "strncpy", "strlcpy"}, mem : Texts, d : {4}, s : 0..1, n : 0..4]

Words == UNION {[1..k -> {65, 66}] : k \in 0..3}
CompareJobs == [fn : {"strcmp", "strncmp", "strchr"}, p : Words, q : Words, n : 0..3]

Longs == -128..127
\* Numbers with a sign, blanks, a base prefix and a character after them.
Read(v, base, prefix, given) ==
  LET digits == printnum(Magnitude(v), base, -1, 32)
      s == <<32>> \o (IF v < 0 THEN <<45>> ELSE <<>>) \o prefix \o digits
  IN  [fn |-> "strtol", s |-> s \o <<33>>, base |-> given, num |-> v, stop |-> Len(s) + 1]
NumberJobs ==
  [fn : {"ltostr"}, v : Longs]
  \cup UNION {{Read(v, 10, <<>>, 10), Read(v, 16, <<48, 120>>, 16), Read(v, 16, <<48, 120>>, 0), Read(v, 8, <<48>>, 0)} : v \in -300..300}

SplitJobs == [fn : {"strsplit"}, split : {{32}}, s : UNION {[1..k -> {32, 97}] : k \in 0..6}]

D(w) == IF w = 0 THEN <<>> ELSE <<48 + w>>
NumberPrint == {[fn |-> "printf", fmt |-> <<37>> \o pad \o D(w) \o <<100>>, args |-> <<v>>, n |-> 3, v |-> v, width |-> w, pad |-> pad] :
                  v \in {-128, -50, -7, 0, 5, 100, 127}, w \in 0..5, pad \in {<<>>, <<48>>, <<45>>}}
AB == <<65, 66, 7>>
Formats == { [fmt |-> <<65, 37, 53, 115, 66>>, args |-> <<AB>>], [fmt |-> <<37, 45, 53, 115>>, args |-> <<AB>>],
             [fmt |-> <<37, 46, 50, 115>>, args |-> <<AB>>], [fmt |-> <<37, 52, 46, 49, 115>>, args |-> <<AB>>],
             [fmt |-> <<37, 35, 115>>, args |-> <<AB>>], [fmt |-> <<37, 115>>, args |-> <<NULL>>],
             [fmt |-> <<37, 99, 37, 120>>, args |-> <<65, -1>>], [fmt |-> <<37, 108, 108, 117>>, args |-> <<-2>>],
             [fmt |-> <<37, 42, 100>>, args |-> <<4, 7>>], [fmt |-> <<37, 112>>, args |-> <<171>>],
             [fmt |-> <<37, 101, 37, 101>>, args |-> <<-4, 50>>], [fmt |-> <<37, 111, 37, 37>>, args |-> <<>>],
             [fmt |-> <<37, 53, 113>>, args |-> <<>>], [fmt |-> <<65, 37>>, args |-> <<>>], [fmt |-> <<>>, args |-> <<>>] }
PrintJobs == NumberPrint \cup {[fn |-> "printf", fmt |-> f.fmt, args |-> f.args, n |-> n] : f \in Formats, n \in 0..6}

\* Tables with more than PtrStep bytes between entries; entry 0 is the header.
Tables == {[i \in 1..6 |-> [type |-> IF i = 1 THEN "HDR" ELSE t[i - 1], value |-> 6 * i]] : t \in [1..5 -> {"SO", "FUN", "SOL"}]}
SymbolJobs == [fn : {"debuginfo"}, t : Tables, type : {"SO", "FUN"}, addr : 4..40]

DiskBytes == [a \in 0..23 |-> 100 + a]
Clear == [a \in 0..20 |-> 0]
Seg(va, off, f, m) == [va |-> va, offset |-> off, filesz |-> f, memsz |-> m]
\* Two segments in one file layout, or the second anywhere in the file but in
\* sectors of its own.
Layouts == {<<Seg(a, a + SECTSIZE * k, f, f), Seg(a + g, a + g + SECTSIZE * k, f, f + 1)>> : a \in 0..2, k \in 0..1, f \in 1..4, g \in 4..6}
  \cup {<<Seg(a, a, f, m), Seg(b, b - 6, 2, 2)>> : a \in 0..2, b \in 9..11, f \in 1..4, m \in 4..5}
BootJobs == [fn : {"cmain"}, mem : {Clear}, disk : {DiskBytes}, elf : [magic : BOOLEAN, phs : Layouts]]
SectorJobs == [fn : {"ide_read", "ide_write"}, mem : {Clear}, disk : {DiskBytes}, sec : 0..2, at : 0..3, n : 1..3, bad : 0..3]

SortJobs == [fn : {"quick", "merge"}, E : UNION {[0..(n - 1) -> 0..2] : n \in 0..5}
                                         \cup {InitializeAscending(6), InitializeDescending(6), InitializeSemiRandom(7)}]
  \cup [fn : {"stats"}, E : UNION {[0..(n - 1) -> 1..n] : n \in 1..4}]

\* Memories that hold the kernel, with and without memory above 16 MB; the last
\* page of the kernel falls at every place of a table's region.
PagingJobs == [fn : {"boot"}, machine : [end : 14..17, stack : {12}, ext : {61}, other : {0, 3}, info : {8},
                diskArray : 1..4, envsArray : 1..4, slots : {4, 6}, tables : {8}, low : {40}, io : {5}, high : {6}]]
\* Any environment may be the current one, or none.
IdJobs == UNION {[fn : {"envid2env"}, n : {n}, cur : -1..(n - 1), ids : {0..(2^(ENVGENSHIFT + 1) - 1)}] : n \in 0..NENV}

\* Words whose bytes differ.
CallJobs == [fn : {"syscall"}, name : Stubs, v : {<<300, 513, 770, 1027, 1284>>, <<65535, 256, 1, 0, 255>>}]

MCJobs == MoveJobs \cup CompareJobs \cup NumberJobs \cup SplitJobs \cup PrintJobs \cup SymbolJobs \cup BootJobs \cup SectorJobs \cup SortJobs \cup PagingJobs \cup IdJobs \cup CallJobs
=============================
