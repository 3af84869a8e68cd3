----------------------------- MODULE Algorithms -----------------------------
(***************************************************************************)
(* The pure routines of the system against reference definitions.  A        *)
(* behaviour is one call: Init draws the routine and its arguments, one     *)
(* action per routine computes the result, and the invariants compare it    *)
(* with what the routine is for.                                            *)
(***************************************************************************)
EXTENDS Printfmt, Stabs, Disk, Sorting, EnvIds, BootMem, Syscalls

CONSTANT Jobs              \* the calls, records with a field fn

VARIABLES call, result
vars == <<call, result>>

none == [state |-> "running"]
Init == call \in Jobs /\ result = none
Returns(fn, r) == call.fn = fn /\ result = none /\ result' = [state |-> "done", val |-> r] /\ UNCHANGED call

Move == LET c == call IN
    \/ Returns("memmove", memmove(c.mem, c.d, c.s, c.n))
    \/ Returns("memcpy", memcpy(c.mem, c.d, c.s, c.n))
    \/ Returns("memset", memset(c.mem, c.d, c.s, c.n))
    \/ Returns("strcpy", strcpy(c.mem, c.d, c.s))
    \/ Returns("strncpy", strncpy(c.mem, c.d, c.s, c.n))
    \/ Returns("strlcpy", strlcpy(c.mem, c.d, c.s, c.n))
Compare == LET c == call IN
    \/ Returns("strcmp", strcmp(c.p, c.q))
    \/ Returns("strncmp", strncmp(c.p, c.q, c.n))
Search == LET c == call IN
    \/ Returns("memcmp", memcmp(c.mem, c.d, c.s, c.n))
    \/ Returns("memfind", memfind(c.mem, c.s, c.d, c.n))
    \/ Returns("strchr", <<strchr(c.p, c.n), strfind(c.p, c.n)>>)
Number == LET c == call IN
    \/ Returns("ltostr", ltostr(c.v))
    \/ Returns("strtol", strtol(c.s, c.base))
Split == Returns("strsplit", strsplit(call.s, call.split))
Format == Returns("printf", LET out == vprintfmt(call.fmt, call.args)
                           IN  [out |-> out, buf |-> vsnprintf(call.n, out), calls |-> vcprintf(out),
                               kernel |-> kernel_vcprintf(out)])
Symbol == Returns("debuginfo", [search |-> stab_binsearch(call.t, 0, Len(call.t) - 1, call.type, call.addr),
                                info |-> debuginfo_eip(call.t, call.addr)])
Boot == Returns("cmain", cmain(call.mem, call.disk, call.elf))
Paging == Returns("boot", boot(call.machine))
LookUp == Returns("envid2env", LET envs == Created(call.n)
                              IN  [envs |-> envs, found |-> [id \in call.ids |-> envid2env(envs, call.cur, id)]])
SystemCall == Returns("syscall", Calling(call.name, call.v))
Sectors == LET c == call IN
    \/ Returns("ide_read", ide_read(c.mem, c.disk, c.sec, c.at, c.n, c.bad))
    \/ Returns("ide_write", ide_write(c.mem, c.disk, c.sec, c.at, c.n, c.bad))
Sort == LET E == call.E IN
    \/ Returns("quick", QuickSort(E))
    \/ Returns("merge", MSort(E, 1, Cardinality(DOMAIN E)))
    \/ Returns("stats", ArrayStats(E))

Next == Move \/ Compare \/ Search \/ Number \/ Split \/ Format \/ Symbol \/ Boot \/ Paging \/ LookUp \/ SystemCall \/ Sectors \/ Sort
Spec == Init /\ [][Next]_vars

Done(fn) == call.fn = fn /\ result # none

-----------------------------------------------------------------------------
Dest == call.d..(call.d + call.n - 1)
Outside(bytes) == \A a \in DOMAIN call.mem \ bytes : result.val[a] = call.mem[a]
\* The text of at most n characters at s before the call.
Text(n) == LET s == StringAt(call.mem, call.s) IN SubSeq(s, 1, Min({n, Len(s)}))

\* memmove moves the bytes the source held before the call, however the two
\* ranges overlap; strcpy, strncpy and strlcpy leave the source's text in the
\* destination, strlcpy always with its zero, and none of them (lib/string.c)
\* writes a byte outside the destination.
MovesExact ==
  /\ Done("memmove") => /\ \A i \in 0..(call.n - 1) : result.val[call.d + i] = call.mem[call.s + i]
                        /\ Outside(Dest)
  /\ Done("memcpy") /\ (call.d <= call.s \/ call.d >= call.s + call.n) =>
       \A i \in 0..(call.n - 1) : result.val[call.d + i] = call.mem[call.s + i]
  /\ Done("memcpy") \/ Done("memset") => Outside(Dest)
  /\ Done("strcpy") => /\ StringAt(result.val, call.d) = Text(99)
                       /\ Outside(call.d..(call.d + Len(Text(99))))
  /\ Done("strncpy") => /\ \A i \in 0..(call.n - 1) : result.val[call.d + i] = At(Text(99), i + 1)
                        /\ Outside(Dest)
  /\ Done("strlcpy") => /\ call.n > 0 => StringAt(result.val.mem, call.d) = Text(call.n - 1)
                        /\ \A a \in DOMAIN call.mem \ Dest : result.val.mem[a] = call.mem[a]

Below(p, q) == \E i \in 1..Len(q) : /\ Len(p) >= i - 1 /\ SubSeq(p, 1, i - 1) = SubSeq(q, 1, i - 1)
                                    /\ At(p, i) < q[i]
Cut(s, n) == SubSeq(s, 1, Min({n, Len(s)}))
Ordered ==
  /\ Done("strcmp") => /\ result.val < 0 <=> Below(call.p, call.q)
                       /\ result.val = 0 <=> call.p = call.q
  /\ Done("strncmp") => /\ result.val < 0 <=> Below(Cut(call.p, call.n), Cut(call.q, call.n))
                        /\ result.val = 0 <=> Cut(call.p, call.n) = Cut(call.q, call.n)

Magnitude(v) == IF v < 0 THEN -v ELSE v
\* A digit other than the last is zero.
ZeroWithin(v) == \E k \in 1..LongBits : 10^k <= v /\ (v \div 10^k) % 10 = 0
LtostrReadBack ==
  Done("ltostr") /\ call.v > -(2^(LongBits - 1)) /\ ~ZeroWithin(Magnitude(call.v)) =>
    strtol(result.val, 10) = [val |-> call.v, end |-> Len(result.val) + 1]

Runs(s, split) == {<<i, j>> \in (1..Len(s)) \X (1..Len(s)) :
                     /\ i <= j /\ \A k \in i..j : s[k] \notin split
                     /\ i > 1 => s[i - 1] \in split
                     /\ j < Len(s) => s[j + 1] \in split}
\* How a command line is understood: strsplit gives the maximal runs of other
\* characters, in order, fails when argv with its closing null cannot hold them
\* and never writes more than MAX_ARGUMENTS - 1 entries; strcmp and strncmp,
\* which choose the command, order texts as dictionaries do, a prefix first, and
\* strncmp looks at no more than n characters.
LineUnderstood ==
  /\ Ordered
  /\ Done("strsplit") =>
    LET runs == SetToSortSeq(Runs(call.s, call.split), LAMBDA a, b : a[1] < b[1])
    IN  /\ result.val.ret = 1 <=> Len(runs) < MAX_ARGUMENTS
        /\ Len(result.val.argv) < MAX_ARGUMENTS
        /\ \A k \in 1..Len(result.val.argv) : result.val.argv[k] = SubSeq(call.s, runs[k][1], runs[k][2])

\* vsnprintf stores the longest prefix that leaves room for the zero and counts
\* all that was printed; a program's cprintf hands every character over once,
\* in order, in pieces its buffer can hold, and counts them; the kernel's shows
\* them too, but its count is always 0.
OutputBounded ==
  Done("printf") =>
    LET r == result.val
    IN  /\ call.n >= 1 => /\ Len(r.buf.buf) <= call.n /\ Last(r.buf.buf) = 0
                          /\ Front(r.buf.buf) = Cut(r.out, call.n - 1) /\ r.buf.ret = Len(r.out)
        /\ FlattenSeq(r.calls.calls) = r.out /\ r.calls.ret = Len(r.out)
        /\ r.kernel.shown = r.out /\ r.kernel.ret = 0
        /\ \A k \in 1..Len(r.calls.calls) : Len(r.calls.calls[k]) < PRINTBUF

NumberRead == Done("strtol") => result.val = [val |-> Wrap(call.num), end |-> call.stop]
NumberFilled ==
  Done("printf") /\ "v" \in DOMAIN call /\ call.pad # <<45>> =>
    LET out == result.val.out
        digits == SubSeq(out, IF call.v < 0 THEN 2 ELSE 1, Len(out))
    IN  /\ call.v < 0 => out[1] = 45
        /\ strtol(digits, 10).val = Wrap(Magnitude(call.v))
        /\ Len(digits) >= call.width /\ (Len(digits) > call.width => digits[1] # 32 /\ (digits[1] = 48 => call.v = 0))

\* Numbers survive the way out and back.  strtol reads back what ltostr wrote,
\* for numbers other than the most negative one of which no digit but the last
\* is zero: for the others ltostr leaves digits out.  It reads every number
\* written with a base prefix, sign or blanks, modulo the width of a long, and
\* stops at the first character that is no digit.  A number cprintf prints under
\* a width, with blanks or zeroes for padding, reads back as itself, its padding
\* fills the width, and its sign stands before the padding and outside the
\* width; nothing is said of numbers under the flag '-'.
NumbersReadBack == LtostrReadBack /\ NumberRead /\ NumberFilled

\* The library computes what its callers rely on, at the boundaries of its
\* inputs and with the two exceptions that NumbersReadBack names: bytes moved
\* over overlapping ranges (MovesExact), the words and the command of a line
\* (LineUnderstood), numbers written and read back (NumbersReadBack), and output cut to its buffer but never lost
\* (OutputBounded): lib/string.c, lib/printfmt.c and lib/printf.c.
LibraryExact == MovesExact /\ LineUnderstood /\ NumbersReadBack /\ OutputBounded

\* stab_binsearch finds the last entry of the type at or below the address and
\* the entries up to the next one of that type (backtraces of the kernel), when
\* entries of a type are more than PtrStep bytes apart.
SymbolFound ==
  Done("debuginfo") =>
    LET at == {k \in 0..(Len(call.t) - 1) : stab(call.t, k).type = call.type /\ stab(call.t, k).value <= call.addr}
        after == {k \in 0..(Len(call.t) - 1) : stab(call.t, k).type = call.type /\ stab(call.t, k).value > call.addr}
    IN  at # {} => /\ result.val.search.left = Max(at)
                   /\ result.val.search.right = IF after = {} THEN Len(call.t) - 1 ELSE Min(after) - 1

BootImage ==
  Done("cmain") /\ call.elf.magic =>
    \A k \in 1..Len(call.elf.phs) : LET ph == call.elf.phs[k]
      IN \A i \in 0..(ph.filesz - 1) : result.val.mem[ph.va + i] = call.disk[SECTSIZE + ph.offset + i]

\* After cmain every byte of a segment's file image is at its address, also when
\* segments share sectors, for the layouts the linker makes (address and offset
\* agree within a sector, segments lie in the file as they do in memory); and
\* ide_read and ide_write report success only if every sector was transferred,
\* and touch nothing but the sectors asked for.
SectorsWhole ==
  /\ BootImage
  /\ Done("ide_read") =>
       /\ result.val.ret = 0 => \A i \in 0..(call.n * SECTSIZE - 1) : result.val.mem[call.at + i] = call.disk[call.sec * SECTSIZE + i]
       /\ \A a \in DOMAIN call.mem \ (call.at..(call.at + call.n * SECTSIZE - 1)) : result.val.mem[a] = call.mem[a]
  /\ Done("ide_write") =>
       /\ result.val.ret = 0 => \A i \in 0..(call.n * SECTSIZE - 1) : result.val.disk[call.sec * SECTSIZE + i] = call.mem[call.at + i]
       /\ \A a \in DOMAIN call.disk \ (call.sec * SECTSIZE..(call.sec + call.n) * SECTSIZE - 1) : result.val.disk[a] = call.disk[a]

\* After boot no frame of free_frame_list lies in what the kernel has taken (its
\* image, stack, directory, tables and arrays) or in the I/O hole or beyond the
\* memory, no two boot allocations overlap, every byte up to ptr_free_mem can be
\* reached at KERNEL_BASE, although mapping it may itself need tables, and
\* check_boot_pgdir's assertions hold.
Frames(space) == (space[1] \div PAGE_SIZE)..((space[1] + space[2] - 1) \div PAGE_SIZE)
BootMemorySafe ==
  Done("boot") =>
    LET r == result.val
        c == call.machine
        kernel == UNION ({Frames(s) : s \in r.vm.taken} \cup {Frames(<<c.high * PAGE_SIZE, c.end - c.high * PAGE_SIZE>>)})
    IN  /\ r.free \cap (kernel \cup 0..2 \cup c.io..(c.high - 1)) = {}
        /\ \A f \in r.free : f < r.frames
        /\ kernel \subseteq 0..(r.frames - 1)
        /\ \A s, t \in r.vm.taken : s # t => Frames(s) \cap Frames(t) = {}
        /\ \A f \in kernel : check_va2pa(c, r.vm, BASE * c.slots + f) = f
        /\ r.checked

\* From the boot sector to the first free frame nothing is read short or
\* overwritten: the kernel's image is whole in memory (SectorsWhole, boot/main.c
\* and lib/disk.c) and what the kernel then takes of the memory stays apart from
\* what it gives away (BootMemorySafe, initialize_kernel_VM to initialize_paging).
BootSafe == SectorsWhole /\ BootMemorySafe

Live(envs) == {i \in DOMAIN envs : envs[i].status # "FREE"}

\* An id names one environment: no two have the same and none has 0, although
\* the bits of the generation and of the slot overlap when NENV is no power of
\* two; and whatever other number is given at the prompt or in a system call,
\* envid2env finds the environment with that id or stores no pointer.  Under 0
\* it gives the caller, which is what sys_env_destroy(0) of lib/exit.c needs.
IdNamesOne ==
  Done("envid2env") =>
    LET envs == result.val.envs
        found == result.val.found
    IN  /\ \A i, j \in Live(envs) : i # j => envs[i].id # envs[j].id
        /\ \A i \in Live(envs) : envs[i].id # 0
        /\ \A id \in call.ids \ {0} :
              IF found[id].ret = 0 THEN found[id].env \in Live(envs) /\ envs[found[id].env].id = id
              ELSE found[id].env = -1
        /\ 0 \in call.ids => found[0] = [ret |-> 0, env |-> call.cur]

\* A system call arrives: the kernel's function for the stub is called with the
\* stub's arguments in their places, cut to a byte where either side does, and
\* its result comes back where the stub returns one.  Left out are the calls of
\* semaphores and shared objects, which no case serves and which fail, and the
\* three of which the switch drops the result (kern/syscall.c).
CallsArrive ==
  Done("syscall") =>
    LET s == Stub(call.name)
        r == result.val
    IN  IF s.call \in Unserved THEN r.fn = "none" /\ r.result = E_INVALID
        ELSE /\ r.fn = KernelName(call.name)
             /\ r.args = [i \in 1..Len(s.args) |-> Narrow(s.args[i], call.v[i])]
             /\ s.returns /\ s.call \notin Dropped => r.result = "its"

\* "Look up the Env structure via the index part of the envid" (envid2env in
\* helpers.c), as kern/test_priority.c does with 4096, 4097 and 4098, the ids
\* of the first three environments: every environment is found by its id.
EveryIdFound ==
  Done("envid2env") => \A i \in Live(result.val.envs) :
    result.val.envs[i].id \in call.ids => result.val.found[result.val.envs[i].id].env = i

\* Quick sort and merge sort leave a sorted permutation, so that CheckSorted of
\* the programs never panics; the median of the statistics is the element of
\* rank n/2, whatever pivots the clock draws, when no value occurs twice (the
\* elements equal to a pivot fall between the two parts that are searched).
Count(E, v) == Cardinality({i \in DOMAIN E : E[i] = v})
SortsAll ==
  /\ Done("quick") \/ Done("merge") =>
       CheckSorted(result.val) /\ \A i \in DOMAIN call.E : Count(result.val, call.E[i]) = Count(call.E, call.E[i])
  /\ Done("stats") =>
       \A m \in result.val.med : LET n == Cardinality(DOMAIN call.E) IN
         n >= 2 /\ IsInjective(call.E) => /\ Cardinality({i \in DOMAIN call.E : call.E[i] < m}) < n \div 2
                                          /\ Cardinality({i \in DOMAIN call.E : call.E[i] <= m}) >= n \div 2
=============================================================================
