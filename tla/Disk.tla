-------------------------------- MODULE Disk --------------------------------
(***************************************************************************)
(* Sectors between the disk and memory: the boot loader (boot/main.c) and   *)
(* the polling IDE driver (lib/disk.c).  A sector has SECTSIZE bytes; disk  *)
(* and memory are functions from byte addresses; the disk is external.      *)
(***************************************************************************)
EXTENDS Integers, Sequences, FiniteSetsExt, SequencesExt

CONSTANT SECTSIZE

RoundDown(a) == a - (a % SECTSIZE)

\* One sector to memory, from the registers' number.
readsect(mem, disk, va, sector) ==
  [a \in DOMAIN mem |-> IF a \in va..(va + SECTSIZE - 1) THEN disk[sector * SECTSIZE + a - va] ELSE mem[a]]
\* Whole sectors in increasing order; the kernel starts at sector 1.
readseg(mem, disk, va, count, offset) ==
  LET first == RoundDown(va)
      n == (va + count - first + SECTSIZE - 1) \div SECTSIZE
  IN  FoldLeft(LAMBDA m, k : readsect(m, disk, first + k * SECTSIZE, offset \div SECTSIZE + 1 + k), mem, [k \in 1..n |-> k - 1])

\* The header's segments in its order, then the entry point; without the magic
\* number the loader spins.
cmain(mem, disk, elf) ==
  IF ~elf.magic THEN [state |-> "bad", mem |-> mem]
  ELSE [state |-> "kernel",
        mem |-> FoldLeft(LAMBDA m, ph : readseg(m, disk, ph.va, ph.memsz, ph.offset), mem, elf.phs)]

-----------------------------------------------------------------------------
\* A device that reports an error instead of the sector number `bad` of the
\* transfer, or never when bad = 0; callers ask for 1 to 256 sectors.  ide_write
\* does not wait behind its last sector: here the device always takes it.
\* ide_wait_ready with and without the check.
ide_wait_ready(check_error, failing) == IF check_error /\ failing THEN -1 ELSE 0

\* How many of the sectors have moved when the call returns, and its result.
Transfer(nsecs, bad) ==
  LET moved == {k \in 0..nsecs : \A i \in 1..k : ide_wait_ready(TRUE, i = bad) = 0}
  IN  [moved |-> Max(moved), ret |-> IF Max(moved) < nsecs THEN -1 ELSE 0]
ide_read(mem, disk, secno, dst, nsecs, bad) ==
  [ret |-> Transfer(nsecs, bad).ret,
   mem |-> [a \in DOMAIN mem |-> IF a \in dst..(dst + Transfer(nsecs, bad).moved * SECTSIZE - 1)
                                 THEN disk[secno * SECTSIZE + a - dst] ELSE mem[a]]]
ide_write(mem, disk, secno, src, nsecs, bad) ==
  LET at == secno * SECTSIZE
  IN  [ret |-> Transfer(nsecs, bad).ret,
       disk |-> [a \in DOMAIN disk |-> IF a \in at..(at + Transfer(nsecs, bad).moved * SECTSIZE - 1)
                                       THEN mem[src + a - at] ELSE disk[a]]]
=============================================================================
