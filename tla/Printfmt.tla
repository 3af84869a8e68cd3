------------------------------ MODULE Printfmt ------------------------------
(***************************************************************************)
(* Formatted output: vprintfmt and its helpers (lib/printfmt.c), the        *)
(* buffers behind vsnprintf and the programs' cprintf (lib/printf.c) and    *)
(* the kernel's cprintf (kern/printf.c).  A format is a sequence of         *)
(* character codes; what putch receives, in order, is the output.           *)
(***************************************************************************)
EXTENDS Strings

CONSTANT PRINTBUF          \* the size of a program's output buffer
NULL == <<0>>              \* a null pointer given for %s

\* inc/error.h: the codes with a text of their own; texts are left abstract.
Known == 1..6
error_string(e) == <<101, 48 + e>>
\* The error codes are negative already: -E_INVAL is 3.
E_INVAL == -3

-----------------------------------------------------------------------------
DigitChar(d) == IF d < 10 THEN 48 + d ELSE 87 + d
Padding(c, n) == [i \in 1..Max({n, 0}) |-> c]

RECURSIVE printnum(_, _, _, _)
\* The digits of num, padded on the left of the first one.
printnum(num, base, width, padc) ==
  IF num >= base THEN printnum(num \div base, base, width - 1, padc) \o <<DigitChar(num % base)>>
  ELSE Padding(padc, width - 1) \o <<DigitChar(num)>>

\* An int or long argument is LongBits wide, a long long twice that.
Unsigned(v, bits) == v % 2^bits
getuint(v, lflag) == IF lflag >= 2 THEN Unsigned(v, 2 * LongBits) ELSE Unsigned(v, LongBits)
getint(v, lflag) == IF lflag >= 2 THEN v ELSE Wrap(v)

\* %s: pads on the left unless '-' was given, cuts at the precision, replaces
\* what cannot be printed under '#', then fills with spaces.
StringField(p, f) ==
  LET cut == IF f.precision < 0 THEN p ELSE SubSeq(p, 1, Min({f.precision, Len(p)}))
      left == IF f.width > 0 /\ f.padc # 45 THEN f.width - Len(cut) ELSE 0
      shown == [i \in 1..Len(cut) |-> IF f.altflag /\ cut[i] \notin 32..126 THEN 63 ELSE cut[i]]
      used == IF f.width > 0 /\ f.padc # 45 THEN Min({left, 0}) ELSE f.width
  IN  Padding(f.padc, left) \o shown \o Padding(32, used - Len(cut))

NumberField(v, f, conv) ==
  LET neg == conv = 100 /\ getint(v, f.lflag) < 0
      num == CASE conv = 100 -> IF neg THEN -getint(v, f.lflag) ELSE getint(v, f.lflag)
               [] conv = 112 -> Unsigned(v, LongBits)
               [] OTHER -> getuint(v, f.lflag)
      base == IF conv \in {112, 120} THEN 16 ELSE 10
  IN  (IF neg THEN <<45>> ELSE <<>>) \o (IF conv = 112 THEN <<48, 120>> ELSE <<>>)
        \o printnum(num, base, f.width, f.padc)

ErrorField(v) == LET err == IF v < 0 THEN -v ELSE v
                 IN  IF err \in Known THEN error_string(err) ELSE <<101, 32>> \o printnum(err, 10, -1, 32)

Plain == [padc |-> 32, width |-> -1, precision |-> -1, lflag |-> 0, altflag |-> FALSE]
\* A number in the format or from '*' is the width first and the precision next.
process_precision(f, n) == IF f.width < 0 THEN [f EXCEPT !.width = n, !.precision = -1]
                           ELSE [f EXCEPT !.precision = n]

RECURSIVE vprintfmt(_, _), Escape(_, _, _, _)
\* The escape whose flags f are read up to position i; fmt begins after its '%',
\* where an escape that is not known leaves the reader.
Escape(fmt, i, f, a) ==
  LET ch == At(fmt, i)
      rest == SubSeq(fmt, i + 1, Len(fmt))
      end == CHOOSE n \in i..(Len(fmt) + 1) : At(fmt, n) \notin 48..57 /\ \A k \in i..(n - 1) : fmt[k] \in 48..57
      number == FoldLeft(LAMBDA v, c : v * 10 + c - 48, 0, SubSeq(fmt, i, end - 1))
  IN CASE ch = 45 -> Escape(fmt, i + 1, [f EXCEPT !.padc = 45], a)
       [] ch = 48 -> Escape(fmt, i + 1, [f EXCEPT !.padc = 48], a)
       [] ch \in 49..57 -> Escape(fmt, end, process_precision(f, number), a)
       [] ch = 42 -> Escape(fmt, i + 1, process_precision(f, Head(a)), Tail(a))
       [] ch = 46 -> Escape(fmt, i + 1, [f EXCEPT !.width = Max({@, 0})], a)
       [] ch = 35 -> Escape(fmt, i + 1, [f EXCEPT !.altflag = TRUE], a)
       [] ch = 108 -> Escape(fmt, i + 1, [f EXCEPT !.lflag = @ + 1], a)
       [] ch = 99 -> <<Head(a)>> \o vprintfmt(rest, Tail(a))
       [] ch = 101 -> ErrorField(Head(a)) \o vprintfmt(rest, Tail(a))
       [] ch = 115 -> StringField(IF Head(a) = NULL THEN <<40, 41>> ELSE Head(a), f) \o vprintfmt(rest, Tail(a))
       [] ch \in {100, 117, 112, 120} -> NumberField(Head(a), f, ch) \o vprintfmt(rest, Tail(a))
       [] ch = 111 -> <<88, 88, 88>> \o vprintfmt(rest, a)
       [] ch = 37 -> <<37>> \o vprintfmt(rest, a)
       [] OTHER -> <<37>> \o vprintfmt(fmt, a)
\* Everything up to the next escape, then the escape; arguments in order.
vprintfmt(fmt, args) ==
  IF fmt = <<>> THEN <<>>
  ELSE IF Head(fmt) = 37 THEN Escape(Tail(fmt), 1, Plain, args)
  ELSE <<Head(fmt)>> \o vprintfmt(Tail(fmt), args)

-----------------------------------------------------------------------------
\* sprintputch counts every character and stores those that fit; vsnprintf
\* then writes the zero.
sprintputch(b, ch) == [buf |-> IF Len(b.buf) < b.room THEN Append(b.buf, ch) ELSE b.buf,
                       room |-> b.room, cnt |-> b.cnt + 1]
vsnprintf(n, out) ==
  IF n < 1 THEN [ret |-> -E_INVAL, buf |-> <<>>]
  ELSE LET b == FoldLeft(sprintputch, [buf |-> <<>>, room |-> n - 1, cnt |-> 0], out)
       IN  [ret |-> b.cnt, buf |-> Append(b.buf, 0)]

\* A program's putch makes a system call when the buffer is full but one.
putch(b, ch) == LET full == Append(b.buf, ch)
                IN  [buf |-> IF Len(full) = PRINTBUF - 1 THEN <<>> ELSE full, cnt |-> b.cnt + 1,
                     calls |-> IF Len(full) = PRINTBUF - 1 THEN Append(b.calls, full) ELSE b.calls]
\* The sys_cputs calls of one cprintf, and what it returns.
vcprintf(out) == LET b == FoldLeft(putch, [buf |-> <<>>, cnt |-> 0, calls |-> <<>>], out)
                 IN  [ret |-> b.cnt, calls |-> Append(b.calls, b.buf)]
\* The kernel's putch advances the pointer to the count, so that the count the
\* caller gets is still 0.
kernel_vcprintf(out) == [ret |-> 0, shown |-> out]
=============================================================================
