------------------------------- MODULE Prompt -------------------------------
(***************************************************************************)
(* Who reads the console: the command prompt of kern/command_prompt.c with *)
(* its line editor, its history and its completion, and user programs with *)
(* the readline of lib/readline.c.                                         *)
(*                                                                         *)
(* The prompt runs in the kernel while no program is ready, so one key is  *)
(* one step. Programs ask for a character by a system call; the clock may  *)
(* switch between two calls unless the program has disabled interrupts.    *)
(***************************************************************************)
EXTENDS Console

CONSTANTS
    BUFLEN,         \* characters of a line, with the final 0
    HISTORY_MAX,    \* index of the last entry of the history
    Commands,       \* names of the commands, a sequence of sequences
    UserPrograms,   \* names of the user programs
    Programs,       \* programs that read lines
    PromptKeys, ProgramKeys, \* keys pressed and released at once, in either mode
    HoldKeys,       \* keys that are held down
    Beyond,         \* what the memory around command_history may read as
    Starts,         \* where the cursor may stand at the start
    KbdMax,         \* bound on bytes waiting at the keyboard when a key is hit
    PlainKeys,      \* keys that count once towards MaxStrokes; the others twice
    MaxStrokes,     \* bound on keys at the prompt
    MaxReads,       \* bound on keys while programs run
    MaxLines        \* bound on lines entered at the prompt

ASSUME PromptAssumption ==
    /\ BUFLEN \in Nat \ {0, 1}
    /\ HISTORY_MAX \in Nat
    /\ \A key \in PromptKeys \cup ProgramKeys \cup HoldKeys :
          key \in STRING \X BOOLEAN /\ key[1] # "E0"
    /\ Starts \subseteq 0 .. CRT_SIZE - 1

VARIABLES
    con,        \* the console, see Console
    kbd, com,   \* bytes pending at the keyboard and at the serial port
    held,       \* keys that are down
    mode,       \* "prompt", "programs", or "down": the editor has gone past buf
    ed,         \* the locals of command_prompt_readline
    hist,       \* command_history
    last_command_idx,   \* one more than in the code: 0 is the code's -1
    ran,        \* the lines executed and what was found for them (ghost)
    cur, intr,  \* the program that runs; whether it can be interrupted
    rd,         \* the locals of readline in each program
    strokes     \* keys so far in this mode (bound)

vars == <<con, kbd, com, held, mode, ed, hist, last_command_idx, ran, cur,
          intr, rd, strokes>>

NUL == "NUL"
empty == [k \in 0 .. BUFLEN - 1 |-> NUL]

-----------------------------------------------------------------------------
(* Strings in a buffer. *)

strlen(buf) == CHOOSE n \in 0 .. BUFLEN - 1 :
                   buf[n] = NUL /\ \A k \in 0 .. n - 1 : buf[k] # NUL

Text(buf) == [k \in 1 .. strlen(buf) |-> buf[k - 1]]

(* The buffer with the string s written at its start, the rest kept.       *)
Over(buf, s) == [k \in 0 .. BUFLEN - 1 |-> IF k < Len(s) THEN s[k + 1] ELSE buf[k]]

WHITESPACE == {"TAB", "CR", "NL", " "}

(* strsplit: the words between white space. *)
strsplit(s) ==
    LET Step(acc, c) ==
            CASE c \in WHITESPACE -> [acc EXCEPT !.open = FALSE]
              [] acc.open -> [acc EXCEPT !.words[Len(acc.words)] = Append(@, c)]
              [] OTHER -> [words |-> Append(acc.words, <<c>>), open |-> TRUE]
    IN FoldLeft(Step, [words |-> <<>>, open |-> FALSE], s).words

(* Printable in the code's sense, c >= ' ': arrows and delete included.    *)
Printable(c) == c \notin {"BS", "NL", "CR", "TAB", "^R", "^S"}

-----------------------------------------------------------------------------
(* The line editor. *)

Blanks(n) == [k \in 1 .. n |-> "BS"]

(* The line becomes s: erase n characters, write those of s. *)
Rewrite(e, st, n, s) ==
    <<[e EXCEPT !.buf = Over(empty, s), !.i = Len(s), !.lastIndex = Len(s)],
      PutAll(st, Blanks(n) \o s)>>

(* hist[n + 1] is the code's command_history[n]; mem stands for what is    *)
(* read outside the array.                                                 *)
clearandwritecommand(e, st, mem) ==
    Rewrite(e, st, e.i, IF e.commandidx <= HISTORY_MAX THEN hist[e.commandidx + 1]
                        ELSE mem)

UpArrow(e, st, mem) ==
    clearandwritecommand([e EXCEPT !.commandidx = IF @ > 0 THEN @ - 1 ELSE 0], st, mem)

(* With a full history the first down arrow of a line reads behind it.     *)
DownArrow(e, st, mem) ==
    IF last_command_idx = 0 THEN <<e, st>>
    ELSE clearandwritecommand(
             [e EXCEPT !.commandidx = IF @ + 1 < last_command_idx THEN @ + 1 ELSE @],
             st, mem)

IsPrefixOf(p, s) == Len(p) <= Len(s) /\ SubSeq(s, 1, Len(p)) = p

(* What the first tab in a row offers for the line: names that begin with  *)
(* its last word, after the words before it. A line that begins with white *)
(* space has an empty first word in the code's copy.                       *)
Completions(line, words) ==
    LET lastw == words[Len(words)]
        stem  == SubSeq(line, 1, Len(line) - Len(lastw))
        key   == IF Len(words) = 1
                 THEN IF line[1] \in WHITESPACE THEN <<>> ELSE words[1]
                 ELSE lastw
    IN IF Len(words) = 1 THEN SelectSeq(Commands, LAMBDA n : IsPrefixOf(key, n))
       ELSE LET fit == SelectSeq(UserPrograms, LAMBDA n : IsPrefixOf(key, n))
            IN [k \in DOMAIN fit |-> stem \o fit[k]]

(* Nothing is offered for an empty line, a line that ends in a blank, or   *)
(* arguments of a command other than run and load.                         *)
Offers(line, words) ==
    /\ line # <<>> /\ line[Len(line)] # " "
    /\ Len(words) > 1 => words[1] = Commands[1]

(* The first tab. With arguments, the last one is cut from buf before its  *)
(* names are known.                                                        *)
FirstTab(e, st) ==
    LET line  == Text(e.buf)
        words == strsplit(line)
        cut   == IF Len(words) > 1
                 THEN Over(e.buf, SubSeq(line, 1, Len(line) - Len(words[Len(words)]))
                                  \o <<NUL>>)
                 ELSE e.buf
        pl    == Completions(line, words)
        done  == Over(cut, pl[1])
        asked == [e EXCEPT !.PrefixList = pl, !.size = Len(pl), !.last_c = "TAB"]
    IN CASE line = <<>> -> <<[e EXCEPT !.PrefixList = <<>>], st>>
         [] line # <<>> /\ ~Offers(line, words) ->
                <<[e EXCEPT !.PrefixList = <<>>, !.size = 0], st>>
         [] pl = <<>> -> <<[asked EXCEPT !.buf = cut,
                                         !.plain = @ /\ cut = e.buf], st>>
         [] OTHER -> LET n == strlen(done)
                     IN <<[asked EXCEPT !.buf = done, !.idx = 0, !.i = n, !.lastIndex = n],
                          PutAll(st, Blanks(Len(line)) \o Text(done))>>

(* A tab after a tab goes on to the next name. *)
RoundAutoCompleteCommandWithTheSamePrefix(e, st) ==
    IF e.size = 0 THEN <<e, st>>
    ELSE LET next == (e.idx + 1) % e.size
             old  == IF e.PrefixList = <<>> THEN <<>> ELSE e.PrefixList[e.idx + 1]
             name == IF e.PrefixList = <<>> THEN <<>> ELSE e.PrefixList[next + 1]
         IN Rewrite([e EXCEPT !.idx = next], st, Len(old), name)

Tab(e, st) == IF e.last_c = "TAB"
              THEN RoundAutoCompleteCommandWithTheSamePrefix(e, st)
              ELSE FirstTab(e, st)

LeftArrow(e, st) == IF e.i = 0 THEN <<e, st>>
                    ELSE <<[e EXCEPT !.i = @ - 1, !.plain = FALSE], cons_putc(st, "LF")>>

RightArrow(e, st) == IF e.i >= e.lastIndex THEN <<e, st>>
                     ELSE <<[e EXCEPT !.i = @ + 1, !.plain = FALSE], cons_putc(st, "RT")>>

(* The characters from the cursor to lastIndex move one to the left.       *)
DeleteKey(e, st) ==
    <<[e EXCEPT !.buf = [k \in 0 .. BUFLEN - 1 |->
                            IF k \in e.i .. e.lastIndex THEN @[k + 1] ELSE @[k]],
                !.lastIndex = @ - 1, !.plain = FALSE], st>>

TypedKey(e, st, c) ==
    <<[e EXCEPT !.buf[e.i] = c, !.i = @ + 1, !.lastIndex = @ + 1,
                !.plain = @ /\ c # "DEL"], cons_putc(st, c)>>

(* Mutant: the character that was taken back stays in the line.            *)
BackspaceKeyKeeps(e, st) ==
    <<[e EXCEPT !.i = @ - 1], cons_putc(st, "BS")>>

(* Only the character under the cursor moves; lastIndex stays.             *)
BackspaceKey(e, st) ==
    <<[e EXCEPT !.buf[e.i - 1] = e.buf[e.i], !.i = @ - 1], cons_putc(st, "BS")>>

(* One key, in the order in which command_prompt_readline compares it.     *)
EditKey(e, st, c, mem) ==
    CASE c = "UP"  -> UpArrow(e, st, mem)
      [] c = "DN"  -> DownArrow(e, st, mem)
      [] c = "TAB" -> Tab(e, st)
      [] c = "LF"  -> LeftArrow(e, st)
      [] c = "RT"  -> RightArrow(e, st)
      [] c = "DEL" /\ e.i > 0 -> DeleteKey(e, st)
      [] Printable(c) /\ c \notin {"UP", "DN", "LF", "RT"} /\ (c = "DEL" => e.i = 0)
         /\ e.i < BUFLEN - 1 -> TypedKey(e, st, c)
      [] c = "BS" /\ e.i > 0 -> BackspaceKey(e, st)
      [] OTHER -> <<e, st>>

(* The key reads or writes behind buf. lastIndex grows with every typed    *)
(* character and no backspace takes it back: enter puts the final 0 there, *)
(* delete moves everything up to there, and the right arrow goes there. A  *)
(* name may also be too long.                                              *)
Overruns(e, c) ==
    LET line  == Text(e.buf)
        words == strsplit(line)
    IN \/ c \in {"NL", "CR"} /\ e.lastIndex >= BUFLEN
       \/ c = "DEL" /\ e.i > 0 /\ e.lastIndex >= BUFLEN - 1
       \/ c = "BS" /\ e.i >= BUFLEN
       \/ /\ c = "TAB" /\ e.last_c # "TAB" /\ Offers(line, words)
          /\ \E name \in Range(Completions(line, words)) : Len(name) >= BUFLEN

(* The line joins the history unless it repeats the entry before it; a     *)
(* full history is shifted without that comparison.                        *)
Remember(line, mem) ==
    IF last_command_idx = HISTORY_MAX + 1
    THEN /\ hist' = [n \in 1 .. HISTORY_MAX + 1 |->
                        IF n <= HISTORY_MAX THEN hist[n + 1] ELSE line]
         /\ UNCHANGED last_command_idx
    ELSE IF line # (IF last_command_idx = 0 THEN mem ELSE hist[last_command_idx])
         THEN /\ hist' = [hist EXCEPT ![last_command_idx + 1] = line]
              /\ last_command_idx' = last_command_idx + 1
         ELSE UNCHANGED <<hist, last_command_idx>>

(* execute_command: the command whose name is the first word; 0 for none.  *)
execute_command(line) ==
    LET words == strsplit(line)
        fit   == {n \in DOMAIN Commands : words # <<>> /\ Commands[n] = words[1]}
    IN IF fit = {} THEN 0 ELSE CHOOSE n \in fit : \A m \in fit : n <= m

prompt == [k \in 1 .. PROMPT_LEN |-> ">"]

NewLine(lastc, pl, psize, n) ==
    [buf |-> empty, i |-> 0, lastIndex |-> 0, commandidx |-> n,
     last_c |-> lastc, PrefixList |-> pl, size |-> psize, idx |-> 0,
     plain |-> TRUE]

-----------------------------------------------------------------------------
Idle == [reading |-> FALSE, atomic |-> FALSE, i |-> 0, buf |-> empty, plain |-> TRUE]

Init ==
    /\ \E pos \in Starts : con = PutAll(console_initialize(pos), prompt)
    /\ kbd = <<>> /\ com = <<>> /\ held = {}
    /\ mode = "prompt"
    /\ ed = NewLine(NO, <<>>, 0, 0)
    /\ hist = [n \in 1 .. HISTORY_MAX + 1 |-> <<>>]
    /\ last_command_idx = 0
    /\ ran = [line |-> <<>>, found |-> 0, lines |-> 0]
    /\ cur \in Programs
    /\ intr = [p \in Programs |-> TRUE]
    /\ rd = [p \in Programs |-> Idle]
    /\ strokes = 0

-----------------------------------------------------------------------------
(* The user at the keyboard, and the serial line. *)

MayType(n) ==
    mode # "down" /\ strokes + n <= (IF mode = "prompt" THEN MaxStrokes ELSE MaxReads)

Typing(bytes, n) ==
    /\ MayType(n) /\ Len(kbd) <= KbdMax
    /\ kbd' = kbd \o bytes
    /\ strokes' = strokes + n
    /\ UNCHANGED <<con, com, mode, ed, hist, last_command_idx, ran, cur, intr, rd>>

Stroke(key) ==
    /\ key \in IF mode = "prompt" THEN PromptKeys ELSE ProgramKeys
    /\ Typing(Bytes(key, FALSE) \o Bytes(key, TRUE), IF key \in PlainKeys THEN 1 ELSE 2)
    /\ UNCHANGED held

Press(key) ==
    /\ mode = "programs" /\ key \in HoldKeys \ held
    /\ Typing(Bytes(key, FALSE), 1)
    /\ held' = held \cup {key}

Release(key) ==
    /\ mode = "programs" /\ key \in held
    /\ Typing(Bytes(key, TRUE), 1)
    /\ held' = held \ {key}

SerialInput(c) ==
    /\ mode = "programs" /\ MayType(1) /\ com = <<>>
    /\ com' = <<c>>
    /\ strokes' = strokes + 1
    /\ UNCHANGED <<con, kbd, held, mode, ed, hist, last_command_idx, ran, cur, intr, rd>>

-----------------------------------------------------------------------------
(* The prompt. *)

Adjusted(e) == [e EXCEPT !.lastIndex = IF e.i > @ THEN e.i ELSE @]

(* getchar polls the devices; a key other than enter edits the line.       *)
PromptKey ==
    /\ mode = "prompt"
    /\ kbd # <<>> \/ Waiting(con) # <<>>
    /\ LET r == cons_getc(con, com, kbd)
       IN /\ r[1] \notin {"NL", "CR"} /\ ~Overruns(Adjusted(ed), r[1])
          /\ IF r[1] = NO THEN con' = r[2] /\ UNCHANGED ed
             ELSE \E mem \in Beyond :
                    LET k == EditKey(Adjusted(ed), r[2], r[1], mem)
                    IN /\ con' = k[2]
                       /\ ed' = IF r[1] = "TAB" THEN k[1]
                                ELSE [k[1] EXCEPT !.last_c = r[1]]
    /\ kbd' = <<>> /\ com' = <<>>
    /\ UNCHANGED <<held, mode, hist, last_command_idx, ran, cur, intr, rd, strokes>>

(* Enter: the line is remembered and executed. A program that is run takes *)
(* the processor from the prompt. The next line finds last_c and           *)
(* prefix_list_size as the stack has them: what they were, or anything.    *)
PromptEnter ==
    /\ mode = "prompt"
    /\ kbd # <<>> \/ Waiting(con) # <<>>
    /\ ran.lines < MaxLines
    /\ LET r     == cons_getc(con, com, kbd)
           e     == Adjusted(ed)
           line  == Text([e.buf EXCEPT ![e.lastIndex] = NUL])
           words == strsplit(line)
           runs  == Len(words) > 1 /\ words[1] = Commands[1]
                    /\ words[2] \in Range(UserPrograms)
           below == cons_putc(r[2], r[1])
       IN /\ r[1] \in {"NL", "CR"} /\ ~Overruns(e, r[1])
          /\ \E mem \in Beyond : Remember(line, mem)
          /\ ran' = [line |-> line, found |-> execute_command(line), lines |-> ran.lines + 1]
          /\ mode' = IF runs THEN "programs" ELSE "prompt"
          /\ con' = IF runs THEN below ELSE PutAll(below, prompt)
          /\ \E left \in {<<NO, 0>>, <<e.last_c, e.size>>} :
                ed' = NewLine(left[1], e.PrefixList, left[2], last_command_idx')
          /\ strokes' = IF runs THEN 0 ELSE strokes
    /\ kbd' = <<>> /\ com' = <<>>
    /\ UNCHANGED <<held, cur, intr, rd>>

(* The stack of run_command_prompt behind buf is read or overwritten:      *)
(* nothing is said about what comes next.                                  *)
PromptOverrun ==
    /\ mode = "prompt"
    /\ kbd # <<>> \/ Waiting(con) # <<>>
    /\ LET r == cons_getc(con, com, kbd)
       IN Overruns(Adjusted(ed), r[1]) /\ con' = r[2]
    /\ mode' = "down"
    /\ kbd' = <<>> /\ com' = <<>>
    /\ UNCHANGED <<held, ed, hist, last_command_idx, ran, cur, intr, rd, strokes>>

-----------------------------------------------------------------------------
(* User programs. *)

(* Mutant: atomic_readline leaves interrupts enabled.                      *)
StartReadlineOpen(atomic) ==
    /\ mode = "programs" /\ ~rd[cur].reading
    /\ rd' = [rd EXCEPT ![cur] = [Idle EXCEPT !.reading = TRUE, !.atomic = atomic]]
    /\ UNCHANGED <<con, kbd, com, held, mode, ed, hist, last_command_idx, ran, cur,
                   intr, strokes>>

(* The start of readline, or of atomic_readline, in the running program.   *)
StartReadline(atomic) ==
    /\ mode = "programs" /\ ~rd[cur].reading
    /\ rd' = [rd EXCEPT ![cur] = [Idle EXCEPT !.reading = TRUE, !.atomic = atomic]]
    /\ intr' = [intr EXCEPT ![cur] = ~atomic]
    /\ UNCHANGED <<con, kbd, com, held, mode, ed, hist, last_command_idx, ran, cur, strokes>>

(* What readline does with a character: keep it, take one back, or end.    *)
LineKey(l, c) ==
    CASE Printable(c) /\ l.i < BUFLEN - 1 ->
            [l EXCEPT !.buf[l.i] = c, !.i = @ + 1,
                      !.plain = @ /\ c \notin {"LF", "RT", "DEL"}]
      [] c = "BS" /\ l.i > 0 -> [l EXCEPT !.i = @ - 1]
      [] c \in {"NL", "CR"} -> Idle
      [] OTHER -> l

(* cputchar in a program is a system call that ends in cons_putc.          *)
cputchar(st, c) == cons_putc(st, c)

Echoed(l, c) == \/ Printable(c) /\ l.i < BUFLEN - 1
                \/ c = "BS" /\ l.i > 0
                \/ c \in {"NL", "CR"}

(* One system call of getchar in the running program.                      *)
ReadChar ==
    /\ mode = "programs" /\ rd[cur].reading
    /\ kbd # <<>> \/ com # <<>>
    /\ LET r == cons_getc2(con, com, kbd)
           l == rd[cur]
           k == LineKey(l, r[1])
       IN IF r[1] = NO THEN con' = r[2] /\ UNCHANGED <<rd, intr>>
          ELSE /\ con' = IF Echoed(l, r[1]) THEN cputchar(r[2], r[1]) ELSE r[2]
               /\ rd' = [rd EXCEPT ![cur] = k]
               /\ intr' = [intr EXCEPT ![cur] = @ \/ ~k.reading]
    /\ kbd' = IF kbd = <<>> THEN kbd ELSE Tail(kbd)
    /\ com' = <<>>
    /\ UNCHANGED <<held, mode, ed, hist, last_command_idx, ran, cur, strokes>>

(* The clock interrupt: another program runs. *)
Switch ==
    /\ mode = "programs" /\ intr[cur]
    /\ \E p \in Programs \ {cur} : cur' = p
    /\ UNCHANGED <<con, kbd, com, held, mode, ed, hist, last_command_idx, ran,
                   intr, rd, strokes>>

(* All programs have ended: the prompt is back. *)
BackToPrompt ==
    /\ mode = "programs" /\ \A p \in Programs : ~rd[p].reading
    /\ mode' = "prompt"
    /\ strokes' = MaxStrokes
    /\ con' = PutAll(con, prompt)
    /\ UNCHANGED <<kbd, com, held, ed, hist, last_command_idx, ran, cur, intr, rd>>

Next ==
    \/ \E key \in PromptKeys \cup ProgramKeys : Stroke(key)
    \/ \E key \in HoldKeys : Press(key) \/ Release(key)
    \/ SerialInput("s")
    \/ PromptKey \/ PromptEnter \/ PromptOverrun
    \/ \E atomic \in BOOLEAN : StartReadline(atomic)
    \/ ReadChar \/ Switch \/ BackToPrompt

Spec == Init /\ [][Next]_vars

-----------------------------------------------------------------------------
(* The positions of the ring stay in it.                                   *)
TypeOK == con.rpos \in 0 .. CONSBUFSIZE - 1 /\ con.wpos \in 0 .. CONSBUFSIZE - 1

(* As long as the ring has not been filled completely, it holds exactly    *)
(* what the devices delivered and nobody has read, in order, although two  *)
(* devices write it and the kernel and programs read it by different calls.*)
RingHoldsUnread == con.overrun \/ Waiting(con) = con.unread

(* When everything the keyboard sent has been looked at, a modifier flag   *)
(* is set only if a key for it is down, and no escape is left over:        *)
(* modifiers never stick, whatever the order of presses and releases.      *)
NoStuckModifier ==
    kbd = <<>> =>
        /\ "E0ESC" \notin con.shift
        /\ \A m \in con.shift \cap {"SHIFT", "CTL", "ALT"} :
               \E key \in held : m \in shiftcode(key)

(* What a key becomes on its way from the keyboard to a reader is sound:   *)
(* positions in range, nothing reordered or lost in the ring of            *)
(* kern/console.c (RingHoldsUnread), no modifier stuck (NoStuckModifier).  *)
KeyboardSound == TypeOK /\ RingHoldsUnread /\ NoStuckModifier

(* The cursor is on the screen after every character, scrolling included,  *)
(* and the last command in the history. The place where the editor types   *)
(* stays in its buffer while lastIndex does, which has no bound itself:    *)
(* see PromptOverrun.                                                      *)
InBounds ==
    /\ con.screen.crt_pos \in 0 .. CRT_SIZE - 1
    /\ ed.i \in 0 .. ed.lastIndex + 1
    /\ ed.lastIndex < BUFLEN => ed.i < BUFLEN
    /\ last_command_idx \in 0 .. HISTORY_MAX + 1

(* The n characters before the cursor. *)
Shown(n) == [k \in 1 .. n |-> con.screen.crt_buf[con.screen.crt_pos - n + k - 1]]

(* Without arrows and delete, the line that enter will execute is the one  *)
(* the user sees, through typing, backspace, recall from the history and   *)
(* completion. The one exception found is a completion without a match,    *)
(* which cuts the last argument from the line only. Nothing is said once a *)
(* key has reached behind the buffer (mode "down").                        *)
LineAsShown ==
    /\ InBounds
    /\ mode = "prompt" /\ ed.plain /\ ed.i <= con.screen.crt_pos
          => Text(ed.buf) = Shown(ed.i)
    /\ \A p \in Programs :
          rd[p].reading /\ rd[p].atomic /\ rd[p].plain /\ rd[p].i <= con.screen.crt_pos
            => [k \in 1 .. rd[p].i |-> rd[p].buf[k - 1]] = Shown(rd[p].i)

(* While a program reads a line with atomic_readline, no other program     *)
(* takes a character or writes to its own line.                            *)
AtomicLine ==
    [][\A p, q \in Programs :
         p # q /\ rd[p].reading /\ rd[p].atomic /\ rd'[p].reading => rd'[q] = rd[q]]_vars
=============================================================================
