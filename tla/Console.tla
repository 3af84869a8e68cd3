------------------------------ MODULE Console ------------------------------
(***************************************************************************)
(* The console of kern/console.c: scan codes become characters, characters *)
(* wait in a ring that the keyboard and the serial port share, and         *)
(* characters that are echoed move over the text screen.                   *)
(*                                                                         *)
(* The state of all of it is one record:                                   *)
(*   shift   the modifier flags of kbd_proc_data                           *)
(*   buf, rpos, wpos   the ring `cons`                                     *)
(*   screen  crt_buf, crt_pos and text_length                              *)
(*   unread  what the devices have delivered and nobody has read (ghost)   *)
(*   overrun the ring has been filled completely (ghost)                   *)
(* Characters are strings; NO is the 0 that stands for no character.       *)
(***************************************************************************)
EXTENDS Naturals, Sequences, SequencesExt

CONSTANTS
    CONSBUFSIZE,    \* length of the ring
    CRT_ROWS, CRT_COLS,
    PROMPT_LEN      \* characters of the prompt "FOS> "

ASSUME ConsoleAssumption ==
    /\ CONSBUFSIZE \in Nat \ {0, 1}
    /\ CRT_ROWS \in Nat \ {0, 1}
    /\ CRT_COLS \in Nat \ {0}
    /\ PROMPT_LEN \in 0 .. CRT_COLS - 1

NO == "NO"

CRT_SIZE == CRT_ROWS * CRT_COLS

(* 1920 in the code: where the last row begins. *)
LastRow == CRT_SIZE - CRT_COLS

(* Cells of video memory the code reaches: the screen, and what the        *)
(* deletion of a character moves behind it.                                *)
Cells == 0 .. LastRow + PROMPT_LEN + CRT_COLS + 1

-----------------------------------------------------------------------------
(* The screen: cga_putc. *)

(* Where one character leaves the cursor and what it writes, before the    *)
(* screen scrolls.                                                         *)
Placed(scr, c) ==
    CASE c = "BS" -> IF scr.crt_pos = 0 THEN scr
                     ELSE [scr EXCEPT !.crt_pos = @ - 1,
                                     !.crt_buf[scr.crt_pos - 1] = " "]
      [] c = "NL" -> [scr EXCEPT !.crt_pos = (@ \div CRT_COLS + 1) * CRT_COLS,
                                !.text_length = 0]
      [] c = "CR" -> [scr EXCEPT !.crt_pos = (@ \div CRT_COLS) * CRT_COLS]
      [] c = "LF" -> IF scr.crt_pos = 0 THEN scr ELSE [scr EXCEPT !.crt_pos = @ - 1]
      [] c = "RT" -> IF scr.crt_pos >= CRT_SIZE THEN scr
                     ELSE [scr EXCEPT !.crt_pos = @ + 1]
      [] OTHER -> [scr EXCEPT !.crt_buf[scr.crt_pos] = c,
                             !.crt_pos = @ + 1,
                             !.text_length =
                                 IF scr.crt_pos + 1 > LastRow + @ THEN @ + 1 ELSE @]

(* One row up when the cursor has left the screen. *)
Scrolled(scr) ==
    IF scr.crt_pos < CRT_SIZE THEN scr
    ELSE [scr EXCEPT !.crt_pos = @ - CRT_COLS,
                    !.crt_buf = [k \in Cells |->
                        CASE k < LastRow -> @[k + CRT_COLS]
                          [] k \in LastRow .. CRT_SIZE - 1 -> " "
                          [] OTHER -> @[k]]]

PutOne(scr, c) == Scrolled(Placed(scr, c))

(* A tab is five blanks, each put by a call of its own. *)
cga_putc(scr, c) ==
    IF c = "TAB" THEN FoldLeft(PutOne, scr, [k \in 1 .. 5 |-> " "])
    ELSE PutOne(scr, c)

(* Output goes to the screen; the copy for the printer is left out.        *)
cons_putc(st, c) == [st EXCEPT !.screen = cga_putc(@, c)]

PutAll(st, cs) == [st EXCEPT !.screen = FoldLeft(cga_putc, @, cs)]

-----------------------------------------------------------------------------
(* The keyboard. A key is known by its scan code and by whether the code   *)
(* follows an E0; a byte is a code with its release bit.                   *)

Byte(code, up) == [code |-> code, up |-> up]
Escape == Byte("E0", FALSE)

(* What the keyboard sends for a key going down or up. *)
Bytes(key, up) == IF key[2] THEN <<Escape, Byte(key[1], up)>>
                  ELSE <<Byte(key[1], up)>>

ModifierKeys == [CTL   |-> {<<"1D", FALSE>>, <<"1D", TRUE>>},
                 SHIFT |-> {<<"2A", FALSE>>, <<"36", FALSE>>},
                 ALT   |-> {<<"38", FALSE>>, <<"38", TRUE>>}]
shiftcode(key) == {m \in DOMAIN ModifierKeys : key \in ModifierKeys[m]}

LockKeys == [CAPSLOCK |-> {<<"3A", FALSE>>}, NUMLOCK |-> {<<"45", FALSE>>}]
togglecode(key) == {m \in DOMAIN LockKeys : key \in LockKeys[m]}

(* The three maps, for one key of every kind the code tells apart: letters,*)
(* a digit of the keypad, blank, the control keys, and the keys after an E0.*)
Arrows == ( <<"4B", TRUE>> :> "LF" @@ <<"4D", TRUE>> :> "RT"
         @@ <<"48", TRUE>> :> "UP" @@ <<"50", TRUE>> :> "DN"
         @@ <<"53", TRUE>> :> "DEL" )
Unshifted == ( <<"0E", FALSE>> :> "BS" @@ <<"0F", FALSE>> :> "TAB"
            @@ <<"1C", FALSE>> :> "NL" @@ <<"1C", TRUE>> :> "NL"
            @@ <<"4B", FALSE>> :> "4" @@ <<"39", FALSE>> :> " " ) @@ Arrows
normalmap == Unshifted @@ ( <<"13", FALSE>> :> "r" @@ <<"1F", FALSE>> :> "s" )
shiftmap  == Unshifted @@ ( <<"13", FALSE>> :> "R" @@ <<"1F", FALSE>> :> "S" )
ctlmap    == Arrows @@ ( <<"13", FALSE>> :> "^R" @@ <<"1F", FALSE>> :> "^S"
                      @@ <<"1C", FALSE>> :> "CR" @@ <<"39", FALSE>> :> "KEY_SPACE" )

charcode(mods, key) ==
    LET map == IF "CTL" \in mods THEN ctlmap
               ELSE IF "SHIFT" \in mods THEN shiftmap ELSE normalmap
    IN IF key \in DOMAIN map THEN map[key] ELSE NO

SwapCase == ( "r" :> "R" @@ "s" :> "S" @@ "R" :> "r" @@ "S" :> "s" )

(* Caps lock, the digits that num lock alone hides, and ctrl-blank.        *)
Special(mods, c) ==
    CASE "CAPSLOCK" \in mods /\ c \in DOMAIN SwapCase -> SwapCase[c]
      [] mods = {"NUMLOCK"} /\ c = "4" -> NO
      [] c = "KEY_SPACE" -> NO
      [] OTHER -> c

(* Delete: the rest of the row moves one cell to the left on the screen;   *)
(* the key is dropped where there is nothing behind the cursor.            *)
Deleted(st) ==
    LET scr == st.screen
        len == scr.text_length - 1
        end == LastRow + PROMPT_LEN + len
    IN IF scr.text_length = 0 \/ scr.crt_pos = LastRow + scr.text_length
       THEN <<NO, st>>
       ELSE <<"DEL", [st EXCEPT !.screen.text_length = len,
                                !.screen.crt_buf = [k \in Cells |->
                                    IF k \in scr.crt_pos .. end THEN @[k + 1]
                                    ELSE @[k]]]>>

(* One byte of the keyboard: the character it completes, or NO, and the    *)
(* state behind it.                                                        *)
kbd_proc_data(st, b) ==
    LET key  == <<b.code, "E0ESC" \in st.shift>>
        down == (st.shift \ {"E0ESC"}) \cup shiftcode(key)
        mods == (down \ togglecode(key)) \cup (togglecode(key) \ down)
        c    == charcode(mods, key)
    IN CASE b = Escape -> <<NO, [st EXCEPT !.shift = @ \cup {"E0ESC"}]>>
         [] b.up -> <<NO, [st EXCEPT !.shift = @ \ (shiftcode(key) \cup {"E0ESC"})]>>
         [] b # Escape /\ ~b.up /\ c = "DEL" ->
                Deleted([st EXCEPT !.shift = mods])
         [] OTHER -> <<Special(mods, c), [st EXCEPT !.shift = mods]>>

-----------------------------------------------------------------------------
(* The ring. *)

Bump(pos) == IF pos + 1 = CONSBUFSIZE THEN 0 ELSE pos + 1

(* Mutant: the write position is not taken around the end.                 *)
PutNoWrap(st, c) ==
    IF c = NO THEN st
    ELSE [st EXCEPT !.buf[st.wpos] = c,
                    !.wpos = IF @ + 1 = CONSBUFSIZE THEN @ ELSE @ + 1,
                    !.unread = Append(@, c),
                    !.overrun = @ \/ Len(st.unread) + 1 = CONSBUFSIZE]

(* One character goes into the ring, unless it is none. Nothing compares   *)
(* wpos with rpos: a ring that becomes full looks empty.                   *)
Put(st, c) ==
    IF c = NO THEN st
    ELSE [st EXCEPT !.buf[st.wpos] = c,
                    !.wpos = Bump(@),
                    !.unread = Append(@, c),
                    !.overrun = @ \/ Len(st.unread) + 1 = CONSBUFSIZE]

KbdByte(st, b) == LET r == kbd_proc_data(st, b) IN Put(r[2], r[1])

(* cons_intr for both devices: all that is pending goes into the ring.     *)
Drained(st, com, kbd) ==
    LET serial[n \in 0 .. Len(com)] ==
            IF n = 0 THEN st ELSE Put(serial[n - 1], com[n])
        keys[n \in 0 .. Len(kbd)] ==
            IF n = 0 THEN serial[Len(com)] ELSE KbdByte(keys[n - 1], kbd[n])
    IN keys[Len(kbd)]

(* The character at rpos, or NO when the ring looks empty.                 *)
Take(st) ==
    IF st.rpos = st.wpos THEN <<NO, st>>
    ELSE <<st.buf[st.rpos],
           [st EXCEPT !.rpos = Bump(@),
                      !.unread = IF @ = <<>> THEN @ ELSE Tail(@)]>>

(* Used by the kernel: polls until nothing is pending. *)
cons_getc(st, com, kbd) == Take(Drained(st, com, kbd))

(* Used by the system call: at most one byte of each device, and nothing   *)
(* is returned unless the keyboard has just delivered a character.         *)
cons_getc2(st, com, kbd) ==
    LET serial == IF com = <<>> THEN st ELSE Put(st, Head(com))
        key    == IF kbd = <<>> THEN <<NO, serial>>
                  ELSE kbd_proc_data(serial, Head(kbd))
        all    == Put(key[2], key[1])
    IN IF key[1] # NO THEN Take(all) ELSE <<NO, all>>

(* What the ring holds, in the order in which it will be read.             *)
Waiting(st) ==
    LET n == (st.wpos + CONSBUFSIZE - st.rpos) % CONSBUFSIZE
    IN [k \in 1 .. n |-> st.buf[(st.rpos + k - 1) % CONSBUFSIZE]]

(* The state after console_initialize, with the cursor somewhere.          *)
console_initialize(pos) ==
    [shift |-> {}, buf |-> [k \in 0 .. CONSBUFSIZE - 1 |-> NO],
     rpos |-> 0, wpos |-> 0, unread |-> <<>>, overrun |-> FALSE,
     screen |-> [crt_buf |-> [k \in Cells |-> " "], crt_pos |-> pos, text_length |-> 0]]
=============================================================================
