------------------------------ MODULE Console ------------------------------
(***************************************************************************)
(* The console of console.c with its serial line and keyboard (uart.c,     *)
(* kbd.c): the ring of input characters, reads that wait for a line, the   *)
(* echo on the screen, and the modifiers of the keyboard.                  *)
(*                                                                         *)
(* consoleintr, consolewrite and consoleread hold cons.lock, and give it   *)
(* up only where consoleread sleeps: each stretch with the lock is one     *)
(* step.  An interrupt that finds several characters is as many steps.     *)
(***************************************************************************)
EXTENDS Integers, Sequences, FiniteSets, FiniteSetsExt

CONSTANTS
  INPUT_BUF,   \* characters of the ring
  UINT,        \* indices are taken modulo this (2^32)
  COLS, ROWS,  \* the screen: 80 and 25
  Readers, Counts,   \* processes that read, and how much at a time
  Plain,       \* characters without a meaning of their own
  Keys,        \* keys of the keyboard: their codes, +128 for those with E0
  Begin,       \* indices and places of the cursor to begin with
  MaxKeys      \* bound: characters or key events

ASSUME ConsoleAssumption ==
  /\ INPUT_BUF \in Nat \ {0} /\ UINT \in Nat /\ UINT % INPUT_BUF = 0 /\ UINT > INPUT_BUF
  /\ COLS \in Nat \ {0} /\ ROWS \in Nat /\ ROWS > 2 /\ INPUT_BUF <= (ROWS - 2) * COLS
  /\ Counts \subseteq Nat /\ MaxKeys \in Nat
  /\ "BACKSPACE" \notin Plain                                \* it is no character
  /\ \A k \in Keys : k \in 0..255 /\ k % 128 # 96           \* whose release would be E0
  /\ \A b \in Begin : b[1] \in 0..UINT - 1 /\ b[2] \in 0..(ROWS - 1) * COLS - 1

VARIABLES
  input,    \* buf, r, w, e
  cga,      \* crt and the place of the cursor
  reader,   \* per process: state, n, target, what it has got, and killed
  kbd,      \* shift, and whether the last code was E0
  down,     \* keys that are down
  wire,     \* codes that kbdgetc has not read
  keys,     \* events so far
  mixed     \* something was written in the middle of the line

cvars == <<input, cga, reader, kbd, down, wire, keys, mixed>>

Slot(i) == i % INPUT_BUF
Up(i)  == (i + 1) % UINT
-----------------------------------------------------------------------------
(* The screen; the last row is never written. *)
Cell == 0..ROWS * COLS - 1
ScrolledLate(g) ==
  [crt |-> [j \in Cell |-> IF j < (ROWS - 2) * COLS THEN g.crt[j + COLS] ELSE g.crt[j]], pos |-> g.pos - COLS]
Scrolled(g) ==
  LET pos == g.pos - COLS
  IN  [crt |-> [j \in Cell |-> IF j >= pos /\ j < (ROWS - 1) * COLS THEN "nul"
                               ELSE IF j < (ROWS - 2) * COLS THEN g.crt[j + COLS] ELSE g.crt[j]],
       pos |-> pos]
cgaputc(g, c) ==
  LET a == CASE c = "nl" -> [g EXCEPT !.pos = @ + COLS - (@ % COLS)]
             [] c = "BACKSPACE" -> [g EXCEPT !.pos = IF @ > 0 THEN @ - 1 ELSE @]
             [] OTHER -> [crt |-> [g.crt EXCEPT ![g.pos] = c], pos |-> g.pos + 1]
      b == IF a.pos \div COLS >= ROWS - 1 THEN Scrolled(a) ELSE a
  IN  [b EXCEPT !.crt[b.pos] = " "]
consputc(g, cs) ==
  LET P[j \in 0..Len(cs)] == IF j = 0 THEN g ELSE cgaputc(P[j - 1], cs[j]) IN P[Len(cs)]
-----------------------------------------------------------------------------
(* consoleintr, for one character: the new input and what is echoed.       *)
(* Control-U stops at a newline, which is never there: w is behind it.     *)
Erased(x) ==
  LET n == (x.e - x.w) % UINT
      k == Min({j \in 0..n : j = n \/ x.buf[Slot((x.e - 1 - j) % UINT)] = "nl"})
  IN  k
Asleep(p)  == reader[p].st = "asleep"
Woken(rs)  == [p \in Readers |-> IF rs[p].st = "asleep" THEN [rs[p] EXCEPT !.st = "ready"] ELSE rs[p]]

Full(x) == x.e = (x.r + INPUT_BUF) % UINT
HasRoom(x) == (x.e - x.r) % UINT < INPUT_BUF
ReadyAt(x, c) == c \in {"nl", "eof"} \/ Full(x)

consoleintr(c) ==
  LET d == IF c = "cr" THEN "nl" ELSE c
      x == [input EXCEPT !.buf[Slot(input.e)] = d, !.e = Up(@)]
      n == CASE c = "C-U" -> Erased(input)
             [] c = "C-H" -> IF input.e # input.w THEN 1 ELSE 0
             [] OTHER -> 0
      echo == [j \in 1..n |-> "BACKSPACE"]
  IN  CASE c = "C-P" -> /\ cga' = consputc(cga, <<"1", "nl">>)      \* procdump
                        /\ mixed' = (input.e # input.w)
                        /\ UNCHANGED <<input, reader>>
        [] c \in {"C-U", "C-H"} ->
             /\ input' = [input EXCEPT !.e = (@ - n) % UINT]
             /\ cga' = consputc(cga, echo)
             /\ mixed' = (mixed /\ input'.e # input.w)
             /\ UNCHANGED reader
        [] c \notin {"0", "C-P", "C-U", "C-H"} /\ HasRoom(input) ->
             /\ input' = IF ReadyAt(x, d) THEN [x EXCEPT !.w = x.e] ELSE x
             /\ reader' = IF ReadyAt(x, d) THEN Woken(reader) ELSE reader
             /\ cga' = consputc(cga, <<d>>)
             /\ mixed' = (mixed /\ input'.e # input'.w)
        [] OTHER -> UNCHANGED <<input, reader, cga, mixed>>

uartintr(c) ==
  /\ keys < MaxKeys /\ keys' = keys + 1
  /\ consoleintr(c)
  /\ UNCHANGED <<kbd, down, wire>>

(* consolewrite of two characters, by a process or the kernel. *)
consolewrite ==
  /\ keys < MaxKeys /\ keys' = keys + 1
  /\ cga' = consputc(cga, <<"1", "1">>)
  /\ mixed' = (input.e # input.w)
  /\ UNCHANGED <<input, reader, kbd, down, wire>>
-----------------------------------------------------------------------------
(* consoleread from where it has the lock to where it sleeps or returns.   *)
(* C[j] is the rest of the loop with n = j.                                *)
ReadLoopGone(x, n, target) ==
  LET C[j \in 0..n] ==
        LET r == (x.r + n - j) % UINT
            c == x.buf[Slot(r)]
        IN  IF j = 0 THEN [r |-> r, n |-> 0, st |-> "idle"]
            ELSE IF r = x.w THEN [r |-> r, n |-> j, st |-> "asleep"]
            ELSE IF c = "eof" THEN [r |-> Up(r), n |-> j, st |-> "idle"]
            ELSE IF c = "nl" THEN [r |-> Up(r), n |-> j - 1, st |-> "idle"]
            ELSE C[j - 1]
  IN  C[n]
ReadLoop(x, n, target) ==
  LET C[j \in 0..n] ==
        LET r == (x.r + n - j) % UINT
            c == x.buf[Slot(r)]
        IN  IF j = 0 THEN [r |-> r, n |-> 0, st |-> "idle"]
            ELSE IF r = x.w THEN [r |-> r, n |-> j, st |-> "asleep"]
            ELSE IF c = "eof" THEN [r |-> IF j < target THEN r ELSE Up(r), n |-> j, st |-> "idle"]
            ELSE IF c = "nl" THEN [r |-> Up(r), n |-> j - 1, st |-> "idle"]
            ELSE C[j - 1]
  IN  C[n]

NoRead == [st |-> "idle", n |-> 0, target |-> 0, got |-> <<>>, killed |-> FALSE]

ReadStart(p, n) ==
  /\ reader[p].st = "idle" /\ ~reader[p].killed
  /\ reader' = [reader EXCEPT ![p] = [NoRead EXCEPT !.st = "ready", !.n = n, !.target = n]]
  /\ UNCHANGED <<input, cga, kbd, down, wire, keys, mixed>>

consoleread(p) ==
  LET d == reader[p]
      l == ReadLoop(input, d.n, d.target)
      copied == [j \in 1..d.n - l.n |-> input.buf[Slot((input.r + j - 1) % UINT)]]
      eof == l.n = d.target /\ l.r # input.r /\ l.st = "idle"
  IN  /\ d.st = "ready"
      /\ input' = [input EXCEPT !.r = l.r]
      /\ reader' = [reader EXCEPT ![p] = [d EXCEPT
           !.st = IF l.st = "asleep" /\ d.killed THEN "idle" ELSE l.st, !.n = l.n,
           !.got = IF eof THEN <<"eof">> ELSE @ \o copied]]
      /\ UNCHANGED <<cga, kbd, down, wire, keys, mixed>>

(* kill makes the process runnable if it sleeps. *)
Kill(p) ==
  /\ reader[p].st # "idle" /\ ~reader[p].killed
  /\ reader' = [reader EXCEPT ![p] = [@ EXCEPT !.killed = TRUE, !.st = "ready"]]
  /\ UNCHANGED <<input, cga, kbd, down, wire, keys, mixed>>
-----------------------------------------------------------------------------
(* The keyboard sends a code for each key that goes down or comes up, E0   *)
(* before the codes of some.                                               *)
E0 == 224
Ext(k)  == k >= 128
Code(k) == k % 128
KeyEvent(k) ==
  LET up == k \in down
      b == IF up THEN Code(k) + 128 ELSE Code(k)
  IN  /\ keys < MaxKeys /\ keys' = keys + 1
      /\ wire = <<>>
      /\ wire' = IF Ext(k) THEN <<E0, b>> ELSE <<b>>
      /\ down' = IF up THEN down \ {k} ELSE down \cup {k}
      /\ UNCHANGED <<input, cga, reader, kbd, mixed>>

shiftcode(d) == CASE d \in {29, 157} -> {"CTL"} [] d \in {42, 54} -> {"SHIFT"}
                  [] d \in {56, 184} -> {"ALT"} [] OTHER -> {}
togglecode(d) == CASE d = 58 -> {"CAPSLOCK"} [] d = 69 -> {"NUMLOCK"} [] d = 70 -> {"SCROLLLOCK"}
                   [] OTHER -> {}

(* Some rows of normalmap, shiftmap and ctlmap; NO elsewhere. *)
charcode(d, sh) ==
  LET row == CASE d = 30 -> <<"a", "A", "C-A">> [] d = 32 -> <<"d", "D", "eof">>
               [] d = 22 -> <<"u", "U", "C-U">> [] d = 35 -> <<"h", "H", "C-H">>
               [] d = 25 -> <<"p", "P", "C-P">> [] d = 28 -> <<"nl", "nl", "cr">>
               [] d = 156 -> <<"nl", "nl", "cr">> [] OTHER -> <<"0", "0", "0">>
  IN  row[IF "CTL" \in sh THEN 3 ELSE IF "SHIFT" \in sh THEN 2 ELSE 1]
Letters == {"a", "A", "C-A", "d", "D", "u", "U", "h", "H", "p", "P"}
Case(c) == CASE c = "a" -> "A" [] c = "A" -> "a" [] c = "d" -> "D" [] c = "D" -> "d"
             [] c = "u" -> "U" [] c = "U" -> "u" [] c = "h" -> "H" [] c = "H" -> "h"
             [] c = "p" -> "P" [] c = "P" -> "p" [] OTHER -> c

(* kbdgetc: the new state and the character, 0 if there is none. *)
Released(s, data) ==
  LET d == IF s.e0 THEN data ELSE data % 128 IN [shift |-> s.shift \ shiftcode(d), e0 |-> FALSE]
kbdgetc(s, data) ==
  LET d == IF s.e0 THEN data + 128 ELSE data
      a == s.shift \cup shiftcode(d)
      t == togglecode(d)
      sh == (a \ t) \cup (t \ a)
      c == charcode(d, sh)
  IN  IF data = E0 THEN [s |-> [s EXCEPT !.e0 = TRUE], c |-> "0"]
      ELSE IF data >= 128 THEN [s |-> Released(s, data), c |-> "0"]
      ELSE [s |-> [shift |-> sh, e0 |-> FALSE], c |-> IF "CAPSLOCK" \in sh THEN Case(c) ELSE c]

kbdintr ==
  /\ wire # <<>>
  /\ LET g == kbdgetc(kbd, Head(wire)) IN kbd' = g.s /\ consoleintr(g.c)
  /\ wire' = Tail(wire)
  /\ UNCHANGED <<down, keys>>
-----------------------------------------------------------------------------
(* An empty ring, after any number of characters, and an empty screen.     *)
ConInit ==
  /\ \E b \in Begin :
       /\ input = [buf |-> [j \in 0..INPUT_BUF - 1 |-> "nul"], r |-> b[1], w |-> b[1], e |-> b[1]]
       /\ cga = [crt |-> [j \in Cell |-> "nul"], pos |-> b[2]]
  /\ reader = [p \in Readers |-> NoRead]
  /\ kbd = [shift |-> {}, e0 |-> FALSE] /\ down = {} /\ wire = <<>>
  /\ keys = 0 /\ mixed = FALSE

SerialNext ==
  \/ \E c \in Plain \cup {"nl", "eof", "C-U", "C-H", "C-P"} : uartintr(c)
  \/ consolewrite
  \/ \E p \in Readers : consoleread(p) \/ Kill(p) \/ \E n \in Counts : ReadStart(p, n)
KeyNext == kbdintr \/ \E k \in Keys : KeyEvent(k)
-----------------------------------------------------------------------------
(* What lies between two indices of the ring. *)
Between(i, j) == [k \in 1..(j - i) % UINT |-> input.buf[Slot((i + k - 1) % UINT)]]
Pending == Between(input.w, input.e)

(* Types; besides, r, w and e follow each other around the ring, at most   *)
(* INPUT_BUF apart, wherever they wrap, and the cursor never gets to the   *)
(* last row, where cgaputc would panic.                                    *)
ConTypeOK ==
  /\ input.r \in 0..UINT - 1 /\ input.w \in 0..UINT - 1 /\ input.e \in 0..UINT - 1
  /\ (input.w - input.r) % UINT <= (input.e - input.r) % UINT
  /\ (input.e - input.r) % UINT <= INPUT_BUF
  /\ cga.pos \in 0..(ROWS - 1) * COLS - 1
  /\ \A p \in Readers : reader[p].st \in {"idle", "ready", "asleep"} /\ reader[p].n <= reader[p].target
  /\ kbd.shift \subseteq {"CTL", "SHIFT", "ALT", "CAPSLOCK", "NUMLOCK", "SCROLLLOCK"}

(* The ring, its three indices and the loops around them are the text that *)
(* is ready and the line that is edited: nothing typed is lost, doubled or *)
(* out of order, and an end of file is there for the next read if it comes *)
(* after other characters (consoleintr, consoleread).                      *)
TtySpec ==
  INSTANCE Tty WITH Room <- INPUT_BUF, Plain <- Plain \cup Letters, edit <- Pending,
                    ready <- Between(input.r, input.w), taken <- [p \in Readers |-> reader[p].got]
ImplementsTty == TtySpec!Spec

(* The user sees what will be read: in front of the cursor stands the line *)
(* as it has been edited, unless something else was written into it, and   *)
(* nothing stands behind the cursor (consputc, cgaputc).                   *)
EchoExact ==
  /\ mixed \/ \A j \in DOMAIN Pending : cga.crt[cga.pos - Len(Pending) + j - 1] = Pending[j]
  /\ \A j \in cga.pos..(ROWS - 1) * COLS - 1 : cga.crt[j] \in {"nul", " "}

(* No modifier is stuck, and none is forgotten: once the codes are read, a *)
(* modifier is on exactly if its key is down, if there is but one key for  *)
(* it, and only if one of its keys is down if there are more (kbdgetc).    *)
Modifiers == {"CTL", "SHIFT", "ALT"}
KeysOf(m) == {k \in Keys : m \in shiftcode(k)}
ModifiersTrue ==
  wire = <<>> => \A m \in Modifiers :
    /\ m \in kbd.shift => KeysOf(m) \cap down # {}
    /\ Cardinality(KeysOf(m)) = 1 /\ KeysOf(m) \subseteq down => m \in kbd.shift

(* A reader that waits does not wait for ever while the ring holds a line, *)
(* an end of file, or no room for more: it returns, or another reader      *)
(* takes the text (the wakeup of consoleintr).                             *)
Waits(p) == reader[p].st # "idle"
Complete ==
  LET all == Between(input.r, input.e)
  IN  Len(all) = INPUT_BUF \/ \E j \in DOMAIN all : all[j] \in {"nl", "eof"}
LineDelivered == \A p \in Readers : (Waits(p) /\ Complete) ~> (~Waits(p) \/ ~Complete)

(* The line that is edited is the line on the screen (consoleintr,         *)
(* consputc, cgaputc), and the modifiers the driver knows of are the ones  *)
(* held down (kbdgetc).                                                    *)
ConInv == ConTypeOK /\ EchoExact /\ ModifiersTrue
=============================================================================
