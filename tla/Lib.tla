-------------------------------- MODULE Lib --------------------------------
(***************************************************************************)
(* Algorithms of the library and of the tools, over bounded inputs: the    *)
(* string functions of string.c and ulib.c, printint and atoi, printf and  *)
(* cprintf, the matcher of grep.c with the loop around it, wc.c, and       *)
(* skipelem of fs.c.                                                       *)
(***************************************************************************)
EXTENDS Integers, Sequences, FiniteSets, FiniteSetsExt

CONSTANTS
  CELLS,      \* cells of the memory that the string functions work on
  CHARS,      \* largest character; 0 is NUL
  WIDTH,      \* bits of an int
  MaxText,    \* bound: length of a text
  GREPBUF, WCBUF, DIRSIZ   \* sizes of buffers and of a name

VARIABLES
  mem,     \* memory: characters; <<>>: none
  num,     \* a number, as the bits of an int; -1: none
  text     \* a file, a format or a path

lvars == <<mem, num, text>>

Cells == 0..CELLS - 1
-----------------------------------------------------------------------------
(* memmove copies backwards where source and destination overlap. *)
Forward(m, d, s, n) ==
  LET F[j \in 0..n] == IF j = 0 THEN m ELSE [F[j - 1] EXCEPT ![d + j - 1] = F[j - 1][s + j - 1]]
  IN  F[n]
Backward(m, d, s, n) ==
  LET F[j \in 0..n] == IF j = 0 THEN m ELSE [F[j - 1] EXCEPT ![d + n - j] = F[j - 1][s + n - j]]
  IN  F[n]
memmoveOne(m, d, s, n) == Forward(m, d, s, n)
memmove(m, d, s, n) == IF s < d /\ s + n > d THEN Backward(m, d, s, n) ELSE Forward(m, d, s, n)
umemmove(m, d, s, n) == Forward(m, d, s, n)

(* A string ends before the memory does. *)
HasString(m, s) == \E j \in s..CELLS - 1 : m[j] = 0
strlen(m, s) == LET L[n \in 0..CELLS] == IF m[s + n] = 0 THEN n ELSE L[n + 1] IN L[0]

strncmp(m, p, q, n) ==
  LET C[j \in 0..n] == IF j = n THEN 0
                       ELSE IF m[p + j] # 0 /\ m[p + j] = m[q + j] THEN C[j + 1]
                       ELSE m[p + j] - m[q + j]
  IN  C[0]

(* strncpy pads with NUL; safestrcpy leaves room for one, and writes a     *)
(* second one behind the NUL it has copied.                                *)
strncpy(m, s, t, n) ==
  LET Pad(u, from) == [j \in Cells |-> IF j \in s + from..s + n - 1 THEN 0 ELSE u[j]]
      F[j \in 0..n] ==     \* F[j]: n is j, and n - j characters have been copied
        LET c == n - j
            u == IF j = n THEN m ELSE F[j + 1].m
            done == j # n /\ F[j + 1].done
        IN  IF j = n THEN [m |-> m, done |-> FALSE]
            ELSE IF done THEN F[j + 1]
            ELSE IF u[t + c - 1] = 0 THEN [m |-> Pad(u, c - 1), done |-> TRUE]
            ELSE [m |-> [u EXCEPT ![s + c - 1] = u[t + c - 1]], done |-> FALSE]
  IN  F[0].m
safestrcpy(m, s, t, n) ==
  LET Copy(x, j) == [m |-> [x.m EXCEPT ![s + j - 1] = x.m[t + j - 1]],
                     at |-> s + j, more |-> x.m[t + j - 1] # 0]
      F[j \in 0..n - 1] == IF j = 0 THEN [m |-> m, at |-> s, more |-> TRUE]
                           ELSE IF F[j - 1].more THEN Copy(F[j - 1], j) ELSE F[j - 1]
  IN  IF n <= 0 THEN m ELSE [F[n - 1].m EXCEPT ![F[n - 1].at] = 0]
-----------------------------------------------------------------------------
(* An int and an unsigned int with the same bits. *)
Bits == 2 ^ WIDTH
Signed(x) == IF x >= Bits \div 2 THEN x - Bits ELSE x

(* printint: -xx is taken modulo Bits, and then unsigned.  A digit is its  *)
(* value.                                                                  *)
minus == 0 - 1
printint(x, b, sgn) ==
  LET D[y \in 0..Bits - 1] == IF y < b THEN <<y>> ELSE Append(D[y \div b], y % b)
  IN  IF sgn /\ Signed(x) < 0 THEN <<minus>> \o D[(0 - x) % Bits] ELSE D[x]

(* atoi: the digits up to the first other character; there are no signs. *)
atoi(s) ==
  LET stop == Min({j \in 1..Len(s) + 1 : j > Len(s) \/ s[j] \notin 0..9})
      V[j \in 0..stop - 1] == IF j = 0 THEN 0 ELSE (V[j - 1] * 10 + s[j]) % Bits
  IN  V[stop - 1]
-----------------------------------------------------------------------------
(* Arguments of a system call: the address of an int, of size bytes, of a  *)
(* string, in the memory 0..sz - 1 of the process.  Sums are taken modulo  *)
(* Bits, and sz is at most half of that (KERNBASE).                        *)
fetchint(addr, sz) == ~(addr >= sz \/ (addr + 4) % Bits > sz)
argptr(i, size, sz) == ~(Signed(size) < 0 \/ i >= sz \/ (i + size) % Bits > sz)
fetchstr(m, addr, sz) ==
  IF addr >= sz \/ \A j \in addr..sz - 1 : m[j] # 0 THEN -1
  ELSE Min({j \in addr..sz - 1 : m[j] = 0}) - addr
-----------------------------------------------------------------------------
(* printf: a state, 0 or '%', and the arguments in their order.  What a    *)
(* conversion makes of its argument is left open.                          *)
Conversions == {"d", "x", "p", "s", "c"}
printf(f) ==
  LET P[i \in 0..Len(f)] ==
        LET p == P[i - 1]
        IN  IF i = 0 THEN [state |-> "0", ap |-> 1, out |-> <<>>]
            ELSE IF p.state = "0" THEN IF f[i] = "%" THEN [p EXCEPT !.state = "%"]
                                       ELSE [p EXCEPT !.out = Append(@, f[i])]
            ELSE IF f[i] \in Conversions
              THEN [state |-> "0", ap |-> p.ap + 1, out |-> Append(p.out, <<f[i], p.ap>>)]
            ELSE IF f[i] = "%" THEN [p EXCEPT !.state = "0", !.out = Append(@, "%")]
            ELSE [p EXCEPT !.state = "0", !.out = @ \o <<"%", f[i]>>]
  IN  P[Len(f)].out

(* cprintf looks at the character after '%' at once; it has no %c. *)
RECURSIVE CprintfFrom(_, _, _)
CprintfFrom(f, i, ap) ==
  LET c == f[i + 1]
  IN  IF i > Len(f) THEN <<>>
      ELSE IF f[i] # "%" THEN <<f[i]>> \o CprintfFrom(f, i + 1, ap)
      ELSE IF i = Len(f) THEN <<>>
      ELSE IF c \in Conversions \ {"c"} THEN <<<<c, ap>>>> \o CprintfFrom(f, i + 2, ap + 1)
      ELSE IF c = "%" THEN <<"%">> \o CprintfFrom(f, i + 2, ap)
      ELSE <<"%", c>> \o CprintfFrom(f, i + 2, ap)
cprintf(f) == CprintfFrom(f, 1, 1)
-----------------------------------------------------------------------------
(* The matcher; re and s are what is left of pattern and text. *)
Is(re, j, c) == j <= Len(re) /\ re[j] = c
RECURSIVE matchhere(_, _)
RECURSIVE matchstar(_, _, _)
matchstarOne(c, re, s) == matchhere(re, s) \/ (s # <<>> /\ (s[1] = c \/ c = ".") /\ matchhere(re, Tail(s)))
matchstar(c, re, s) ==
  \/ matchhere(re, s)
  \/ s # <<>> /\ (s[1] = c \/ c = ".") /\ matchstar(c, re, Tail(s))
matchhere(re, s) ==
  IF re = <<>> THEN TRUE
  ELSE IF Is(re, 2, "*") THEN matchstar(re[1], SubSeq(re, 3, Len(re)), s)
  ELSE IF re = <<"$">> THEN s = <<>>
  ELSE s # <<>> /\ (re[1] = "." \/ re[1] = s[1]) /\ matchhere(Tail(re), Tail(s))
match(re, s) ==
  IF Is(re, 1, "^") THEN matchhere(Tail(re), s)
  ELSE \E j \in 1..Len(s) + 1 : matchhere(re, SubSeq(s, j, Len(s)))

Newlines(b) == {j \in DOMAIN b : b[j] = "nl"}

(* The loop of grep: a read takes at most what is left of the buffer, the  *)
(* complete lines in it are looked at, and the rest is moved to the front; *)
(* if there is no complete line, everything is dropped.                    *)
LinesIn(b) ==
  LET starts == {1} \cup {j + 1 : j \in Newlines(b)}
      L[j \in 0..Len(b)] ==
        LET s == Max({x \in starts : x <= j})
        IN  IF j = 0 THEN <<>>
            ELSE IF b[j] = "nl" THEN Append(L[j - 1], SubSeq(b, s, j - 1)) ELSE L[j - 1]
  IN  L[Len(b)]
Rest(b) == SubSeq(b, Max(Newlines(b)) + 1, Len(b))
KeepRest(b) == IF Newlines(b) = {} THEN <<>> ELSE Rest(b)
(* All that grep may write, and whether something was dropped: a file      *)
(* fills the buffer, a pipe or the console (short) may give less.          *)
RECURSIVE GrepLoop(_, _, _, _)
GrepLoop(re, rest, buf, short) ==
  LET most == Min({Len(rest), GREPBUF - Len(buf) - 1})
      After(n, b) ==
        {[out |-> SelectSeq(LinesIn(b), LAMBDA l : match(re, l)) \o x.out,
          dropped |-> Newlines(b) = {} \/ x.dropped] :
         x \in GrepLoop(re, SubSeq(rest, n + 1, Len(rest)), KeepRest(b), short)}
  IN  IF most = 0 THEN {[out |-> <<>>, dropped |-> FALSE]}
      ELSE UNION {After(n, buf \o SubSeq(rest, 1, n)) : n \in IF short THEN 1..most ELSE {most}}
grep(re, file, short) == GrepLoop(re, file, <<>>, short)

(* wc: inword lasts from one read to the next. *)
Blanks == {" ", "nl"}
Count(r, c) ==
  [l |-> IF c = "nl" THEN r.l + 1 ELSE r.l, c |-> r.c + 1,
   w |-> IF c \notin Blanks /\ ~r.inword THEN r.w + 1 ELSE r.w, inword |-> c \notin Blanks]
StartRead(r) == r
wc(file) ==
  LET W[j \in 0..Len(file)] ==
        IF j = 0 THEN [l |-> 0, w |-> 0, c |-> 0, inword |-> FALSE]
        ELSE Count(IF (j - 1) % WCBUF = 0 THEN StartRead(W[j - 1]) ELSE W[j - 1], file[j])
  IN  W[Len(file)]
-----------------------------------------------------------------------------
(* skipelem: the next element, cut to DIRSIZ, and where the path goes on   *)
(* after the slashes behind it; 0 if there is none.                        *)
AfterSlashes(p, i) == Min({j \in i..Len(p) + 1 : j > Len(p) \/ p[j] # "/"})
skipelem(p, i) ==
  LET s == AfterSlashes(p, i)
      e == Min({j \in s..Len(p) + 1 : j > Len(p) \/ p[j] = "/"})
  IN  IF s > Len(p) THEN [at |-> 0, name |-> <<>>]
      ELSE [at |-> AfterSlashes(p, e), name |-> SubSeq(p, s, Min({e - 1, s + DIRSIZ - 1}))]
RECURSIVE Elements(_, _)
Elements(p, i) ==
  LET x == skipelem(p, i)
  IN  IF x.at = 0 THEN <<>> ELSE <<[name |-> x.name, last |-> x.at > Len(p)]>> \o Elements(p, x.at)
-----------------------------------------------------------------------------
Store(j, c)  == mem' = [mem EXCEPT ![j] = c] /\ UNCHANGED <<num, text>>
CountUp      == num \in 0..Bits - 2 /\ num' = num + 1 /\ UNCHANGED <<mem, text>>
Append1(c)   == Len(text) < MaxText /\ text' = Append(text, c) /\ UNCHANGED <<mem, num>>

(* Whatever the memory holds and however the two regions overlap, memmove  *)
(* copies what was there before; the one of ulib.c does when the copy goes *)
(* down, which is how grep uses it.                                        *)
MovesExact ==
  mem # <<>> =>
  \A d, s \in Cells, n \in 0..CELLS - 1 : d + n <= CELLS /\ s + n <= CELLS =>
    LET copy == [j \in Cells |-> IF j \in d..d + n - 1 THEN mem[s + j - d] ELSE mem[j]]
    IN  memmove(mem, d, s, n) = copy /\ (d <= s => umemmove(mem, d, s, n) = copy)

(* safestrcpy always leaves a string, the longest prefix that fits; and    *)
(* strncpy of the same and strncmp agree with it.  fetchstr finds a string *)
(* exactly where one ends inside the process.                              *)
StringsExact ==
  mem # <<>> =>
  \A t \in 1..CELLS - 2, n \in 1..CELLS - 2 : HasString(mem, t) /\ n <= t =>
    LET a == safestrcpy(mem, 0, t, n)
        b == strncpy(mem, 0, t, n)
    IN  /\ HasString(a, 0) /\ strlen(a, 0) = Min({strlen(mem, t), n - 1})
        /\ strncmp(a, 0, t, strlen(a, 0)) = 0
        /\ t + n <= CELLS => strncmp(b, 0, t, n) = 0
        /\ \A j \in n..CELLS - 1 : a[j] = mem[j] /\ b[j] = mem[j]
        /\ \A sz \in 0..CELLS : fetchstr(mem, t, sz) = IF t + strlen(mem, t) < sz THEN strlen(mem, t) ELSE -1

(* Printing a number and reading it gives the number, for every int, the   *)
(* smallest included, whose negative is not an int, and whatever follows   *)
(* the digits.                                                             *)
NumbersExact ==
  LET out == printint(num, 10, TRUE)
      neg == out[1] = minus
      v == atoi(IF neg THEN Tail(out) ELSE out)
  IN  num >= 0 => /\ Signed(num) = IF neg THEN 0 - v ELSE v
                  /\ atoi(printint(num, 10, FALSE) \o <<minus, 5>>) = num

(* What the kernel takes for an argument lies in the memory of the         *)
(* process, from its first byte to its last, also where the sum of address *)
(* and size wraps; and nothing that lies there is refused but an empty     *)
(* block at the very end (fetchint, argptr).                               *)
ArgsInside ==
  num >= 0 =>
  \A sz \in 0..Bits \div 2 :
    /\ fetchint(num, sz) <=> num + 4 <= sz
    /\ \A n \in 0..Bits - 1 : argptr(num, n, sz) <=> n < Bits \div 2 /\ num < sz /\ num + n <= sz
(* The two printfs agree, up to %c, on every format. *)
PrintfAgree ==
  (\E j \in 1..Len(text) - 1 : text[j] = "%" /\ text[j + 1] = "c") \/ printf(text) = cprintf(text)

(* The matcher, which backtracks, against the sets of places that each     *)
(* item of the pattern leads to.                                           *)
Patterns ==
  {<<>>, <<"a">>, <<"^", "a">>, <<"a", "$">>, <<"a", "*", "s">>, <<".", "*", "d">>, <<"^", "$">>,
   <<"^", "a", "*", "$">>, <<"a", ".">>, <<"a", "*", "a", "s", "*", "$">>, <<"*">>, <<"$", "a">>}
Items(re) ==
  LET I[j \in 1..Len(re) + 2] ==
        IF j > Len(re) THEN <<>>
        ELSE IF Is(re, j + 1, "*") THEN <<[c |-> re[j], star |-> TRUE]>> \o I[j + 2]
        ELSE <<[c |-> re[j], star |-> FALSE]>> \o I[j + 1]
  IN  I[1]
MatchesRef(re, s) ==
  LET anchored == Is(re, 1, "^")
      items == Items(IF anchored THEN Tail(re) ELSE re)
      n == Len(items)
      Ok(c, j) == j <= Len(s) /\ (c = "." \/ c = s[j])
      End(k) == k = n /\ items[k] = [c |-> "$", star |-> FALSE]
      R[k \in 0..n] ==
        IF k = 0 THEN IF anchored THEN {1} ELSE 1..Len(s) + 1
        ELSE IF End(k) THEN R[k - 1] \cap {Len(s) + 1}
        ELSE IF ~items[k].star THEN {j + 1 : j \in {i \in R[k - 1] : Ok(items[k].c, i)}}
        ELSE UNION {{j \in i..Len(s) + 1 : \A h \in i..j - 1 : Ok(items[k].c, h)} : i \in R[k - 1]}
  IN  R[n] # {}
MatchExact == \A re \in Patterns : match(re, text) <=> MatchesRef(re, text)

(* grep writes the complete lines that match: of a file if no line is      *)
(* longer than the buffer, and of a pipe or the console, whose reads may   *)
(* be short, if every read completes a line.  Where a read does not, the   *)
(* beginning of a line is dropped even if it fits, and what is written is  *)
(* still the end of one line, never parts of two.                          *)
GrepExact ==
  LET lines == LinesIn(text)
      last == IF Newlines(text) = {} THEN text ELSE Rest(text)
      fits == (\A j \in DOMAIN lines : Len(lines[j]) < GREPBUF - 1) /\ Len(last) < GREPBUF - 1
      all == SelectSeq(lines, LAMBDA l : MatchesRef(<<"a">>, l))
      EndOf(s, l) == Len(s) <= Len(l) /\ s = SubSeq(l, Len(l) - Len(s) + 1, Len(l))
  IN  /\ fits => \A x \in grep(<<"a">>, text, FALSE) : x.out = all
      /\ \A x \in grep(<<"a">>, text, TRUE) :
           /\ ~x.dropped => x.out = all
           /\ \A j \in DOMAIN x.out : \E h \in DOMAIN lines : EndOf(x.out[j], lines[h])

(* wc counts characters, newlines and words: a word begins at each         *)
(* character that is not blank and has none such before it.                *)
WcExact ==
  LET r == wc(text)
  IN  /\ r.c = Len(text) /\ r.l = Cardinality(Newlines(text))
      /\ r.w = Cardinality({j \in DOMAIN text : text[j] \notin Blanks /\ (j = 1 \/ text[j - 1] \in Blanks)})

(* The elements of a path are its pieces without slash, and skipelem knows *)
(* the last one, also when slashes follow it: nameiparent stops there.     *)
PathsExact ==
  LET E == Elements(text, 1)
      starts == {j \in DOMAIN text : text[j] # "/" /\ (j = 1 \/ text[j - 1] = "/")}
  IN  /\ Len(E) = Cardinality(starts)
      /\ \A h \in DOMAIN E :
           LET s == CHOOSE j \in starts : Cardinality({i \in starts : i <= j}) = h
               e == Min({j \in s..Len(text) + 1 : j > Len(text) \/ text[j] = "/"})
           IN  E[h] = [name |-> SubSeq(text, s, Min({e, s + DIRSIZ}) - 1), last |-> h = Len(E)]

(* The C library and the argument checks agree with their reference        *)
(* definitions on every text: memmove, the string functions, atoi,         *)
(* printint, printf, cprintf, argptr, argstr.                              *)
LibExact == MovesExact /\ StringsExact /\ NumbersExact /\ PrintfAgree /\ ArgsInside

(* So do the programs that read text in pieces and the path elements of    *)
(* the kernel: matchhere and grep, wc, skipelem.                           *)
ToolsExact == MatchExact /\ GrepExact /\ WcExact /\ PathsExact
=============================================================================
