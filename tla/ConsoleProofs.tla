--------------------------- MODULE ConsoleProofs ---------------------------
(***************************************************************************)
(* What is proved of the console, for every size of the ring and of the    *)
(* screen and wherever the indices wrap: the ring of console.c implements  *)
(* the text and the line of module Tty, and its invariant.                 *)
(*                                                                         *)
(*   1. indices of the ring, and the text between them                     *)
(*   2. the loop of consoleread                                            *)
(*   3. what typing, erasing and reading make of the ring                  *)
(*   4. the steps of the console as steps of Tty                           *)
(*   5. the keyboard and its modifiers                                     *)
(*   6. the screen and the echo                                            *)
(***************************************************************************)
EXTENDS Console, Recursion, FiniteSetTheorems, TLAPS

(* The index k places behind i, the places from i to j, and the characters *)
(* that lie between.                                                       *)
Plus(i, k) == (i + k) % UINT
Gap(i, j)  == (j - i) % UINT
Text(buf, i, j) == [k \in 1..Gap(i, j) |-> buf[Slot(Plus(i, k - 1))]]
Index == 0..UINT - 1
Chars == Plain \cup Letters \cup {"nl", "eof", "nul"}
Buffers == [0..INPUT_BUF - 1 -> Chars]
-----------------------------------------------------------------------------
(* Indices of the ring. *)

(* An index is reached without a division. *)
LEMMA PlusIs ==
  ASSUME NEW i \in Index, NEW k \in Index
  PROVE  Plus(i, k) = (IF i + k < UINT THEN i + k ELSE i + k - UINT) /\ Plus(i, k) \in Index
BY ConsoleAssumption DEF Plus, Index

(* The distance of two indices, without a division. *)
LEMMA GapIs ==
  ASSUME NEW i \in Index, NEW j \in Index
  PROVE  Gap(i, j) = (IF i <= j THEN j - i ELSE j - i + UINT) /\ Gap(i, j) \in Index
BY ConsoleAssumption DEF Gap, Index

(* Up goes one place further. *)
LEMMA UpIs ==
  ASSUME NEW i \in Index
  PROVE  Up(i) = Plus(i, 1) /\ 1 \in Index
BY ConsoleAssumption DEF Plus, Up, Index

(* A number is a multiple of the divisor and the rest. *)
LEMMA Division ==
  ASSUME NEW b \in Nat \ {0}, NEW x \in Int
  PROVE  x \div b \in Int /\ x % b \in 0..b - 1 /\ x = b * (x \div b) + (x % b)
OBVIOUS

(* Only zero is a multiple of b and closer to zero than b. *)
LEMMA SmallMultiple ==
  ASSUME NEW b \in Nat \ {0}, NEW d \in Int, d * b < b, -b < d * b
  PROVE  d = 0
OBVIOUS

(* Numbers with the same rest are not close. *)
LEMMA SameRest ==
  ASSUME NEW b \in Nat \ {0}, NEW x \in Int, NEW y \in Int, x % b = y % b,
         x - y < b, y - x < b
  PROVE  x = y
<1> DEFINE p == x \div b
           q == y \div b
<1>1. p \in Int /\ q \in Int /\ x = b * p + (x % b) /\ y = b * q + (x % b) /\ x % b \in Int
  BY Division
<1> HIDE DEF p, q
<1>2. x - y = (p - q) * b
  BY <1>1
<1>3. p - q = 0
  BY <1>1, <1>2, SmallMultiple
<1> QED BY <1>1, <1>3

(* The rest of a multiple and a small number is the small number. *)
LEMMA RestIs ==
  ASSUME NEW b \in Nat \ {0}, NEW q \in Int, NEW r \in 0..b - 1
  PROVE  (b * q + r) % b = r
OBVIOUS

(* Adding a multiple of b leaves the rest. *)
LEMMA RestShifted ==
  ASSUME NEW b \in Nat \ {0}, NEW x \in Int, NEW q \in Int
  PROVE  (x - b * q) % b = x % b
<1> DEFINE p == x \div b
           m == x % b
<1>1. p \in Int /\ m \in 0..b - 1 /\ x = b * p + m
  BY Division
<1> HIDE DEF p
<1>2. m \in 0..b - 1 /\ x - b * q = b * (p - q) + m /\ p - q \in Int
  BY <1>1
<1> HIDE DEF m
<1>3. (b * (p - q) + m) % b = m
  BY <1>2, RestIs
<1> QED BY <1>2, <1>3 DEF m

(* Where the index wraps, the place in the ring goes on: the size of the   *)
(* ring divides the range of an unsigned number.                           *)
LEMMA SlotPlus ==
  ASSUME NEW i \in Index, NEW k \in Index
  PROVE  Slot(Plus(i, k)) = Slot(i + k)
<1> DEFINE q == UINT \div INPUT_BUF
<1>1. q \in Int /\ UINT = INPUT_BUF * q
  BY ConsoleAssumption, Division
<1> HIDE DEF q
<1>2. ((i + k) - INPUT_BUF * q) % INPUT_BUF = (i + k) % INPUT_BUF
  <2> DEFINE x == i + k
  <2>1. x \in Int /\ INPUT_BUF \in Nat \ {0}
    BY ConsoleAssumption DEF Index
  <2> HIDE DEF x
  <2>2. (x - INPUT_BUF * q) % INPUT_BUF = x % INPUT_BUF
    BY <1>1, <2>1, RestShifted, Zenon
  <2> QED BY <2>2 DEF x
<1>3. (i + k) - UINT = i + k - UINT
  BY ConsoleAssumption DEF Index
<1> QED BY <1>1, <1>2, <1>3, PlusIs DEF Slot

(* Places less than INPUT_BUF apart are different slots. *)
LEMMA SlotsDiffer ==
  ASSUME NEW i \in Index, NEW k \in Index, NEW l \in Index, k # l, k - l < INPUT_BUF, l - k < INPUT_BUF
  PROVE  Slot(Plus(i, k)) # Slot(Plus(i, l))
<1>1. i + k \in Int /\ i + l \in Int /\ i + k # i + l
      /\ (i + k) - (i + l) < INPUT_BUF /\ (i + l) - (i + k) < INPUT_BUF
  BY ConsoleAssumption DEF Index
<1>2. (i + k) % INPUT_BUF # (i + l) % INPUT_BUF
  BY <1>1, SameRest, ConsoleAssumption
<1> QED BY <1>2, SlotPlus DEF Slot

(* A slot is a place of buf. *)
LEMMA SlotIs ==
  ASSUME NEW i \in Int
  PROVE  Slot(i) \in 0..INPUT_BUF - 1
BY Division, ConsoleAssumption DEF Slot
-----------------------------------------------------------------------------
(* Texts. *)

(* Sequences of the same length with the same elements are the same. *)
LEMMA SameSequence ==
  ASSUME NEW S, NEW s \in Seq(S), NEW t \in Seq(S), Len(s) = Len(t), \A k \in 1..Len(s) : s[k] = t[k]
  PROVE  s = t
OBVIOUS

(* A text is a sequence of characters. *)
LEMMA TextIs ==
  ASSUME NEW buf \in Buffers, NEW i \in Index, NEW j \in Index
  PROVE  /\ Text(buf, i, j) \in Seq(Chars) /\ Len(Text(buf, i, j)) = Gap(i, j)
         /\ Gap(i, j) \in Index
         /\ \A k \in 1..Gap(i, j) : Text(buf, i, j)[k] = buf[Slot(Plus(i, k - 1))]
<1>1. Gap(i, j) \in Index /\ Gap(i, j) \in Nat
  BY GapIs DEF Index
<1>2. ASSUME NEW k \in 1..Gap(i, j) PROVE buf[Slot(Plus(i, k - 1))] \in Chars
  <2>1. k - 1 \in Index
    BY <1>1, ConsoleAssumption DEF Index
  <2>2. Plus(i, k - 1) \in Int
    BY <2>1, PlusIs, ConsoleAssumption DEF Index
  <2> QED BY <2>2, SlotIs DEF Buffers
<1> QED BY <1>1, <1>2 DEF Text

(* A character at the end of a text, in a slot that the text does not use. *)
LEMMA TextAppend ==
  ASSUME NEW buf \in Buffers, NEW i \in Index, NEW j \in Index, Gap(i, j) < INPUT_BUF, NEW d \in Chars
  PROVE  Text([buf EXCEPT ![Slot(j)] = d], i, Up(j)) = Append(Text(buf, i, j), d)
<1> DEFINE g == Gap(i, j)
           new == [buf EXCEPT ![Slot(j)] = d]
<1>1. g \in Nat /\ g < INPUT_BUF /\ g \in Index /\ j = Plus(i, g) /\ Up(j) \in Index
      /\ Gap(i, Up(j)) = g + 1
  <2>1. Gap(i, j) = (IF i <= j THEN j - i ELSE j - i + UINT) /\ Gap(i, j) \in Index
    BY GapIs
  <2>2. Plus(i, g) = IF i + g < UINT THEN i + g ELSE i + g - UINT
    BY <2>1, PlusIs
  <2>3. Up(j) = (IF j + 1 < UINT THEN j + 1 ELSE j + 1 - UINT) /\ Up(j) \in Index
    BY UpIs, PlusIs
  <2>4. Gap(i, Up(j)) = IF i <= Up(j) THEN Up(j) - i ELSE Up(j) - i + UINT
    BY <2>3, GapIs
  <2> QED BY <2>1, <2>2, <2>3, <2>4, ConsoleAssumption DEF Index
<1>2. new \in Buffers /\ new[Slot(j)] = d
  <2>1. Slot(j) \in 0..INPUT_BUF - 1
    BY SlotIs DEF Index
  <2> QED BY <2>1 DEF Buffers
<1>3. ASSUME NEW k \in 1..g PROVE new[Slot(Plus(i, k - 1))] = buf[Slot(Plus(i, k - 1))]
  <2>1. k - 1 \in Index /\ k - 1 # g /\ (k - 1) - g < INPUT_BUF /\ g - (k - 1) < INPUT_BUF
    BY <1>1, ConsoleAssumption DEF Index
  <2>2. Slot(Plus(i, k - 1)) # Slot(Plus(i, g))
    BY <1>1, <2>1, SlotsDiffer
  <2>3. Slot(Plus(i, k - 1)) \in 0..INPUT_BUF - 1
    BY <2>1, PlusIs, SlotIs DEF Index
  <2> QED BY <1>1, <2>2, <2>3 DEF Buffers
<1>4. /\ Text(buf, i, j) \in Seq(Chars) /\ Len(Text(buf, i, j)) = g
      /\ \A k \in 1..g : Text(buf, i, j)[k] = buf[Slot(Plus(i, k - 1))]
  BY TextIs
<1>5. /\ Text(new, i, Up(j)) \in Seq(Chars) /\ Len(Text(new, i, Up(j))) = g + 1
      /\ \A k \in 1..g + 1 : Text(new, i, Up(j))[k] = new[Slot(Plus(i, k - 1))]
  <2>1. new \in Buffers /\ Up(j) \in Index
    BY <1>1, <1>2
  <2> HIDE DEF new, g
  <2>2. /\ Text(new, i, Up(j)) \in Seq(Chars) /\ Len(Text(new, i, Up(j))) = Gap(i, Up(j))
        /\ \A k \in 1..Gap(i, Up(j)) : Text(new, i, Up(j))[k] = new[Slot(Plus(i, k - 1))]
    BY <2>1, TextIs
  <2> QED BY <1>1, <2>2
<1>6. (g + 1) - 1 = g
  BY <1>1
<1>7. new[Slot(Plus(i, (g + 1) - 1))] = d
  BY <1>1, <1>2, <1>6
<1> HIDE DEF new, g
<1>8. ASSUME NEW k \in 1..g + 1 PROVE Text(new, i, Up(j))[k] = Append(Text(buf, i, j), d)[k]
  <2>1. CASE k \in 1..g
    BY <1>1, <1>3, <1>4, <1>5, <2>1
  <2>2. CASE k = g + 1
    <3>1. Text(new, i, Up(j))[k] = d
      BY <1>5, <1>7, <2>2
    <3> QED BY <1>1, <1>4, <2>2, <3>1
  <2>3. k \in 1..g \/ k = g + 1
    BY <1>1
  <2> QED BY <2>1, <2>2, <2>3, Zenon
<1>9. Text(new, i, Up(j)) = Append(Text(buf, i, j), d)
  <2>1. Append(Text(buf, i, j), d) \in Seq(Chars) /\ Len(Append(Text(buf, i, j), d)) = g + 1
    BY <1>1, <1>4
  <2> QED BY <1>1, <1>5, <1>8, <2>1, SameSequence
<1> QED BY <1>9 DEF new

(* A text that ends in front of a slot does not see what is stored there.  *)
LEMMA TextKept ==
  ASSUME NEW buf \in Buffers, NEW i \in Index, NEW j \in Index, NEW e \in Index,
         Gap(i, j) <= Gap(i, e), Gap(i, e) < INPUT_BUF, NEW d \in Chars
  PROVE  Text([buf EXCEPT ![Slot(e)] = d], i, j) = Text(buf, i, j)
<1> DEFINE new == [buf EXCEPT ![Slot(e)] = d]
<1>1. Gap(i, j) \in Index /\ Gap(i, e) \in Index /\ e = Plus(i, Gap(i, e))
  <2>1. Gap(i, e) = (IF i <= e THEN e - i ELSE e - i + UINT) /\ Gap(i, e) \in Index
    BY GapIs
  <2>2. Plus(i, Gap(i, e)) = IF i + Gap(i, e) < UINT THEN i + Gap(i, e) ELSE i + Gap(i, e) - UINT
    BY <2>1, PlusIs
  <2>3. Gap(i, j) \in Index
    BY GapIs
  <2> QED BY <2>1, <2>2, <2>3, ConsoleAssumption DEF Index
<1>2. ASSUME NEW k \in 1..Gap(i, j) PROVE new[Slot(Plus(i, k - 1))] = buf[Slot(Plus(i, k - 1))]
  <2>1. k - 1 \in Index /\ k - 1 # Gap(i, e) /\ (k - 1) - Gap(i, e) < INPUT_BUF
        /\ Gap(i, e) - (k - 1) < INPUT_BUF
    BY <1>1, ConsoleAssumption DEF Index
  <2>2. Slot(Plus(i, k - 1)) # Slot(Plus(i, Gap(i, e)))
    BY <1>1, <2>1, SlotsDiffer
  <2>3. Slot(Plus(i, k - 1)) \in 0..INPUT_BUF - 1
    BY <2>1, PlusIs, SlotIs DEF Index
  <2> QED BY <1>1, <2>2, <2>3 DEF Buffers
<1> HIDE DEF new
<1>3. Text(new, i, j) = Text(buf, i, j)
  BY <1>2 DEF Text
<1> QED BY <1>3 DEF new

(* The elements of two sequences put together. *)
LEMMA ConcatIs ==
  ASSUME NEW S, NEW s \in Seq(S), NEW t \in Seq(S), NEW k \in 1..Len(s) + Len(t)
  PROVE  (s \o t)[k] = IF k <= Len(s) THEN s[k] ELSE t[k - Len(s)]
OBVIOUS

(* Two texts that follow each other are one. *)
LEMMA TextConcat ==
  ASSUME NEW buf \in Buffers, NEW i \in Index, NEW j \in Index, NEW e \in Index,
         Gap(i, j) <= Gap(i, e)
  PROVE  Text(buf, i, e) = Text(buf, i, j) \o Text(buf, j, e) /\ Gap(i, e) = Gap(i, j) + Gap(j, e)
<1>1. /\ Gap(i, j) = (IF i <= j THEN j - i ELSE j - i + UINT) /\ Gap(i, j) \in Index
      /\ Gap(i, e) = (IF i <= e THEN e - i ELSE e - i + UINT) /\ Gap(i, e) \in Index
      /\ Gap(j, e) = (IF j <= e THEN e - j ELSE e - j + UINT) /\ Gap(j, e) \in Index
  BY GapIs
<1>2. Gap(i, e) = Gap(i, j) + Gap(j, e)
  BY <1>1, ConsoleAssumption DEF Index
<1>3. ASSUME NEW k \in 1..Gap(j, e) PROVE Plus(i, Gap(i, j) + k - 1) = Plus(j, k - 1)
  <2>1. Gap(i, j) + k - 1 \in Index /\ k - 1 \in Index
    BY <1>1, <1>2, ConsoleAssumption DEF Index
  <2> DEFINE a == Gap(i, j) + k - 1
             b == k - 1
  <2>2. /\ Plus(i, a) = IF i + a < UINT THEN i + a ELSE i + a - UINT
        /\ Plus(j, b) = IF j + b < UINT THEN j + b ELSE j + b - UINT
    <3> HIDE DEF a, b
    <3>1. a \in Index /\ b \in Index
      BY <2>1 DEF a, b
    <3> QED BY <3>1, PlusIs
  <2>3. Plus(i, a) = Plus(j, b)
    BY <1>1, <2>1, <2>2, ConsoleAssumption DEF Index
  <2> QED BY <2>3
<1> DEFINE s == Text(buf, i, j)
           t == Text(buf, j, e)
           u == Text(buf, i, e)
<1>4. /\ s \in Seq(Chars) /\ Len(s) = Gap(i, j) /\ \A k \in 1..Gap(i, j) : s[k] = buf[Slot(Plus(i, k - 1))]
      /\ t \in Seq(Chars) /\ Len(t) = Gap(j, e) /\ \A k \in 1..Gap(j, e) : t[k] = buf[Slot(Plus(j, k - 1))]
      /\ u \in Seq(Chars) /\ Len(u) = Gap(i, e) /\ \A k \in 1..Gap(i, e) : u[k] = buf[Slot(Plus(i, k - 1))]
  BY TextIs
<1> HIDE DEF s, t, u
<1>5. Gap(i, j) \in Nat /\ Gap(j, e) \in Nat /\ Gap(i, e) \in Nat
  BY <1>1 DEF Index
<1>6. ASSUME NEW k \in 1..Gap(i, e) PROVE u[k] = (s \o t)[k]
  <2>0. (s \o t)[k] = IF k <= Gap(i, j) THEN s[k] ELSE t[k - Gap(i, j)]
    <3>1. s \in Seq(Chars) /\ t \in Seq(Chars) /\ Len(s) = Gap(i, j) /\ k \in 1..Len(s) + Len(t)
      BY <1>2, <1>4
    <3>2. (s \o t)[k] = IF k <= Len(s) THEN s[k] ELSE t[k - Len(s)]
      BY <3>1, ConcatIs
    <3> QED BY <3>1, <3>2
  <2>1. CASE k <= Gap(i, j)
    <3>1. k \in 1..Gap(i, j)
      BY <1>5, <2>1
    <3> QED BY <1>4, <2>0, <2>1, <3>1
  <2>2. CASE k > Gap(i, j)
    <3> DEFINE l == k - Gap(i, j)
    <3>1. l \in 1..Gap(j, e) /\ Gap(i, j) + l - 1 = k - 1
      BY <1>2, <1>5, <2>2
    <3>2. (s \o t)[k] = t[l]
      BY <1>5, <2>0, <2>2
    <3>3. t[l] = buf[Slot(Plus(j, l - 1))] /\ u[k] = buf[Slot(Plus(i, k - 1))]
      BY <1>4, <3>1
    <3>4. Plus(i, Gap(i, j) + l - 1) = Plus(j, l - 1)
      BY <1>3, <3>1
    <3> QED BY <3>1, <3>2, <3>3, <3>4
  <2>3. k <= Gap(i, j) \/ k > Gap(i, j)
    BY <1>5
  <2> QED BY <2>1, <2>2, <2>3, Zenon
<1>7. u = s \o t
  <2>1. s \o t \in Seq(Chars) /\ Len(s \o t) = Len(u)
    <3>1. s \in Seq(Chars) /\ t \in Seq(Chars)
      BY <1>4
    <3>2. s \o t \in Seq(Chars) /\ Len(s \o t) = Len(s) + Len(t)
      BY <3>1
    <3>3. Len(u) = Len(s) + Len(t)
      BY <1>2, <1>4
    <3> QED BY <3>2, <3>3
  <2> QED BY <1>4, <1>6, <2>1, SameSequence
<1> QED BY <1>2, <1>7 DEF s, t, u

(* The first k characters of a text, and the rest of it. *)
LEMMA TextSplit ==
  ASSUME NEW buf \in Buffers, NEW i \in Index, NEW j \in Index, NEW k \in 0..Gap(i, j)
  PROVE  /\ Plus(i, k) \in Index /\ Gap(i, Plus(i, k)) = k /\ Gap(Plus(i, k), j) = Gap(i, j) - k
         /\ Text(buf, i, Plus(i, k)) = SubSeq(Text(buf, i, j), 1, k)
         /\ Text(buf, Plus(i, k), j) = SubSeq(Text(buf, i, j), k + 1, Len(Text(buf, i, j)))
<1> DEFINE m == Plus(i, k)
<1>1. k \in Index /\ Gap(i, j) \in Index
  BY GapIs, ConsoleAssumption DEF Index
<1>2. m = (IF i + k < UINT THEN i + k ELSE i + k - UINT) /\ m \in Index
  BY <1>1, PlusIs
<1>3. /\ Gap(i, j) = (IF i <= j THEN j - i ELSE j - i + UINT)
      /\ Gap(i, m) = (IF i <= m THEN m - i ELSE m - i + UINT)
      /\ Gap(m, j) = (IF m <= j THEN j - m ELSE j - m + UINT)
  <2> HIDE DEF m
  <2> QED BY <1>2, GapIs
<1>4. Gap(i, m) = k
  BY <1>1, <1>2, <1>3, ConsoleAssumption DEF Index
<1>5. Gap(i, m) <= Gap(i, j) /\ Gap(i, m) \in Nat /\ Gap(i, j) \in Nat
  BY <1>1, <1>4 DEF Index
<1> DEFINE s == Text(buf, i, m)
           t == Text(buf, m, j)
           u == Text(buf, i, j)
<1> HIDE DEF m
<1>6. u = s \o t /\ Gap(i, j) = Gap(i, m) + Gap(m, j)
  <2>1. m \in Index
    BY <1>2
  <2>2. Gap(i, m) <= Gap(i, j)
    BY <1>5
  <2> QED BY <2>1, <2>2, TextConcat, Zenon
<1>7. s \in Seq(Chars) /\ Len(s) = Gap(i, m) /\ t \in Seq(Chars) /\ Len(t) = Gap(m, j)
  BY <1>2, TextIs
<1>8. Gap(m, j) \in Nat
  <2>1. m \in Index
    BY <1>2
  <2>2. Gap(m, j) \in Index
    BY <2>1, GapIs
  <2> QED BY <2>2, ConsoleAssumption DEF Index
<1> HIDE DEF s, t, u
<1>9. s = SubSeq(u, 1, k)
  BY <1>4, <1>5, <1>6, <1>7, <1>8
<1>10. t = SubSeq(u, k + 1, Len(u))
  BY <1>4, <1>5, <1>6, <1>7, <1>8
<1>11. Gap(m, j) = Gap(i, j) - k
  BY <1>4, <1>5, <1>6, <1>8
<1> QED BY <1>2, <1>4, <1>9, <1>10, <1>11 DEF m, s, t, u
-----------------------------------------------------------------------------
(* The loop of consoleread. *)

(* What the loop returns with n = j, if it returns rest with n = j - 1. *)
LoopStep(x, n, target, j, rest) ==
  LET r == (x.r + n - j) % UINT
      c == x.buf[Slot(r)]
  IN  IF j = 0 THEN [r |-> r, n |-> 0, st |-> "idle"]
      ELSE IF r = x.w THEN [r |-> r, n |-> j, st |-> "asleep"]
      ELSE IF c = "eof" THEN [r |-> IF j < target THEN r ELSE Up(r), n |-> j, st |-> "idle"]
      ELSE IF c = "nl" THEN [r |-> Up(r), n |-> j - 1, st |-> "idle"]
      ELSE rest

(* f is the loop. *)
IsLoop(f, x, n, target) ==
  f = [j \in 0..n |-> LoopStep(x, n, target, j, f[j - 1])]

(* The loop is defined, and ReadLoop is it. *)
LEMMA LoopEquation ==
  ASSUME NEW x, NEW n \in Nat, NEW target, x.r \in Index
  PROVE  \E f : IsLoop(f, x, n, target) /\ ReadLoop(x, n, target) = f[n]
<1> DEFINE S == [r : Index, n : Nat, st : {"idle", "asleep"}]
           G == [j \in 1..n |-> [s \in S |-> LoopStep(x, n, target, j, s)]]
           a == LoopStep(x, n, target, 0, 0)
           E(g) == g = [j \in 0..n |-> LoopStep(x, n, target, j, g[j - 1])]
<1>1. ASSUME NEW i \in Int PROVE i % UINT \in Index /\ Up(i) \in Index
  BY Division, ConsoleAssumption DEF Up, Index
<1>2. ASSUME NEW j \in 0..n, NEW s, j = 0 \/ s \in S PROVE LoopStep(x, n, target, j, s) \in S
  <2> DEFINE r == (x.r + n - j) % UINT
  <2>1. r \in Index /\ Up(r) \in Index
    <3>1. x.r + n - j \in Int
      BY ConsoleAssumption DEF Index
    <3>2. r \in Index /\ r \in Int
      BY <1>1, <3>1 DEF Index
    <3> QED BY <1>1, <3>2
  <2> HIDE DEF r
  <2>2. LoopStep(x, n, target, j, s) =
          IF j = 0 THEN [r |-> r, n |-> 0, st |-> "idle"]
          ELSE IF r = x.w THEN [r |-> r, n |-> j, st |-> "asleep"]
          ELSE IF x.buf[Slot(r)] = "eof"
               THEN [r |-> IF j < target THEN r ELSE Up(r), n |-> j, st |-> "idle"]
          ELSE IF x.buf[Slot(r)] = "nl" THEN [r |-> Up(r), n |-> j - 1, st |-> "idle"]
          ELSE s
    BY DEF LoopStep, r
  <2> QED BY <1>2, <2>1, <2>2
<1>3. a \in S
  BY <1>2
<1>4. G \in [1..n -> [S -> S]]
  BY <1>2
<1>5. \A g : LoopStep(x, n, target, 0, g) = a
  BY DEF LoopStep
<1> HIDE DEF S, G, a
<1>6. PICK f : Solves(f, n, S, a, G)
  BY <1>3, <1>4, RecursiveFunction
<1>7. E(f)
  <2>1. ASSUME NEW j \in 0..n PROVE f[j] = LoopStep(x, n, target, j, f[j - 1])
    <3>1. CASE j = 0
      BY <1>5, <1>6, <3>1 DEF Solves
    <3>2. CASE j \in 1..n
      <4>1. f[j] = G[j][f[j - 1]] /\ f[j - 1] \in S
        BY <1>6, <3>2 DEF Solves
      <4> QED BY <3>2, <4>1 DEF G
    <3> QED BY <3>1, <3>2
  <2> QED BY <1>6, <2>1 DEF Solves
<1> HIDE DEF E
<1>8. ReadLoop(x, n, target) = (CHOOSE g : E(g))[n]
  BY DEF ReadLoop, E, LoopStep
<1>9. E(CHOOSE g : E(g))
  BY <1>7, Zenon
<1> QED BY <1>8, <1>9 DEF E, IsLoop

(* The loop has taken m characters, none of them an end, when it stops:    *)
(* it has enough, it has to sleep, or it is at an end of file or of a line.*)
Stopped(x, n, target, l, m) ==
  /\ m \in 0..n /\ m <= Gap(x.r, x.w)
  /\ \A i \in 0..m - 1 : x.buf[Slot(Plus(x.r, i))] \notin {"eof", "nl"}
  /\ \/ m = n /\ l = [r |-> Plus(x.r, m), n |-> 0, st |-> "idle"]
     \/ m < n /\ m = Gap(x.r, x.w) /\ l = [r |-> Plus(x.r, m), n |-> n - m, st |-> "asleep"]
     \/ /\ m < n /\ m < Gap(x.r, x.w) /\ x.buf[Slot(Plus(x.r, m))] = "eof"
        /\ l = [r |-> IF n - m < target THEN Plus(x.r, m) ELSE Up(Plus(x.r, m)),
                n |-> n - m, st |-> "idle"]
     \/ /\ m < n /\ m < Gap(x.r, x.w) /\ x.buf[Slot(Plus(x.r, m))] = "nl"
        /\ l = [r |-> Up(Plus(x.r, m)), n |-> n - m - 1, st |-> "idle"]

(* The loop of consoleread stops, at the first place where it has to. *)
LEMMA LoopStops ==
  ASSUME NEW x, NEW n \in Nat, NEW target, x.r \in Index, x.w \in Index
  PROVE  \E m : Stopped(x, n, target, ReadLoop(x, n, target), m)
<1> DEFINE At(i) == Plus(x.r, i)
           Here(i) == x.buf[Slot(At(i))]
           Stops == {i \in 0..n : i = n \/ At(i) = x.w \/ Here(i) \in {"eof", "nl"}}
           L == Gap(x.r, x.w)
<1>1. L \in Index /\ L \in Nat /\ At(L) = x.w /\ \A i \in 0..L - 1 : At(i) # x.w
  <2>1. L = (IF x.r <= x.w THEN x.w - x.r ELSE x.w - x.r + UINT) /\ L \in Index /\ L \in Nat
    <3>1. L = (IF x.r <= x.w THEN x.w - x.r ELSE x.w - x.r + UINT) /\ L \in Index
      BY GapIs
    <3> HIDE DEF L
    <3> QED BY <3>1, ConsoleAssumption DEF Index
  <2>2. \A i \in 0..L : At(i) = IF x.r + i < UINT THEN x.r + i ELSE x.r + i - UINT
    <3>1. \A i \in 0..L : i \in Index
      BY <2>1, ConsoleAssumption DEF Index
    <3> QED BY <3>1, PlusIs
  <2> HIDE DEF At, L
  <2> QED BY <2>1, <2>2, ConsoleAssumption DEF Index
<1>2. PICK m \in Stops : \A i \in Stops : m <= i
  <2>1. Stops \in SUBSET Nat /\ n \in Stops
    OBVIOUS
  <2> HIDE DEF Stops
  <2>2. Stops # {}
    BY <2>1
  <2> QED BY <2>1, <2>2, LeastNumber
<1>3. m \in 0..n /\ (m = n \/ At(m) = x.w \/ Here(m) \in {"eof", "nl"})
  BY <1>2
<1>4. m <= L
  <2>1. CASE L <= n
    <3>1. L \in Stops
      <4> HIDE DEF L, At, Here
      <4> QED BY <1>1, <2>1
    <3> QED BY <1>2, <3>1
  <2>2. CASE n < L
    <3> HIDE DEF L
    <3> QED BY <1>1, <1>3, <2>2
  <2> QED BY <1>1, <2>1, <2>2
<1>5. ASSUME NEW i \in 0..m - 1 PROVE i \in 0..n - 1 /\ At(i) # x.w /\ Here(i) \notin {"eof", "nl"}
  <2>1. i \in 0..n - 1 /\ ~(m <= i)
    BY <1>3
  <2>2. i \notin Stops
    BY <1>2, <2>1
  <2> HIDE DEF At, Here
  <2> QED BY <2>1, <2>2
<1>6. PICK f : IsLoop(f, x, n, target) /\ ReadLoop(x, n, target) = f[n]
  BY LoopEquation
<1>7. ASSUME NEW i \in 0..n
      PROVE  f[n - i] = IF i = n THEN [r |-> At(i), n |-> 0, st |-> "idle"]
                        ELSE IF At(i) = x.w THEN [r |-> At(i), n |-> n - i, st |-> "asleep"]
                        ELSE IF Here(i) = "eof"
                             THEN [r |-> IF n - i < target THEN At(i) ELSE Up(At(i)), n |-> n - i, st |-> "idle"]
                        ELSE IF Here(i) = "nl" THEN [r |-> Up(At(i)), n |-> n - i - 1, st |-> "idle"]
                        ELSE f[n - i - 1]
  <2>1. n - i \in 0..n
    OBVIOUS
  <2>2. f[n - i] = LoopStep(x, n, target, n - i, f[(n - i) - 1])
    BY <1>6, <2>1 DEF IsLoop
  <2>3. (x.r + n - (n - i)) % UINT = At(i)
    <3>1. x.r + n - (n - i) = x.r + i
      BY DEF Index
    <3> QED BY <3>1 DEF Plus
  <2>4. (n - i = 0) <=> (i = n)
    OBVIOUS
  <2>5. (n - i) - 1 = n - i - 1
    OBVIOUS
  <2> HIDE DEF At
  <2> QED BY <2>2, <2>3, <2>4, <2>5 DEF LoopStep
<1> HIDE DEF At, Here, Stops, L
<1>8. f[n - m] = f[n]
  <2> DEFINE M == {i \in 0..m : f[n - i] = f[n]}
  <2>1. 0 \in M
    BY <1>3
  <2>2. ASSUME NEW i \in 0..m - 1, i \in M PROVE i + 1 \in M
    <3>1. i \in 0..n /\ i # n /\ n - i - 1 = n - (i + 1) /\ i + 1 \in 0..m
      BY <1>3
    <3>2. f[n - i] = f[n - i - 1]
      BY <1>5, <1>7, <3>1
    <3> QED BY <2>2, <3>1, <3>2
  <2>3. 0..m \subseteq M
    <3> HIDE DEF M
    <3> QED BY <1>3, <2>1, <2>2, IntervalInduction
  <2> QED BY <1>3, <2>3
<1>9. Stopped(x, n, target, f[n - m], m)
  <2>1. m \in 0..n /\ m <= L /\ \A i \in 0..m - 1 : Here(i) \notin {"eof", "nl"}
    BY <1>3, <1>4, <1>5
  <2>2. CASE m = n
    <3>1. f[n - m] = [r |-> At(m), n |-> 0, st |-> "idle"]
      BY <1>3, <1>7, <2>2
    <3> QED BY <2>1, <2>2, <3>1 DEF Stopped, At, Here, L
  <2>3. CASE m # n /\ At(m) = x.w
    <3>1. f[n - m] = [r |-> At(m), n |-> n - m, st |-> "asleep"]
      BY <1>3, <1>7, <2>3
    <3>2. m < n /\ m = L
      BY <1>1, <1>3, <1>4, <2>3
    <3> QED BY <2>1, <3>1, <3>2 DEF Stopped, At, Here, L
  <2>4. CASE m # n /\ At(m) # x.w /\ Here(m) = "eof"
    <3>1. f[n - m] = [r |-> IF n - m < target THEN At(m) ELSE Up(At(m)), n |-> n - m, st |-> "idle"]
      BY <1>3, <1>7, <2>4
    <3>2. m < n /\ m < L
      BY <1>1, <1>3, <1>4, <2>4
    <3> QED BY <2>1, <2>4, <3>1, <3>2 DEF Stopped, At, Here, L
  <2>5. CASE m # n /\ At(m) # x.w /\ Here(m) = "nl"
    <3>1. f[n - m] = [r |-> Up(At(m)), n |-> n - m - 1, st |-> "idle"]
      BY <1>3, <1>7, <2>5
    <3>2. m < n /\ m < L
      BY <1>1, <1>3, <1>4, <2>5
    <3> QED BY <2>1, <2>5, <3>1, <3>2 DEF Stopped, At, Here, L
  <2> QED BY <1>3, <2>2, <2>3, <2>4, <2>5
<1> QED BY <1>6, <1>8, <1>9
-----------------------------------------------------------------------------
(* What the operations make of the ring. *)
EditOf(x)  == Text(x.buf, x.w, x.e)
ReadyOf(x) == Text(x.buf, x.r, x.w)

(* A ring: r, w and e in this order at most INPUT_BUF apart, and no end of *)
(* a line in the line that is edited.                                      *)
OkRing(x) ==
  /\ x \in [buf : Buffers, r : Index, w : Index, e : Index]
  /\ Gap(x.r, x.w) <= Gap(x.r, x.e) /\ Gap(x.r, x.e) <= INPUT_BUF
  /\ \A k \in 1..Gap(x.w, x.e) : EditOf(x)[k] # "nl"

(* The lengths of the parts of a ring. *)
LEMMA RingLengths ==
  ASSUME NEW x, OkRing(x)
  PROVE  /\ x.buf \in Buffers /\ x.r \in Index /\ x.w \in Index /\ x.e \in Index
         /\ EditOf(x) \in Seq(Chars) /\ Len(EditOf(x)) = Gap(x.w, x.e)
         /\ ReadyOf(x) \in Seq(Chars) /\ Len(ReadyOf(x)) = Gap(x.r, x.w)
         /\ Gap(x.r, x.e) = Gap(x.r, x.w) + Gap(x.w, x.e)
         /\ Gap(x.r, x.w) \in 0..INPUT_BUF /\ Gap(x.w, x.e) \in 0..INPUT_BUF /\ Gap(x.r, x.e) \in 0..INPUT_BUF
<1>1. x.buf \in Buffers /\ x.r \in Index /\ x.w \in Index /\ x.e \in Index /\ Gap(x.r, x.w) <= Gap(x.r, x.e)
  BY DEF OkRing
<1>2. EditOf(x) \in Seq(Chars) /\ Len(EditOf(x)) = Gap(x.w, x.e)
      /\ ReadyOf(x) \in Seq(Chars) /\ Len(ReadyOf(x)) = Gap(x.r, x.w)
  BY <1>1, TextIs DEF EditOf, ReadyOf
<1>3. Gap(x.r, x.e) = Gap(x.r, x.w) + Gap(x.w, x.e)
  BY <1>1, TextConcat
<1>4. Gap(x.r, x.w) \in Index /\ Gap(x.w, x.e) \in Index /\ Gap(x.r, x.e) \in Index /\ Gap(x.r, x.e) <= INPUT_BUF
  BY <1>1, GapIs DEF OkRing
<1>5. Gap(x.r, x.w) \in 0..INPUT_BUF /\ Gap(x.w, x.e) \in 0..INPUT_BUF /\ Gap(x.r, x.e) \in 0..INPUT_BUF
  BY <1>3, <1>4, ConsoleAssumption DEF Index
<1> QED BY <1>1, <1>2, <1>3, <1>5

(* The place behind j, and whether the ring is full there. *)
LEMMA NextPlace ==
  ASSUME NEW i \in Index, NEW j \in Index, Gap(i, j) < INPUT_BUF
  PROVE  /\ Up(j) \in Index /\ Gap(i, Up(j)) = Gap(i, j) + 1 /\ Gap(Up(j), Up(j)) = 0
         /\ Up(j) = Plus(i, INPUT_BUF) <=> Gap(i, j) + 1 = INPUT_BUF
<1> DEFINE u == Up(j)
<1>1. u = (IF j + 1 < UINT THEN j + 1 ELSE j + 1 - UINT) /\ u \in Index
  BY UpIs, PlusIs
<1>2. INPUT_BUF \in Index /\ UINT \in Nat /\ INPUT_BUF \in Nat \ {0} /\ INPUT_BUF < UINT
  BY ConsoleAssumption DEF Index
<1> HIDE DEF u
<1>3. /\ Gap(i, u) = (IF i <= u THEN u - i ELSE u - i + UINT)
      /\ Gap(u, u) = (IF u <= u THEN u - u ELSE u - u + UINT)
  BY <1>1, GapIs
<1>4. Gap(i, j) = (IF i <= j THEN j - i ELSE j - i + UINT)
  BY GapIs
<1>5. Plus(i, INPUT_BUF) = (IF i + INPUT_BUF < UINT THEN i + INPUT_BUF ELSE i + INPUT_BUF - UINT)
  BY <1>2, PlusIs
<1>6. Gap(i, u) = Gap(i, j) + 1 /\ Gap(u, u) = 0
  BY <1>1, <1>2, <1>3, <1>4 DEF Index
<1>7. u = Plus(i, INPUT_BUF) <=> Gap(i, u) = INPUT_BUF
  BY <1>1, <1>2, <1>3, <1>5 DEF Index
<1> QED BY <1>1, <1>6, <1>7 DEF u

(* The ring with a character more. *)
Put(x, d) ==
  LET y == [x EXCEPT !.buf[Slot(x.e)] = d, !.e = Up(@)]
  IN  IF ReadyAt(y, d) THEN [y EXCEPT !.w = y.e] ELSE y

(* A ring, and what a typed character does to the text and the line. *)
Typed(x, z, d) ==
  /\ OkRing(z)
  /\ Len(EditOf(x)) + Len(ReadyOf(x)) < INPUT_BUF
  /\ IF d \in {"nl", "eof"} \/ Len(EditOf(x)) + Len(ReadyOf(x)) + 1 = INPUT_BUF
     THEN ReadyOf(z) = ReadyOf(x) \o Append(EditOf(x), d) /\ EditOf(z) = <<>>
     ELSE EditOf(z) = Append(EditOf(x), d) /\ ReadyOf(z) = ReadyOf(x)

(* A typed character comes to the end of the line; the end of a line, and  *)
(* the last character that finds room, make it ready.                      *)
LEMMA PutTypes ==
  ASSUME NEW x, OkRing(x), HasRoom(x), NEW d \in Chars
  PROVE  Typed(x, Put(x, d), d)
<1> DEFINE b == [x.buf EXCEPT ![Slot(x.e)] = d]
           u == Up(x.e)
<1>1. /\ x.buf \in Buffers /\ x.r \in Index /\ x.w \in Index /\ x.e \in Index
      /\ EditOf(x) \in Seq(Chars) /\ Len(EditOf(x)) = Gap(x.w, x.e)
      /\ ReadyOf(x) \in Seq(Chars) /\ Len(ReadyOf(x)) = Gap(x.r, x.w)
      /\ Gap(x.r, x.e) = Gap(x.r, x.w) + Gap(x.w, x.e)
      /\ Gap(x.r, x.w) \in 0..INPUT_BUF /\ Gap(x.w, x.e) \in 0..INPUT_BUF /\ Gap(x.r, x.e) \in 0..INPUT_BUF
  BY RingLengths
<1>2. Gap(x.r, x.e) < INPUT_BUF
  BY DEF HasRoom, Gap
<1>3. Gap(x.w, x.e) < INPUT_BUF /\ Gap(x.r, x.w) <= Gap(x.r, x.e) /\ INPUT_BUF \in Nat \ {0}
  BY <1>1, <1>2, ConsoleAssumption
<1>4. b \in Buffers
  <2>1. Slot(x.e) \in 0..INPUT_BUF - 1
    <3>1. x.e \in Int
      BY <1>1, ConsoleAssumption DEF Index
    <3> QED BY <3>1, SlotIs
  <2> QED BY <1>1, <2>1 DEF Buffers
<1>5. u \in Index /\ Gap(x.r, u) = Gap(x.r, x.e) + 1 /\ Gap(x.w, u) = Gap(x.w, x.e) + 1 /\ Gap(u, u) = 0
      /\ (u = Plus(x.r, INPUT_BUF) <=> Gap(x.r, x.e) + 1 = INPUT_BUF)
  BY <1>1, <1>2, <1>3, NextPlace
<1>6. Text(b, x.w, u) = Append(EditOf(x), d) /\ Text(b, x.r, x.w) = ReadyOf(x)
  <2>1. Text(b, x.w, u) = Append(EditOf(x), d)
    BY <1>1, <1>3, TextAppend DEF EditOf
  <2>2. Text(b, x.r, x.w) = ReadyOf(x)
    BY <1>1, <1>2, <1>3, TextKept DEF ReadyOf
  <2> QED BY <2>1, <2>2
<1> HIDE DEF b, u
<1>7. Text(b, x.r, u) = ReadyOf(x) \o Append(EditOf(x), d)
  <2>1. Gap(x.r, x.w) <= Gap(x.r, u)
    BY <1>1, <1>5
  <2>2. Text(b, x.r, u) = Text(b, x.r, x.w) \o Text(b, x.w, u)
    BY <1>1, <1>4, <1>5, <2>1, TextConcat
  <2> QED BY <1>6, <2>2
<1> DEFINE y == [buf |-> b, r |-> x.r, w |-> x.w, e |-> u]
           v == [buf |-> b, r |-> x.r, w |-> u, e |-> u]
<1>8. [x EXCEPT !.buf[Slot(x.e)] = d, !.e = Up(@)] = y /\ [y EXCEPT !.w = y.e] = v
  <2>1. x = [buf |-> x.buf, r |-> x.r, w |-> x.w, e |-> x.e]
    BY DEF OkRing
  <2>2. [x EXCEPT !.buf = b] = [buf |-> b, r |-> x.r, w |-> x.w, e |-> x.e]
    BY <2>1
  <2>3. [[x EXCEPT !.buf = b] EXCEPT !.e = u] = y
    <3>1. [[buf |-> b, r |-> x.r, w |-> x.w, e |-> x.e] EXCEPT !.e = u] = y
      OBVIOUS
    <3> QED BY <2>2, <3>1, Zenon
  <2>4. [x EXCEPT !.buf[Slot(x.e)] = d, !.e = Up(@)] = [[x EXCEPT !.buf = b] EXCEPT !.e = u]
    BY <2>1 DEF b, u
  <2>5. [y EXCEPT !.w = y.e] = v
    OBVIOUS
  <2> QED BY <2>3, <2>4, <2>5
<1>9. Full(y) <=> Gap(x.r, x.e) + 1 = INPUT_BUF
  <2>1. Full(y) <=> u = Plus(x.r, INPUT_BUF)
    BY DEF Full, Plus
  <2> QED BY <1>5, <2>1
<1>10. Put(x, d) = IF ReadyAt(y, d) THEN v ELSE y
  BY <1>8 DEF Put
<1>11. Len(EditOf(x)) + Len(ReadyOf(x)) = Gap(x.r, x.e)
  BY <1>1
<1>12. ReadyAt(y, d) <=> d \in {"nl", "eof"} \/ Len(EditOf(x)) + Len(ReadyOf(x)) + 1 = INPUT_BUF
  BY <1>9, <1>11 DEF ReadyAt
<1>13. CASE ReadyAt(y, d)
  <2>1. EditOf(v) = <<>> /\ ReadyOf(v) = ReadyOf(x) \o Append(EditOf(x), d)
    <3>1. EditOf(v) = Text(b, u, u) /\ ReadyOf(v) = Text(b, x.r, u)
      BY DEF EditOf, ReadyOf
    <3>2. Text(b, u, u) \in Seq(Chars) /\ Len(Text(b, u, u)) = 0
      BY <1>4, <1>5, TextIs
    <3> QED BY <1>7, <3>1, <3>2
  <2>2. OkRing(v)
    <3>1. v \in [buf : Buffers, r : Index, w : Index, e : Index]
      BY <1>1, <1>4, <1>5
    <3>2. Gap(x.r, u) <= Gap(x.r, u) /\ Gap(x.r, u) <= INPUT_BUF
      BY <1>1, <1>2, <1>3, <1>5
    <3>3. 1..Gap(u, u) = {}
      BY <1>5
    <3> QED BY <3>1, <3>2, <3>3 DEF OkRing
  <2>3. Put(x, d) = v
    BY <1>10, <1>13
  <2> HIDE DEF v, y
  <2> QED BY <1>2, <1>11, <1>12, <1>13, <2>1, <2>2, <2>3 DEF Typed
<1>14. CASE ~ReadyAt(y, d)
  <2>1. EditOf(y) = Append(EditOf(x), d) /\ ReadyOf(y) = ReadyOf(x)
    BY <1>6 DEF EditOf, ReadyOf
  <2>2. OkRing(y)
    <3>1. d # "nl"
      BY <1>14 DEF ReadyAt
    <3>2. \A k \in 1..Gap(x.w, x.e) : EditOf(x)[k] # "nl"
      BY DEF OkRing
    <3>3. ASSUME NEW k \in 1..Gap(x.w, u) PROVE Append(EditOf(x), d)[k] # "nl"
      BY <1>1, <1>5, <3>1, <3>2
    <3>4. y \in [buf : Buffers, r : Index, w : Index, e : Index]
      BY <1>1, <1>4, <1>5
    <3>5. Gap(x.r, x.w) <= Gap(x.r, u) /\ Gap(x.r, u) <= INPUT_BUF
      BY <1>1, <1>2, <1>3, <1>5
    <3> QED BY <2>1, <3>3, <3>4, <3>5 DEF OkRing
  <2>3. Put(x, d) = y
    BY <1>10, <1>14
  <2> HIDE DEF v, y
  <2> QED BY <1>2, <1>11, <1>12, <1>14, <2>1, <2>2, <2>3 DEF Typed
<1> QED BY <1>13, <1>14

(* Control-U erases the whole line: no end of a line stops it. *)
LEMMA ErasedIs ==
  ASSUME NEW x, OkRing(x)
  PROVE  Erased(x) = Gap(x.w, x.e)
<1> DEFINE n == Gap(x.w, x.e)
           T == {j \in 0..n : j = n \/ x.buf[Slot((x.e - 1 - j) % UINT)] = "nl"}
<1>1. x.buf \in Buffers /\ x.w \in Index /\ x.e \in Index /\ n \in 0..INPUT_BUF /\ n \in Index
  BY RingLengths, GapIs
<1>2. ASSUME NEW j \in 0..n - 1 PROVE x.buf[Slot((x.e - 1 - j) % UINT)] # "nl"
  <2> DEFINE k == n - j
  <2>1. k \in 1..n
    BY <1>1, ConsoleAssumption
  <2>2. EditOf(x)[k] # "nl"
    BY <2>1 DEF OkRing
  <2>3. EditOf(x)[k] = x.buf[Slot(Plus(x.w, k - 1))]
    <3> HIDE DEF k, n
    <3> QED BY <1>1, <2>1, TextIs DEF n, EditOf
  <2>4. Plus(x.w, k - 1) = (x.e - 1 - j) % UINT
    <3>1. n = (IF x.w <= x.e THEN x.e - x.w ELSE x.e - x.w + UINT)
      BY <1>1, GapIs
    <3>2. CASE x.w <= x.e
      <4>1. x.w + (k - 1) = x.e - 1 - j
        BY <1>1, <3>1, <3>2, ConsoleAssumption DEF Index
      <4> QED BY <4>1 DEF Plus
    <3>3. CASE x.w > x.e
      <4> DEFINE a == x.e - 1 - j
      <4>1. a \in Int /\ x.w + (k - 1) = a + UINT /\ UINT \in Nat \ {0} /\ -UINT <= a /\ a < UINT
        BY <1>1, <3>1, <3>3, ConsoleAssumption DEF Index
      <4> HIDE DEF a
      <4>2. (a + UINT) % UINT = a % UINT
        BY <4>1
      <4> QED BY <4>1, <4>2 DEF Plus, a
    <3> QED BY <1>1, <3>2, <3>3, ConsoleAssumption DEF Index
  <2> QED BY <2>2, <2>3, <2>4
<1>3. T = {n}
  <2> HIDE DEF n
  <2>1. n \in 0..n
    BY <1>1, ConsoleAssumption
  <2>2. \A j \in 0..n : j = n \/ j \in 0..n - 1
    BY <1>1, ConsoleAssumption
  <2> QED BY <1>2, <2>1, <2>2
<1>4. Min(T) = n
  <2>1. \A y \in {n} : n <= y
    BY <1>1, ConsoleAssumption
  <2> QED BY <1>3, <2>1 DEF Min
<1> QED BY <1>4 DEF Erased, Gap

(* The place n before e is behind w, if e is at least n places behind w. *)
LEMMA PlaceBefore ==
  ASSUME NEW w \in Index, NEW e \in Index, NEW n \in 0..Gap(w, e)
  PROVE  (e - n) % UINT = Plus(w, Gap(w, e) - n)
<1> DEFINE k == Gap(w, e) - n
           a == e - n
<1>1. Gap(w, e) = (IF w <= e THEN e - w ELSE e - w + UINT) /\ Gap(w, e) \in Index
  BY GapIs
<1>2. UINT \in Nat \ {0}
  BY ConsoleAssumption
<1>3. CASE w <= e
  <2>1. w + k = a
    BY <1>1, <1>2, <1>3 DEF Index
  <2> QED BY <2>1 DEF Plus
<1>4. CASE w > e
  <2>1. a \in Int /\ w + k = a + UINT /\ -UINT <= a /\ a < UINT
    BY <1>1, <1>2, <1>4 DEF Index
  <2> HIDE DEF a
  <2>2. (a + UINT) % UINT = a % UINT
    BY <1>2, <2>1
  <2> QED BY <2>1, <2>2 DEF Plus, a
<1> QED BY <1>2, <1>3, <1>4 DEF Index

(* Distances that are small together add up. *)
LEMMA GapSum ==
  ASSUME NEW i \in Index, NEW j \in Index, NEW k \in Index, Gap(i, j) + Gap(j, k) <= INPUT_BUF
  PROVE  Gap(i, k) = Gap(i, j) + Gap(j, k)
<1>1. Gap(i, j) = (IF i <= j THEN j - i ELSE j - i + UINT) /\ Gap(i, j) \in Index
  BY GapIs
<1>2. Gap(j, k) = (IF j <= k THEN k - j ELSE k - j + UINT) /\ Gap(j, k) \in Index
  BY GapIs
<1>3. Gap(i, k) = (IF i <= k THEN k - i ELSE k - i + UINT) /\ Gap(i, k) \in Index
  BY GapIs
<1>4. UINT \in Nat /\ INPUT_BUF \in Nat /\ INPUT_BUF < UINT
  BY ConsoleAssumption
<1> QED BY <1>1, <1>2, <1>3, <1>4 DEF Index

(* Erasing n characters takes them off the end of the line. *)
LEMMA EraseRing ==
  ASSUME NEW x, OkRing(x), NEW n \in 0..Gap(x.w, x.e), NEW z, z = [x EXCEPT !.e = (@ - n) % UINT]
  PROVE  /\ OkRing(z) /\ ReadyOf(z) = ReadyOf(x)
         /\ EditOf(z) = SubSeq(EditOf(x), 1, Len(EditOf(x)) - n)
         /\ n = 0 => z = x
<1> DEFINE g == Gap(x.w, x.e)
           k == g - n
           v == (x.e - n) % UINT
<1>1. /\ x.buf \in Buffers /\ x.r \in Index /\ x.w \in Index /\ x.e \in Index
      /\ EditOf(x) \in Seq(Chars) /\ Len(EditOf(x)) = Gap(x.w, x.e)
      /\ Gap(x.r, x.e) = Gap(x.r, x.w) + Gap(x.w, x.e)
      /\ Gap(x.r, x.w) \in 0..INPUT_BUF /\ Gap(x.w, x.e) \in 0..INPUT_BUF /\ Gap(x.r, x.e) \in 0..INPUT_BUF
  BY RingLengths
<1>2. k \in 0..Gap(x.w, x.e) /\ INPUT_BUF \in Nat /\ UINT \in Nat /\ INPUT_BUF < UINT
  BY <1>1, ConsoleAssumption
<1>3. v = Plus(x.w, k)
  BY <1>1, PlaceBefore
<1> HIDE DEF v, k
<1>4. /\ v \in Index /\ Gap(x.w, v) = k
      /\ Text(x.buf, x.w, v) = SubSeq(EditOf(x), 1, k)
  BY <1>1, <1>2, <1>3, TextSplit DEF EditOf
<1>5. x = [buf |-> x.buf, r |-> x.r, w |-> x.w, e |-> x.e]
  BY DEF OkRing
<1>6. z = [buf |-> x.buf, r |-> x.r, w |-> x.w, e |-> v]
  BY <1>5 DEF v
<1>7. ReadyOf(z) = ReadyOf(x) /\ EditOf(z) = SubSeq(EditOf(x), 1, k)
  BY <1>4, <1>6 DEF ReadyOf, EditOf
<1>8. Gap(x.r, x.w) <= Gap(x.r, v) /\ Gap(x.r, v) <= INPUT_BUF
  <2>1. Gap(x.r, x.w) + Gap(x.w, v) <= INPUT_BUF /\ Gap(x.r, x.w) \in Nat /\ Gap(x.w, v) \in Nat
    BY <1>1, <1>2, <1>4
  <2>2. Gap(x.r, v) = Gap(x.r, x.w) + Gap(x.w, v)
    BY <1>1, <1>4, <2>1, GapSum
  <2> QED BY <2>1, <2>2
<1>9. ASSUME NEW j \in 1..k PROVE EditOf(z)[j] # "nl"
  <2>1. j \in 1..Gap(x.w, x.e)
    BY <1>1, <1>2
  <2>2. EditOf(x)[j] # "nl"
    BY <2>1 DEF OkRing
  <2>3. SubSeq(EditOf(x), 1, k)[j] = EditOf(x)[j]
    BY <1>1, <1>2, <2>1
  <2> QED BY <1>7, <2>2, <2>3
<1>10. OkRing(z)
  <2>1. z \in [buf : Buffers, r : Index, w : Index, e : Index]
    <3>1. [buf |-> x.buf, r |-> x.r, w |-> x.w, e |-> v] \in [buf : Buffers, r : Index, w : Index, e : Index]
      BY <1>1, <1>4
    <3> QED BY <1>6, <3>1, Zenon
  <2>2. z.r = x.r /\ z.w = x.w /\ z.e = v
    BY <1>6
  <2> QED BY <1>4, <1>8, <1>9, <2>1, <2>2 DEF OkRing
<1>11. n = 0 => v = x.e
  <2>1. x.e - 0 = x.e /\ x.e \in 0..UINT - 1
    BY <1>1, <1>2 DEF Index
  <2> QED BY <1>2, <2>1 DEF v
<1> QED BY <1>1, <1>5, <1>6, <1>7, <1>10, <1>11 DEF k

(* Reading k characters takes them off the front of the text. *)
LEMMA ReadRing ==
  ASSUME NEW x, OkRing(x), NEW k \in 0..Gap(x.r, x.w), NEW z, z = [x EXCEPT !.r = Plus(x.r, k)]
  PROVE  /\ OkRing(z) /\ EditOf(z) = EditOf(x)
         /\ ReadyOf(z) = SubSeq(ReadyOf(x), k + 1, Len(ReadyOf(x)))
         /\ k = 0 => z = x
<1> DEFINE v == Plus(x.r, k)
<1>1. /\ x.buf \in Buffers /\ x.r \in Index /\ x.w \in Index /\ x.e \in Index
      /\ Gap(x.r, x.e) = Gap(x.r, x.w) + Gap(x.w, x.e)
      /\ Gap(x.r, x.w) \in 0..INPUT_BUF /\ Gap(x.w, x.e) \in 0..INPUT_BUF /\ Gap(x.r, x.e) \in 0..INPUT_BUF
  BY RingLengths
<1>2. v \in Index /\ Gap(v, x.w) = Gap(x.r, x.w) - k
      /\ Text(x.buf, v, x.w) = SubSeq(ReadyOf(x), k + 1, Len(ReadyOf(x)))
  BY <1>1, TextSplit DEF ReadyOf
<1>3. k \in Nat /\ k <= Gap(x.r, x.w) /\ INPUT_BUF \in Nat /\ UINT \in Nat /\ INPUT_BUF < UINT
  BY <1>1, ConsoleAssumption
<1>4. k = 0 => v = x.r
  <2>1. 0 \in Index
    BY <1>3 DEF Index
  <2>2. Plus(x.r, 0) = IF x.r + 0 < UINT THEN x.r + 0 ELSE x.r + 0 - UINT
    BY <1>1, <2>1, PlusIs
  <2> QED BY <1>1, <1>3, <2>2 DEF Index
<1> HIDE DEF v
<1>5. x = [buf |-> x.buf, r |-> x.r, w |-> x.w, e |-> x.e]
  BY DEF OkRing
<1>6. z = [buf |-> x.buf, r |-> v, w |-> x.w, e |-> x.e]
  BY <1>5 DEF v
<1>7. EditOf(z) = EditOf(x) /\ ReadyOf(z) = SubSeq(ReadyOf(x), k + 1, Len(ReadyOf(x)))
  BY <1>2, <1>6 DEF ReadyOf, EditOf
<1>8. Gap(v, x.w) <= Gap(v, x.e) /\ Gap(v, x.e) <= INPUT_BUF
  <2>1. Gap(v, x.w) + Gap(x.w, x.e) <= INPUT_BUF /\ Gap(v, x.w) \in Nat /\ Gap(x.w, x.e) \in Nat
    BY <1>1, <1>2, <1>3
  <2>2. Gap(v, x.e) = Gap(v, x.w) + Gap(x.w, x.e)
    BY <1>1, <1>2, <2>1, GapSum
  <2> QED BY <2>1, <2>2
<1>9. OkRing(z)
  <2>1. z \in [buf : Buffers, r : Index, w : Index, e : Index]
    <3>1. [buf |-> x.buf, r |-> v, w |-> x.w, e |-> x.e] \in [buf : Buffers, r : Index, w : Index, e : Index]
      BY <1>1, <1>2
    <3> QED BY <1>6, <3>1, Zenon
  <2>2. z.r = v /\ z.w = x.w /\ z.e = x.e
    BY <1>6
  <2>3. \A j \in 1..Gap(x.w, x.e) : EditOf(x)[j] # "nl"
    BY DEF OkRing
  <2> QED BY <1>7, <1>8, <2>1, <2>2, <2>3 DEF OkRing
<1> QED BY <1>4, <1>5, <1>6, <1>7, <1>9
-----------------------------------------------------------------------------
(* A read. *)

(* The first k characters of the text. *)
Copied(x, k) == [j \in 1..k |-> x.buf[Slot((x.r + j - 1) % UINT)]]

(* A reader that had got g has got h, and the text was that of x and is    *)
(* that of z: nothing happened, or Take of module Tty.                     *)
Takes(x, z, g, h) ==
  \/ ReadyOf(z) = ReadyOf(x) /\ h = g
  \/ \E k \in 1..Len(ReadyOf(x)) :
       LET s == SubSeq(ReadyOf(x), 1, k)
       IN  /\ \A j \in 1..k - 1 : s[j] # "nl"
           /\ \A j \in 1..k : s[j] = "eof" => k = 1 /\ g = <<>>
           /\ ReadyOf(z) = SubSeq(ReadyOf(x), k + 1, Len(ReadyOf(x)))
           /\ h = IF s = <<"eof">> THEN s ELSE g \o s

(* What is copied is the front of the text. *)
LEMMA CopiedIs ==
  ASSUME NEW x, OkRing(x), NEW k \in 0..Gap(x.r, x.w)
  PROVE  /\ Copied(x, k) \in Seq(Chars) /\ Len(Copied(x, k)) = k /\ k <= Len(ReadyOf(x))
         /\ Copied(x, k) = SubSeq(ReadyOf(x), 1, k)
         /\ \A j \in 1..k : Copied(x, k)[j] = x.buf[Slot(Plus(x.r, j - 1))]
<1>1. x.buf \in Buffers /\ x.r \in Index /\ x.w \in Index /\ Len(ReadyOf(x)) = Gap(x.r, x.w)
      /\ Gap(x.r, x.w) \in 0..INPUT_BUF
  BY RingLengths
<1>2. k \in Nat /\ k <= Gap(x.r, x.w)
  BY <1>1, ConsoleAssumption
<1> DEFINE v == Plus(x.r, k)
<1>3. v \in Index /\ Gap(x.r, v) = k /\ Text(x.buf, x.r, v) = SubSeq(ReadyOf(x), 1, k)
  BY <1>1, TextSplit DEF ReadyOf
<1> HIDE DEF v
<1>4. Copied(x, k) = Text(x.buf, x.r, v)
  BY <1>3 DEF Copied, Text, Plus
<1>5. Text(x.buf, x.r, v) \in Seq(Chars) /\ Len(Text(x.buf, x.r, v)) = k
      /\ \A j \in 1..k : Text(x.buf, x.r, v)[j] = x.buf[Slot(Plus(x.r, j - 1))]
  <2>1. /\ Text(x.buf, x.r, v) \in Seq(Chars) /\ Len(Text(x.buf, x.r, v)) = Gap(x.r, v)
        /\ \A j \in 1..Gap(x.r, v) : Text(x.buf, x.r, v)[j] = x.buf[Slot(Plus(x.r, j - 1))]
    BY <1>1, <1>3, TextIs
  <2> QED BY <1>3, <2>1
<1> QED BY <1>1, <1>2, <1>3, <1>4, <1>5

(* Taking characters up to the end of a line, and no end of file. *)
LEMMA TakeSome ==
  ASSUME NEW x, OkRing(x), NEW g \in Seq(Chars), NEW k \in 0..Gap(x.r, x.w),
         \A j \in 0..k - 2 : x.buf[Slot(Plus(x.r, j))] # "nl",
         \A j \in 0..k - 1 : x.buf[Slot(Plus(x.r, j))] # "eof",
         NEW z, z = [x EXCEPT !.r = Plus(x.r, k)]
  PROVE  OkRing(z) /\ EditOf(z) = EditOf(x) /\ Takes(x, z, g, g \o Copied(x, k))
<1> DEFINE s == Copied(x, k)
<1>1. OkRing(z) /\ EditOf(z) = EditOf(x) /\ (k = 0 => z = x)
      /\ ReadyOf(z) = SubSeq(ReadyOf(x), k + 1, Len(ReadyOf(x)))
  BY ReadRing
<1>2. s \in Seq(Chars) /\ Len(s) = k /\ k <= Len(ReadyOf(x)) /\ s = SubSeq(ReadyOf(x), 1, k)
      /\ \A j \in 1..k : s[j] = x.buf[Slot(Plus(x.r, j - 1))]
  BY CopiedIs
<1>3. k \in Nat /\ Len(ReadyOf(x)) \in Nat
  <2>1. Gap(x.r, x.w) \in 0..INPUT_BUF /\ ReadyOf(x) \in Seq(Chars)
    BY RingLengths
  <2> QED BY <2>1, ConsoleAssumption
<1>4. ASSUME NEW j \in 1..k - 1 PROVE s[j] # "nl"
  <2>1. j \in 1..k /\ j - 1 \in 0..k - 2
    BY <1>3
  <2> QED BY <1>2, <2>1
<1>5. ASSUME NEW j \in 1..k PROVE s[j] # "eof"
  <2>1. j - 1 \in 0..k - 1
    BY <1>3
  <2> QED BY <1>2, <2>1
<1> HIDE DEF s
<1>6. CASE k = 0
  <2>1. g \o s = g
    BY <1>2, <1>6
  <2> QED BY <1>1, <1>6, <2>1 DEF Takes, s
<1>7. CASE k # 0
  <2>1. k \in 1..Len(ReadyOf(x))
    BY <1>2, <1>3, <1>7
  <2>2. s # <<"eof">>
    <3>1. 1 \in 1..k
      BY <1>3, <1>7
    <3>2. s[1] # "eof"
      BY <1>5, <3>1
    <3> QED BY <3>2
  <2>3. Takes(x, z, g, g \o s)
    BY <1>1, <1>2, <1>4, <1>5, <2>1, <2>2 DEF Takes
  <2> QED BY <1>1, <2>3 DEF s
<1> QED BY <1>6, <1>7

(* Taking an end of file, in front of everything else. *)
LEMMA TakeEof ==
  ASSUME NEW x, OkRing(x), Gap(x.r, x.w) > 0, x.buf[Slot(Plus(x.r, 0))] = "eof",
         NEW z, z = [x EXCEPT !.r = Up(Plus(x.r, 0))]
  PROVE  OkRing(z) /\ EditOf(z) = EditOf(x) /\ Takes(x, z, <<>>, <<"eof">>) /\ z.r # x.r
<1>1. x.r \in Index /\ x.w \in Index /\ Gap(x.r, x.w) \in 0..INPUT_BUF /\ INPUT_BUF \in Nat /\ UINT \in Nat
      /\ INPUT_BUF < UINT /\ Len(ReadyOf(x)) = Gap(x.r, x.w)
  BY RingLengths, ConsoleAssumption
<1>2. Plus(x.r, 0) = x.r
  <2>1. 0 \in Index
    BY <1>1 DEF Index
  <2>2. Plus(x.r, 0) = IF x.r + 0 < UINT THEN x.r + 0 ELSE x.r + 0 - UINT
    BY <1>1, <2>1, PlusIs
  <2> QED BY <1>1, <2>2 DEF Index
<1>3. Up(x.r) = Plus(x.r, 1) /\ Up(x.r) # x.r
  <2>1. Up(x.r) = Plus(x.r, 1) /\ 1 \in Index
    BY <1>1, UpIs
  <2>2. Plus(x.r, 1) = IF x.r + 1 < UINT THEN x.r + 1 ELSE x.r + 1 - UINT
    BY <1>1, <2>1, PlusIs
  <2> QED BY <1>1, <2>1, <2>2 DEF Index
<1>4. 1 \in 0..Gap(x.r, x.w) /\ z = [x EXCEPT !.r = Plus(x.r, 1)]
  BY <1>1, <1>2, <1>3
<1>5. OkRing(z) /\ EditOf(z) = EditOf(x)
      /\ ReadyOf(z) = SubSeq(ReadyOf(x), 1 + 1, Len(ReadyOf(x)))
  BY <1>4, ReadRing
<1> DEFINE s == Copied(x, 1)
<1>6. s \in Seq(Chars) /\ Len(s) = 1 /\ s = SubSeq(ReadyOf(x), 1, 1)
      /\ \A j \in 1..1 : s[j] = x.buf[Slot(Plus(x.r, j - 1))]
  BY <1>4, CopiedIs
<1> HIDE DEF s
<1>7. s = <<"eof">>
  <2>1. 1 \in 1..1 /\ 1 - 1 = 0
    OBVIOUS
  <2>2. s[1] = "eof"
    BY <1>6, <2>1
  <2> DEFINE t == <<"eof">>
  <2>3. t \in Seq(Chars) /\ Len(t) = 1 /\ t[1] = "eof"
    BY DEF Chars
  <2> HIDE DEF t
  <2>4. s = t
    BY <1>6, <2>2, <2>3, SameSequence
  <2> QED BY <2>4 DEF t
<1>8. Takes(x, z, <<>>, <<"eof">>)
  <2>1. 1 \in 1..Len(ReadyOf(x))
    BY <1>1
  <2>2. SubSeq(ReadyOf(x), 1, 1) = <<"eof">>
    BY <1>6, <1>7
  <2>3. 1..1 - 1 = {} /\ \A j \in 1..1 : j = 1
    OBVIOUS
  <2> QED BY <1>5, <2>1, <2>2, <2>3 DEF Takes
<1>9. z.r # x.r
  <2>1. x = [buf |-> x.buf, r |-> x.r, w |-> x.w, e |-> x.e]
    BY DEF OkRing
  <2> QED BY <1>3, <1>4, <2>1
<1> QED BY <1>5, <1>8, <1>9

(* Nothing further is the same place. *)
LEMMA PlusZero ==
  ASSUME NEW i \in Index
  PROVE  Plus(i, 0) = i
<1>1. 0 \in Index /\ UINT \in Nat
  BY ConsoleAssumption DEF Index
<1>2. Plus(i, 0) = IF i + 0 < UINT THEN i + 0 ELSE i + 0 - UINT
  BY <1>1, PlusIs
<1> QED BY <1>1, <1>2 DEF Index

(* One place further than m places is m + 1 places. *)
LEMMA PlusMore ==
  ASSUME NEW i \in Index, NEW j \in Index, NEW m \in 0..Gap(i, j) - 1
  PROVE  Up(Plus(i, m)) = Plus(i, m + 1)
<1>1. Gap(i, j) \in Index /\ UINT \in Nat
  BY GapIs, ConsoleAssumption
<1>2. m \in Index /\ m + 1 \in Index /\ 1 \in Index
  BY <1>1 DEF Index
<1>3. Plus(i, m) = (IF i + m < UINT THEN i + m ELSE i + m - UINT) /\ Plus(i, m) \in Index
  BY <1>2, PlusIs
<1> DEFINE p == Plus(i, m)
           q == m + 1
<1>4. Up(p) = Plus(p, 1) /\ p \in Index
  BY <1>3, UpIs
<1>5. q \in Index
  BY <1>2
<1> HIDE DEF p, q
<1>6. Plus(p, 1) = (IF p + 1 < UINT THEN p + 1 ELSE p + 1 - UINT)
  BY <1>2, <1>4, PlusIs
<1>7. Plus(i, q) = (IF i + q < UINT THEN i + q ELSE i + q - UINT)
  BY <1>5, PlusIs
<1>8. Plus(p, 1) = Plus(i, q)
  BY <1>1, <1>2, <1>3, <1>6, <1>7 DEF Index, p, q
<1> QED BY <1>4, <1>8 DEF p, q

(* A reader: while it reads, what it has got and what it still wants add   *)
(* up to what it asked for.                                                *)
OkReader(d) ==
  /\ d \in [st : {"idle", "ready", "asleep"}, n : Nat, target : Nat, got : Seq(Chars), killed : BOOLEAN]
  /\ d.n <= d.target
  /\ d.st # "idle" => Len(d.got) + d.n = d.target

(* What consoleread makes of the ring and of the reader. *)
Read(x, d) ==
  LET l == ReadLoop(x, d.n, d.target)
      eof == l.n = d.target /\ l.r # x.r /\ l.st = "idle"
  IN  [ring |-> [x EXCEPT !.r = l.r],
       reader |-> [d EXCEPT !.st = IF l.st = "asleep" /\ d.killed THEN "idle" ELSE l.st, !.n = l.n,
                            !.got = IF eof THEN <<"eof">> ELSE @ \o Copied(x, d.n - l.n)]]

(* A read takes from the front of the text what Take of module Tty allows. *)
ReadsRight(x, d, z, c) ==
  OkRing(z) /\ OkReader(c) /\ EditOf(z) = EditOf(x) /\ Takes(x, z, d.got, c.got)

(* consoleread takes characters up to the end of a line, and the end of a  *)
(* file only if it has got nothing.                                        *)
LEMMA ReadTakes ==
  ASSUME NEW x, OkRing(x), NEW d, OkReader(d), d.st = "ready"
  PROVE  ReadsRight(x, d, Read(x, d).ring, Read(x, d).reader)
<1> DEFINE l == ReadLoop(x, d.n, d.target)
           L == Gap(x.r, x.w)
           z == Read(x, d).ring
           c == Read(x, d).reader
           eof == l.n = d.target /\ l.r # x.r /\ l.st = "idle"
           k == d.n - l.n
           got == IF eof THEN <<"eof">> ELSE d.got \o Copied(x, k)
           st == IF l.st = "asleep" /\ d.killed THEN "idle" ELSE l.st
           Front == /\ l.r = Plus(x.r, k) /\ k \in 0..L /\ l.n \in Nat /\ l.st \in {"idle", "asleep"} /\ ~eof
                    /\ \A j \in 0..k - 2 : x.buf[Slot(Plus(x.r, j))] # "nl"
                    /\ \A j \in 0..k - 1 : x.buf[Slot(Plus(x.r, j))] # "eof"
<1> SUFFICES ReadsRight(x, d, z, c)
  OBVIOUS
<1>1. x.r \in Index /\ x.w \in Index /\ L \in 0..INPUT_BUF /\ INPUT_BUF \in Nat /\ L \in Nat
  BY RingLengths, ConsoleAssumption
<1>2. /\ d.n \in Nat /\ d.target \in Nat /\ d.n <= d.target /\ d.got \in Seq(Chars) /\ d.killed \in BOOLEAN
      /\ Len(d.got) + d.n = d.target
  BY DEF OkReader
<1>3. PICK m : Stopped(x, d.n, d.target, l, m)
  BY <1>1, <1>2, LoopStops
<1> HIDE DEF L, l
<1>4. z = [x EXCEPT !.r = l.r]
  BY DEF Read, l
<1>5. c = [d EXCEPT !.st = st, !.n = l.n, !.got = got]
  BY DEF Read, l
<1>6. c = [st |-> st, n |-> l.n, target |-> d.target, got |-> got, killed |-> d.killed]
  <2>1. d = [st |-> d.st, n |-> d.n, target |-> d.target, got |-> d.got, killed |-> d.killed]
    BY DEF OkReader
  <2> HIDE DEF st, got, c
  <2> QED BY <1>5, <2>1
<1> HIDE DEF z, c
<1>7. ASSUME Front PROVE ReadsRight(x, d, z, c)
  <2> HIDE DEF k, st, eof
  <2>1. k \in 0..Gap(x.r, x.w) /\ z = [x EXCEPT !.r = Plus(x.r, k)]
    BY <1>4, <1>7 DEF L
  <2>2. OkRing(z) /\ EditOf(z) = EditOf(x) /\ Takes(x, z, d.got, d.got \o Copied(x, k))
    BY <1>2, <1>7, <2>1, TakeSome
  <2>3. Copied(x, k) \in Seq(Chars) /\ Len(Copied(x, k)) = k
    BY <2>1, CopiedIs
  <2>4. got = d.got \o Copied(x, k)
    BY <1>7
  <2> HIDE DEF got
  <2>5. got \in Seq(Chars) /\ Len(got) = Len(d.got) + k /\ Len(d.got) \in Nat
    <3> DEFINE s == Copied(x, k)
               g == d.got
    <3>1. s \in Seq(Chars) /\ g \in Seq(Chars)
      BY <1>2, <2>3
    <3>2. Len(s) = k /\ got = g \o s
      BY <2>3, <2>4
    <3> HIDE DEF s, g
    <3>3. g \o s \in Seq(Chars)
      BY <3>1
    <3>4. Len(g \o s) = Len(g) + Len(s) /\ Len(g) \in Nat
      BY <3>1
    <3>5. got \in Seq(Chars) /\ Len(got) = Len(g) + k /\ Len(g) \in Nat
      BY <3>2, <3>3, <3>4
    <3> QED BY <3>5 DEF g
  <2>6. k = d.n - l.n /\ l.n <= d.n /\ k \in Nat
    BY <1>1, <1>2, <1>7 DEF k
  <2>7. st \in {"idle", "ready", "asleep"}
    BY <1>7 DEF st
  <2>8. l.n <= d.target /\ Len(got) + l.n = d.target
    BY <1>2, <1>7, <2>5, <2>6
  <2>9. OkReader(c)
    <3>1. [st |-> st, n |-> l.n, target |-> d.target, got |-> got, killed |-> d.killed]
            \in [st : {"idle", "ready", "asleep"}, n : Nat, target : Nat, got : Seq(Chars), killed : BOOLEAN]
      BY <1>2, <1>7, <2>5, <2>7
    <3>2. c.n = l.n /\ c.target = d.target /\ c.got = got
      BY <1>6
    <3> QED BY <1>6, <2>8, <3>1, <3>2 DEF OkReader
  <2>10. c.got = got
    BY <1>6
  <2> QED BY <2>2, <2>4, <2>9, <2>10 DEF ReadsRight
<1> HIDE DEF Front
<1>8. /\ m \in 0..d.n /\ m <= L /\ m \in 0..L
      /\ \A j \in 0..m - 1 : x.buf[Slot(Plus(x.r, j))] # "eof" /\ x.buf[Slot(Plus(x.r, j))] # "nl"
  BY <1>1, <1>2, <1>3 DEF Stopped, L
<1>9. CASE m = d.n /\ l = [r |-> Plus(x.r, m), n |-> 0, st |-> "idle"]
  <2>1. l.n = 0 /\ l.r = Plus(x.r, m) /\ l.st = "idle" /\ k = m
    BY <1>2, <1>9
  <2>2. ~eof
    <3>1. CASE d.target # 0
      BY <2>1, <3>1
    <3>2. CASE d.target = 0
      <4>1. m = 0
        BY <1>2, <1>9, <3>2
      <4>2. Plus(x.r, 0) = x.r
        BY <1>1, PlusZero
      <4> QED BY <2>1, <4>1, <4>2
    <3> QED BY <3>1, <3>2
  <2>3. Front
    <3> HIDE DEF k, eof
    <3> QED BY <1>1, <1>8, <2>1, <2>2 DEF Front
  <2> QED BY <1>7, <2>3
<1>10. CASE m < d.n /\ m = L /\ l = [r |-> Plus(x.r, m), n |-> d.n - m, st |-> "asleep"]
  <2>1. l.n = d.n - m /\ l.r = Plus(x.r, m) /\ l.st = "asleep" /\ k = m /\ l.n \in Nat /\ ~eof
    BY <1>2, <1>8, <1>10
  <2>2. Front
    <3> HIDE DEF k, eof
    <3> QED BY <1>1, <1>8, <2>1 DEF Front
  <2> QED BY <1>7, <2>2
<1>11. CASE /\ m < d.n /\ m < L /\ x.buf[Slot(Plus(x.r, m))] = "eof"
            /\ l = [r |-> IF d.n - m < d.target THEN Plus(x.r, m) ELSE Up(Plus(x.r, m)),
                    n |-> d.n - m, st |-> "idle"]
  <2>1. CASE d.n - m < d.target
    <3>1. l.n = d.n - m /\ l.r = Plus(x.r, m) /\ l.st = "idle" /\ k = m /\ l.n \in Nat /\ ~eof
      BY <1>2, <1>8, <1>11, <2>1
    <3>2. Front
      <4> HIDE DEF k, eof
      <4> QED BY <1>1, <1>8, <3>1 DEF Front
    <3> QED BY <1>7, <3>2
  <2>2. CASE ~(d.n - m < d.target)
    <3>1. m = 0 /\ d.n = d.target /\ Len(d.got) = 0
      BY <1>2, <1>8, <2>2
    <3>2. l.n = d.n /\ l.r = Up(Plus(x.r, 0)) /\ l.st = "idle"
      BY <1>2, <1>11, <2>2, <3>1
    <3>3. Gap(x.r, x.w) > 0 /\ x.buf[Slot(Plus(x.r, 0))] = "eof" /\ z = [x EXCEPT !.r = Up(Plus(x.r, 0))]
      BY <1>4, <1>11, <3>1, <3>2 DEF L
    <3>4. OkRing(z) /\ EditOf(z) = EditOf(x) /\ Takes(x, z, <<>>, <<"eof">>) /\ z.r # x.r
      BY <3>3, TakeEof
    <3>5. z.r = l.r
      <4>1. x = [buf |-> x.buf, r |-> x.r, w |-> x.w, e |-> x.e]
        BY DEF OkRing
      <4> QED BY <1>4, <4>1
    <3>6. eof /\ d.got = <<>>
      BY <1>2, <3>1, <3>2, <3>4, <3>5
    <3>7. got = <<"eof">> /\ st = "idle"
      BY <3>2, <3>6
    <3>8. got \in Seq(Chars)
      <4>1. <<"eof">> \in Seq(Chars)
        BY DEF Chars
      <4> HIDE DEF got
      <4> QED BY <3>7, <4>1
    <3> HIDE DEF got, st, k, eof
    <3>9. OkReader(c)
      <4>1. c.n = d.n /\ c.target = d.target /\ c.st = "idle"
        BY <1>6, <3>2, <3>7
      <4>2. [st |-> st, n |-> l.n, target |-> d.target, got |-> got, killed |-> d.killed]
              \in [st : {"idle", "ready", "asleep"}, n : Nat, target : Nat, got : Seq(Chars), killed : BOOLEAN]
        BY <1>2, <3>2, <3>7, <3>8
      <4> QED BY <1>2, <1>6, <4>1, <4>2 DEF OkReader
    <3>10. c.got = <<"eof">>
      BY <1>6, <3>7
    <3>11. Takes(x, z, d.got, c.got)
      BY <3>4, <3>6, <3>10
    <3> QED BY <3>4, <3>9, <3>11, Zenon DEF ReadsRight
  <2> QED BY <2>1, <2>2
<1>12. CASE /\ m < d.n /\ m < L /\ x.buf[Slot(Plus(x.r, m))] = "nl"
            /\ l = [r |-> Up(Plus(x.r, m)), n |-> d.n - m - 1, st |-> "idle"]
  <2>1. l.n = d.n - m - 1 /\ l.r = Up(Plus(x.r, m)) /\ l.st = "idle" /\ k = m + 1 /\ l.n \in Nat /\ ~eof
    BY <1>2, <1>8, <1>12
  <2>2. Up(Plus(x.r, m)) = Plus(x.r, m + 1)
    BY <1>1, <1>8, <1>12, PlusMore DEF L
  <2>3. k \in 0..L
    BY <1>1, <1>8, <1>12, <2>1
  <2>4. /\ \A j \in 0..k - 2 : j \in 0..m - 1
        /\ \A j \in 0..k - 1 : j \in 0..m - 1 \/ j = m
    BY <1>1, <1>8, <2>1
  <2> HIDE DEF k, eof
  <2>5. \A j \in 0..k - 2 : x.buf[Slot(Plus(x.r, j))] # "nl"
    BY <1>8, <2>4
  <2>6. \A j \in 0..k - 1 : x.buf[Slot(Plus(x.r, j))] # "eof"
    BY <1>8, <1>12, <2>4
  <2>7. Front
    BY <2>1, <2>2, <2>3, <2>5, <2>6 DEF Front
  <2> QED BY <1>7, <2>7
<1>13. ReadsRight(x, d, z, c)
  <2>1. \/ m = d.n /\ l = [r |-> Plus(x.r, m), n |-> 0, st |-> "idle"]
        \/ m < d.n /\ m = L /\ l = [r |-> Plus(x.r, m), n |-> d.n - m, st |-> "asleep"]
        \/ /\ m < d.n /\ m < L /\ x.buf[Slot(Plus(x.r, m))] = "eof"
           /\ l = [r |-> IF d.n - m < d.target THEN Plus(x.r, m) ELSE Up(Plus(x.r, m)),
                   n |-> d.n - m, st |-> "idle"]
        \/ /\ m < d.n /\ m < L /\ x.buf[Slot(Plus(x.r, m))] = "nl"
           /\ l = [r |-> Up(Plus(x.r, m)), n |-> d.n - m - 1, st |-> "idle"]
    BY <1>3 DEF Stopped, L
  <2> QED BY <1>9, <1>10, <1>11, <1>12, <2>1
<1> QED BY <1>13
-----------------------------------------------------------------------------
(* The steps of the console as steps of module Tty. *)
ConSpec == ConInit /\ [][SerialNext \/ KeyNext]_cvars

(* The ring and its readers. *)
RingInv ==
  /\ OkRing(input)
  /\ reader = [p \in Readers |-> reader[p]]
  /\ \A p \in Readers : OkReader(reader[p])

Taken == [p \in Readers |-> reader[p].got]
ttyvars == <<Pending, Between(input.r, input.w), Taken>>

(* A step of Tty, or one that it does not see. *)
TtyStep == TtySpec!Next \/ UNCHANGED ttyvars

(* The line and the text of module Tty. *)
LEMMA Mapped ==
  /\ Pending = EditOf(input) /\ Between(input.r, input.w) = ReadyOf(input)
  /\ Pending' = EditOf(input') /\ Between(input.r, input.w)' = ReadyOf(input')
BY DEF Pending, Between, EditOf, ReadyOf, Text, Gap, Plus

(* A character that is typed. *)
LEMMA KeySeen ==
  ASSUME RingInv, NEW d \in Plain \cup Letters \cup {"nl", "eof"}, HasRoom(input),
         input' = Put(input, d), Taken' = Taken
  PROVE  OkRing(input') /\ TtyStep
<1> DEFINE E == Pending
           R == Between(input.r, input.w)
<1>1. Typed(input, input', d)
  BY PutTypes DEF RingInv, Chars
<1>2. /\ E = EditOf(input) /\ R = ReadyOf(input)
      /\ E' = EditOf(input') /\ R' = ReadyOf(input')
  BY Mapped
<1> HIDE DEF E, R
<1>3. /\ Len(E) + Len(R) < INPUT_BUF
      /\ IF d \in {"nl", "eof"} \/ Len(E) + Len(R) + 1 = INPUT_BUF
         THEN R' = R \o Append(E, d) /\ E' = <<>>
         ELSE E' = Append(E, d) /\ R' = R
  BY <1>1, <1>2 DEF Typed
<1>4. TtySpec!Key(d)
  BY <1>3 DEF TtySpec!Key, E, R, Taken
<1>5. TtySpec!Next
  BY <1>4 DEF TtySpec!Next
<1> QED BY <1>1, <1>5 DEF Typed, TtyStep

(* Characters that are erased: the last one, or all of the line. *)
LEMMA EraseSeen ==
  ASSUME RingInv, NEW n \in {0, 1, Gap(input.w, input.e)}, n <= Gap(input.w, input.e),
         input' = [input EXCEPT !.e = (@ - n) % UINT], Taken' = Taken
  PROVE  OkRing(input') /\ TtyStep
<1> DEFINE E == Pending
           R == Between(input.r, input.w)
<1>1. n \in 0..Gap(input.w, input.e) /\ OkRing(input)
  <2>1. Gap(input.w, input.e) \in 0..INPUT_BUF
    BY RingLengths DEF RingInv
  <2> QED BY <2>1, ConsoleAssumption DEF RingInv
<1>2. /\ OkRing(input') /\ ReadyOf(input') = ReadyOf(input)
      /\ EditOf(input') = SubSeq(EditOf(input), 1, Len(EditOf(input)) - n)
      /\ n = 0 => input' = input
  BY <1>1, EraseRing
<1>3. EditOf(input) \in Seq(Chars) /\ Len(EditOf(input)) = Gap(input.w, input.e)
  BY <1>1, RingLengths
<1>4. /\ E = EditOf(input) /\ R = ReadyOf(input)
      /\ E' = EditOf(input') /\ R' = ReadyOf(input')
  BY Mapped
<1> HIDE DEF E, R
<1>5. CASE n = 0
  <2>1. E' = E /\ R' = R
    BY <1>2, <1>4, <1>5
  <2> QED BY <1>2, <2>1 DEF TtyStep, ttyvars, E, R
<1>6. CASE n # 0
  <2>1. E # <<>>
    BY <1>1, <1>3, <1>4, <1>6
  <2>2. E' \in {SubSeq(E, 1, Len(E) - 1), <<>>}
    <3>1. CASE n = 1
      BY <1>2, <1>4, <3>1
    <3>2. CASE n = Gap(input.w, input.e)
      <4>1. Len(E) - n = 0 /\ E \in Seq(Chars)
        BY <1>1, <1>3, <1>4, <3>2
      <4>2. SubSeq(E, 1, 0) = <<>>
        BY <4>1
      <4> QED BY <1>2, <1>4, <4>1, <4>2
    <3> QED BY <1>6, <3>1, <3>2
  <2>3. R' = R
    BY <1>2, <1>4
  <2>4. TtySpec!Erase
    BY <2>1, <2>2, <2>3 DEF TtySpec!Erase, E, R, Taken
  <2> QED BY <1>2, <2>4 DEF TtySpec!Next, TtyStep
<1> QED BY <1>5, <1>6

(* A step that leaves the ring and what the readers have got. *)
LEMMA NothingSeen ==
  ASSUME input' = input, Taken' = Taken
  PROVE  TtyStep
BY Mapped DEF TtyStep, ttyvars

(* A read. *)
LEMMA ReadSeen ==
  ASSUME RingInv, NEW p \in Readers, consoleread(p)
  PROVE  RingInv' /\ TtyStep
<1> DEFINE E == Pending
           R == Between(input.r, input.w)
           x == input
           d == reader[p]
           z == Read(x, d).ring
           c == Read(x, d).reader
<1>1. OkRing(x) /\ OkReader(d) /\ d.st = "ready" /\ reader = [q \in Readers |-> reader[q]]
      /\ \A q \in Readers : OkReader(reader[q])
  BY DEF RingInv, consoleread
<1>2. input' = z /\ reader' = [reader EXCEPT ![p] = c]
  <2> DEFINE l == ReadLoop(input, d.n, d.target)
             st == IF l.st = "asleep" /\ d.killed THEN "idle" ELSE l.st
             eof == l.n = d.target /\ l.r # input.r /\ l.st = "idle"
             h == IF eof THEN <<"eof">> ELSE d.got \o Copied(x, d.n - l.n)
  <2>1. input' = z
    BY DEF consoleread, Read
  <2>2. reader' = [reader EXCEPT ![p] = [d EXCEPT !.st = st, !.n = l.n, !.got = h]]
    BY DEF consoleread, Copied
  <2>3. c = [d EXCEPT !.st = st, !.n = l.n, !.got = h]
    BY DEF Read
  <2> HIDE DEF l, st, eof, h, c, z
  <2>4. reader' = [reader EXCEPT ![p] = c]
    BY <2>2, <2>3, Zenon
  <2> QED BY <2>1, <2>4
<1>3. ReadsRight(x, d, z, c)
  <2> HIDE DEF x, d
  <2> QED BY <1>1, ReadTakes
<1>4. OkRing(z) /\ OkReader(c) /\ EditOf(z) = EditOf(x) /\ Takes(x, z, d.got, c.got)
  BY <1>3 DEF ReadsRight
<1>5. /\ E = EditOf(x) /\ R = ReadyOf(x)
      /\ E' = EditOf(z) /\ R' = ReadyOf(z)
  BY <1>2, Mapped
<1> HIDE DEF z, c, E, R
<1>6. RingInv'
  BY <1>1, <1>2, <1>4 DEF RingInv
<1>7. Taken' = [Taken EXCEPT ![p] = c.got] /\ Taken[p] = d.got
  BY <1>1, <1>2 DEF Taken
<1>8. CASE ReadyOf(z) = ReadyOf(x) /\ c.got = d.got
  <2>1. E' = E /\ R' = R
    BY <1>4, <1>5, <1>8
  <2>2. Taken' = Taken
    BY <1>7, <1>8 DEF Taken
  <2> QED BY <1>6, <2>1, <2>2 DEF TtyStep, ttyvars, E, R
<1>9. ASSUME NEW k \in 1..Len(ReadyOf(x)),
             LET s == SubSeq(ReadyOf(x), 1, k)
             IN  /\ \A j \in 1..k - 1 : s[j] # "nl"
                 /\ \A j \in 1..k : s[j] = "eof" => k = 1 /\ d.got = <<>>
                 /\ ReadyOf(z) = SubSeq(ReadyOf(x), k + 1, Len(ReadyOf(x)))
                 /\ c.got = IF s = <<"eof">> THEN s ELSE d.got \o s
      PROVE  TtyStep
  <2>1. /\ k \in 1..Len(R) /\ E' = E
        /\ \A j \in 1..k - 1 : SubSeq(R, 1, k)[j] # "nl"
        /\ \A j \in 1..k : SubSeq(R, 1, k)[j] = "eof" => k = 1 /\ Taken[p] = <<>>
        /\ R' = SubSeq(R, k + 1, Len(R))
        /\ Taken' = [Taken EXCEPT ![p] = IF SubSeq(R, 1, k) = <<"eof">> THEN SubSeq(R, 1, k)
                                         ELSE @ \o SubSeq(R, 1, k)]
    BY <1>4, <1>5, <1>7, <1>9
  <2>2. TtySpec!Take(p)
    BY <2>1 DEF TtySpec!Take, E, R, Taken
  <2> QED BY <2>2 DEF TtySpec!Next, TtyStep
<1>10. TtyStep
  BY <1>4, <1>6, <1>8, <1>9 DEF Takes
<1> QED BY <1>6, <1>10

(* What interrupts may bring. *)
Bytes == Plain \cup Letters \cup {"nl", "eof", "cr", "0", "C-U", "C-H", "C-P"}

(* Waking readers changes only their state. *)
LEMMA WokenIs ==
  ASSUME NEW rs, rs = [p \in Readers |-> rs[p]], \A p \in Readers : OkReader(rs[p])
  PROVE  /\ Woken(rs) = [p \in Readers |-> Woken(rs)[p]]
         /\ \A p \in Readers : OkReader(Woken(rs)[p]) /\ Woken(rs)[p].got = rs[p].got
<1>1. Woken(rs) = [p \in Readers |-> Woken(rs)[p]]
  BY DEF Woken
<1>2. ASSUME NEW p \in Readers PROVE OkReader(Woken(rs)[p]) /\ Woken(rs)[p].got = rs[p].got
  <2> DEFINE d == rs[p]
  <2>1. OkReader(d)
    OBVIOUS
  <2>2. Woken(rs)[p] = IF d.st = "asleep" THEN [d EXCEPT !.st = "ready"] ELSE d
    BY DEF Woken
  <2> HIDE DEF d
  <2>3. CASE d.st = "asleep"
    <3>1. d = [st |-> d.st, n |-> d.n, target |-> d.target, got |-> d.got, killed |-> d.killed]
      BY <2>1 DEF OkReader
    <3> DEFINE c == [d EXCEPT !.st = "ready"]
    <3>2. c = [st |-> "ready", n |-> d.n, target |-> d.target, got |-> d.got, killed |-> d.killed]
      BY <3>1
    <3>3. OkReader(c) /\ c.got = d.got
      <4> HIDE DEF c
      <4> QED BY <2>1, <2>3, <3>2 DEF OkReader
    <3> QED BY <2>2, <2>3, <3>3 DEF d
  <2>4. CASE d.st # "asleep"
    BY <2>1, <2>2, <2>4 DEF d
  <2> QED BY <2>3, <2>4
<1> QED BY <1>1, <1>2

(* Waking readers is not seen. *)
LEMMA WakeSeen ==
  ASSUME RingInv, reader' = Woken(reader)
  PROVE  /\ reader' = [p \in Readers |-> reader'[p]] /\ (\A p \in Readers : OkReader(reader'[p]))
         /\ Taken' = Taken
<1>1. /\ Woken(reader) = [p \in Readers |-> Woken(reader)[p]]
      /\ \A p \in Readers : OkReader(Woken(reader)[p]) /\ Woken(reader)[p].got = reader[p].got
  BY WokenIs DEF RingInv
<1> QED BY <1>1 DEF Taken

(* consoleintr, for whatever character it gets. *)
LEMMA IntrSeen ==
  ASSUME RingInv, NEW b \in Bytes, consoleintr(b)
  PROVE  RingInv' /\ TtyStep
<1> DEFINE d == IF b = "cr" THEN "nl" ELSE b
           x == [input EXCEPT !.buf[Slot(input.e)] = d, !.e = Up(@)]
           n == CASE b = "C-U" -> Erased(input)
                  [] b = "C-H" -> IF input.e # input.w THEN 1 ELSE 0
                  [] OTHER -> 0
<1>1. /\ OkRing(input) /\ reader = [p \in Readers |-> reader[p]]
      /\ \A p \in Readers : OkReader(reader[p])
  BY DEF RingInv
<1>2. ASSUME UNCHANGED <<input, reader>> PROVE RingInv' /\ TtyStep
  <2>1. input' = input /\ reader' = reader
    BY <1>2
  <2>2. Taken' = Taken
    BY <2>1 DEF Taken
  <2>3. RingInv'
    BY <1>1, <2>1 DEF RingInv
  <2> QED BY <2>1, <2>2, <2>3, NothingSeen
<1>3. CASE b = "C-P"
  <2>1. UNCHANGED <<input, reader>>
    BY <1>3 DEF consoleintr
  <2> QED BY <1>2, <2>1
<1>4. CASE b \in {"C-U", "C-H"}
  <2>1. input' = [input EXCEPT !.e = (@ - n) % UINT] /\ reader' = reader
    BY <1>4 DEF consoleintr
  <2>2. n \in {0, 1, Gap(input.w, input.e)} /\ n <= Gap(input.w, input.e)
    <3>1. Erased(input) = Gap(input.w, input.e)
      BY <1>1, ErasedIs
    <3>2. input.w \in Index /\ input.e \in Index /\ Gap(input.w, input.e) \in 0..INPUT_BUF /\ INPUT_BUF \in Nat
      BY <1>1, RingLengths, ConsoleAssumption
    <3>3. input.e # input.w => 1 <= Gap(input.w, input.e)
      <4>1. Gap(input.w, input.e) = IF input.w <= input.e THEN input.e - input.w ELSE input.e - input.w + UINT
        BY <3>2, GapIs
      <4> QED BY <3>2, <4>1, ConsoleAssumption DEF Index
    <3>4. CASE b = "C-U"
      <4>1. n = Gap(input.w, input.e)
        BY <3>1, <3>4
      <4> HIDE DEF n
      <4> QED BY <3>2, <4>1
    <3>5. CASE b = "C-H"
      <4>1. n = IF input.e # input.w THEN 1 ELSE 0
        BY <3>5
      <4> HIDE DEF n
      <4> QED BY <3>2, <3>3, <4>1
    <3> QED BY <1>4, <3>4, <3>5
  <2>3. Taken' = Taken
    BY <2>1 DEF Taken
  <2> HIDE DEF n
  <2>4. OkRing(input') /\ TtyStep
    BY <2>1, <2>2, <2>3, EraseSeen
  <2>5. RingInv'
    BY <1>1, <2>1, <2>4 DEF RingInv
  <2> QED BY <2>4, <2>5
<1>5. CASE b \notin {"0", "C-P", "C-U", "C-H"} /\ HasRoom(input)
  <2>1. /\ input' = IF ReadyAt(x, d) THEN [x EXCEPT !.w = x.e] ELSE x
        /\ reader' = IF ReadyAt(x, d) THEN Woken(reader) ELSE reader
    BY <1>5 DEF consoleintr
  <2>2. input' = Put(input, d)
    BY <2>1 DEF Put
  <2>3. d \in Plain \cup Letters \cup {"nl", "eof"}
    BY <1>5 DEF Bytes
  <2> HIDE DEF d, x
  <2>4. /\ reader' = [p \in Readers |-> reader'[p]] /\ (\A p \in Readers : OkReader(reader'[p]))
        /\ Taken' = Taken
    <3>1. CASE reader' = Woken(reader)
      BY <3>1, WakeSeen
    <3>2. CASE reader' = reader
      BY <1>1, <3>2 DEF Taken
    <3> QED BY <2>1, <3>1, <3>2
  <2>5. OkRing(input') /\ TtyStep
    BY <1>5, <2>2, <2>3, <2>4, KeySeen
  <2>6. RingInv'
    BY <2>4, <2>5 DEF RingInv
  <2> QED BY <2>5, <2>6
<1>6. CASE b = "0" \/ (~HasRoom(input) /\ b \notin {"C-P", "C-U", "C-H"})
  <2>1. UNCHANGED <<input, reader>>
    BY <1>6 DEF consoleintr
  <2> QED BY <1>2, <2>1
<1> QED BY <1>3, <1>4, <1>5, <1>6

(* The keyboard brings nothing else. *)
LEMMA KeyboardBytes ==
  ASSUME NEW s, NEW data
  PROVE  kbdgetc(s, data).c \in Bytes
<1>1. ASSUME NEW d, NEW sh PROVE charcode(d, sh) \in Bytes /\ Case(charcode(d, sh)) \in Bytes
  <2> DEFINE T == Letters \cup {"nl", "eof", "cr", "0", "C-U", "C-H", "C-P"}
             row == CASE d = 30 -> <<"a", "A", "C-A">> [] d = 32 -> <<"d", "D", "eof">>
                      [] d = 22 -> <<"u", "U", "C-U">> [] d = 35 -> <<"h", "H", "C-H">>
                      [] d = 25 -> <<"p", "P", "C-P">> [] d = 28 -> <<"nl", "nl", "cr">>
                      [] d = 156 -> <<"nl", "nl", "cr">> [] OTHER -> <<"0", "0", "0">>
             i == IF "CTL" \in sh THEN 3 ELSE IF "SHIFT" \in sh THEN 2 ELSE 1
  <2>1. i \in {1, 2, 3}
    OBVIOUS
  <2>2. row \in {<<"a", "A", "C-A">>, <<"d", "D", "eof">>, <<"u", "U", "C-U">>, <<"h", "H", "C-H">>,
                 <<"p", "P", "C-P">>, <<"nl", "nl", "cr">>, <<"0", "0", "0">>}
    OBVIOUS
  <2>3. charcode(d, sh) = row[i]
    BY DEF charcode
  <2> HIDE DEF i, row
  <2>4. row[i] \in T
    BY <2>1, <2>2 DEF Letters
  <2>5. \A c \in T : Case(c) \in T
    BY DEF Letters, Case
  <2>6. T \subseteq Bytes
    BY DEF Bytes
  <2> HIDE DEF T
  <2> QED BY <2>3, <2>4, <2>5, <2>6
<1>2. "0" \in Bytes
  BY DEF Bytes
<1> DEFINE e == IF s.e0 THEN data + 128 ELSE data
           a == s.shift \cup shiftcode(e)
           t == togglecode(e)
           sh == (a \ t) \cup (t \ a)
           c == charcode(e, sh)
           g == IF "CAPSLOCK" \in sh THEN Case(c) ELSE c
<1>3. c \in Bytes /\ Case(c) \in Bytes
  <2> HIDE DEF e, sh
  <2> QED BY <1>1
<1>4. kbdgetc(s, data).c = "0" \/ kbdgetc(s, data).c = g
  BY DEF kbdgetc
<1> HIDE DEF c, sh
<1> QED BY <1>2, <1>3, <1>4

(* One step of the console. *)
LEMMA ConStep ==
  ASSUME RingInv, [SerialNext \/ KeyNext]_cvars
  PROVE  RingInv' /\ TtyStep
<1>0. ASSUME UNCHANGED <<input, reader>> PROVE RingInv' /\ TtyStep
  <2>1. input' = input /\ reader' = reader
    BY <1>0
  <2>2. Taken' = Taken
    BY <2>1 DEF Taken
  <2>3. RingInv'
    BY <2>1 DEF RingInv
  <2> QED BY <2>1, <2>2, <2>3, NothingSeen
<1>1. CASE UNCHANGED cvars
  BY <1>0, <1>1 DEF cvars
<1>2. ASSUME NEW b \in Plain \cup {"nl", "eof", "C-U", "C-H", "C-P"}, uartintr(b) PROVE RingInv' /\ TtyStep
  <2>1. b \in Bytes /\ consoleintr(b)
    BY <1>2 DEF Bytes, uartintr
  <2> QED BY <2>1, IntrSeen
<1>3. CASE consolewrite
  BY <1>0, <1>3 DEF consolewrite
<1>4. ASSUME NEW p \in Readers, consoleread(p) PROVE RingInv' /\ TtyStep
  BY <1>4, ReadSeen
<1>5. ASSUME NEW p \in Readers, Kill(p) PROVE RingInv' /\ TtyStep
  <2> DEFINE d == reader[p]
             c == [d EXCEPT !.killed = TRUE, !.st = "ready"]
  <2>1. reader' = [reader EXCEPT ![p] = c] /\ input' = input
    BY <1>5 DEF Kill
  <2>2. reader = [q \in Readers |-> reader[q]] /\ \A q \in Readers : OkReader(reader[q])
    BY DEF RingInv
  <2>3. OkReader(c) /\ c.got = d.got
    <3>1. OkReader(d) /\ d.st # "idle"
      BY <2>2, <1>5 DEF Kill
    <3> HIDE DEF d
    <3>2. c.st = "ready" /\ c.n = d.n /\ c.target = d.target /\ c.got = d.got
      BY <3>1 DEF OkReader
    <3>3. c \in [st : {"idle", "ready", "asleep"}, n : Nat, target : Nat, got : Seq(Chars), killed : BOOLEAN]
      BY <3>1 DEF OkReader
    <3> HIDE DEF c
    <3> QED BY <3>1, <3>2, <3>3 DEF OkReader
  <2> HIDE DEF c
  <2>4. /\ reader' = [q \in Readers |-> reader'[q]]
        /\ \A q \in Readers : OkReader(reader'[q]) /\ reader'[q].got = reader[q].got
    BY <2>1, <2>2, <2>3
  <2>5. Taken' = Taken
    BY <2>4 DEF Taken
  <2>6. RingInv'
    BY <2>1, <2>4 DEF RingInv
  <2> QED BY <2>1, <2>5, <2>6, NothingSeen
<1>6. ASSUME NEW p \in Readers, NEW n \in Counts, ReadStart(p, n) PROVE RingInv' /\ TtyStep
  <2> DEFINE c == [NoRead EXCEPT !.st = "ready", !.n = n, !.target = n]
  <2>1. reader' = [reader EXCEPT ![p] = c] /\ input' = input
    BY <1>6 DEF ReadStart
  <2>2. c.st = "ready" /\ c.n = n /\ c.target = n /\ c.got = <<>>
    BY DEF NoRead
  <2>3. OkReader(c) /\ c.got = <<>>
    <3>1. n \in Nat
      BY ConsoleAssumption
    <3>2. <<>> \in Seq(Chars) /\ Len(<<>>) = 0
      OBVIOUS
    <3>3. c \in [st : {"idle", "ready", "asleep"}, n : Nat, target : Nat, got : Seq(Chars), killed : BOOLEAN]
      BY <3>1, <3>2 DEF NoRead
    <3> HIDE DEF c
    <3> QED BY <2>2, <3>1, <3>2, <3>3 DEF OkReader
  <2> HIDE DEF c
  <2>4. reader = [q \in Readers |-> reader[q]] /\ OkRing(input) /\ \A q \in Readers : OkReader(reader[q])
    BY DEF RingInv
  <2>5. RingInv'
    BY <2>1, <2>3, <2>4 DEF RingInv
  <2>6. Taken' = [Taken EXCEPT ![p] = <<>>]
    BY <2>1, <2>3, <2>4 DEF Taken
  <2>7. Pending' = Pending /\ Between(input.r, input.w)' = Between(input.r, input.w)
    BY <2>1, Mapped
  <2>8. TtySpec!Over(p)
    BY <2>6, <2>7 DEF TtySpec!Over, Taken
  <2> QED BY <2>5, <2>8 DEF TtySpec!Next, TtyStep
<1>7. CASE kbdintr
  <2> DEFINE g == kbdgetc(kbd, Head(wire))
  <2>1. consoleintr(g.c)
    BY <1>7 DEF kbdintr
  <2>2. g.c \in Bytes
    BY KeyboardBytes
  <2> HIDE DEF g
  <2> QED BY <2>1, <2>2, IntrSeen
<1>8. ASSUME NEW k \in Keys, KeyEvent(k) PROVE RingInv' /\ TtyStep
  BY <1>0, <1>8 DEF KeyEvent
<1> QED BY <1>1, <1>2, <1>3, <1>4, <1>5, <1>6, <1>7, <1>8 DEF SerialNext, KeyNext

(* The ring of the boot. *)
LEMMA ConStart ==
  ASSUME ConInit
  PROVE  RingInv /\ TtySpec!Init
<1>1. PICK b \in Begin : input = [buf |-> [j \in 0..INPUT_BUF - 1 |-> "nul"], r |-> b[1], w |-> b[1], e |-> b[1]]
  BY DEF ConInit
<1>2. b[1] \in Index
  BY ConsoleAssumption DEF Index
<1>3. Gap(b[1], b[1]) = 0
  <2> DEFINE i == b[1]
  <2>1. i \in Index
    BY <1>2
  <2> HIDE DEF i
  <2>2. Gap(i, i) = IF i <= i THEN i - i ELSE i - i + UINT
    BY <2>1, GapIs
  <2>3. Gap(i, i) = 0
    BY <2>1, <2>2, ConsoleAssumption DEF Index
  <2> QED BY <2>3 DEF i
<1>4. [j \in 0..INPUT_BUF - 1 |-> "nul"] \in Buffers
  BY DEF Buffers, Chars
<1>5. input \in [buf : Buffers, r : Index, w : Index, e : Index]
      /\ input.r = b[1] /\ input.w = b[1] /\ input.e = b[1]
  BY <1>1, <1>2, <1>4
<1>6. OkRing(input)
  <2>1. 1..0 = {} /\ 0 <= INPUT_BUF
    BY ConsoleAssumption
  <2> QED BY <1>3, <1>5, <2>1 DEF OkRing
<1>7. EditOf(input) = <<>> /\ ReadyOf(input) = <<>>
  <2>1. EditOf(input) \in Seq(Chars) /\ Len(EditOf(input)) = 0 /\ ReadyOf(input) \in Seq(Chars) /\ Len(ReadyOf(input)) = 0
    BY <1>3, <1>5, <1>6, RingLengths
  <2> QED BY <2>1
<1>8. reader = [p \in Readers |-> NoRead]
  BY DEF ConInit
<1>9. OkReader(NoRead) /\ NoRead.got = <<>>
  <2>1. <<>> \in Seq(Chars) /\ Len(<<>>) = 0
    OBVIOUS
  <2> QED BY <2>1 DEF OkReader, NoRead
<1>10. RingInv
  BY <1>6, <1>8, <1>9 DEF RingInv
<1>11. Taken = [p \in Readers |-> <<>>]
  BY <1>8, <1>9 DEF Taken
<1>12. Pending = <<>> /\ Between(input.r, input.w) = <<>>
  BY <1>7, Mapped
<1> QED BY <1>10, <1>11, <1>12 DEF TtySpec!Init, Taken

(* For every size of the ring, wherever its unsigned indices wrap, and     *)
(* for any readers: the ring of console.c with its loops implements the    *)
(* line and the text of Tty.  Nothing typed is lost, doubled or out of     *)
(* order, and an end of file is kept for the next read if it comes after   *)
(* other characters (consoleintr, consoleread).                            *)
THEOREM ConsoleImplementsTty == ConSpec => ImplementsTty
<1>1. ConInit => RingInv /\ TtySpec!Init
  BY ConStart
<1>2. RingInv /\ [SerialNext \/ KeyNext]_cvars => RingInv' /\ [TtySpec!Next]_ttyvars
  BY ConStep DEF TtyStep
<1>3. ConSpec => TtySpec!Init /\ [][TtySpec!Next]_ttyvars
  BY <1>1, <1>2, PTL DEF ConSpec
<1> QED BY <1>3, PTL DEF ImplementsTty, TtySpec!Spec, ttyvars, Taken
-----------------------------------------------------------------------------
(* The keyboard. *)

Shifts == {"CTL", "SHIFT", "ALT", "CAPSLOCK", "NUMLOCK", "SCROLLLOCK"}

(* What the codes for k tell of the modifiers, if dn are the keys down. *)
Known(sh, dn) ==
  \A m \in Modifiers :
    /\ m \in sh => KeysOf(m) \cap dn # {}
    /\ Cardinality(KeysOf(m)) = 1 /\ KeysOf(m) \subseteq dn => m \in sh

(* The keys that were down before the event of k. *)
Before(k) == IF k \in down THEN down \ {k} ELSE down \cup {k}
LastCode(k) == IF k \in down THEN Code(k) ELSE Code(k) + 128

(* The driver knows the keys that are down, but for the last event, of     *)
(* which it may have read E0.                                              *)
KeysInv ==
  /\ kbd \in [shift : SUBSET Shifts, e0 : BOOLEAN] /\ down \subseteq Keys
  /\ \/ wire = <<>> /\ kbd.e0 = FALSE /\ Known(kbd.shift, down)
     \/ \E k \in Keys :
          /\ Known(kbd.shift, Before(k))
          /\ \/ wire = <<E0, LastCode(k)>> /\ k >= 128 /\ kbd.e0 = FALSE
             \/ wire = <<LastCode(k)>> /\ kbd.e0 = (k >= 128)

(* A key that goes down switches its modifier on. *)
LEMMA PressTrue ==
  ASSUME NEW sh \in SUBSET Shifts, NEW k \in Keys, NEW dn, k \in dn, Known(sh, dn \ {k}),
         NEW t \in SUBSET {"CAPSLOCK", "NUMLOCK", "SCROLLLOCK"}, NEW a, a = sh \cup shiftcode(k)
  PROVE  Known((a \ t) \cup (t \ a), dn)
<1> DEFINE new == (a \ t) \cup (t \ a)
<1>1. \A m \in Modifiers : m \in new <=> m \in sh \/ m \in shiftcode(k)
  BY DEF Modifiers
<1> HIDE DEF new
<1>2. ASSUME NEW m \in Modifiers, m \in new PROVE KeysOf(m) \cap dn # {}
  <2>1. CASE m \in sh
    BY <2>1 DEF Known
  <2>2. CASE m \in shiftcode(k)
    BY <2>2 DEF KeysOf
  <2> QED BY <1>1, <1>2, <2>1, <2>2
<1>3. ASSUME NEW m \in Modifiers, Cardinality(KeysOf(m)) = 1, KeysOf(m) \subseteq dn PROVE m \in new
  <2>1. CASE k \in KeysOf(m)
    BY <1>1, <2>1 DEF KeysOf
  <2>2. CASE k \notin KeysOf(m)
    BY <1>1, <1>3, <2>2 DEF Known
  <2> QED BY <2>1, <2>2
<1>4. Known(new, dn)
  BY <1>2, <1>3 DEF Known
<1> QED BY <1>4 DEF new

(* A key that comes up switches its modifier off. *)
LEMMA ReleaseTrue ==
  ASSUME NEW sh \in SUBSET Shifts, NEW k \in Keys, NEW dn, k \notin dn, Known(sh, dn \cup {k})
  PROVE  Known(sh \ shiftcode(k), dn)
<1> DEFINE new == sh \ shiftcode(k)
<1>1. ASSUME NEW m \in Modifiers, m \in new PROVE KeysOf(m) \cap dn # {}
  <2>1. PICK q \in KeysOf(m) : q \in dn \cup {k}
    BY <1>1 DEF Known
  <2>2. q # k
    BY <1>1 DEF KeysOf
  <2> QED BY <2>1, <2>2
<1>2. ASSUME NEW m \in Modifiers, Cardinality(KeysOf(m)) = 1, KeysOf(m) \subseteq dn PROVE m \in new
  <2>1. m \in sh
    BY <1>2 DEF Known
  <2>2. k \notin KeysOf(m)
    BY <1>2
  <2> QED BY <2>1, <2>2 DEF KeysOf
<1> QED BY <1>1, <1>2 DEF Known

(* shiftcode and togglecode name modifiers. *)
LEMMA ShiftCodes ==
  ASSUME NEW d
  PROVE  shiftcode(d) \in SUBSET Shifts /\ togglecode(d) \in SUBSET {"CAPSLOCK", "NUMLOCK", "SCROLLLOCK"}
BY DEF shiftcode, togglecode, Shifts

(* Codes of keys. *)
LEMMA Codes ==
  ASSUME NEW k \in Keys
  PROVE  /\ k \in 0..255 /\ Code(k) \in 0..127 /\ Code(k) # 96
         /\ k = IF k >= 128 THEN Code(k) + 128 ELSE Code(k)
         /\ (Code(k) + 128) % 128 = Code(k)
BY ConsoleAssumption DEF Code

(* The state after a code that is not E0. *)
LEMMA NewState ==
  ASSUME NEW sh \in SUBSET Shifts, NEW g, g = [shift |-> sh, e0 |-> FALSE], NEW dn, Known(sh, dn)
  PROVE  g \in [shift : SUBSET Shifts, e0 : BOOLEAN] /\ g.e0 = FALSE /\ Known(g.shift, dn)
<1>1. g.shift = sh
  OBVIOUS
<1>2. g.e0 = FALSE
  BY Zenon
<1>3. g \in [shift : SUBSET Shifts, e0 : BOOLEAN]
  <2>1. FALSE \in BOOLEAN
    OBVIOUS
  <2>2. [shift |-> sh, e0 |-> FALSE] \in [shift : SUBSET Shifts, e0 : BOOLEAN]
    BY <2>1
  <2> QED BY <2>2, Zenon
<1> QED BY <1>1, <1>2, <1>3, Zenon

(* kbdgetc reads the code of a key's event. *)
LEMMA EventRead ==
  ASSUME NEW s \in [shift : SUBSET Shifts, e0 : BOOLEAN], NEW k \in Keys, s.e0 = (k >= 128), NEW dn,
         Known(s.shift, IF k \in dn THEN dn \ {k} ELSE dn \cup {k}),
         NEW data, data = IF k \in dn THEN Code(k) ELSE Code(k) + 128, NEW g, g = kbdgetc(s, data).s
  PROVE  g \in [shift : SUBSET Shifts, e0 : BOOLEAN] /\ g.e0 = FALSE /\ Known(g.shift, dn)
<1>1. /\ k \in 0..255 /\ Code(k) \in 0..127 /\ Code(k) # 96
      /\ k = IF k >= 128 THEN Code(k) + 128 ELSE Code(k)
      /\ (Code(k) + 128) % 128 = Code(k)
  BY Codes
<1>2. data # E0
  BY <1>1 DEF E0
<1>3. CASE k \in dn
  <2> DEFINE d == IF s.e0 THEN data + 128 ELSE data
             a == s.shift \cup shiftcode(d)
             t == togglecode(d)
             sh == (a \ t) \cup (t \ a)
  <2>1. data < 128 /\ ~(data >= 128) /\ d = k
    BY <1>1, <1>3
  <2>2. kbdgetc(s, data).s = [shift |-> sh, e0 |-> FALSE]
    BY <1>2, <2>1 DEF kbdgetc
  <2>3. t \in SUBSET {"CAPSLOCK", "NUMLOCK", "SCROLLLOCK"} /\ a = s.shift \cup shiftcode(k)
        /\ a \in SUBSET Shifts
    <3> HIDE DEF d
    <3>1. a = s.shift \cup shiftcode(k)
      BY <2>1
    <3> QED BY <3>1, ShiftCodes
  <2>4. Known(s.shift, dn \ {k})
    BY <1>3
  <2> HIDE DEF d, a, t
  <2>5. Known(sh, dn)
    BY <1>3, <2>3, <2>4, PressTrue
  <2>6. sh \in SUBSET Shifts
    BY <2>3 DEF Shifts
  <2> HIDE DEF sh
  <2>7. g = [shift |-> sh, e0 |-> FALSE]
    BY <2>2
  <2> QED BY <2>5, <2>6, <2>7, NewState
<1>4. CASE k \notin dn
  <2> DEFINE d == IF s.e0 THEN data ELSE data % 128
  <2>1. data >= 128 /\ d = k
    BY <1>1, <1>4
  <2>2. kbdgetc(s, data).s = Released(s, data)
    BY <1>2, <2>1 DEF kbdgetc
  <2>3. Released(s, data) = [shift |-> s.shift \ shiftcode(k), e0 |-> FALSE]
    <3> HIDE DEF d
    <3>1. Released(s, data) = [shift |-> s.shift \ shiftcode(d), e0 |-> FALSE]
      BY DEF Released, d
    <3> QED BY <2>1, <3>1
  <2>4. Known(s.shift, dn \cup {k})
    BY <1>4
  <2>5. Known(s.shift \ shiftcode(k), dn)
    BY <1>4, <2>4, ReleaseTrue
  <2> DEFINE sh == s.shift \ shiftcode(k)
  <2>6. sh \in SUBSET Shifts /\ Known(sh, dn)
    BY <2>5
  <2> HIDE DEF sh
  <2>7. g = [shift |-> sh, e0 |-> FALSE]
    BY <2>2, <2>3 DEF sh
  <2> QED BY <2>6, <2>7, NewState
<1> QED BY <1>3, <1>4

(* One step of the keyboard, or of another part of the console. *)
LEMMA KeysStep ==
  ASSUME KeysInv, [SerialNext \/ KeyNext]_cvars
  PROVE  KeysInv'
<1>1. CASE UNCHANGED <<kbd, down, wire>>
  BY <1>1 DEF KeysInv, Before, LastCode
<1>2. ASSUME NEW k \in Keys, KeyEvent(k) PROVE KeysInv'
  <2>1. /\ wire = <<>> /\ wire' = IF Ext(k) THEN <<E0, IF k \in down THEN Code(k) + 128 ELSE Code(k)>>
                                  ELSE <<IF k \in down THEN Code(k) + 128 ELSE Code(k)>>
        /\ down' = IF k \in down THEN down \ {k} ELSE down \cup {k}
        /\ kbd' = kbd
    BY <1>2 DEF KeyEvent
  <2>2. kbd.e0 = FALSE /\ Known(kbd.shift, down) /\ down \subseteq Keys
        /\ kbd \in [shift : SUBSET Shifts, e0 : BOOLEAN]
    BY <2>1 DEF KeysInv
  <2>3. Before(k)' = down /\ LastCode(k)' = IF k \in down THEN Code(k) + 128 ELSE Code(k)
    BY <2>1 DEF Before, LastCode
  <2>4. k \in 0..255
    BY Codes
  <2>5. wire' = (IF k >= 128 THEN <<E0, LastCode(k)'>> ELSE <<LastCode(k)'>>)
    BY <2>1, <2>3 DEF Ext
  <2>6. down' \subseteq Keys
    BY <2>1, <2>2
  <2> QED BY <2>1, <2>2, <2>3, <2>4, <2>5, <2>6 DEF KeysInv
<1>3. CASE kbdintr
  <2>1. wire # <<>> /\ kbd' = kbdgetc(kbd, Head(wire)).s /\ wire' = Tail(wire) /\ down' = down
    BY <1>3 DEF kbdintr
  <2>2. PICK k \in Keys :
          /\ Known(kbd.shift, Before(k))
          /\ \/ wire = <<E0, LastCode(k)>> /\ k >= 128 /\ kbd.e0 = FALSE
             \/ wire = <<LastCode(k)>> /\ kbd.e0 = (k >= 128)
    BY <2>1 DEF KeysInv
  <2>3. kbd \in [shift : SUBSET Shifts, e0 : BOOLEAN] /\ down \subseteq Keys
    BY DEF KeysInv
  <2>4. CASE wire = <<E0, LastCode(k)>> /\ k >= 128 /\ kbd.e0 = FALSE
    <3>1. Head(wire) = E0 /\ Tail(wire) = <<LastCode(k)>>
      BY <2>4
    <3>2. kbd' = [kbd EXCEPT !.e0 = TRUE]
      BY <2>1, <3>1 DEF kbdgetc
    <3>3. kbd' \in [shift : SUBSET Shifts, e0 : BOOLEAN] /\ kbd'.shift = kbd.shift /\ kbd'.e0 = (k >= 128)
      BY <2>3, <2>4, <3>2
    <3>4. Before(k)' = Before(k) /\ LastCode(k)' = LastCode(k)
      BY <2>1 DEF Before, LastCode
    <3> QED BY <2>1, <2>2, <2>3, <3>1, <3>3, <3>4 DEF KeysInv
  <2>5. CASE wire = <<LastCode(k)>> /\ kbd.e0 = (k >= 128)
    <3>1. Head(wire) = LastCode(k) /\ Tail(wire) = <<>>
      BY <2>5
    <3> DEFINE data == Head(wire)
               g == kbdgetc(kbd, data).s
    <3>2. Known(kbd.shift, IF k \in down THEN down \ {k} ELSE down \cup {k})
          /\ data = IF k \in down THEN Code(k) ELSE Code(k) + 128
      BY <2>2, <3>1 DEF Before, LastCode
    <3>3. g \in [shift : SUBSET Shifts, e0 : BOOLEAN] /\ g.e0 = FALSE /\ Known(g.shift, down)
      <4> HIDE DEF data
      <4> QED BY <2>3, <2>5, <3>2, EventRead
    <3>4. kbd' = g
      BY <2>1
    <3> HIDE DEF g
    <3> QED BY <2>1, <2>3, <3>1, <3>3, <3>4 DEF KeysInv
  <2> QED BY <2>2, <2>4, <2>5
<1>4. CASE SerialNext
  BY <1>1, <1>4 DEF SerialNext, uartintr, consolewrite, consoleread, Kill, ReadStart
<1>5. CASE UNCHANGED cvars
  BY <1>1, <1>5 DEF cvars
<1> QED BY <1>2, <1>3, <1>4, <1>5 DEF KeyNext

(* No key is down when the machine starts. *)
LEMMA KeysStart ==
  ASSUME ConInit
  PROVE  KeysInv
<1>1. kbd = [shift |-> {}, e0 |-> FALSE] /\ down = {} /\ wire = <<>>
  BY DEF ConInit
<1>2. Known({}, {})
  <2>1. ASSUME NEW m \in Modifiers, Cardinality(KeysOf(m)) = 1, KeysOf(m) \subseteq {} PROVE FALSE
    <3>1. KeysOf(m) = {}
      BY <2>1
    <3>2. Cardinality({}) = 0
      BY FS_EmptySet
    <3> QED BY <2>1, <3>1, <3>2
  <2> QED BY <2>1 DEF Known
<1> QED BY <1>1, <1>2 DEF KeysInv
-----------------------------------------------------------------------------
(* The screen. *)

(* The cells above the last row. *)
Bottom == (ROWS - 1) * COLS
Glyphs == Chars \cup {"nul", " ", "1"}
Pictures == [Cell -> Glyphs]

(* A screen with nothing behind the cursor; its cursor may stand at the    *)
(* start of the last row only within cgaputc.                              *)
Picture(g) ==
  /\ g = [crt |-> g.crt, pos |-> g.pos] /\ g.crt \in Pictures /\ g.pos \in 0..Bottom
  /\ \A j \in g.pos..Bottom - 1 : g.crt[j] \in {"nul", " "}
OkScreen(g) == Picture(g) /\ g.pos # Bottom

(* In front of place p of the picture v stands t, and in front of the      *)
(* cursor.                                                                 *)
ShownIn(v, p, t) == Len(t) <= p /\ \A j \in 1..Len(t) : v[p - Len(t) + j - 1] = t[j]
Shown(g, t) == ShownIn(g.crt, g.pos, t)

(* What cgaputc does at its end. *)
Settled(a) ==
  LET b == IF a.pos \div COLS >= ROWS - 1 THEN Scrolled(a) ELSE a IN [b EXCEPT !.crt[b.pos] = " "]

(* The size of the screen. *)
LEMMA ScreenSizes ==
  /\ Bottom \in Nat /\ COLS \in Nat \ {0} /\ ROWS \in Nat /\ INPUT_BUF \in Nat \ {0}
  /\ (ROWS - 2) * COLS = Bottom - COLS /\ Cell = 0..Bottom + COLS - 1
  /\ INPUT_BUF <= Bottom - COLS
<1>1. COLS \in Nat \ {0} /\ ROWS \in Nat /\ ROWS > 2 /\ INPUT_BUF \in Nat \ {0} /\ INPUT_BUF <= (ROWS - 2) * COLS
  BY ConsoleAssumption
<1>2. (ROWS - 2) * COLS = Bottom - COLS /\ ROWS * COLS = Bottom + COLS /\ Bottom \in Int
  BY <1>1 DEF Bottom
<1>3. Bottom \in Nat
  BY <1>1, <1>2
<1> QED BY <1>1, <1>2, <1>3 DEF Cell

(* The test of cgaputc for the last row. *)
LEMMA RowTest ==
  ASSUME NEW pos \in 0..Bottom
  PROVE  pos \div COLS >= ROWS - 1 <=> pos = Bottom
<1>1. COLS \in Nat \ {0} /\ ROWS \in Nat /\ Bottom = (ROWS - 1) * COLS /\ Bottom \in Nat
  BY ScreenSizes DEF Bottom
<1> DEFINE q == pos \div COLS
           m == pos % COLS
<1>2. q \in Int /\ m \in 0..COLS - 1 /\ pos = COLS * q + m
  BY <1>1, Division
<1> HIDE DEF q, m
<1>3. CASE q >= ROWS - 1
  <2>1. COLS * q >= COLS * (ROWS - 1)
    BY <1>1, <1>2, <1>3
  <2>2. COLS * (ROWS - 1) = Bottom
    BY <1>1
  <2>3. COLS * q \in Int
    BY <1>1, <1>2
  <2>4. pos >= Bottom
    BY <1>1, <1>2, <2>1, <2>2, <2>3
  <2> QED BY <1>1, <1>3, <2>4 DEF q
<1>4. CASE ~(q >= ROWS - 1)
  <2>1. q + 1 <= ROWS - 1
    BY <1>1, <1>2, <1>4
  <2>2. COLS * (q + 1) <= COLS * (ROWS - 1)
    BY <1>1, <1>2, <2>1
  <2>3. COLS * (q + 1) = COLS * q + COLS /\ COLS * (ROWS - 1) = Bottom /\ COLS * q \in Int
    BY <1>1, <1>2
  <2>4. pos < Bottom
    BY <1>1, <1>2, <2>2, <2>3
  <2> QED BY <1>1, <1>4, <2>4 DEF q
<1> QED BY <1>3, <1>4

(* Storing a character in a screen. *)
LEMMA StoreAt ==
  ASSUME NEW w, NEW i, NEW c, NEW b, b = [crt |-> w, pos |-> i]
  PROVE  [b EXCEPT !.crt[b.pos] = c] = [crt |-> [w EXCEPT ![i] = c], pos |-> i]
<1>1. b.pos = i /\ b.crt = w
  OBVIOUS
<1>2. [b EXCEPT !.crt[b.pos] = c] = [b EXCEPT !.crt = [b.crt EXCEPT ![b.pos] = c]]
  BY Zenon
<1>3. [b EXCEPT !.crt = [b.crt EXCEPT ![b.pos] = c]] = [[crt |-> w, pos |-> i] EXCEPT !.crt = [w EXCEPT ![i] = c]]
  BY <1>1, Zenon
<1> DEFINE u == [w EXCEPT ![i] = c]
<1> HIDE DEF u
<1>4. [[crt |-> w, pos |-> i] EXCEPT !.crt = u] = [crt |-> u, pos |-> i]
  OBVIOUS
<1> QED BY <1>2, <1>3, <1>4 DEF u

(* The fields of a screen. *)
LEMMA ScreenIs ==
  ASSUME NEW w, NEW i, NEW r, r = [crt |-> w, pos |-> i]
  PROVE  r = [crt |-> r.crt, pos |-> r.pos] /\ r.crt = w /\ r.pos = i
OBVIOUS

(* The cells above the last row. *)
LEMMA CellsAbove ==
  ASSUME NEW j \in 0..Bottom - 1
  PROVE  j \in Cell /\ (j < Bottom - COLS => j + COLS \in Cell) /\ j + COLS \in Cell
BY ScreenSizes

(* Places above the last row. *)
LEMMA PlacesAbove ==
  ASSUME NEW p \in 0..Bottom - 1
  PROVE  /\ p \in 0..Bottom /\ p # Bottom /\ p \in Int
         /\ \A j \in p..Bottom - 1 : j \in 0..Bottom - 1 /\ (j = p \/ j \in p + 1..Bottom - 1)
         /\ \A j \in p + 1..Bottom - 1 : j \in p..Bottom - 1
         /\ \A n \in 0..p : \A j \in 1..n : p - n + j - 1 \in 0..Bottom - 1 /\ p - n + j - 1 # p
<1>1. Bottom \in Nat
  BY ScreenSizes
<1> QED BY <1>1

(* A place that is not at the start of the last row is above it. *)
LEMMA NotBottom ==
  ASSUME NEW p \in 0..Bottom, p # Bottom
  PROVE  p \in 0..Bottom - 1
<1>1. Bottom \in Nat
  BY ScreenSizes
<1> QED BY <1>1

(* A number up to p. *)
LEMMA UpTo ==
  ASSUME NEW n \in Nat, NEW p \in Int, n <= p
  PROVE  n \in 0..p
OBVIOUS

(* A blank at the cursor. *)
LEMMA BlankStored ==
  ASSUME NEW v \in Pictures, NEW p \in 0..Bottom - 1, \A j \in p + 1..Bottom - 1 : v[j] \in {"nul", " "},
         NEW r, r = [crt |-> [v EXCEPT ![p] = " "], pos |-> p]
  PROVE  OkScreen(r) /\ \A t : Len(t) \in Nat /\ ShownIn(v, p, t) => Shown(r, t)
<1> DEFINE w == [v EXCEPT ![p] = " "]
<1>1. p \in Cell /\ Bottom \in Nat
  BY CellsAbove, ScreenSizes
<1>2. w \in Pictures
  BY <1>1 DEF Pictures, Glyphs
<1>3. \A j \in Cell : w[j] = IF j = p THEN " " ELSE v[j]
  BY DEF Pictures
<1>4. r = [crt |-> r.crt, pos |-> r.pos] /\ r.crt = w /\ r.pos = p
  BY ScreenIs
<1> HIDE DEF w
<1>5. ASSUME NEW j \in p..Bottom - 1 PROVE w[j] \in {"nul", " "}
  <2>1. j \in 0..Bottom - 1
    BY PlacesAbove, Zenon
  <2>2. j \in Cell
    BY <2>1, CellsAbove
  <2>3. j = p \/ j \in p + 1..Bottom - 1
    BY PlacesAbove, Zenon
  <2> QED BY <1>3, <2>2, <2>3
<1>6. OkScreen(r)
  <2>1. p \in 0..Bottom /\ p # Bottom
    BY PlacesAbove, Zenon
  <2> QED BY <1>2, <1>4, <1>5, <2>1 DEF OkScreen, Picture
<1>7. ASSUME NEW t, Len(t) \in Nat, ShownIn(v, p, t) PROVE Shown(r, t)
  <2>1. Len(t) <= p /\ \A j \in 1..Len(t) : v[p - Len(t) + j - 1] = t[j]
    BY <1>7 DEF ShownIn
  <2>2. ASSUME NEW j \in 1..Len(t) PROVE w[p - Len(t) + j - 1] = t[j]
    <3> DEFINE x == p - Len(t) + j - 1
    <3>1. x \in 0..Bottom - 1 /\ x # p
      <4>1. p \in Int
        BY PlacesAbove, Zenon
      <4>2. Len(t) \in 0..p
        BY <1>7, <2>1, <4>1, UpTo, Zenon
      <4> QED BY <4>2, PlacesAbove, Zenon
    <3>2. x \in Cell
      <4> HIDE DEF x
      <4> QED BY <3>1, CellsAbove
    <3>3. v[x] = t[j]
      BY <2>1
    <3> HIDE DEF x
    <3>4. w[x] = t[j]
      BY <1>3, <3>1, <3>2, <3>3
    <3> QED BY <3>4 DEF x
  <2>3. ShownIn(w, p, t)
    BY <2>1, <2>2 DEF ShownIn
  <2> QED BY <1>4, <2>3 DEF Shown
<1> QED BY <1>6, <1>7

(* The end of cgaputc keeps the line in front of the cursor, whether it    *)
(* scrolls or not: a line is not longer than the screen.                   *)
LEMMA SettledIs ==
  ASSUME NEW a, Picture(a)
  PROVE  /\ OkScreen(Settled(a))
         /\ \A t : Len(t) \in 0..INPUT_BUF /\ Shown(a, t) => Shown(Settled(a), t)
<1> DEFINE p == a.pos
           v == a.crt
<1>1. /\ a = [crt |-> v, pos |-> p] /\ v \in Pictures /\ p \in 0..Bottom
      /\ \A j \in p..Bottom - 1 : v[j] \in {"nul", " "}
  BY DEF Picture
<1>2. /\ Bottom \in Nat /\ COLS \in Nat \ {0} /\ INPUT_BUF \in Nat \ {0}
      /\ (ROWS - 2) * COLS = Bottom - COLS /\ INPUT_BUF <= Bottom - COLS
  BY ScreenSizes
<1>3. \A t : Shown(a, t) => ShownIn(v, p, t)
  BY DEF Shown
<1> HIDE DEF p, v
<1>4. CASE p # Bottom
  <2>1. ~(p \div COLS >= ROWS - 1)
    BY <1>1, <1>4, RowTest
  <2>2. Settled(a) = [a EXCEPT !.crt[a.pos] = " "]
    BY <2>1 DEF Settled, p
  <2>3. Settled(a) = [crt |-> [v EXCEPT ![p] = " "], pos |-> p]
    BY <1>1, <2>2, StoreAt
  <2>4. p \in 0..Bottom - 1
    BY <1>1, <1>4, NotBottom, Zenon
  <2>5. OkScreen(Settled(a)) /\ \A t : Len(t) \in Nat /\ ShownIn(v, p, t) => Shown(Settled(a), t)
    <3>1. \A j \in p + 1..Bottom - 1 : v[j] \in {"nul", " "}
      BY <1>1, <2>4, PlacesAbove, Zenon
    <3> QED BY <1>1, <2>3, <2>4, <3>1, BlankStored
  <2>6. \A t : Len(t) \in 0..INPUT_BUF => Len(t) \in Nat
    BY <1>2
  <2> QED BY <1>3, <2>5, <2>6
<1>5. CASE p = Bottom
  <2> DEFINE i == Bottom - COLS
             u == [j \in Cell |-> IF j >= i /\ j < Bottom THEN "nul" ELSE IF j < i THEN v[j + COLS] ELSE v[j]]
  <2>1. p \div COLS >= ROWS - 1
    BY <1>1, <1>5, RowTest
  <2>2. Scrolled(a) = [crt |-> u, pos |-> i]
    BY <1>2, <1>5 DEF Scrolled, p, v, Bottom
  <2>3. Settled(a) = [Scrolled(a) EXCEPT !.crt[Scrolled(a).pos] = " "]
    BY <2>1 DEF Settled, p
  <2>4. i \in 0..Bottom - 1 /\ i >= INPUT_BUF /\ i \in Int
    BY <1>2
  <2>5. \A j \in Cell : u[j] = IF j >= i /\ j < Bottom THEN "nul" ELSE IF j < i THEN v[j + COLS] ELSE v[j]
    OBVIOUS
  <2>6. u \in Pictures
    <3>1. ASSUME NEW j \in Cell PROVE u[j] \in Glyphs
      <4>1. CASE j >= i /\ j < Bottom
        BY <2>5, <4>1 DEF Glyphs
      <4>2. CASE ~(j >= i /\ j < Bottom) /\ j < i
        <5>1. j \in 0..Bottom - 1
          <6>1. Cell = 0..Bottom + COLS - 1
            BY ScreenSizes
          <6> QED BY <1>2, <2>4, <4>2, <6>1
        <5>2. j + COLS \in Cell
          BY <5>1, CellsAbove
        <5>3. v[j + COLS] \in Glyphs
          BY <1>1, <5>2 DEF Pictures
        <5> QED BY <2>5, <4>2, <5>3
      <4>3. CASE ~(j >= i /\ j < Bottom) /\ ~(j < i)
        <5>1. v[j] \in Glyphs
          BY <1>1 DEF Pictures
        <5> QED BY <2>5, <4>3, <5>1
      <4> QED BY <4>1, <4>2, <4>3
    <3> QED BY <3>1 DEF Pictures
  <2> HIDE DEF u, i
  <2>7. Settled(a) = [crt |-> [u EXCEPT ![i] = " "], pos |-> i]
    <3> DEFINE b == Scrolled(a)
    <3>1. b = [crt |-> u, pos |-> i] /\ Settled(a) = [b EXCEPT !.crt[b.pos] = " "]
      BY <2>2, <2>3
    <3> HIDE DEF b
    <3>2. [b EXCEPT !.crt[b.pos] = " "] = [crt |-> [u EXCEPT ![i] = " "], pos |-> i]
      BY <3>1, StoreAt
    <3> QED BY <3>1, <3>2, Zenon
  <2>8. ASSUME NEW j \in i..Bottom - 1 PROVE u[j] \in {"nul", " "}
    <3>1. j \in 0..Bottom - 1 /\ j >= i /\ j < Bottom
      BY <1>2, <2>4
    <3>2. j \in Cell
      BY <3>1, CellsAbove
    <3> QED BY <2>5, <3>1, <3>2
  <2>9. OkScreen(Settled(a)) /\ \A t : Len(t) \in Nat /\ ShownIn(u, i, t) => Shown(Settled(a), t)
    <3>1. \A j \in i + 1..Bottom - 1 : u[j] \in {"nul", " "}
      BY <2>4, <2>8, PlacesAbove, Zenon
    <3> QED BY <2>4, <2>6, <2>7, <3>1, BlankStored
  <2>10. ASSUME NEW t, Len(t) \in 0..INPUT_BUF, ShownIn(v, p, t) PROVE ShownIn(u, i, t)
    <3>1. Len(t) <= p /\ \A j \in 1..Len(t) : v[p - Len(t) + j - 1] = t[j]
      BY <2>10 DEF ShownIn
    <3>2. ASSUME NEW j \in 1..Len(t) PROVE u[i - Len(t) + j - 1] = t[j]
      <4> DEFINE x == i - Len(t) + j - 1
      <4>1. x \in 0..Bottom - 1 /\ x < i /\ ~(x >= i)
        BY <1>2, <2>4, <2>10
      <4>2. x + COLS = p - Len(t) + j - 1
        BY <1>2, <1>5, <2>4, <2>10 DEF i
      <4>3. v[x + COLS] = t[j]
        BY <3>1, <4>2
      <4> HIDE DEF x
      <4>4. x \in Cell
        BY <4>1, CellsAbove
      <4>5. u[x] = v[x + COLS]
        BY <2>5, <4>1, <4>4
      <4> QED BY <4>3, <4>5 DEF x
    <3>3. Len(t) <= i
      BY <1>2, <2>4, <2>10
    <3> QED BY <3>2, <3>3 DEF ShownIn
  <2>11. \A t : Len(t) \in 0..INPUT_BUF => Len(t) \in Nat
    BY <1>2
  <2> QED BY <1>3, <2>9, <2>10, <2>11
<1> QED BY <1>4, <1>5

(* The first step of cgaputc. *)
Placed(g, c) ==
  CASE c = "nl" -> [g EXCEPT !.pos = @ + COLS - (@ % COLS)]
    [] c = "BACKSPACE" -> [g EXCEPT !.pos = IF @ > 0 THEN @ - 1 ELSE @]
    [] OTHER -> [crt |-> [g.crt EXCEPT ![g.pos] = c], pos |-> g.pos + 1]

(* cgaputc is its two steps. *)
LEMMA PutcIs ==
  ASSUME NEW g, NEW c
  PROVE  cgaputc(g, c) = Settled(Placed(g, c))
BY DEF cgaputc, Settled, Placed

(* A newline goes to the start of the next row. *)
LEMMA NewRow ==
  ASSUME NEW p \in 0..Bottom - 1
  PROVE  p + COLS - (p % COLS) \in 0..Bottom /\ p + COLS - (p % COLS) > p
<1>1. Bottom \in Nat /\ COLS \in Nat \ {0} /\ ROWS \in Nat /\ Bottom = (ROWS - 1) * COLS
  BY ScreenSizes DEF Bottom
<1> DEFINE q == p \div COLS
           m == p % COLS
<1>2. q \in Int /\ m \in 0..COLS - 1 /\ p = COLS * q + m
  BY <1>1, Division
<1> HIDE DEF q, m
<1>3. COLS * q \in Int /\ COLS * (q + 1) = COLS * q + COLS /\ COLS * (ROWS - 1) = Bottom
  BY <1>1, <1>2
<1>4. q + 1 <= ROWS - 1
  <2>1. CASE q >= ROWS - 1
    <3>1. COLS * q >= COLS * (ROWS - 1)
      BY <1>1, <1>2, <2>1
    <3> QED BY <1>1, <1>2, <1>3, <3>1
  <2> QED BY <1>1, <1>2, <2>1
<1>5. COLS * (q + 1) <= COLS * (ROWS - 1)
  BY <1>1, <1>2, <1>4
<1>6. p + COLS - m = COLS * (q + 1)
  BY <1>1, <1>2, <1>3
<1>7. p + COLS - m \in 0..Bottom /\ p + COLS - m > p
  BY <1>1, <1>2, <1>3, <1>5, <1>6
<1> QED BY <1>7 DEF m

(* A newline. *)
LEMMA PlacedNewline ==
  ASSUME NEW g, OkScreen(g)
  PROVE  Picture(Placed(g, "nl"))
<1> DEFINE p == g.pos
           v == g.crt
           q == p + COLS - (p % COLS)
           a == Placed(g, "nl")
<1>1. /\ g = [crt |-> v, pos |-> p] /\ v \in Pictures /\ p \in 0..Bottom - 1
      /\ \A j \in p..Bottom - 1 : v[j] \in {"nul", " "}
  BY NotBottom DEF OkScreen, Picture
<1>2. a = [g EXCEPT !.pos = q]
  BY DEF Placed
<1>3. q \in 0..Bottom /\ q > p
  BY <1>1, NewRow
<1> HIDE DEF p, v, q, a
<1>4. a = [crt |-> v, pos |-> q]
  BY <1>1, <1>2
<1>5. a = [crt |-> a.crt, pos |-> a.pos] /\ a.crt = v /\ a.pos = q
  BY <1>4, ScreenIs
<1>6. ASSUME NEW j \in q..Bottom - 1 PROVE v[j] \in {"nul", " "}
  <2>1. p \in Int /\ q \in Int /\ Bottom \in Nat
    <3>1. p \in 0..Bottom - 1 /\ q \in 0..Bottom
      BY <1>1, <1>3
    <3>2. Bottom \in Nat
      BY ScreenSizes
    <3> QED BY <3>1, <3>2
  <2>2. j \in p..Bottom - 1
    BY <1>3, <2>1
  <2> QED BY <1>1, <2>2
<1>7. Picture(a)
  BY <1>1, <1>3, <1>5, <1>6 DEF Picture
<1> QED BY <1>7 DEF a

(* The front of a sequence. *)
LEMMA FrontIs ==
  ASSUME NEW S, NEW t \in Seq(S), NEW k \in 0..Len(t)
  PROVE  Len(SubSeq(t, 1, k)) = k /\ \A j \in 1..k : SubSeq(t, 1, k)[j] = t[j]
OBVIOUS

(* A backspace takes the last character of the line off. *)
LEMMA PlacedBack ==
  ASSUME NEW g, OkScreen(g)
  PROVE  OkScreen(cgaputc(g, "BACKSPACE"))
         /\ \A t : /\ Len(t) \in 1..INPUT_BUF /\ t \in Seq(Chars) /\ Shown(g, t)
                  => Shown(cgaputc(g, "BACKSPACE"), SubSeq(t, 1, Len(t) - 1))
<1> DEFINE p == g.pos
           v == g.crt
           q == IF p > 0 THEN p - 1 ELSE p
           a == Placed(g, "BACKSPACE")
           r == Settled(a)
<1>1. /\ g = [crt |-> v, pos |-> p] /\ v \in Pictures /\ p \in 0..Bottom - 1
      /\ \A j \in p..Bottom - 1 : v[j] \in {"nul", " "}
  BY NotBottom DEF OkScreen, Picture
<1>2. a = [g EXCEPT !.pos = q]
  BY DEF Placed
<1>3. q \in 0..Bottom - 1 /\ (p > 0 => q = p - 1) /\ Bottom \in Nat
  <2>1. p \in 0..Bottom - 1
    BY <1>1
  <2>2. Bottom \in Nat
    BY ScreenSizes
  <2> HIDE DEF p
  <2> QED BY <2>1, <2>2
<1>4. cgaputc(g, "BACKSPACE") = r
  BY PutcIs
<1>5. \A t : Shown(g, t) => ShownIn(v, p, t)
  BY DEF Shown
<1> HIDE DEF p, v, q
<1>6. a = [crt |-> v, pos |-> q]
  <2> HIDE DEF a
  <2> QED BY <1>1, <1>2
<1>7. a.pos = q
  <2> HIDE DEF a
  <2> QED BY <1>6, ScreenIs
<1>8. r = [crt |-> [v EXCEPT ![q] = " "], pos |-> q]
  <2> HIDE DEF a
  <2>1. q \in 0..Bottom /\ q # Bottom
    BY <1>3, PlacesAbove, Zenon
  <2>2. ~(q \div COLS >= ROWS - 1)
    BY <2>1, RowTest
  <2>3. r = [a EXCEPT !.crt[a.pos] = " "]
    BY <1>7, <2>2 DEF Settled
  <2> HIDE DEF r
  <2> QED BY <1>6, <2>3, StoreAt
<1> HIDE DEF a, r
<1>9. \A j \in q + 1..Bottom - 1 : v[j] \in {"nul", " "}
  <2>1. \A j \in q + 1..Bottom - 1 : j \in p..Bottom - 1
    <3>1. p \in 0..Bottom - 1 /\ Bottom \in Nat
      BY <1>1, <1>3
    <3> QED BY <3>1 DEF q
  <2> QED BY <1>1, <2>1
<1>10. OkScreen(r) /\ \A t : Len(t) \in Nat /\ ShownIn(v, q, t) => Shown(r, t)
  BY <1>1, <1>3, <1>8, <1>9, BlankStored
<1>11. ASSUME NEW t, Len(t) \in 1..INPUT_BUF, t \in Seq(Chars), Shown(g, t)
       PROVE  Shown(r, SubSeq(t, 1, Len(t) - 1))
  <2> DEFINE n == Len(t)
             u == SubSeq(t, 1, n - 1)
  <2>0. n <= p /\ \A j \in 1..n : v[p - n + j - 1] = t[j]
    BY <1>5, <1>11 DEF ShownIn
  <2>1. n \in Nat \ {0} /\ p \in Int
    <3>1. p \in 0..Bottom - 1 /\ n \in 1..INPUT_BUF /\ INPUT_BUF \in Nat
      BY <1>1, <1>11, ScreenSizes
    <3> HIDE DEF n
    <3> QED BY <1>3, <3>1
  <2>2. p > 0 /\ q = p - 1
    <3> HIDE DEF n
    <3> QED BY <1>3, <2>0, <2>1
  <2>3. Len(u) = n - 1 /\ \A j \in 1..n - 1 : u[j] = t[j]
    <3>1. n - 1 \in 0..Len(t)
      BY <2>1
    <3> DEFINE k == n - 1
    <3>2. t \in Seq(Chars) /\ k \in 0..Len(t)
      BY <1>11, <3>1
    <3> HIDE DEF k
    <3>3. Len(SubSeq(t, 1, k)) = k /\ \A j \in 1..k : SubSeq(t, 1, k)[j] = t[j]
      BY <3>2, FrontIs
    <3> QED BY <3>3 DEF k
  <2> HIDE DEF n, u
  <2>4. ASSUME NEW j \in 1..Len(u) PROVE v[q - Len(u) + j - 1] = u[j]
    <3>1. j \in 1..n /\ q - Len(u) + j - 1 = p - n + j - 1 /\ j \in 1..n - 1
      BY <2>1, <2>2, <2>3
    <3> QED BY <2>0, <2>3, <3>1
  <2>5. Len(u) <= q /\ Len(u) \in Nat
    BY <2>0, <2>1, <2>2, <2>3
  <2>6. ShownIn(v, q, u)
    BY <2>4, <2>5 DEF ShownIn
  <2> QED BY <1>10, <2>5, <2>6 DEF u, n
<1> QED BY <1>4, <1>10, <1>11

(* A character comes to the end of the line. *)
LEMMA PlacedChar ==
  ASSUME NEW g, OkScreen(g), NEW c \in Glyphs, c # "nl", c # "BACKSPACE"
  PROVE  /\ Picture(Placed(g, c))
         /\ \A t : /\ Len(t) \in Nat /\ t \in Seq(Chars) /\ Shown(g, t)
                  => Shown(Placed(g, c), Append(t, c))
<1> DEFINE p == g.pos
           v == g.crt
           w == [v EXCEPT ![p] = c]
           q == p + 1
           a == Placed(g, c)
<1>1. /\ v \in Pictures /\ p \in 0..Bottom - 1
      /\ \A j \in p..Bottom - 1 : v[j] \in {"nul", " "}
  BY NotBottom DEF OkScreen, Picture
<1>2. a = [crt |-> w, pos |-> q]
  BY DEF Placed
<1>3. \A t : Shown(g, t) => ShownIn(v, p, t)
  BY DEF Shown
<1> HIDE DEF p, v, a
<1>4. p \in Cell
  BY <1>1, CellsAbove
<1>5. w \in Pictures /\ \A j \in Cell : w[j] = IF j = p THEN c ELSE v[j]
  BY <1>1, <1>4 DEF Pictures
<1>6. q \in 0..Bottom /\ \A j \in q..Bottom - 1 : j \in p..Bottom - 1 /\ j # p /\ j \in 0..Bottom - 1
  <2>1. p \in 0..Bottom - 1 /\ Bottom \in Nat
    BY <1>1, ScreenSizes
  <2> QED BY <2>1
<1> HIDE DEF w
<1>7. ASSUME NEW j \in q..Bottom - 1 PROVE w[j] \in {"nul", " "}
  <2>1. j \in p..Bottom - 1 /\ j # p /\ j \in 0..Bottom - 1
    BY <1>6
  <2>2. j \in Cell
    BY <2>1, CellsAbove
  <2> QED BY <1>1, <1>5, <2>1, <2>2
<1>8. a = [crt |-> a.crt, pos |-> a.pos] /\ a.crt = w /\ a.pos = q
  <2> HIDE DEF q
  <2> QED BY <1>2, ScreenIs
<1>9. Picture(a)
  <2> HIDE DEF q
  <2> QED BY <1>5, <1>6, <1>7, <1>8 DEF Picture
<1>10. ASSUME NEW t, Len(t) \in Nat, t \in Seq(Chars), Shown(g, t) PROVE Shown(a, Append(t, c))
  <2> DEFINE n == Len(t)
             u == Append(t, c)
  <2>1. n <= p /\ (\A j \in 1..n : v[p - n + j - 1] = t[j])
    BY <1>3, <1>10 DEF ShownIn
  <2>2. n \in Nat /\ p \in Int
    BY <1>1, <1>10, PlacesAbove, Zenon
  <2>3. Len(u) = n + 1 /\ u[n + 1] = c /\ \A j \in 1..n : u[j] = t[j]
    BY <1>10
  <2> HIDE DEF n, u
  <2>4. ASSUME NEW j \in 1..n + 1 PROVE w[q - (n + 1) + j - 1] = u[j]
    <3> DEFINE x == q - (n + 1) + j - 1
    <3>1. CASE j \in 1..n
      <4>1. x = p - n + j - 1
        BY <2>2
      <4>2. n \in 0..p
        BY <2>1, <2>2, UpTo, Zenon
      <4>3. p - n + j - 1 \in 0..Bottom - 1 /\ p - n + j - 1 # p
        BY <1>1, <3>1, <4>2, PlacesAbove, Zenon
      <4> HIDE DEF x
      <4>4. x \in Cell /\ x # p
        BY <4>1, <4>3, CellsAbove
      <4>5. w[x] = t[j] /\ u[j] = t[j]
        BY <1>5, <2>1, <2>3, <3>1, <4>1, <4>4
      <4> QED BY <4>5 DEF x
    <3>2. CASE j = n + 1
      <4>1. x = p
        BY <2>2, <3>2
      <4>2. w[p] = c
        BY <1>4, <1>5
      <4> QED BY <2>3, <3>2, <4>1, <4>2
    <3>3. j \in 1..n \/ j = n + 1
      BY <2>2
    <3> QED BY <3>1, <3>2, <3>3
  <2>5. n + 1 <= q
    BY <2>1, <2>2
  <2>6. ShownIn(w, q, u)
    <3> HIDE DEF q
    <3> QED BY <2>3, <2>4, <2>5 DEF ShownIn
  <2> QED BY <1>8, <2>6 DEF Shown, u
<1> QED BY <1>9, <1>10 DEF a
-----------------------------------------------------------------------------
(* What is written with consputc. *)
Written == Glyphs \cup {"nl", "BACKSPACE"}

(* cgaputc never leaves the cursor in the last row. *)
LEMMA PutcOk ==
  ASSUME NEW g, OkScreen(g), NEW c \in Written
  PROVE  OkScreen(cgaputc(g, c))
<1>1. CASE c = "BACKSPACE"
  BY <1>1, PlacedBack
<1>2. CASE c = "nl"
  <2>1. Picture(Placed(g, c))
    BY <1>2, PlacedNewline
  <2> QED BY <2>1, SettledIs, PutcIs
<1>3. CASE c # "BACKSPACE" /\ c # "nl"
  <2>1. c \in Glyphs
    BY <1>3 DEF Written
  <2>2. Picture(Placed(g, c))
    BY <1>3, <2>1, PlacedChar
  <2> QED BY <2>2, SettledIs, PutcIs
<1> QED BY <1>1, <1>2, <1>3

(* The screens while cs is written. *)
IsPuts(P, g, cs) ==
  /\ P[0] = g
  /\ \A j \in 0..Len(cs) : OkScreen(P[j])
  /\ \A j \in 1..Len(cs) : P[j] = cgaputc(P[j - 1], cs[j])
  /\ consputc(g, cs) = P[Len(cs)]

(* consputc writes one character after the other. *)
LEMMA PutsEquation ==
  ASSUME NEW g, OkScreen(g), NEW cs \in Seq(Written)
  PROVE  \E P : IsPuts(P, g, cs)
<1> DEFINE N == Len(cs)
           S == {s \in [crt : Pictures, pos : 0..Bottom] : OkScreen(s)}
           G == [j \in 1..N |-> [s \in S |-> cgaputc(s, cs[j])]]
           E(f) == f = [j \in 0..N |-> IF j = 0 THEN g ELSE cgaputc(f[j - 1], cs[j])]
<1>1. ASSUME NEW s PROVE OkScreen(s) <=> s \in S
  <2>1. ASSUME OkScreen(s) PROVE s \in [crt : Pictures, pos : 0..Bottom]
    <3>1. s = [crt |-> s.crt, pos |-> s.pos] /\ s.crt \in Pictures /\ s.pos \in 0..Bottom
      BY <2>1 DEF OkScreen, Picture
    <3> DEFINE a == s.crt
               b == s.pos
    <3>2. [crt |-> a, pos |-> b] \in [crt : Pictures, pos : 0..Bottom]
      BY <3>1
    <3> QED BY <3>1, <3>2
  <2> QED BY <2>1
<1>2. N \in Nat /\ \A j \in 1..N : cs[j] \in Written
  OBVIOUS
<1> HIDE DEF S, N
<1>3. g \in S
  BY <1>1
<1>4. ASSUME NEW j \in 1..N, NEW s \in S PROVE cgaputc(s, cs[j]) \in S
  <2>1. OkScreen(s) /\ cs[j] \in Written
    BY <1>1, <1>2
  <2>2. OkScreen(cgaputc(s, cs[j]))
    BY <2>1, PutcOk
  <2> QED BY <1>1, <2>2
<1>5. G \in [1..N -> [S -> S]]
  BY <1>4
<1> HIDE DEF G
<1>6. PICK f : Solves(f, N, S, g, G)
  BY <1>2, <1>3, <1>5, RecursiveFunction
<1>7. E(f)
  <2>1. ASSUME NEW j \in 1..N PROVE f[j] = cgaputc(f[j - 1], cs[j])
    <3>1. f[j] = G[j][f[j - 1]] /\ f[j - 1] \in S
      BY <1>2, <1>6 DEF Solves
    <3> QED BY <3>1 DEF G
  <2>2. \A j \in 0..N : f[j] = IF j = 0 THEN g ELSE cgaputc(f[j - 1], cs[j])
    BY <1>2, <1>6, <2>1 DEF Solves
  <2> QED BY <1>6, <2>2 DEF Solves
<1> HIDE DEF E
<1>8. consputc(g, cs) = (CHOOSE h : E(h))[N]
  BY DEF consputc, E, N
<1>9. E(CHOOSE h : E(h))
  BY <1>7, Zenon
<1> DEFINE P == CHOOSE h : E(h)
<1>10. E(P) /\ consputc(g, cs) = P[N]
  BY <1>8, <1>9
<1> HIDE DEF P
<1>11. /\ P[0] = g /\ \A j \in 1..N : P[j] = cgaputc(P[j - 1], cs[j])
  <2>1. P = [j \in 0..N |-> IF j = 0 THEN g ELSE cgaputc(P[j - 1], cs[j])]
    BY <1>10 DEF E
  <2> QED BY <1>2, <2>1
<1>12. \A j \in 0..N : OkScreen(P[j])
  <2> DEFINE M == {j \in 0..N : P[j] \in S}
  <2>1. 0 \in M
    BY <1>2, <1>3, <1>11
  <2>2. ASSUME NEW j \in 0..N - 1, j \in M PROVE j + 1 \in M
    <3>1. j + 1 \in 1..N /\ (j + 1) - 1 = j /\ j + 1 \in 0..N
      BY <1>2
    <3>2. P[j + 1] = cgaputc(P[j], cs[j + 1])
      BY <1>11, <3>1
    <3>3. P[j + 1] \in S
      BY <1>4, <2>2, <3>1, <3>2
    <3> QED BY <3>1, <3>3
  <2>3. 0..N \subseteq M
    <3> HIDE DEF M
    <3> QED BY <1>2, <2>1, <2>2, IntervalInduction
  <2> QED BY <1>1, <2>3
<1> QED BY <1>10, <1>11, <1>12 DEF IsPuts, N

(* What is written leaves a screen. *)
LEMMA PutsOk ==
  ASSUME NEW g, OkScreen(g), NEW cs \in Seq(Written)
  PROVE  OkScreen(consputc(g, cs))
<1>1. PICK P : IsPuts(P, g, cs)
  BY PutsEquation
<1>2. Len(cs) \in 0..Len(cs)
  OBVIOUS
<1> QED BY <1>1, <1>2 DEF IsPuts

(* One character. *)
LEMMA PutsOne ==
  ASSUME NEW g, OkScreen(g), NEW c \in Written
  PROVE  consputc(g, <<c>>) = cgaputc(g, c)
<1> DEFINE cs == <<c>>
<1>1. cs \in Seq(Written) /\ Len(cs) = 1 /\ cs[1] = c
  OBVIOUS
<1> HIDE DEF cs
<1>2. PICK P : IsPuts(P, g, cs)
  BY <1>1, PutsEquation
<1>3. P[1] = cgaputc(P[1 - 1], cs[1]) /\ P[0] = g /\ consputc(g, cs) = P[1]
  <2>1. 1 \in 1..1
    OBVIOUS
  <2> QED BY <1>1, <1>2, <2>1 DEF IsPuts
<1>4. 1 - 1 = 0
  OBVIOUS
<1>5. consputc(g, cs) = cgaputc(g, c)
  BY <1>1, <1>3, <1>4
<1> QED BY <1>5 DEF cs

(* The front of a front. *)
LEMMA FrontOfFront ==
  ASSUME NEW S, NEW t \in Seq(S), NEW k \in 1..Len(t)
  PROVE  SubSeq(SubSeq(t, 1, k), 1, Len(SubSeq(t, 1, k)) - 1) = SubSeq(t, 1, k - 1)
<1>1. SubSeq(t, 1, k) \in Seq(S) /\ Len(SubSeq(t, 1, k)) = k
  OBVIOUS
<1> QED BY <1>1

(* The whole sequence. *)
LEMMA WholeIs ==
  ASSUME NEW S, NEW t \in Seq(S)
  PROVE  SubSeq(t, 1, Len(t)) = t
OBVIOUS

(* As many backspaces as characters are erased. *)
LEMMA PutsBack ==
  ASSUME NEW g, OkScreen(g), NEW t \in Seq(Chars), Len(t) \in 0..INPUT_BUF, Shown(g, t), NEW n \in 0..Len(t)
  PROVE  LET r == consputc(g, [j \in 1..n |-> "BACKSPACE"])
         IN  OkScreen(r) /\ Shown(r, SubSeq(t, 1, Len(t) - n))
<1> DEFINE cs == [j \in 1..n |-> "BACKSPACE"]
           L == Len(t)
           r == consputc(g, cs)
<1>1. n \in Nat /\ L \in Nat /\ INPUT_BUF \in Nat /\ L <= INPUT_BUF /\ n <= L
  BY ScreenSizes
<1>2. cs \in Seq(Written) /\ Len(cs) = n /\ \A j \in 1..n : cs[j] = "BACKSPACE"
  BY <1>1 DEF Written
<1> HIDE DEF cs, L
<1>3. PICK P : IsPuts(P, g, cs)
  BY <1>2, PutsEquation
<1>4. /\ P[0] = g /\ (\A j \in 0..n : OkScreen(P[j])) /\ r = P[n]
      /\ \A j \in 1..n : P[j] = cgaputc(P[j - 1], "BACKSPACE")
  BY <1>2, <1>3 DEF IsPuts
<1> DEFINE M == {j \in 0..n : Shown(P[j], SubSeq(t, 1, L - j))}
<1>5. 0 \in M
  <2>1. L - 0 = L /\ 0 \in 0..n
    BY <1>1
  <2>2. SubSeq(t, 1, L) = t
    BY WholeIs DEF L
  <2> QED BY <1>4, <2>1, <2>2
<1>6. ASSUME NEW j \in 0..n - 1, j \in M PROVE j + 1 \in M
  <2> DEFINE k == L - j
             u == SubSeq(t, 1, k)
  <2>1. k \in 1..L /\ k - 1 = L - (j + 1) /\ j + 1 \in 1..n /\ (j + 1) - 1 = j /\ j \in 0..n /\ j + 1 \in 0..n
    BY <1>1
  <2>2. u \in Seq(Chars) /\ Len(u) = k /\ SubSeq(u, 1, Len(u) - 1) = SubSeq(t, 1, k - 1)
    <3> HIDE DEF k
    <3>1. k \in 1..Len(t)
      BY <2>1 DEF L
    <3> QED BY <3>1, FrontOfFront
  <2>3. Len(u) \in 1..INPUT_BUF
    <3> HIDE DEF u, k
    <3> QED BY <1>1, <2>1, <2>2
  <2>4. Shown(P[j], u) /\ OkScreen(P[j]) /\ P[j + 1] = cgaputc(P[j], "BACKSPACE")
    BY <1>4, <1>6, <2>1
  <2> HIDE DEF u
  <2>5. Shown(cgaputc(P[j], "BACKSPACE"), SubSeq(u, 1, Len(u) - 1))
    BY <2>2, <2>3, <2>4, PlacedBack
  <2>6. Shown(P[j + 1], SubSeq(t, 1, L - (j + 1)))
    BY <2>1, <2>2, <2>4, <2>5
  <2> QED BY <2>1, <2>6
<1>7. 0..n \subseteq M
  <2> HIDE DEF M
  <2> QED BY <1>1, <1>5, <1>6, IntervalInduction
<1>8. n \in 0..n
  BY <1>1
<1>9. OkScreen(r) /\ Shown(r, SubSeq(t, 1, L - n))
  BY <1>4, <1>7, <1>8
<1> QED BY <1>9 DEF cs, L
-----------------------------------------------------------------------------
(* The echo. *)

(* What stands in front of the cursor. *)
EchoInv == OkScreen(cga) /\ mixed \in BOOLEAN /\ (mixed \/ Shown(cga, EditOf(input)))

(* An empty line is always shown. *)
LEMMA NothingShown ==
  ASSUME NEW g, OkScreen(g)
  PROVE  Shown(g, <<>>)
<1> DEFINE t == <<>>
           p == g.pos
           v == g.crt
<1>1. p \in 0..Bottom
  BY DEF OkScreen, Picture
<1>2. Len(t) = 0 /\ 1..0 = {} /\ Bottom \in Nat
  BY ScreenSizes
<1> HIDE DEF t, p, v
<1>3. 0 <= p
  BY <1>1, <1>2
<1>4. ShownIn(v, p, t)
  BY <1>2, <1>3 DEF ShownIn
<1> QED BY <1>4 DEF Shown, t, p, v

(* No character is edited if and only if e and w are the same. *)
LEMMA EmptyLine ==
  ASSUME NEW x, OkRing(x)
  PROVE  x.e = x.w <=> EditOf(x) = <<>>
<1>1. x.w \in Index /\ x.e \in Index /\ EditOf(x) \in Seq(Chars) /\ Len(EditOf(x)) = Gap(x.w, x.e)
  BY RingLengths
<1>2. Gap(x.w, x.e) = IF x.w <= x.e THEN x.e - x.w ELSE x.e - x.w + UINT
  BY <1>1, GapIs
<1>3. x.e = x.w <=> Gap(x.w, x.e) = 0
  BY <1>1, <1>2, ConsoleAssumption DEF Index
<1> DEFINE t == EditOf(x)
<1>4. t \in Seq(Chars) /\ (Len(t) = 0 <=> x.e = x.w)
  BY <1>1, <1>3
<1> HIDE DEF t
<1>5. Len(t) = 0 <=> t = <<>>
  BY <1>4
<1> QED BY <1>4, <1>5 DEF t

(* A character that is echoed behind the line. *)
LEMMA EchoChar ==
  ASSUME NEW g, OkScreen(g), NEW d \in Chars, d # "nl", NEW t \in Seq(Chars), Len(t) + 1 \in 0..INPUT_BUF, Shown(g, t)
  PROVE  Shown(cgaputc(g, d), Append(t, d))
<1>1. d \in Glyphs /\ d # "BACKSPACE"
  BY ConsoleAssumption DEF Glyphs, Chars, Letters
<1>2. Len(t) \in Nat
  OBVIOUS
<1>3. Picture(Placed(g, d)) /\ Shown(Placed(g, d), Append(t, d))
  BY <1>1, <1>2, PlacedChar
<1> DEFINE u == Append(t, d)
<1>4. Len(u) \in 0..INPUT_BUF
  OBVIOUS
<1> HIDE DEF u
<1>5. Shown(Settled(Placed(g, d)), u)
  BY <1>3, <1>4, SettledIs DEF u
<1> QED BY <1>5, PutcIs DEF u

(* A typed character on the screen. *)
LEMMA EchoTyped ==
  ASSUME RingInv, EchoInv, NEW d \in Chars, Typed(input, input', d),
         cga' = consputc(cga, <<d>>), mixed' = (mixed /\ input'.e # input'.w)
  PROVE  EchoInv'
<1> DEFINE t == EditOf(input)
           u == EditOf(input')
<1>1. OkScreen(cga) /\ mixed \in BOOLEAN /\ OkRing(input) /\ OkRing(input')
  BY DEF EchoInv, RingInv, Typed
<1>2. d \in Written
  BY DEF Written, Glyphs
<1>3. cga' = cgaputc(cga, d) /\ OkScreen(cga')
  BY <1>1, <1>2, PutcOk, PutsOne
<1>4. mixed' \in BOOLEAN
  OBVIOUS
<1>5. CASE input'.e = input'.w
  <2>1. u = <<>>
    BY <1>1, <1>5, EmptyLine
  <2>2. Shown(cga', u)
    BY <1>3, <2>1, NothingShown
  <2> QED BY <1>3, <1>4, <2>2 DEF EchoInv
<1>6. CASE input'.e # input'.w /\ mixed
  BY <1>3, <1>4, <1>6 DEF EchoInv
<1>7. CASE input'.e # input'.w /\ ~mixed
  <2>1. u # <<>>
    BY <1>1, <1>7, EmptyLine
  <2>2. Shown(cga, t)
    BY <1>7 DEF EchoInv
  <2>3. /\ d # "nl" /\ u = Append(t, d)
        /\ Len(t) + Len(ReadyOf(input)) < INPUT_BUF
    BY <2>1 DEF Typed
  <2>4. t \in Seq(Chars) /\ Len(t) \in Nat /\ Len(ReadyOf(input)) \in Nat
    <3>1. t \in Seq(Chars) /\ ReadyOf(input) \in Seq(Chars)
      BY <1>1, RingLengths
    <3> DEFINE s == ReadyOf(input)
    <3> HIDE DEF s, t
    <3>2. t \in Seq(Chars) /\ s \in Seq(Chars)
      BY <3>1 DEF s
    <3>3. Len(t) \in Nat /\ Len(s) \in Nat
      BY <3>2
    <3> QED BY <3>2, <3>3 DEF s
  <2>5. Len(t) + 1 \in 0..INPUT_BUF
    <3>1. INPUT_BUF \in Nat
      BY ConsoleAssumption
    <3> QED BY <2>3, <2>4, <3>1
  <2> HIDE DEF t, u
  <2>6. Shown(cgaputc(cga, d), Append(t, d))
    BY <1>1, <2>2, <2>3, <2>4, <2>5, EchoChar
  <2>7. Shown(cga', u)
    BY <1>3, <2>3, <2>6
  <2> QED BY <1>3, <1>4, <2>7 DEF EchoInv, u
<1> QED BY <1>1, <1>5, <1>6, <1>7

(* The characters that are erased vanish from the screen. *)
LEMMA EchoErased ==
  ASSUME RingInv, EchoInv, NEW n \in 0..Gap(input.w, input.e), input' = [input EXCEPT !.e = (@ - n) % UINT],
         cga' = consputc(cga, [j \in 1..n |-> "BACKSPACE"]), mixed' = (mixed /\ input'.e # input.w)
  PROVE  EchoInv'
<1> DEFINE t == EditOf(input)
           u == EditOf(input')
           cs == [j \in 1..n |-> "BACKSPACE"]
<1>1. OkScreen(cga) /\ mixed \in BOOLEAN /\ OkRing(input)
  BY DEF EchoInv, RingInv
<1>2. OkRing(input') /\ u = SubSeq(t, 1, Len(t) - n)
  BY <1>1, EraseRing
<1>3. t \in Seq(Chars) /\ Len(t) = Gap(input.w, input.e) /\ Len(t) \in 0..INPUT_BUF /\ n \in 0..Len(t)
  BY <1>1, RingLengths
<1>4. input'.w = input.w
  BY <1>1 DEF OkRing
<1>5. mixed' \in BOOLEAN
  OBVIOUS
<1>6. OkScreen(cga')
  <2>1. n \in Nat
    <3>1. n \in 0..Len(t) /\ Len(t) \in 0..INPUT_BUF
      BY <1>3
    <3> QED BY <3>1, ConsoleAssumption
  <2>2. cs \in Seq(Written)
    BY <2>1 DEF Written
  <2> HIDE DEF cs
  <2>3. OkScreen(consputc(cga, cs))
    BY <1>1, <2>2, PutsOk
  <2> QED BY <2>3 DEF cs
<1> HIDE DEF t
<1>7. CASE input'.e = input'.w
  <2>1. u = <<>>
    BY <1>2, <1>7, EmptyLine
  <2>2. Shown(cga', u)
    BY <1>6, <2>1, NothingShown
  <2> QED BY <1>5, <1>6, <2>2 DEF EchoInv
<1>8. CASE input'.e # input'.w /\ mixed
  BY <1>4, <1>5, <1>6, <1>8 DEF EchoInv
<1>9. CASE ~mixed
  <2>1. Shown(cga, t)
    BY <1>9 DEF EchoInv, t
  <2>2. Shown(consputc(cga, cs), SubSeq(t, 1, Len(t) - n))
    BY <1>1, <1>3, <2>1, PutsBack
  <2> HIDE DEF u
  <2>3. Shown(cga', u)
    BY <1>2, <2>2
  <2> QED BY <1>5, <1>6, <2>3 DEF EchoInv, u
<1> QED BY <1>1, <1>7, <1>8, <1>9

(* Something else is written. *)
LEMMA EchoMixed ==
  ASSUME RingInv, EchoInv, NEW cs \in Seq(Written), input' = input, cga' = consputc(cga, cs),
         mixed' = (input.e # input.w)
  PROVE  EchoInv'
<1>1. OkScreen(cga') /\ OkRing(input)
  BY PutsOk DEF EchoInv, RingInv
<1>2. mixed' \in BOOLEAN
  OBVIOUS
<1>3. CASE input.e = input.w
  <2>1. EditOf(input') = <<>>
    BY <1>1, <1>3, EmptyLine
  <2>2. Shown(cga', EditOf(input'))
    BY <1>1, <2>1, NothingShown
  <2> QED BY <1>1, <1>2, <2>2 DEF EchoInv
<1>4. CASE input.e # input.w
  BY <1>1, <1>2, <1>4 DEF EchoInv
<1> QED BY <1>3, <1>4

(* How many characters Control-U and Control-H erase. *)
LEMMA HowMany ==
  ASSUME NEW x, OkRing(x)
  PROVE  Erased(x) \in 0..Gap(x.w, x.e) /\ (IF x.e # x.w THEN 1 ELSE 0) \in 0..Gap(x.w, x.e)
<1>1. Erased(x) = Gap(x.w, x.e)
  BY ErasedIs
<1>2. x.w \in Index /\ x.e \in Index /\ Gap(x.w, x.e) \in 0..INPUT_BUF /\ INPUT_BUF \in Nat
  BY RingLengths, ConsoleAssumption
<1>3. Gap(x.w, x.e) = IF x.w <= x.e THEN x.e - x.w ELSE x.e - x.w + UINT
  BY <1>2, GapIs
<1>4. x.e # x.w => 1 <= Gap(x.w, x.e)
  BY <1>2, <1>3, ConsoleAssumption DEF Index
<1>5. Gap(x.w, x.e) \in Nat
  BY <1>2
<1> QED BY <1>1, <1>4, <1>5

(* consoleintr and the screen. *)
LEMMA EchoIntr ==
  ASSUME RingInv, EchoInv, NEW b \in Bytes, consoleintr(b)
  PROVE  EchoInv'
<1> DEFINE d == IF b = "cr" THEN "nl" ELSE b
           x == [input EXCEPT !.buf[Slot(input.e)] = d, !.e = Up(@)]
           n == CASE b = "C-U" -> Erased(input)
                  [] b = "C-H" -> IF input.e # input.w THEN 1 ELSE 0
                  [] OTHER -> 0
<1>1. OkRing(input)
  BY DEF RingInv
<1>2. CASE b = "C-P"
  <2>1. input' = input /\ cga' = consputc(cga, <<"1", "nl">>) /\ mixed' = (input.e # input.w)
    BY <1>2 DEF consoleintr
  <2>2. <<"1", "nl">> \in Seq(Written)
    BY DEF Written, Glyphs
  <2> QED BY <2>1, <2>2, EchoMixed
<1>3. CASE b \in {"C-U", "C-H"}
  <2>1. /\ input' = [input EXCEPT !.e = (@ - n) % UINT]
        /\ cga' = consputc(cga, [j \in 1..n |-> "BACKSPACE"])
        /\ mixed' = (mixed /\ input'.e # input.w)
    BY <1>3 DEF consoleintr
  <2>2. n \in 0..Gap(input.w, input.e)
    <3>1. Erased(input) \in 0..Gap(input.w, input.e) /\ (IF input.e # input.w THEN 1 ELSE 0) \in 0..Gap(input.w, input.e)
      BY <1>1, HowMany
    <3>2. n = Erased(input) \/ n = IF input.e # input.w THEN 1 ELSE 0
      BY <1>3
    <3> HIDE DEF n
    <3> QED BY <3>1, <3>2
  <2> HIDE DEF n
  <2> QED BY <2>1, <2>2, EchoErased
<1>4. CASE b \notin {"0", "C-P", "C-U", "C-H"} /\ HasRoom(input)
  <2>1. /\ input' = IF ReadyAt(x, d) THEN [x EXCEPT !.w = x.e] ELSE x
        /\ cga' = consputc(cga, <<d>>)
        /\ mixed' = (mixed /\ input'.e # input'.w)
    BY <1>4 DEF consoleintr
  <2>2. input' = Put(input, d)
    BY <2>1 DEF Put
  <2>3. d \in Chars
    BY <1>4 DEF Bytes, Chars
  <2> HIDE DEF d, x
  <2>4. Typed(input, input', d)
    BY <1>1, <1>4, <2>2, <2>3, PutTypes
  <2> QED BY <2>1, <2>3, <2>4, EchoTyped
<1>5. CASE b = "0" \/ (~HasRoom(input) /\ b \notin {"C-P", "C-U", "C-H"})
  <2>1. UNCHANGED <<input, cga, mixed>>
    BY <1>5 DEF consoleintr
  <2> QED BY <2>1 DEF EchoInv
<1> QED BY <1>2, <1>3, <1>4, <1>5

(* One step of the console and the screen. *)
LEMMA EchoStep ==
  ASSUME RingInv, EchoInv, [SerialNext \/ KeyNext]_cvars
  PROVE  EchoInv'
<1>1. ASSUME UNCHANGED <<input, cga, mixed>> PROVE EchoInv'
  BY <1>1 DEF EchoInv
<1>2. ASSUME NEW b \in Plain \cup {"nl", "eof", "C-U", "C-H", "C-P"}, uartintr(b) PROVE EchoInv'
  <2>1. b \in Bytes /\ consoleintr(b)
    BY <1>2 DEF Bytes, uartintr
  <2> QED BY <2>1, EchoIntr
<1>3. CASE consolewrite
  <2>1. input' = input /\ cga' = consputc(cga, <<"1", "1">>) /\ mixed' = (input.e # input.w)
    BY <1>3 DEF consolewrite
  <2>2. <<"1", "1">> \in Seq(Written)
    BY DEF Written, Glyphs
  <2> QED BY <2>1, <2>2, EchoMixed
<1>4. ASSUME NEW p \in Readers, consoleread(p) PROVE EchoInv'
  <2> DEFINE i == ReadLoop(input, reader[p].n, reader[p].target).r
  <2>1. input' = [input EXCEPT !.r = i] /\ cga' = cga /\ mixed' = mixed
    BY <1>4 DEF consoleread
  <2> HIDE DEF i
  <2>2. input \in [buf : Buffers, r : Index, w : Index, e : Index]
    BY DEF RingInv, OkRing
  <2>3. input'.buf = input.buf /\ input'.w = input.w /\ input'.e = input.e
    BY <2>1, <2>2
  <2>4. EditOf(input') = EditOf(input)
    BY <2>3 DEF EditOf
  <2> QED BY <2>1, <2>4 DEF EchoInv
<1>5. ASSUME NEW p \in Readers, Kill(p) PROVE EchoInv'
  BY <1>1, <1>5 DEF Kill
<1>6. ASSUME NEW p \in Readers, NEW n \in Counts, ReadStart(p, n) PROVE EchoInv'
  BY <1>1, <1>6 DEF ReadStart
<1>7. CASE kbdintr
  <2> DEFINE g == kbdgetc(kbd, Head(wire))
  <2>1. consoleintr(g.c)
    BY <1>7 DEF kbdintr
  <2>2. g.c \in Bytes
    BY KeyboardBytes
  <2> HIDE DEF g
  <2> QED BY <2>1, <2>2, EchoIntr
<1>8. ASSUME NEW k \in Keys, KeyEvent(k) PROVE EchoInv'
  BY <1>1, <1>8 DEF KeyEvent
<1>9. CASE UNCHANGED cvars
  BY <1>1, <1>9 DEF cvars
<1> QED BY <1>2, <1>3, <1>4, <1>5, <1>6, <1>7, <1>8, <1>9 DEF SerialNext, KeyNext

(* The screen of the boot. *)
LEMMA EchoStart ==
  ASSUME ConInit
  PROVE  EchoInv
<1>1. PICK b \in Begin : cga = [crt |-> [j \in Cell |-> "nul"], pos |-> b[2]]
  BY DEF ConInit
<1>2. b[2] \in 0..Bottom - 1
  BY ConsoleAssumption DEF Bottom
<1> DEFINE i == b[2]
           v == [j \in Cell |-> "nul"]
<1>3. v \in Pictures /\ \A j \in Cell : v[j] = "nul"
  BY DEF Pictures, Glyphs
<1>4. i \in 0..Bottom - 1 /\ cga = [crt |-> v, pos |-> i] /\ mixed = FALSE
  BY <1>1, <1>2 DEF ConInit
<1> HIDE DEF i, v
<1>5. cga = [crt |-> cga.crt, pos |-> cga.pos] /\ cga.crt = v /\ cga.pos = i
  BY <1>4, ScreenIs
<1>6. ASSUME NEW j \in i..Bottom - 1 PROVE v[j] \in {"nul", " "}
  <2>1. j \in 0..Bottom - 1
    BY <1>4, PlacesAbove, Zenon
  <2>2. j \in Cell
    BY <2>1, CellsAbove
  <2> QED BY <1>3, <2>2
<1>7. OkScreen(cga)
  <2>1. i \in 0..Bottom /\ i # Bottom
    BY <1>4, PlacesAbove, Zenon
  <2> QED BY <1>3, <1>5, <1>6, <2>1 DEF OkScreen, Picture
<1>8. RingInv /\ TtySpec!Init
  BY ConStart
<1>9. EditOf(input) = <<>>
  BY <1>8, Mapped DEF TtySpec!Init
<1>10. Shown(cga, EditOf(input))
  BY <1>7, <1>9, NothingShown
<1>11. mixed \in BOOLEAN
  BY <1>4
<1> QED BY <1>7, <1>10, <1>11 DEF EchoInv

(* What the three parts of the invariant say of the console. *)
LEMMA PartsAreEnough ==
  ASSUME RingInv, EchoInv, KeysInv
  PROVE  ConInv
<1>1. ConTypeOK
  <2>1. input \in [buf : Buffers, r : Index, w : Index, e : Index]
        /\ Gap(input.r, input.w) <= Gap(input.r, input.e) /\ Gap(input.r, input.e) <= INPUT_BUF
    BY DEF RingInv, OkRing
  <2>2. /\ input.r \in 0..UINT - 1 /\ input.w \in 0..UINT - 1 /\ input.e \in 0..UINT - 1
        /\ (input.w - input.r) % UINT <= (input.e - input.r) % UINT
        /\ (input.e - input.r) % UINT <= INPUT_BUF
    BY <2>1 DEF Index, Gap
  <2>3. cga.pos \in 0..(ROWS - 1) * COLS - 1
    <3>1. cga.pos \in 0..Bottom - 1
      BY NotBottom DEF EchoInv, OkScreen, Picture
    <3> QED BY <3>1 DEF Bottom
  <2>4. \A p \in Readers : reader[p].st \in {"idle", "ready", "asleep"} /\ reader[p].n <= reader[p].target
    BY DEF RingInv, OkReader
  <2>5. kbd.shift \subseteq {"CTL", "SHIFT", "ALT", "CAPSLOCK", "NUMLOCK", "SCROLLLOCK"}
    BY DEF KeysInv, Shifts
  <2> QED BY <2>2, <2>3, <2>4, <2>5 DEF ConTypeOK
<1>2. EchoExact
  <2>1. Pending = EditOf(input)
    BY Mapped
  <2>2. mixed \/ \A j \in DOMAIN Pending : cga.crt[cga.pos - Len(Pending) + j - 1] = Pending[j]
    <3>1. EditOf(input) \in Seq(Chars)
      BY RingLengths DEF RingInv
    <3>2. DOMAIN Pending = 1..Len(Pending)
      BY <2>1, <3>1
    <3>3. mixed \/ Shown(cga, Pending)
      BY <2>1 DEF EchoInv
    <3> QED BY <3>2, <3>3 DEF Shown, ShownIn
  <2>3. \A j \in cga.pos..(ROWS - 1) * COLS - 1 : cga.crt[j] \in {"nul", " "}
    <3>1. \A j \in cga.pos..Bottom - 1 : cga.crt[j] \in {"nul", " "}
      BY DEF EchoInv, OkScreen, Picture
    <3> QED BY <3>1 DEF Bottom
  <2> QED BY <2>2, <2>3 DEF EchoExact
<1>3. ModifiersTrue
  <2>1. ASSUME wire = <<>> PROVE Known(kbd.shift, down)
    BY <2>1 DEF KeysInv
  <2> QED BY <2>1 DEF ModifiersTrue, Known
<1> QED BY <1>1, <1>2, <1>3 DEF ConInv

(* For every size of the ring and of the screen, wherever the indices and  *)
(* the cursor begin: r, w and e stay in order and at most INPUT_BUF apart, *)
(* the cursor never gets to the last row, in front of it stands the line   *)
(* that will be read unless something else was written into it, and no     *)
(* modifier is stuck or forgotten (consoleintr, consoleread, cgaputc,      *)
(* kbdgetc).                                                               *)
THEOREM ConsoleInvariant == ConSpec => []ConInv
<1> DEFINE I == RingInv /\ EchoInv /\ KeysInv
<1>1. ConInit => I
  BY ConStart, EchoStart, KeysStart
<1>2. I /\ [SerialNext \/ KeyNext]_cvars => I'
  BY ConStep, EchoStep, KeysStep
<1>3. I => ConInv
  BY PartsAreEnough
<1> HIDE DEF I
<1> QED BY <1>1, <1>2, <1>3, PTL DEF ConSpec
=============================================================================
