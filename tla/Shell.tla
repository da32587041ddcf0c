------------------------------- MODULE Shell -------------------------------
(***************************************************************************)
(* The parser of sh.c: recursive descent over the characters of a line.    *)
(* A position in the line stands for a pointer into the buffer, and the    *)
(* character after the last is NUL.  The printing of messages is left out; *)
(* an error is the message that panic is given.                            *)
(***************************************************************************)
EXTENDS Integers, Sequences, FiniteSets, FiniteSetsExt, Functions

CONSTANTS
  MAXARGS,    \* size of argv
  Lines,      \* lines to start with
  Chars,      \* characters that may follow
  MaxTyped    \* bound: how many follow

VARIABLES line, typed

whitespace == {" "}
symbols    == {"<", "|", ">", "&", ";", "(", ")"}

Es == Len(line) + 1
Char(i) == IF i < Es THEN line[i] ELSE "nul"

SkipSpace(i) == Min({j \in i..Es : Char(j) \notin whitespace})
WordEnd(i)   == Min({j \in i..Es : j = Es \/ Char(j) \in whitespace \cup symbols})

(* The token at i: what it is, where it starts and ends, what comes next. *)
Kind(q, c) == IF c = "nul" THEN "end" ELSE IF c = ">" /\ Char(q + 1) = ">" THEN "+"
              ELSE IF c \in symbols THEN c ELSE "a"
TokenEnd(q, tok) ==
  CASE tok = "end" -> q [] tok = "+" -> q + 2 [] tok = "a" -> WordEnd(q) [] OTHER -> q + 1
gettoken(i) ==
  LET Upto(q, tok, eq) == [tok |-> tok, q |-> q, eq |-> eq, s |-> SkipSpace(eq)]
      Of(q, tok) == Upto(q, tok, TokenEnd(q, tok))
      At(q) == Of(q, Kind(q, Char(q)))
  IN  At(SkipSpace(i))

peek(i, toks) == Char(SkipSpace(i)) \in toks

Err(m)     == [err |-> m, s |-> 0, cmd |-> <<>>]
Got(c, i)  == [err |-> "none", s |-> i, cmd |-> c]
Failed(r)  == r.err # "none"
Node(type, kids) == [type |-> type, kids |-> kids, words |-> <<>>]

(* Redirections wrap the command they follow, the last one outermost. *)
RECURSIVE parseredirs(_, _)
parseredirs(cmd, i) ==
  LET To(tok, f) ==
        IF f.tok # "a" THEN Err("missing file for redirection")
        ELSE parseredirs([Node(tok, <<cmd>>) EXCEPT !.words = <<<<f.q, f.eq>>>>], f.s)
      By(t) == To(t.tok, gettoken(t.s))
  IN  IF peek(i, {"<", ">"}) THEN By(gettoken(i)) ELSE Got(cmd, i)

(* The argument goes to the EXEC node, inside what wraps it. *)
RECURSIVE AddArg(_, _)
AddArg(cmd, w) ==
  IF cmd.type = "EXEC" THEN [cmd EXCEPT !.words = Append(@, w)]
  ELSE [cmd EXCEPT !.kids = <<AddArg(cmd.kids[1], w)>>]

StopsLate == {"|", "&", ";"}
Stops == {"|", ")", "&", ";"}
RECURSIVE ParseArgs(_, _, _)
ParseArgs(cmd, argc, i) ==
  LET Go(r) == IF Failed(r) THEN r ELSE ParseArgs(r.cmd, argc + 1, r.s)
      Arg(t) ==
        IF t.tok = "end" THEN Got(cmd, i)
        ELSE IF t.tok # "a" THEN Err("syntax")
        ELSE IF argc + 1 >= MAXARGS THEN Err("too many args")
        ELSE Go(parseredirs(AddArg(cmd, <<t.q, t.eq>>), t.s))
  IN  IF peek(i, Stops) THEN Got(cmd, i) ELSE Arg(gettoken(i))

RECURSIVE parseline(_)
parseblock(i) ==
  LET Close(r) == IF Failed(r) THEN r
                  ELSE IF ~peek(r.s, {")"}) THEN Err("syntax - missing )")
                  ELSE parseredirs(r.cmd, gettoken(r.s).s)
  IN  Close(parseline(gettoken(i).s))

parseexec(i) ==
  LET Args(r) == IF Failed(r) THEN r ELSE ParseArgs(r.cmd, 0, r.s)
  IN  IF peek(i, {"("}) THEN parseblock(i) ELSE Args(parseredirs(Node("EXEC", <<>>), i))

(* Two commands in one; the second one may have failed. *)
Both(type, l, r) == IF Failed(r) THEN r ELSE Got(Node(type, <<l.cmd, r.cmd>>), r.s)

RECURSIVE parsepipe(_)
parsepipe(i) ==
  LET Right(l) == IF Failed(l) \/ ~peek(l.s, {"|"}) THEN l
                  ELSE Both("PIPE", l, parsepipe(gettoken(l.s).s))
  IN  Right(parseexec(i))

RECURSIVE Back(_)
Back(l) == IF Failed(l) \/ ~peek(l.s, {"&"}) THEN l
           ELSE Back(Got(Node("BACK", <<l.cmd>>), gettoken(l.s).s))

parseline(i) ==
  LET Right(l) == IF Failed(l) \/ ~peek(l.s, {";"}) THEN l
                  ELSE Both("LIST", l, parseline(gettoken(l.s).s))
  IN  Right(Back(parsepipe(i)))

parsecmd ==
  LET All(r) == IF Failed(r) THEN r ELSE IF SkipSpace(r.s) # Es THEN Err("leftovers") ELSE r
  IN  All(parseline(1))

(* The words of a tree, depth first: arguments, and after what they wrap   *)
(* the files of redirections.                                              *)
RECURSIVE WordsOf(_)
WordsOf(cmd) ==
  (IF Len(cmd.kids) > 0 THEN WordsOf(cmd.kids[1]) ELSE <<>>) \o cmd.words
  \o (IF Len(cmd.kids) > 1 THEN WordsOf(cmd.kids[2]) ELSE <<>>)

(* nulterminate puts a NUL after each word. *)
nulterminate(cmd) == {w[2] : w \in Range(WordsOf(cmd))}

Type(c) == typed < MaxTyped /\ line' = Append(line, c) /\ typed' = typed + 1
ShNext == \E c \in Chars : Type(c)
-----------------------------------------------------------------------------
(* The grammar of the shell, for the tokens i to j - 1 of the line. *)
RECURSIVE TokensFrom(_)
TokensFrom(i) ==
  LET On(t) == IF t.tok = "end" THEN <<>> ELSE <<t>> \o TokensFrom(t.s) IN On(gettoken(i))

IsRedir(T, i) == T[i].tok \in {"<", ">", "+"} /\ i + 1 \in DOMAIN T /\ T[i + 1].tok = "a"

RECURSIVE Redirs(_, _, _)
Redirs(T, i, j) == i = j \/ (i + 2 <= j /\ IsRedir(T, i) /\ Redirs(T, i + 2, j))

RECURSIVE Simple(_, _, _, _)
Simple(T, i, j, n) ==
  \/ i = j
  \/ i < j /\ T[i].tok = "a" /\ n + 1 < MAXARGS /\ Simple(T, i + 1, j, n + 1)
  \/ i + 2 <= j /\ IsRedir(T, i) /\ Simple(T, i + 2, j, n)

RECURSIVE IsLine(_, _, _)
IsExec(T, i, j) ==
  \/ Simple(T, i, j, 0)
  \/ /\ i < j /\ T[i].tok = "("
     /\ \E k \in i + 1..j - 1 : T[k].tok = ")" /\ IsLine(T, i + 1, k) /\ Redirs(T, k + 1, j)
RECURSIVE IsPipe(_, _, _)
IsPipe(T, i, j) ==
  \/ IsExec(T, i, j)
  \/ \E k \in i..j - 1 : T[k].tok = "|" /\ IsExec(T, i, k) /\ IsPipe(T, k + 1, j)
RECURSIVE IsBack(_, _, _)
IsBack(T, i, j) == IsPipe(T, i, j) \/ (i < j /\ T[j - 1].tok = "&" /\ IsBack(T, i, j - 1))
IsLine(T, i, j) ==
  \/ IsBack(T, i, j)
  \/ \E k \in i..j - 1 : T[k].tok = ";" /\ IsBack(T, i, k) /\ IsLine(T, k + 1, j)

(* The recursive descent, which never goes back, accepts exactly the lines *)
(* of the grammar (parseline, parsepipe, parseexec, parseblock).           *)
ShAccepts(r, T) == ~Failed(r) <=> IsLine(T, 1, Len(T) + 1)

(* What is accepted is all there: each word of the line is in the tree     *)
(* once, the files of redirections where a redirection says so, arguments  *)
(* in their order, and the left side of a pipe or list before the right.   *)
RECURSIVE Ordered(_)
Ordered(cmd) ==
  LET Pos(c) == {w[1] : w \in Range(WordsOf(c))}
  IN  /\ \A j \in 1..Len(cmd.words) - 1 : cmd.words[j][2] <= cmd.words[j + 1][1]
      /\ \A j \in DOMAIN cmd.kids : Ordered(cmd.kids[j])
      /\ Len(cmd.kids) = 2 => \A a \in Pos(cmd.kids[1]), b \in Pos(cmd.kids[2]) : a < b
RECURSIVE FilesOf(_)
FilesOf(cmd) ==
  UNION {FilesOf(cmd.kids[j]) : j \in DOMAIN cmd.kids}
  \cup (IF cmd.type = "EXEC" THEN {} ELSE {cmd.words[j][1] : j \in DOMAIN cmd.words})
ShKeeps(r, T, W) ==
  LET words == {j \in DOMAIN T : T[j].tok = "a"}
  IN  /\ Range(W) = {<<T[j].q, T[j].eq>> : j \in words}
      /\ Len(W) = Cardinality(words)
      /\ FilesOf(r.cmd) = {T[j].q : j \in {h \in words : h > 1 /\ T[h - 1].tok \in {"<", ">", "+"}}}
      /\ Ordered(r.cmd)

(* The NULs end each word where it should end, and cut no other word. *)
ShStrings(r, W) ==
  \A j \in DOMAIN W : Min({i \in nulterminate(r.cmd) \cup {Es} : i >= W[j][1]}) = W[j][2]

(* The shell's parser takes the lines of its grammar, keeps every word and *)
(* file with its command, and ends each string in its place (parsecmd,     *)
(* parseexec, parseredirs, nulterminate).                                  *)
ShellExact ==
  \A r \in {parsecmd}, T \in {TokensFrom(1)} :
    /\ ShAccepts(r, T)
    /\ ~Failed(r) => \A W \in {WordsOf(r.cmd)} : ShKeeps(r, T, W) /\ ShStrings(r, W)
=============================================================================
