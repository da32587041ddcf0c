----------------------------- MODULE Sequential -----------------------------
(***************************************************************************)
(* The parts in which nothing interleaves, side by side: the library, the  *)
(* tools, the allocator, the shell's parser, and the contents of inodes    *)
(* from the image that mkfs makes.  A behaviour belongs to one of them,    *)
(* which part says.                                                        *)
(***************************************************************************)
EXTENDS Shell, Lib, Umalloc, Mkfs

VARIABLE part

ulvars == <<part, line, typed, lvars, mvars, fs>>

Parts == {"sh", "mem", "num", "text", "heap", "files"}
TextChars == {"a", "nl", " ", "%", "d", "s", "c", "/"}

ULInit ==
  /\ part \in Parts
  /\ mem = IF part = "mem" THEN [j \in Cells |-> 0] ELSE <<>>
  /\ num = (IF part = "num" THEN 0 ELSE -1) /\ text = <<>>
  /\ typed = 0 /\ line \in (IF part = "sh" THEN Lines ELSE {<<>>})
  /\ hdr = [a \in Addrs |-> None] /\ freep = -1 /\ given = {}
  /\ brk \in (IF part = "heap" THEN {1, 2} ELSE {1}) /\ foreign = 1..brk - 1
  /\ IF part = "files" THEN InodeInit ELSE fs = mk_balloc(Blank)

ULNext ==
  /\ UNCHANGED part
  /\ \/ part = "sh" /\ ShNext /\ UNCHANGED <<lvars, mvars, fs>>
     \/ part = "heap" /\ MNext /\ UNCHANGED <<line, typed, lvars, fs>>
     \/ part = "files" /\ InodeNext /\ UNCHANGED <<line, typed, lvars, mvars>>
     \/ /\ UNCHANGED <<line, typed, mvars, fs>>
        /\ \/ part = "mem" /\ \E j \in Cells, c \in 0..CHARS : Store(j, c)
           \/ part = "num" /\ CountUp
           \/ part = "text" /\ \E c \in TextChars : Append1(c)

ULSpec == ULInit /\ [][ULNext]_ulvars

MCLines == {<<>>, <<"(", "a", "|", "a", ")">>, <<"a", ">", "a">>, <<"(", "a", ";">>}
=============================================================================
