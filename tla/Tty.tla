-------------------------------- MODULE Tty --------------------------------
(***************************************************************************)
(* What the console promises its readers: a line that is edited, a text    *)
(* that is ready, and reads that take from its front.  Together the two    *)
(* never hold more than Room characters, and a line that reaches that      *)
(* length is ready without its end.                                        *)
(***************************************************************************)
EXTENDS Integers, Sequences, FiniteSetsExt

CONSTANTS Room, Plain, Readers

VARIABLES edit, ready, taken      \* taken: what a read in progress has got

Key(c) ==
  /\ Len(edit) + Len(ready) < Room
  /\ UNCHANGED taken
  /\ IF c \in {"nl", "eof"} \/ Len(edit) + Len(ready) + 1 = Room
     THEN ready' = ready \o Append(edit, c) /\ edit' = <<>>
     ELSE edit' = Append(edit, c) /\ UNCHANGED ready

Erase ==
  /\ edit # <<>>
  /\ edit' \in {SubSeq(edit, 1, Len(edit) - 1), <<>>}
  /\ UNCHANGED <<ready, taken>>

(* A read takes characters up to the end of a line, and stops in front of  *)
(* an end of file unless it has got nothing: then it takes the end of file *)
(* and no character.                                                       *)
Take(p) ==
  \E k \in 1..Len(ready) :
    LET s == SubSeq(ready, 1, k)
    IN  /\ \A j \in 1..k - 1 : s[j] # "nl"
        /\ \A j \in 1..k : s[j] = "eof" => k = 1 /\ taken[p] = <<>>
        /\ ready' = SubSeq(ready, k + 1, Len(ready))
        /\ taken' = [taken EXCEPT ![p] = IF s = <<"eof">> THEN s ELSE @ \o s]
        /\ UNCHANGED edit

Over(p) == taken' = [taken EXCEPT ![p] = <<>>] /\ UNCHANGED <<edit, ready>>

Init == edit = <<>> /\ ready = <<>> /\ taken = [p \in Readers |-> <<>>]
Next == (\E c \in Plain \cup {"nl", "eof"} : Key(c)) \/ Erase \/ \E p \in Readers : Take(p) \/ Over(p)
Spec == Init /\ [][Next]_<<edit, ready, taken>>
=============================================================================
