----------------------------- MODULE ByteFiles -----------------------------
(***************************************************************************)
(* What the inode layer promises: a file is a sequence of words.  A write  *)
(* may start anywhere up to the end of the file; it replaces what it       *)
(* overlaps and appends the rest.  A call changes no file but its own.     *)
(***************************************************************************)
EXTENDS Integers, Sequences

CONSTANTS Inums,          \* names of files
          Chunks,         \* lengths of writes
          Tags,           \* what tells one write from another
          Data(_, _, _, _) \* words written: file, offset, length, tag

VARIABLE files            \* the words of each file, and whether it exists

NoFile == [live |-> FALSE, words |-> <<>>]

Init == \A i \in Inums : ~files[i].live => files[i] = NoFile

(* old with ws written at off. *)
Overwrite(old, off, ws) ==
  SubSeq(old, 1, off) \o ws \o SubSeq(old, off + Len(ws) + 1, Len(old))

(* The steps from old to new files. *)
Create(old, new, i) ==
  ~old[i].live /\ new = [old EXCEPT ![i].live = TRUE]

Delete(old, new, i) ==
  old[i].live /\ new = [old EXCEPT ![i] = NoFile]

Write(old, new, i, off, ws) ==
  old[i].live /\ new = [old EXCEPT ![i].words = Overwrite(@, off, ws)]

Next ==
  LET old == files
      new == files'
  IN  \E i \in Inums :
        \/ Create(old, new, i) \/ Delete(old, new, i)
        \/ \E off \in 0..Len(old[i].words), n \in Chunks, g \in Tags :
             Write(old, new, i, off, Data(i, off, n, g))

Spec == Init /\ [][Next]_files
=============================================================================
