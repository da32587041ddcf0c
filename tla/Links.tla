------------------------------- MODULE Links -------------------------------
(***************************************************************************)
(* Singly linked lists threaded through a table of slots, as the run       *)
(* queues of pj1 and the thread lists of pj2 are.  t.next[p] is the slot   *)
(* behind p and 0 the null pointer.                                        *)
(***************************************************************************)
EXTENDS Integers, FiniteSets, FiniteSetsExt, Functions

(* Walking a list: the slot reached after n steps from h, 0 at its end. *)
Path(t, h) ==
  LET f[n \in 0..Cardinality(DOMAIN t.next)] ==
        IF n = 0 THEN h ELSE LET p == f[n - 1] IN IF p = 0 THEN 0 ELSE t.next[p]
  IN  f

Nodes(t, h) == Range(Path(t, h)) \ {0}

(* The walk reaches a null pointer; otherwise the list has a cycle. *)
Ends(t, h) == Path(t, h)[Cardinality(DOMAIN t.next)] = 0

LastNode(t, h) == CHOOSE p \in Nodes(t, h) : t.next[p] = 0

(* Steps from h to the first slot of S. *)
Steps(t, h, S) == Min({n \in DOMAIN Path(t, h) : Path(t, h)[n] \in S})
=============================================================================
