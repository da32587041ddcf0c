----------------------------- MODULE MCSyncLog -----------------------------
(* Instances of SyncLog for TLC. *)
EXTENDS SyncLog, TLC

CONSTANTS p1, p2, b1, b2, b3, v1, v2

MCOneTwo == {{p1}, {p1, p2}}
MCTwo    == {{p1, p2}}
MCProc2  == {p1, p2}
MCBlock2 == {b1, b2}
MCBlock3 == {b1, b2, b3}
MCVal1   == {v1}
MCVal2   == {v1, v2}

(* Blocks and contents are only ever compared for equality. *)
Symm == Permutations(Block) \cup Permutations(Val)
=============================================================================
