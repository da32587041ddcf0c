------------------------------- MODULE MCLog -------------------------------
(* The instance of Log for TLC. *)
EXTENDS Log

CONSTANTS p1, p2, p3, b1, b2, v1, v2

MCProc3  == {p1, p2, p3}
MCBlock2 == {b1, b2}
MCVal2   == {v1, v2}
=============================================================================
