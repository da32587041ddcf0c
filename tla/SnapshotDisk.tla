---------------------------- MODULE SnapshotDisk ----------------------------
(***************************************************************************)
(* What the buffered log of pj3 still promises: blocks are written in      *)
(* memory, sync takes over the whole of memory at one moment, and a crash  *)
(* returns to the last such moment.  Unlike AtomicDisk it does not know    *)
(* of file-system calls: the moment may lie within one.                    *)
(***************************************************************************)
CONSTANTS Block,   \* home block numbers
          Val      \* contents of a block

VARIABLES durable, \* contents of the disk as a crash and a recovery would leave it
          mem      \* contents of the blocks as the running system sees them

vars == <<durable, mem>>

Init == durable \in [Block -> Val] /\ mem = durable

Write(b, v) == mem' = [mem EXCEPT ![b] = v] /\ UNCHANGED durable

Sync == durable' = mem /\ UNCHANGED mem

Crash == mem' = durable /\ UNCHANGED durable

Next == (\E b \in Block, v \in Val : Write(b, v)) \/ Sync \/ Crash

Spec == Init /\ [][Next]_vars
=============================================================================
