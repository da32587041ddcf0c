----------------------------- MODULE AtomicDisk -----------------------------
(***************************************************************************)
(* What the logging layer promises to the file system above it.            *)
(*                                                                         *)
(* File-system calls run concurrently and write blocks in memory.  What a  *)
(* crash leaves behind, durable, only ever changes by taking over the      *)
(* whole of memory, and only at a moment when no call is in progress: a    *)
(* crash loses recent calls, never a part of one.                          *)
(***************************************************************************)
CONSTANTS Proc,    \* processes that make file-system calls
          Block,   \* home block numbers
          Val      \* contents of a block

VARIABLES durable, \* contents of the disk as a crash and a recovery would leave it
          mem,     \* contents of the blocks as the running system sees them
          active   \* processes between begin_op and end_op

vars == <<durable, mem, active>>

Init == /\ durable \in [Block -> Val]
        /\ mem = durable
        /\ active = {}

Begin(p) == /\ p \notin active
            /\ active' = active \cup {p}
            /\ UNCHANGED <<durable, mem>>

Write(p, b, v) == /\ p \in active
                  /\ mem' = [mem EXCEPT ![b] = v]
                  /\ UNCHANGED <<durable, active>>

End(p) == /\ p \in active
          /\ active' = active \ {p}
          /\ UNCHANGED <<durable, mem>>

Commit == /\ active = {}
          /\ durable' = mem
          /\ UNCHANGED <<mem, active>>

Crash == /\ mem' = durable
         /\ active' = {}
         /\ UNCHANGED durable

Next == \/ \E p \in Proc : Begin(p) \/ End(p)
        \/ \E p \in Proc, b \in Block, v \in Val : Write(p, b, v)
        \/ Commit
        \/ Crash

Spec == Init /\ [][Next]_vars
=============================================================================
