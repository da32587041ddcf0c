-------------------------------- MODULE Log --------------------------------
(***************************************************************************)
(* The write-ahead log of the pj1 and pj2 kernels (log.c, the same file in *)
(* both): begin_op/end_op group the block writes of concurrent             *)
(* file-system calls into one transaction, the last end_op commits it, and *)
(* initlog replays a committed transaction after a crash.                  *)
(*                                                                         *)
(* Every critical section under log.lock is one step, and so is every      *)
(* write of one disk block; a crash may fall between any two steps.  The   *)
(* buffer cache appears as what it shows its users: the contents of every  *)
(* block.  Blocks in lh are pinned (B_DIRTY), all others can be re-read.   *)
(***************************************************************************)
EXTENDS Integers, Sequences, FiniteSets, Functions

CONSTANTS
  Proc,         \* processes making file-system calls
  Block,        \* home block numbers
  Val,          \* contents of a block
  MAXOPBLOCKS,  \* param.h: blocks begin_op reserves for one call
  LOGSIZE,      \* param.h: capacity of logheader.block
  nlog,         \* superblock: blocks of the on-disk log, its header included
  OpBlocks      \* distinct blocks one call writes at most (the callers' side)

ASSUME LogAssumption ==
  /\ IsFiniteSet(Proc)
  /\ IsFiniteSet(Block)
  /\ MAXOPBLOCKS \in Nat \ {0}
  /\ LOGSIZE \in Nat /\ LOGSIZE >= 2 * MAXOPBLOCKS
  /\ nlog \in Nat
  /\ OpBlocks \in 1..MAXOPBLOCKS

VARIABLES
  disk,         \* on disk: home locations
  logblk,       \* on disk: log blocks, at log.start+1 ..
  hdr,          \* on disk: the header block, the block numbers it lists
  cache,        \* memory: what bread returns
  lh,           \* memory: log.lh, the block numbers logged so far
  outstanding,  \* memory: log.outstanding
  committing,   \* memory: log.committing
  booting,      \* initlog has not finished since the last crash
  phase,        \* where commit or recover_from_log stands
  tail,         \* loop variable of write_log and install_trans, from 1
  pc,           \* where each process stands
  wrote,        \* blocks the current call of each process has logged
  pend,         \* the block of the log_write in progress (set of at most one)
  panicked      \* panic() was called

diskVars == <<disk, logblk, hdr>>
procVars == <<pc, wrote, pend>>
vars == <<disk, logblk, hdr, cache, lh, outstanding, committing, booting,
          phase, tail, pc, wrote, pend, panicked>>

Active == {p \in Proc : pc[p] \in {"op", "log_write"}}
-----------------------------------------------------------------------------
(* Power on: a file system image whose log is empty, initlog about to run. *)
Init ==
  /\ disk \in [Block -> Val]
  /\ logblk \in [1..LOGSIZE -> Val]
  /\ hdr = <<>>
  /\ cache = disk
  /\ lh = <<>>
  /\ outstanding = 0
  /\ committing = FALSE
  /\ booting = TRUE
  /\ phase = "read_head"
  /\ tail = 1
  /\ pc = [p \in Proc |-> "idle"]
  /\ wrote = [p \in Proc |-> {}]
  /\ pend = [p \in Proc |-> {}]
  /\ panicked = FALSE

(* wakeup(&log): every process asleep in begin_op looks again. *)
WakeupNone(f) == f
Wakeup(f) == [p \in Proc |-> IF f[p] = "sleep" THEN "begin" ELSE f[p]]

(* begin_op's test that this call might exhaust the log. *)
NoSpaceOthers == Len(lh) + outstanding * MAXOPBLOCKS > LOGSIZE
NoSpace == Len(lh) + (outstanding + 1) * MAXOPBLOCKS > LOGSIZE

(* begin_op, one pass of its loop under log.lock. *)
BeginOp(p) ==
  /\ ~booting /\ ~panicked
  /\ pc[p] \in {"idle", "begin"}
  /\ \/ /\ committing \/ NoSpace
        /\ pc' = [pc EXCEPT ![p] = "sleep"]
        /\ UNCHANGED <<outstanding, wrote>>
     \/ /\ ~committing /\ ~NoSpace
        /\ outstanding' = outstanding + 1
        /\ pc' = [pc EXCEPT ![p] = "op"]
        /\ wrote' = [wrote EXCEPT ![p] = {}]
  /\ UNCHANGED <<diskVars, cache, lh, committing, booting, phase, tail, pend,
                 panicked>>

(* A caller changes a buffer it holds locked and enters log_write: the two *)
(* tests before acquire(&log.lock).                                        *)
LogWriteCheck(p, b, v) ==
  /\ ~booting /\ ~panicked
  /\ pc[p] = "op"
  /\ Cardinality(wrote[p] \cup {b}) <= OpBlocks
  /\ \A q \in Proc : b \notin pend[q]
  /\ cache' = [cache EXCEPT ![b] = v]
  /\ IF Len(lh) >= LOGSIZE \/ Len(lh) + 1 >= nlog \/ outstanding < 1
       THEN panicked' = TRUE /\ UNCHANGED <<pc, pend>>
       ELSE /\ pc' = [pc EXCEPT ![p] = "log_write"]
            /\ pend' = [pend EXCEPT ![p] = {b}]
            /\ UNCHANGED panicked
  /\ UNCHANGED <<diskVars, lh, outstanding, committing, booting, phase, tail,
                 wrote>>

(* log absorption: a block already listed is not listed again. *)
AbsorbNever(s, b) == Append(s, b)
Absorb(s, b) == IF b \in Range(s) THEN s ELSE Append(s, b)

(* log_write under log.lock: absorb the block or append it. *)
LogWriteAppend(p) ==
  /\ ~booting /\ ~panicked
  /\ pc[p] = "log_write"
  /\ \E b \in pend[p] :
       /\ lh' = Absorb(lh, b)
       /\ wrote' = [wrote EXCEPT ![p] = @ \cup {b}]
  /\ pend' = [pend EXCEPT ![p] = {}]
  /\ pc' = [pc EXCEPT ![p] = "op"]
  /\ UNCHANGED <<diskVars, cache, outstanding, committing, booting, phase, tail,
                 panicked>>

(* end_op: this was the last call in progress. *)
LastCallAny == outstanding >= 1
LastCall == outstanding = 1

(* end_op's first critical section.  With other calls still running it     *)
(* wakes the waiters, for their share of the log is free; the last one     *)
(* goes on to commit, which does nothing on an empty transaction.          *)
EndOp(p) ==
  /\ ~booting /\ ~panicked
  /\ pc[p] = "op"
  /\ outstanding' = outstanding - 1
  /\ wrote' = [wrote EXCEPT ![p] = {}]
  /\ IF committing
       THEN panicked' = TRUE /\ UNCHANGED <<committing, phase, tail, pc>>
       ELSE /\ \/ /\ LastCall
                  /\ committing' = TRUE
                  /\ phase' = IF Len(lh) > 0 THEN "write_log" ELSE "done"
                  /\ tail' = 1
                  /\ pc' = [pc EXCEPT ![p] = "commit"]
               \/ /\ ~LastCall
                  /\ pc' = Wakeup([pc EXCEPT ![p] = "idle"])
                  /\ UNCHANGED <<committing, phase, tail>>
            /\ UNCHANGED panicked
  /\ UNCHANGED <<diskVars, cache, lh, booting, pend>>
-----------------------------------------------------------------------------
(* commit(), one disk write per step. *)

(* The loops of write_log and install_trans stop after this block. *)
LoopEndsEarly == tail + 1 >= Len(lh)
LoopEnds == tail = Len(lh)

(* write_log: copy the next modified block from the cache to the log. *)
WriteLog ==
  /\ phase = "write_log"
  /\ logblk' = [logblk EXCEPT ![tail] = cache[lh[tail]]]
  /\ tail' = tail + 1
  /\ phase' = IF LoopEnds THEN "write_head" ELSE phase
  /\ UNCHANGED <<disk, hdr, cache, lh, outstanding, committing, booting,
                 procVars, panicked>>

(* write_head with lh.n > 0: the commit point. *)
WriteHead ==
  /\ phase = "write_head"
  /\ hdr' = lh
  /\ tail' = 1
  /\ phase' = "install_trans"
  /\ UNCHANGED <<disk, logblk, cache, lh, outstanding, committing, booting,
                 procVars, panicked>>

(* install_trans: the next log block goes to its home location, through    *)
(* the buffer of that block.  recover_from_log runs the same loop.         *)
InstallTrans ==
  /\ phase = "install_trans"
  /\ disk' = [disk EXCEPT ![lh[tail]] = logblk[tail]]
  /\ cache' = [cache EXCEPT ![lh[tail]] = logblk[tail]]
  /\ tail' = tail + 1
  /\ phase' = IF LoopEnds THEN "erase" ELSE phase
  /\ UNCHANGED <<logblk, hdr, lh, outstanding, committing, booting, procVars,
                 panicked>>

(* log.lh.n = 0 and the second write_head, of commit and of recovery. *)
Erase ==
  /\ phase = "erase"
  /\ lh' = <<>>
  /\ hdr' = <<>>
  /\ tail' = 1
  /\ booting' = FALSE
  /\ phase' = IF booting THEN "none" ELSE "done"
  /\ UNCHANGED <<disk, logblk, cache, outstanding, committing, procVars, panicked>>

(* end_op's last critical section, after commit returned. *)
CommitDone(p) ==
  /\ ~panicked
  /\ phase = "done"
  /\ pc[p] = "commit"
  /\ committing' = FALSE
  /\ phase' = "none"
  /\ pc' = Wakeup([pc EXCEPT ![p] = "idle"])
  /\ UNCHANGED <<diskVars, cache, lh, outstanding, booting, tail, wrote, pend,
                 panicked>>

Commit == ~panicked /\ (WriteLog \/ WriteHead \/ InstallTrans \/ Erase)
-----------------------------------------------------------------------------
(* Power failure, or a restart after a panic: memory is gone and the disk  *)
(* stays.  forkret calls initlog before any process makes a call.          *)
Crash ==
  /\ cache' = disk
  /\ lh' = <<>>
  /\ outstanding' = 0
  /\ committing' = FALSE
  /\ booting' = TRUE
  /\ phase' = "read_head"
  /\ tail' = 1
  /\ pc' = [p \in Proc |-> "idle"]
  /\ wrote' = [p \in Proc |-> {}]
  /\ pend' = [p \in Proc |-> {}]
  /\ panicked' = FALSE
  /\ UNCHANGED diskVars

(* recover_from_log: read_head; install_trans and the erasing write_head   *)
(* follow.                                                                 *)
ReadHead ==
  /\ ~panicked
  /\ phase = "read_head"
  /\ lh' = hdr
  /\ phase' = IF hdr = <<>> THEN "erase" ELSE "install_trans"
  /\ tail' = 1
  /\ UNCHANGED <<diskVars, cache, outstanding, committing, booting, procVars,
                 panicked>>

Next ==
  \/ \E p \in Proc : BeginOp(p) \/ LogWriteAppend(p) \/ EndOp(p) \/ CommitDone(p)
  \/ \E p \in Proc, b \in Block, v \in Val : LogWriteCheck(p, b, v)
  \/ Commit
  \/ ReadHead
  \/ Crash

Spec == Init /\ [][Next]_vars

(* A process running a file-system call goes on (the scheduler runs every  *)
(* runnable process again and again) and the call logs finitely many       *)
(* blocks, so it reaches its end_op; the disk completes every request.     *)
(* Nothing is assumed of crashes, nor of processes making calls.           *)
Fairness ==
  /\ \A p \in Proc : /\ WF_vars(LogWriteAppend(p))
                     /\ SF_vars(EndOp(p))
                     /\ WF_vars(CommitDone(p))
  /\ WF_vars(Commit)
  /\ WF_vars(ReadHead)

FairSpec == Spec /\ Fairness
-----------------------------------------------------------------------------
(* What a crash now, followed by a complete recovery, would leave on disk. *)
Recovered ==
  [b \in Block |->
     IF b \in Range(hdr)
       THEN logblk[CHOOSE i \in DOMAIN hdr : hdr[i] = b]
       ELSE disk[b]]

(* Unspent entitlements of the running calls, one pair for each block a    *)
(* call may still log.                                                     *)
Tokens == {t \in Active \X (1..OpBlocks) : t[2] > Cardinality(wrote[t[1]])}

Phases == {"none", "write_log", "write_head", "install_trans", "erase", "done",
           "read_head"}

(* Types of the variables of the log. *)
TypeOK ==
  /\ disk \in [Block -> Val]
  /\ logblk \in [1..LOGSIZE -> Val]
  /\ hdr \in Seq(Block)
  /\ cache \in [Block -> Val]
  /\ lh \in Seq(Block)
  /\ outstanding \in Nat
  /\ committing \in BOOLEAN
  /\ booting \in BOOLEAN
  /\ phase \in Phases
  /\ tail \in Nat \ {0}
  /\ pc \in [Proc -> {"idle", "begin", "sleep", "op", "log_write", "commit"}]
  /\ wrote \in [Proc -> SUBSET Block]
  /\ pend \in [Proc -> SUBSET Block]
  /\ panicked \in BOOLEAN

Distinct(s) == \A i, j \in DOMAIN s : s[i] = s[j] => i = j

(* Which phase goes with which flags, and who is where in it. *)
PhaseInv ==
  /\ phase = "read_head" => booting /\ ~committing /\ lh = <<>>
  /\ phase \in {"install_trans", "erase"} => (committing <=> ~booting)
  /\ phase \in {"write_log", "write_head", "done"} => committing /\ ~booting
  /\ phase = "none" => ~committing /\ ~booting
  /\ phase = "done" => lh = <<>>
  /\ phase \in {"write_log", "install_trans"} => tail <= Len(lh)
  /\ phase = "write_head" => lh # <<>>
  /\ booting => pc = [p \in Proc |-> "idle"]
  /\ committing => Active = {} /\ ~panicked
  /\ phase = "none" /\ Active = {} => lh = <<>>
  /\ outstanding = Cardinality(Active)

(* One process commits, while log.committing is set. *)
CommitterInv ==
  /\ committing <=> \E p \in Proc : pc[p] = "commit"
  /\ \A p, q \in Proc : pc[p] = "commit" /\ pc[q] = "commit" => p = q

(* Blocks logged by running calls are listed, each once. *)
ListInv ==
  /\ Distinct(lh) /\ Distinct(hdr)
  /\ Len(hdr) <= LOGSIZE
  /\ \A p \in Proc :
       /\ wrote[p] \subseteq Range(lh)
       /\ p \notin Active => wrote[p] = {}
       /\ pc[p] = "log_write" => \E b \in Block : pend[p] = {b}
       /\ pc[p] # "log_write" => pend[p] = {}
       /\ p \in Active => Cardinality(wrote[p] \cup pend[p]) <= OpBlocks

(* What begin_op reserved covers what the running calls may still log. *)
SpaceInv ==
  Active # {} =>
    Len(lh) + Cardinality(Tokens) + 2 * (MAXOPBLOCKS - OpBlocks) <= LOGSIZE

(* Where the contents of every block are, phase by phase: in memory and at *)
(* home, in the log, or in both.                                           *)
DataInv ==
  /\ Len(lh) <= LOGSIZE
  /\ booting => cache = disk
  /\ ~panicked => \A b \in Block :
                    b \notin Range(lh) /\ (\A p \in Proc : b \notin pend[p])
                      => cache[b] = disk[b]
  /\ phase \in {"none", "write_log", "write_head", "done"} => hdr = <<>>
  /\ phase = "write_log" =>
       \A j \in 1..Len(lh) : j < tail => logblk[j] = cache[lh[j]]
  /\ phase \in {"install_trans", "erase"} => hdr = lh
  /\ phase = "write_head" \/ (phase \in {"install_trans", "erase"} /\ ~booting) =>
       \A j \in 1..Len(lh) : logblk[j] = cache[lh[j]]
  /\ phase = "install_trans" =>
       \A j \in 1..Len(lh) : j < tail => disk[lh[j]] = logblk[j]
  /\ phase = "erase" => \A j \in 1..Len(lh) : disk[lh[j]] = logblk[j]

(* The inductive invariant of log.c: at every step of begin_op, log_write, *)
(* end_op, commit and recovery, at most one process commits and only       *)
(* between calls, every block logged by a running call is listed once, the *)
(* reserved space suffices, and a copy of every block that a crash must    *)
(* not lose is where recovery looks for it.                                *)
LogInv == TypeOK /\ PhaseInv /\ CommitterInv /\ ListInv /\ SpaceInv /\ DataInv

(* Neither log_write ("too big a transaction", "log_write outside of       *)
(* trans") nor end_op ("log.committing") ever panics, whatever the         *)
(* interleaving of the calls sharing the log: the space begin_op reserves  *)
(* is enough.                                                              *)
NoPanic == ~panicked

(* No write ever lands beyond logheader.block[LOGSIZE], and no block       *)
(* number is listed twice, although log_write tests the length before it   *)
(* takes log.lock.                                                         *)
LogFits == Len(lh) <= LOGSIZE /\ Distinct(lh)

(* No lost wakeup: a process asleep in begin_op has somebody left to wake  *)
(* it, a call in progress or the commit.                                   *)
SleeperHasWaker ==
  (\E p \in Proc : pc[p] = "sleep") => committing \/ outstanding > 0

(* Every commit is complete when end_op clears log.committing: a crash at  *)
(* any later time finds every call that ended before it on disk.           *)
DurableAtCommit ==
  [][committing /\ ~committing' /\ ~booting' => Recovered' = cache']_vars

(* A process asleep in begin_op does not sleep for ever. *)
SleeperWakes ==
  \A p \in Proc : (pc[p] = "sleep") ~> (pc[p] # "sleep")

(* The log implements a disk whose durable contents change only as a       *)
(* whole, between calls.                                                   *)
Atomic ==
  INSTANCE AtomicDisk WITH durable <- Recovered,
                           mem     <- IF booting THEN Recovered ELSE cache,
                           active  <- Active

(* log.c implements the atomic disk: no crash, at any block write of a     *)
(* commit or of a recovery, exposes a part of a call.                      *)
ImplementsAtomicDisk == Atomic!Spec
=============================================================================
