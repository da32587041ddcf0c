------------------------------ MODULE SyncLog ------------------------------
(***************************************************************************)
(* The buffered log of pj3 (log.c, bio.c).  File-system calls mark buffers *)
(* B_DIRTY and commit nothing; sync, called by a process or by a bget that *)
(* finds the cache full of dirty buffers, logs all of them and commits.    *)
(*                                                                         *)
(* As in Log, every critical section and every write of a disk block is a  *)
(* step, and a crash may fall between any two.  buf is what bread returns. *)
(* Any buffer that is neither dirty nor held can be recycled, so the cache *)
(* needs no list of the blocks it holds: it is exhausted when NBUF blocks  *)
(* are dirty or held.                                                      *)
(***************************************************************************)
EXTENDS Integers, Sequences, FiniteSets, SequencesExt

CONSTANTS
  Proc,     \* processes
  Users,    \* sets of processes that may be using the file system
  Block,    \* home block numbers
  Val,      \* contents of a block
  NBUF,     \* buffers in the cache
  LOGSIZE,  \* capacity of logheader.block
  nlog      \* superblock: blocks of the on-disk log, its header included

ASSUME SyncAssumption ==
  /\ IsFiniteSet(Proc) /\ IsFiniteSet(Block) /\ Users \subseteq SUBSET Proc
  /\ NBUF \in Nat /\ NBUF > 3
  /\ LOGSIZE \in Nat \ {0} /\ nlog \in Nat

(* All the buffers that may be dirty before bget calls sync fit into the   *)
(* log (param.h and mkfs.c: all three numbers are 100).                    *)
ASSUME SizesAssumption == NBUF - 3 <= LOGSIZE /\ NBUF - 3 < nlog

VARIABLES
  users,              \* the processes that use it
  disk, logblk, hdr,  \* on disk: home blocks, log blocks, header
  buf,                \* contents of the buffers
  dirty,              \* blocks whose buffer has B_DIRTY set
  isfull,             \* bcache.isfull
  lh,                 \* log.lh
  committing,         \* log.committing
  booting,            \* initlog has not finished since the last crash
  phase,              \* where sync or recover_from_log stands
  tail,               \* loop variable of write_log and install_trans, from 1
  pc,                 \* where each process stands
  want,               \* the block bget was called for (set of at most one)
  panicked            \* panic() was called

diskVars == <<disk, logblk, hdr>>
logVars  == <<lh, committing, booting, phase, tail>>
vars == <<users, disk, logblk, hdr, buf, dirty, isfull, lh, committing, booting,
          phase, tail, pc, want, panicked>>

(* Buffers in use: locked between bread and brelse. *)
Held == UNION {want[p] : p \in {q \in Proc : pc[q] = "hold"}}
Up   == ~booting /\ ~panicked
-----------------------------------------------------------------------------
(* Power on: a file system image whose log is empty, initlog about to run. *)
Init ==
  /\ users \in Users
  /\ disk \in [Block -> Val]
  /\ logblk \in [1..LOGSIZE -> Val]
  /\ hdr = <<>>
  /\ buf = disk
  /\ dirty = {} /\ isfull = FALSE
  /\ lh = <<>> /\ committing = FALSE
  /\ booting = TRUE /\ phase = "read_head" /\ tail = 1
  /\ pc = [p \in Proc |-> "idle"]
  /\ want = [p \in Proc |-> {}]
  /\ panicked = FALSE

(* begin_op, one pass of its loop: it waits for a commit, not for space. *)
BeginOp(p) ==
  /\ Up /\ pc[p] \in {"idle", "begin"}
  /\ pc' = [pc EXCEPT ![p] = IF committing THEN "sleep" ELSE "op"]
  /\ UNCHANGED <<diskVars, buf, dirty, isfull, logVars, want, panicked>>

(* end_op only wakes the processes asleep in begin_op. *)
EndOp(p) ==
  /\ Up /\ pc[p] = "op"
  /\ pc' = [q \in Proc |-> IF q = p THEN "idle"
                           ELSE IF pc[q] = "sleep" THEN "begin" ELSE pc[q]]
  /\ UNCHANGED <<diskVars, buf, dirty, isfull, logVars, want, panicked>>
-----------------------------------------------------------------------------
(* buffer_isfull *)
FullNever == FALSE
buffer_isfull == Cardinality(dirty) >= NBUF - 3

(* bget, from its call to the end of its first test. *)
Bget(p, b) ==
  /\ Up /\ pc[p] = "op"
  /\ want' = [want EXCEPT ![p] = {b}]
  /\ pc' = [pc EXCEPT ![p] = IF ~isfull /\ buffer_isfull THEN "full" ELSE "find"]
  /\ UNCHANGED <<diskVars, buf, dirty, isfull, logVars, panicked>>

(* bget, when the cache is full: raise the flag and call sync ... *)
SetFull(p) ==
  /\ Up /\ pc[p] = "full"
  /\ isfull' = TRUE
  /\ pc' = [pc EXCEPT ![p] = "bsync"]
  /\ UNCHANGED <<diskVars, buf, dirty, logVars, want, panicked>>

(* ... and lower it when sync has returned. *)
ClearFull(p) ==
  /\ Up /\ pc[p] = "unfull"
  /\ isfull' = FALSE
  /\ pc' = [pc EXCEPT ![p] = "find"]
  /\ UNCHANGED <<diskVars, buf, dirty, logVars, want, panicked>>

(* No buffer can be recycled. *)
NoBuffers == Cardinality(dirty \cup Held) >= NBUF

(* bget, its search, and acquiresleep: the block is cached, or a buffer is *)
(* recycled for it and read from the disk.                                 *)
FindBuffer(p) ==
  /\ Up /\ pc[p] = "find"
  /\ want[p] \cap Held = {}
  /\ IF NoBuffers /\ ~(want[p] \subseteq dirty)
       THEN panicked' = TRUE /\ UNCHANGED pc
       ELSE pc' = [pc EXCEPT ![p] = "hold"] /\ UNCHANGED panicked
  /\ UNCHANGED <<diskVars, buf, dirty, isfull, logVars, want>>

(* The caller changes the block, marks the buffer dirty and releases it. *)
MarkNot(b) == dirty
Mark(b) == dirty \cup b

Write(p, v) ==
  /\ Up /\ pc[p] = "hold"
  /\ buf' = [b \in Block |-> IF b \in want[p] THEN v ELSE buf[b]]
  /\ dirty' = Mark(want[p])
  /\ pc' = [pc EXCEPT ![p] = "op"]
  /\ want' = [want EXCEPT ![p] = {}]
  /\ UNCHANGED <<diskVars, isfull, logVars, panicked>>

(* The caller only reads the block. *)
Brelse(p) ==
  /\ Up /\ pc[p] = "hold"
  /\ pc' = [pc EXCEPT ![p] = "op"]
  /\ want' = [want EXCEPT ![p] = {}]
  /\ UNCHANGED <<diskVars, buf, dirty, isfull, logVars, panicked>>
-----------------------------------------------------------------------------
(* sync refuses while another commit is in progress. *)
Refuse == committing

(* sync, its first critical section: called by a process outside of calls, *)
(* or by bget.                                                             *)
Sync(p) ==
  /\ Up /\ pc[p] \in {"idle", "bsync"}
  /\ \/ /\ Refuse /\ pc[p] = "bsync"
        /\ pc' = [pc EXCEPT ![p] = "unfull"]
        /\ UNCHANGED <<committing, phase>>
     \/ /\ ~Refuse
        /\ pc' = [pc EXCEPT ![p] = IF @ = "idle" THEN "sync" ELSE "bget_sync"]
        /\ committing' = TRUE
        /\ phase' = "log_dirty"
  /\ UNCHANGED <<diskVars, buf, dirty, isfull, lh, booting, tail, want, panicked>>

(* log_write's test, for all the buffers that are dirty. *)
Room == Cardinality(dirty) <= LOGSIZE /\ Cardinality(dirty) <= nlog - 1

(* logDirtyBuffer: log_write of every dirty buffer, in the order of the    *)
(* cache's list.                                                           *)
LogDirty ==
  /\ phase = "log_dirty"
  /\ IF ~Room
       THEN panicked' = TRUE /\ UNCHANGED <<lh, phase>>
       ELSE /\ lh' \in SetToSeqs(dirty)
            /\ phase' = IF dirty = {} THEN "done" ELSE "write_log"
            /\ UNCHANGED panicked
  /\ tail' = 1
  /\ UNCHANGED <<diskVars, buf, dirty, isfull, committing, booting, pc, want>>

LoopEndsEarly == tail + 1 >= Len(lh)
LoopEnds == tail = Len(lh)

(* write_log: the next block, from its buffer to the log. *)
WriteLog ==
  /\ phase = "write_log"
  /\ lh[tail] \notin Held
  /\ IF NoBuffers
       THEN panicked' = TRUE /\ UNCHANGED <<logblk, tail, phase>>
       ELSE /\ logblk' = [logblk EXCEPT ![tail] = buf[lh[tail]]]
            /\ tail' = tail + 1
            /\ phase' = IF LoopEnds THEN "write_head" ELSE phase
            /\ UNCHANGED panicked
  /\ UNCHANGED <<disk, hdr, buf, dirty, isfull, lh, committing, booting, pc, want>>

(* write_head: the commit point. *)
WriteHead ==
  /\ phase = "write_head"
  /\ IF NoBuffers
       THEN panicked' = TRUE /\ UNCHANGED <<hdr, phase>>
       ELSE hdr' = lh /\ phase' = "install_trans" /\ UNCHANGED panicked
  /\ tail' = 1
  /\ UNCHANGED <<disk, logblk, buf, dirty, isfull, lh, committing, booting, pc, want>>

(* ideintr clears B_DIRTY of the buffer that was written. *)
Unmark(b) == dirty \ {b}

(* install_trans, of sync and of recovery: the next log block goes to its  *)
(* buffer and to its home, which clears B_DIRTY.                           *)
InstallTrans ==
  /\ phase = "install_trans"
  /\ lh[tail] \notin Held
  /\ IF NoBuffers
       THEN panicked' = TRUE /\ UNCHANGED <<disk, buf, dirty, tail, phase>>
       ELSE /\ disk' = [disk EXCEPT ![lh[tail]] = logblk[tail]]
            /\ buf' = [buf EXCEPT ![lh[tail]] = logblk[tail]]
            /\ dirty' = Unmark(lh[tail])
            /\ tail' = tail + 1
            /\ phase' = IF LoopEnds THEN "erase" ELSE phase
            /\ UNCHANGED panicked
  /\ UNCHANGED <<logblk, hdr, isfull, lh, committing, booting, pc, want>>

(* log.lh.n = 0 and the second write_head. *)
Erase ==
  /\ phase = "erase"
  /\ lh' = <<>>
  /\ IF NoBuffers
       THEN panicked' = TRUE /\ UNCHANGED <<hdr, booting, phase>>
       ELSE /\ hdr' = <<>>
            /\ booting' = FALSE
            /\ phase' = IF booting THEN "none" ELSE "done"
            /\ UNCHANGED panicked
  /\ tail' = 1
  /\ UNCHANGED <<disk, logblk, buf, dirty, isfull, committing, pc, want>>

(* sync, its last critical section.  It wakes nobody. *)
SyncDone(p) ==
  /\ ~panicked /\ phase = "done"
  /\ pc[p] \in {"sync", "bget_sync"}
  /\ committing' = FALSE
  /\ phase' = "none"
  /\ pc' = [pc EXCEPT ![p] = IF @ = "sync" THEN "idle" ELSE "unfull"]
  /\ UNCHANGED <<diskVars, buf, dirty, isfull, lh, booting, tail, want, panicked>>

Commit == ~panicked /\ (LogDirty \/ WriteLog \/ WriteHead \/ InstallTrans \/ Erase)
-----------------------------------------------------------------------------
(* Power failure, or a restart after a panic. *)
Crash ==
  /\ buf' = disk
  /\ dirty' = {} /\ isfull' = FALSE
  /\ lh' = <<>> /\ committing' = FALSE
  /\ booting' = TRUE /\ phase' = "read_head" /\ tail' = 1
  /\ pc' = [p \in Proc |-> "idle"]
  /\ want' = [p \in Proc |-> {}]
  /\ panicked' = FALSE
  /\ UNCHANGED diskVars

(* recover_from_log: read_head; install_trans and the erasing write_head   *)
(* follow.                                                                 *)
ReadHead ==
  /\ phase = "read_head"
  /\ lh' = hdr
  /\ phase' = IF hdr = <<>> THEN "erase" ELSE "install_trans"
  /\ tail' = 1
  /\ UNCHANGED <<diskVars, buf, dirty, isfull, committing, booting, pc, want, panicked>>

Call(p) ==
  \/ BeginOp(p) \/ EndOp(p) \/ SetFull(p) \/ ClearFull(p)
  \/ FindBuffer(p) \/ Brelse(p) \/ Sync(p) \/ SyncDone(p)
  \/ \E b \in Block : Bget(p, b)
  \/ \E v \in Val : Write(p, v)

Next ==
  /\ (\E p \in users : Call(p)) \/ Commit \/ ReadHead \/ Crash
  /\ UNCHANGED users

Spec == Init /\ [][Next]_vars

(* A process inside the kernel goes on, and its call reaches end_op; the   *)
(* disk completes every request.  Nothing is assumed of crashes, nor of    *)
(* processes making calls.                                                 *)
Fair(p) == p \in users /\ UNCHANGED users
Fairness ==
  /\ \A p \in Proc :
       /\ WF_vars(Fair(p) /\ (SetFull(p) \/ ClearFull(p) \/ (pc[p] = "bsync" /\ Sync(p)) \/ SyncDone(p)
                               \/ (pc[p] = "begin" /\ BeginOp(p))))
       /\ SF_vars(Fair(p) /\ FindBuffer(p))
       /\ WF_vars(Fair(p) /\ (Brelse(p) \/ \E v \in Val : Write(p, v)))
       /\ SF_vars(Fair(p) /\ EndOp(p))
  /\ SF_vars(Commit /\ UNCHANGED users)
  /\ WF_vars(ReadHead /\ UNCHANGED users)

FairSpec == Spec /\ Fairness
-----------------------------------------------------------------------------
(* What a crash now, followed by a complete recovery, would leave on disk. *)
Recovered ==
  [b \in Block |-> IF b \in ToSet(hdr)
                     THEN logblk[CHOOSE i \in DOMAIN hdr : hdr[i] = b]
                     ELSE disk[b]]

Phases == {"none", "log_dirty", "write_log", "write_head", "install_trans", "erase",
           "done", "read_head"}

(* Types of the variables of the buffered log. *)
TypeOK ==
  /\ disk \in [Block -> Val] /\ buf \in [Block -> Val]
  /\ logblk \in [1..LOGSIZE -> Val]
  /\ hdr \in Seq(Block) /\ lh \in Seq(Block)
  /\ Len(hdr) <= LOGSIZE /\ Len(lh) <= LOGSIZE
  /\ dirty \subseteq Block
  /\ isfull \in BOOLEAN /\ committing \in BOOLEAN /\ booting \in BOOLEAN
  /\ panicked \in BOOLEAN
  /\ phase \in Phases /\ tail \in 1..LOGSIZE + 1
  /\ pc \in [Proc -> {"idle", "begin", "sleep", "op", "full", "bsync", "bget_sync",
                      "unfull", "find", "hold", "sync"}]
  /\ want \in [Proc -> SUBSET Block]

(* At most one process is inside a commit, and while one is log.committing *)
(* is set: a sync from bget never starts over a sync by another process.   *)
OneCommitter ==
  LET C == {p \in Proc : pc[p] \in {"sync", "bget_sync"}}
  IN  Cardinality(C) <= 1 /\ (committing <=> C # {})

(* A clean buffer may be recycled and read again from the disk at any      *)
(* time, so it must equal its home block, also while a sync installs       *)
(* blocks and other processes write.                                       *)
CleanIsOnDisk == \A b \in Block \ dirty : buf[b] = disk[b]

(* A block that sync has listed stays dirty, and so in the cache, until    *)
(* install_trans has written it home.                                      *)
ListedIsPinned ==
  ~booting =>
    /\ phase \in {"write_log", "write_head"} => ToSet(lh) \subseteq dirty
    /\ phase = "install_trans" => \A j \in tail..Len(lh) : lh[j] \in dirty

(* What a crash would leave behind changes at one disk write only, the     *)
(* header write of a sync, whatever other processes do meanwhile; neither  *)
(* installing, erasing, recovering nor crashing changes it.                *)
DurableOnlyAtCommit ==
  [][Recovered' # Recovered => phase = "write_head" /\ phase' = "install_trans"]_vars

Single == Cardinality(users) <= 1

(* No call of panic as long as one process uses the file system: bget      *)
(* always finds a buffer and log_write always has room.                    *)
NoPanic == Single => ~panicked

(* When sync, called by the only process, returns after a commit,          *)
(* everything written before it was called is on disk: nothing is dirty    *)
(* and a crash would restore memory.                                       *)
SyncIsComplete ==
  [][Single /\ committing /\ ~committing' /\ ~booting' => dirty = {} /\ Recovered = buf]_vars

(* The buffered log used by one process is a disk with snapshots.  (Used   *)
(* by several it is not: of them this says nothing.)                       *)
IfSingle(f) == IF Single THEN f ELSE [b \in Block |-> CHOOSE v \in Val : TRUE]
Snapshot ==
  INSTANCE SnapshotDisk WITH durable <- IfSingle(Recovered),
                             mem     <- IfSingle(IF booting THEN Recovered ELSE buf)
ImplementsSnapshotDisk == Snapshot!Spec

(* A process that waits in begin_op goes on after the commit. *)
SleeperWakes == \A p \in Proc : (pc[p] = "sleep") ~> (pc[p] # "sleep")

(* Data in a buffer is changed by its user, and by nobody else until the   *)
(* next crash: a modification stays until it is written to disk.           *)
ModificationStays ==
  [][\A b \in Block :
       ~booting /\ ~booting' /\ buf'[b] # buf[b] => \E p \in Proc : b \in want[p]]_vars

(* The flags, the phase and the loop variable of a commit or a recovery    *)
(* agree: committing is set from the first to the last critical section of *)
(* sync, and nothing runs before recovery has ended.                       *)
PhaseInv ==
  /\ committing <=> ~booting /\ phase # "none"
  /\ phase = "read_head" => booting
  /\ booting => /\ phase \in {"read_head", "install_trans", "erase"}
                /\ dirty = {} /\ ~isfull /\ \A p \in Proc : pc[p] = "idle"
  /\ phase \in {"write_log", "install_trans"} => tail <= Len(lh)
  /\ phase = "write_head" => lh # <<>>

(* A process has asked for one block from bget's call to brelse. *)
InBget == {"full", "bsync", "bget_sync", "unfull", "find", "hold"}
CallInv ==
  /\ users \in Users
  /\ \A p \in Proc \ users : pc[p] = "idle"
  /\ \A p \in Proc : IF pc[p] \in InBget THEN \E b \in Block : want[p] = {b} ELSE want[p] = {}

(* A block is listed once, and the header on disk lists the blocks whose   *)
(* copies are in the log, from the commit until all are at home.           *)
DataInv ==
  /\ IsInjective(lh) /\ IsInjective(hdr)
  /\ phase \in {"none", "log_dirty", "write_log", "write_head", "done"} => hdr = <<>>
  /\ phase = "install_trans" => hdr = lh /\ \A j \in 1..tail - 1 : disk[lh[j]] = logblk[j]
  /\ phase = "erase" /\ ~panicked => hdr = lh /\ \A j \in 1..Len(lh) : disk[lh[j]] = logblk[j]

(* With one process, bget calls sync before the cache or the log is full,  *)
(* nothing changes while it runs, and it takes over all that is dirty.     *)
SoleInv ==
  Single =>
    /\ ~panicked
    /\ Cardinality(dirty) <= NBUF - 3
    /\ isfull => \E p \in Proc : pc[p] \in {"bsync", "bget_sync", "unfull"}
    /\ \A p \in Proc : /\ pc[p] \in {"find", "hold"} => Cardinality(dirty) < NBUF - 3
                       /\ pc[p] = "unfull" => dirty = {}
    /\ phase = "write_log" => dirty = ToSet(lh) /\ \A j \in 1..tail - 1 : logblk[j] = buf[lh[j]]
    /\ phase = "write_head" => dirty = ToSet(lh) /\ \A j \in 1..Len(lh) : logblk[j] = buf[lh[j]]
    /\ phase = "install_trans" /\ ~booting =>
         /\ \A j \in 1..Len(lh) : logblk[j] = buf[lh[j]]
         /\ dirty = {lh[j] : j \in tail..Len(lh)}
    /\ phase \in {"erase", "done"} => dirty = {}

(* What the buffered log keeps at every step, with several users: one      *)
(* commit at a time, a buffer that is not B_DIRTY can be read again from   *)
(* the disk, a buffer of the log's list is not recycled, and the log holds *)
(* what its header promises (log_write, sync, install_trans, bget).        *)
SyncInv ==
  /\ TypeOK /\ OneCommitter /\ CleanIsOnDisk /\ ListedIsPinned
  /\ PhaseInv /\ CallInv /\ DataInv /\ SoleInv

(* A sync of the only process makes durable all that was written before    *)
(* it, and with any number of users nothing becomes durable in another way *)
(* than by the header write of a commit.                                   *)
DurableAtSync == SyncIsComplete /\ DurableOnlyAtCommit
=============================================================================
