------------------------------- MODULE Kernel -------------------------------
(***************************************************************************)
(* Processors, interrupts and locks: spinlock.c, sleeplock.c, the context  *)
(* switch, sleep and wakeup of proc.c, the interrupts of trap.c, and above *)
(* them the buffer cache (bio.c of pj1 and pj2) and the disk driver        *)
(* (ide.c).  A step is a critical section's entry, its exit, or what is    *)
(* done at one point inside it.                                            *)
(*                                                                         *)
(* A thread is a process in the kernel or the scheduler of a processor.    *)
(* What it still has to do is a sequence of instructions, the first of     *)
(* which is next: <<name, argument>>.  Calling a function puts its         *)
(* instructions in front, and so does an interrupt.                        *)
(***************************************************************************)
EXTENDS Integers, Sequences, FiniteSets, FiniteSetsExt

CONSTANTS
  MaxCpu,       \* processors, at most
  Machines,     \* numbers of processors, each with a bound on timer interrupts
  Script,       \* what each process does: a sequence of instructions
  NBUF,         \* buffers of the cache
  NBLOCK        \* blocks of the disk

Bufs   == 1..NBUF
Blocks == 1..NBLOCK

(* The system calls as far as buffers are concerned.  A process has a      *)
(* buffer after "read" until "free", and reads only if it has none.        *)
BufferCalls == ({"read"} \X Blocks) \cup ({"write", "pin"} \X Nat) \cup ({"flush", "free"} \X {0})
HasBuffer(calls, j) ==
  \E i \in 1..j : calls[i][1] = "read" /\ \A k \in i + 1..j : calls[k][1] # "free"

ASSUME KernelAssumption ==
  /\ MaxCpu \in Nat \ {0} /\ Machines \subseteq (1..MaxCpu) \X Nat
  /\ NBUF \in Nat \ {0} /\ NBLOCK \in Nat \ {0}
  /\ Script \in Seq(Seq(BufferCalls))
  /\ \A p \in 1..Len(Script) : \A j \in 1..Len(Script[p]) :
       Script[p][j][1] = "read" <=> ~HasBuffer(Script[p], j - 1)

VARIABLES
  cpu,     \* per processor: the process it runs (0: the scheduler), c->proc,
           \* ncli, intena, and whether interrupts are on
  lock,    \* the processor that holds each spinlock, 0 if none
  proc,    \* state, channel, and the buffer it holds
  todo,    \* instructions of the processes
  idle,    \* instructions of the schedulers
  buf,     \* the buffers, each with its sleep lock
  lru,     \* bcache.head: buffers, the most recently used first
  ide,     \* idequeue, what the disk is doing, and whether it interrupts
  disk,    \* contents of the disk
  latest,  \* what was last put into each block
  intr,    \* timer interrupts that may still come
  fault    \* panic

kvars == <<cpu, lock, proc, todo, idle, buf, lru, ide, disk, latest, intr, fault>>

Cpus   == DOMAIN cpu
NCPU   == Cardinality(Cpus)
Procs  == 1..Len(Script)

(* Spinlocks, one of them inside each sleep lock. *)
ptable    == <<"ptable", 0>>
tickslock == <<"tickslock", 0>>
idelock   == <<"idelock", 0>>
bcache    == <<"bcache", 0>>
Lk(i)     == <<"buf", i>>
Locks     == {ptable, tickslock, idelock, bcache} \cup {Lk(i) : i \in Bufs}

(* Channels: of no process, of the clock, of each sleep lock and buffer. *)
NoChan    == <<"none", 0>>
Ticks     == <<"ticks", 0>>
LkChan(i) == <<"lk", i>>
IoChan(i) == <<"io", i>>

Acquire(l) == <<"acquire", l>>
Release(l) == <<"release", l>>

(* sleep: ptable.lock is taken before lk is given up. *)
SleepBare(chan, l) ==
  <<Release(l), Acquire(ptable), <<"doze", chan>>, <<"sched", "">>, <<"tidy", "">>,
    Release(ptable), Acquire(l)>>
Sleep(chan, l) ==
  <<Acquire(ptable), Release(l), <<"doze", chan>>, <<"sched", "">>, <<"tidy", "">>,
    Release(ptable), Acquire(l)>>
Wakeup(chan) == <<Acquire(ptable), <<"wakeup1", chan>>, Release(ptable)>>
Yield == <<Acquire(ptable), <<"runnable", "">>, <<"sched", "">>, Release(ptable)>>
Exit  == <<Acquire(ptable), <<"zombie", "">>, <<"sched", "">>>>

acquiresleep(i) == <<Acquire(Lk(i)), <<"locked?", i>>, Release(Lk(i))>>
releasesleepQuiet(i) == <<Acquire(Lk(i)), <<"unlocked", i>>, Release(Lk(i))>>
releasesleep(i) == <<Acquire(Lk(i)), <<"unlocked", i>>>> \o Wakeup(LkChan(i)) \o <<Release(Lk(i))>>

bget(b)    == <<Acquire(bcache), <<"bget", b>>>>
bread(b)   == bget(b) \o <<<<"bread", b>>>>
iderw(i)   == <<<<"iderw", i>>, Acquire(idelock), <<"enqueue", i>>, <<"finished?", i>>,
                Release(idelock)>>
ideintr    == <<Acquire(idelock), <<"ideintr", "">>>>
scheduler  == <<<<"sti", "">>, Acquire(ptable), <<"scan", 1>>, Release(ptable)>>

(* A system call of a process in terms of these; at the end it exits. *)
Expand(c) ==
  CASE c[1] = "read"  -> bread(c[2])
    [] c[1] = "write" -> <<<<"put", c[2]>>, <<"bwrite", "">>>>
    [] c[1] = "pin"   -> <<<<"put", c[2]>>, <<"log_write", "">>>>
    [] c[1] = "flush" -> <<<<"bwrite", "">>>>
    [] c[1] = "free"  -> <<<<"brelse", "">>>>
Program(p) ==
  LET n == Len(Script[p])
      R[j \in 0..n] == IF j = 0 THEN Exit ELSE Expand(Script[p][n - j + 1]) \o R[j - 1]
  IN  R[n]
-----------------------------------------------------------------------------
(* Processes are RUNNABLE and start at forkret, with ptable.lock held. *)
KInit ==
  /\ \E m \in Machines :
       /\ cpu = [c \in 1..m[1] |-> [cur |-> 0, proc |-> 0, ncli |-> 0, intena |-> FALSE, on |-> FALSE]]
       /\ idle = [c \in 1..m[1] |-> scheduler]
       /\ intr = m[2]
  /\ lock = [l \in Locks |-> 0]
  /\ proc = [p \in Procs |-> [state |-> "RUNNABLE", chan |-> NoChan, buf |-> 0, has |-> FALSE]]
  /\ todo = [p \in Procs |-> <<Release(ptable)>> \o Program(p)]
  /\ buf = [i \in Bufs |-> [blockno |-> 0, refcnt |-> 0, valid |-> FALSE, dirty |-> FALSE,
                            data |-> 0, locked |-> FALSE, pid |-> 0]]
  /\ lru = [j \in Bufs |-> NBUF + 1 - j]
  /\ ide = [queue |-> <<>>, job |-> 0, out |-> 0, irq |-> FALSE]
  /\ disk = [b \in Blocks |-> 0]
  /\ latest = [b \in Blocks |-> 0]
  /\ fault = "none"

(* The thread on processor c, its next instruction, and what follows. *)
Ops(c) == IF cpu[c].cur = 0 THEN idle[c] ELSE todo[cpu[c].cur]
At(c, op) == fault = "none" /\ Ops(c) # <<>> /\ Ops(c)[1][1] = op
Arg(c) == Ops(c)[1][2]
Me(c)  == cpu[c].cur

Become(c, s) ==
  IF cpu[c].cur = 0 THEN idle' = [idle EXCEPT ![c] = s] /\ UNCHANGED todo
  ELSE todo' = [todo EXCEPT ![cpu[c].cur] = s] /\ UNCHANGED idle
Then(c, s) == Become(c, s \o Tail(Ops(c)))
Advance(c) == Then(c, <<>>)

panic(f) == fault' = f /\ UNCHANGED <<cpu, lock, proc, todo, idle, buf, lru, ide, disk, latest, intr>>

Data  == <<buf, lru, ide, disk, latest>>
Rest  == <<intr, fault>>
-----------------------------------------------------------------------------
pushcli(x) ==
  [x EXCEPT !.on = FALSE, !.ncli = @ + 1, !.intena = IF x.ncli = 0 THEN x.on ELSE @]
popcli(x) ==
  [x EXCEPT !.ncli = @ - 1, !.on = (x.ncli = 1 /\ x.intena)]

(* acquire: interrupts are off while it spins. *)
AcquireStep(c) ==
  /\ At(c, "acquire")
  /\ IF lock[Arg(c)] = c THEN panic("acquire")
     ELSE /\ cpu' = [cpu EXCEPT ![c] = pushcli(cpu[c])]
          /\ IF lock[Arg(c)] = 0
             THEN lock' = [lock EXCEPT ![Arg(c)] = c] /\ Advance(c)
             ELSE UNCHANGED lock /\ Then(c, <<<<"spin", Arg(c)>>>>)
          /\ UNCHANGED <<proc, Data, Rest>>

SpinStep(c) ==
  /\ At(c, "spin") /\ lock[Arg(c)] = 0
  /\ lock' = [lock EXCEPT ![Arg(c)] = c]
  /\ Advance(c)
  /\ UNCHANGED <<cpu, proc, Data, Rest>>

ReleaseStep(c) ==
  /\ At(c, "release")
  /\ IF lock[Arg(c)] # c THEN panic("release")
     ELSE IF cpu[c].on \/ cpu[c].ncli < 1 THEN panic("popcli")
     ELSE /\ lock' = [lock EXCEPT ![Arg(c)] = 0]
          /\ cpu' = [cpu EXCEPT ![c] = popcli(cpu[c])]
          /\ Advance(c)
          /\ UNCHANGED <<proc, Data, Rest>>

(* scheduler: the loop over the table goes on after the process it ran. *)
StiStep(c) ==
  /\ At(c, "sti")
  /\ cpu' = [cpu EXCEPT ![c].on = TRUE]
  /\ Advance(c)
  /\ UNCHANGED <<lock, proc, Data, Rest>>

ScanStep(c) ==
  /\ At(c, "scan")
  /\ LET can == {p \in Arg(c)..Len(Script) : proc[p].state = "RUNNABLE"}
         p == Min(can)
     IN  IF can = {}
         THEN /\ cpu' = [cpu EXCEPT ![c].proc = 0]
              /\ Become(c, <<Release(ptable)>> \o scheduler)
              /\ UNCHANGED proc
         ELSE /\ cpu' = [cpu EXCEPT ![c].proc = p, ![c].cur = p]
              /\ proc' = [proc EXCEPT ![p].state = "RUNNING"]
              /\ Then(c, <<<<"scan", p + 1>>>>)
  /\ UNCHANGED <<lock, Data, Rest>>

(* sched: the processor goes back to its scheduler; intena belongs to the  *)
(* thread and is put back when it is resumed.                              *)
SchedStep(c) ==
  /\ At(c, "sched")
  /\ IF lock[ptable] # c THEN panic("sched ptable.lock")
     ELSE IF cpu[c].ncli # 1 THEN panic("sched locks")
     ELSE IF proc[Me(c)].state = "RUNNING" THEN panic("sched running")
     ELSE IF cpu[c].on THEN panic("sched interruptible")
     ELSE /\ cpu' = [cpu EXCEPT ![c].cur = 0]
          /\ Then(c, <<<<"intena", cpu[c].intena>>>>)
          /\ UNCHANGED <<lock, proc, Data, Rest>>

ResumeStep(c) ==
  /\ At(c, "intena")
  /\ cpu' = [cpu EXCEPT ![c].intena = Arg(c)]
  /\ Advance(c)
  /\ UNCHANGED <<lock, proc, Data, Rest>>

(* The assignments of sleep, yield, exit and wakeup1 to the process table. *)
StateStep(c) ==
  /\ \/ /\ At(c, "doze")
        /\ proc' = [proc EXCEPT ![Me(c)].state = "SLEEPING", ![Me(c)].chan = Arg(c)]
     \/ /\ At(c, "tidy")
        /\ proc' = [proc EXCEPT ![Me(c)].chan = NoChan]
     \/ /\ At(c, "runnable")
        /\ proc' = [proc EXCEPT ![Me(c)].state = "RUNNABLE"]
     \/ /\ At(c, "zombie")
        /\ proc' = [proc EXCEPT ![Me(c)].state = "ZOMBIE"]
     \/ /\ At(c, "wakeup1")
        /\ proc' = [p \in Procs |->
             IF proc[p].state = "SLEEPING" /\ proc[p].chan = Arg(c)
             THEN [proc[p] EXCEPT !.state = "RUNNABLE"] ELSE proc[p]]
  /\ Advance(c)
  /\ UNCHANGED <<cpu, lock, Data, Rest>>
-----------------------------------------------------------------------------
(* Sleep locks. *)
LockedStep(c) ==
  /\ At(c, "locked?")
  /\ LET i == Arg(c)
     IN  IF buf[i].locked
         THEN Then(c, Sleep(LkChan(i), Lk(i)) \o <<<<"locked?", i>>>>) /\ UNCHANGED <<proc, buf>>
         ELSE /\ buf' = [buf EXCEPT ![i].locked = TRUE, ![i].pid = Me(c)]
              /\ proc' = [proc EXCEPT ![Me(c)].has = TRUE]
              /\ Advance(c)
  /\ UNCHANGED <<cpu, lock, lru, ide, disk, latest, Rest>>

UnlockedStep(c) ==
  /\ At(c, "unlocked")
  /\ buf' = [buf EXCEPT ![Arg(c)].locked = FALSE, ![Arg(c)].pid = 0]
  /\ proc' = [proc EXCEPT ![Me(c)].has = FALSE]
  /\ Advance(c)
  /\ UNCHANGED <<cpu, lock, lru, ide, disk, latest, Rest>>

holdingsleep(i, p) == buf[i].locked /\ buf[i].pid = p

(* The buffer that bget returns for a block, 0 if there is none: the one   *)
(* that has it, else the least recently used one that is free and clean.   *)
VictimUnpinned(b) ==
  LET hit == {j \in Bufs : buf[lru[j]].blockno = b}
      free == {j \in Bufs : buf[lru[j]].refcnt = 0}
  IN  IF hit # {} THEN lru[Min(hit)] ELSE IF free = {} THEN 0 ELSE lru[Max(free)]
Victim(b) ==
  LET hit == {j \in Bufs : buf[lru[j]].blockno = b}
      free == {j \in Bufs : buf[lru[j]].refcnt = 0 /\ ~buf[lru[j]].dirty}
  IN  IF hit # {} THEN lru[Min(hit)] ELSE IF free = {} THEN 0 ELSE lru[Max(free)]

BgetStep(c) ==
  /\ At(c, "bget")
  /\ LET b == Arg(c)
         i == Victim(b)
     IN  IF i = 0 THEN panic("bget: no buffers")
         ELSE /\ buf' = [buf EXCEPT ![i] =
                   IF buf[i].blockno = b THEN [buf[i] EXCEPT !.refcnt = @ + 1]
                   ELSE [buf[i] EXCEPT !.blockno = b, !.valid = FALSE, !.dirty = FALSE, !.refcnt = 1]]
              /\ proc' = [proc EXCEPT ![Me(c)].buf = i]
              /\ Then(c, <<Release(bcache)>> \o acquiresleep(i))
              /\ UNCHANGED <<cpu, lock, lru, ide, disk, latest, Rest>>

BreadStep(c) ==
  /\ At(c, "bread")
  /\ LET i == proc[Me(c)].buf IN Then(c, IF buf[i].valid THEN <<>> ELSE iderw(i))
  /\ UNCHANGED <<cpu, lock, proc, Data, Rest>>

(* The process changes the block in memory. *)
PutStep(c) ==
  /\ At(c, "put")
  /\ LET i == proc[Me(c)].buf
     IN  /\ buf' = [buf EXCEPT ![i].data = Arg(c)]
         /\ latest' = [latest EXCEPT ![buf[i].blockno] = Arg(c)]
  /\ Advance(c)
  /\ UNCHANGED <<cpu, lock, proc, lru, ide, disk, Rest>>

(* bwrite, and log_write as far as the buffer is concerned. *)
DirtyStep(c) ==
  /\ At(c, "bwrite") \/ At(c, "log_write")
  /\ LET i == proc[Me(c)].buf
     IN  IF ~holdingsleep(i, Me(c)) THEN panic("bwrite")
         ELSE /\ buf' = [buf EXCEPT ![i].dirty = TRUE]
              /\ Then(c, IF At(c, "bwrite") THEN iderw(i) ELSE <<>>)
              /\ UNCHANGED <<cpu, lock, proc, lru, ide, disk, latest, Rest>>

(* The buffer comes to the front of the list. *)
MovedUp(i) ==
  LET k == CHOOSE k \in Bufs : lru[k] = i
  IN  [j \in Bufs |-> IF j = 1 THEN i ELSE IF j <= k THEN lru[j - 1] ELSE lru[j]]

BrelseStep(c) ==
  /\ At(c, "brelse")
  /\ LET i == proc[Me(c)].buf
     IN  IF ~holdingsleep(i, Me(c)) THEN panic("brelse")
         ELSE /\ Then(c, releasesleep(i) \o <<Acquire(bcache), <<"unref", i>>, Release(bcache)>>)
              /\ UNCHANGED <<cpu, lock, proc, Data, Rest>>

UnrefStep(c) ==
  /\ At(c, "unref")
  /\ LET i == Arg(c)
     IN  /\ buf' = [buf EXCEPT ![i].refcnt = @ - 1]
         /\ lru' = IF buf[i].refcnt = 1 THEN MovedUp(i) ELSE lru
  /\ Advance(c)
  /\ UNCHANGED <<cpu, lock, proc, ide, disk, latest, Rest>>
-----------------------------------------------------------------------------
(* The disk is told what to do; the data of a write go to it at once. *)
idestart(x, i) == [x EXCEPT !.job = i, !.out = buf[i].data]

IderwStep(c) ==
  /\ At(c, "iderw")
  /\ LET i == Arg(c)
     IN  IF ~holdingsleep(i, Me(c)) THEN panic("iderw: buf not locked")
         ELSE IF buf[i].valid /\ ~buf[i].dirty THEN panic("iderw: nothing to do")
         ELSE Advance(c) /\ UNCHANGED <<cpu, lock, proc, Data, Rest>>

EnqueueStep(c) ==
  /\ At(c, "enqueue")
  /\ LET i == Arg(c)
         x == [ide EXCEPT !.queue = Append(@, i)]
     IN  ide' = IF ide.queue = <<>> THEN idestart(x, i) ELSE x
  /\ Advance(c)
  /\ UNCHANGED <<cpu, lock, proc, buf, lru, disk, latest, Rest>>

FinishedStep(c) ==
  /\ At(c, "finished?")
  /\ LET i == Arg(c)
     IN  Then(c, IF buf[i].valid /\ ~buf[i].dirty THEN <<>>
                 ELSE Sleep(IoChan(i), idelock) \o <<<<"finished?", i>>>>)
  /\ UNCHANGED <<cpu, lock, proc, Data, Rest>>

(* A read brings the block: the disk reports no error (after one, the code *)
(* would mark the buffer valid all the same).                              *)
IdeintrStep(c) ==
  /\ At(c, "ideintr")
  /\ LET i == Head(ide.queue)
     IN  IF ide.queue = <<>> THEN Then(c, <<Release(idelock)>>) /\ UNCHANGED <<buf, ide>>
         ELSE /\ ide' = [ide EXCEPT !.queue = Tail(@)]
              /\ buf' = [buf EXCEPT ![i].valid = TRUE, ![i].dirty = FALSE,
                                    ![i].data = IF buf[i].dirty THEN @ ELSE disk[buf[i].blockno]]
              /\ Then(c, Wakeup(IoChan(i)) \o <<<<"nextjob", "">>, Release(idelock)>>)
  /\ UNCHANGED <<cpu, lock, proc, lru, disk, latest, Rest>>

NextJobStep(c) ==
  /\ At(c, "nextjob")
  /\ ide' = IF ide.queue # <<>> THEN idestart(ide, Head(ide.queue)) ELSE ide
  /\ Advance(c)
  /\ UNCHANGED <<cpu, lock, proc, buf, lru, disk, latest, Rest>>

(* The disk does its job and raises an interrupt. *)
DiskStep ==
  /\ fault = "none" /\ ide.job # 0
  /\ disk' = IF buf[ide.job].dirty THEN [disk EXCEPT ![buf[ide.job].blockno] = ide.out] ELSE disk
  /\ ide' = [ide EXCEPT !.job = 0, !.irq = TRUE]
  /\ UNCHANGED <<cpu, lock, proc, todo, idle, buf, lru, latest, Rest>>

(* trap: interrupts are off in the handler, and on again after iret.  The  *)
(* disk interrupts the last processor.                                     *)
Iret == <<<<"sti", "">>>>
IdeIntr ==
  /\ fault = "none" /\ ide.irq /\ cpu[NCPU].on
  /\ cpu' = [cpu EXCEPT ![NCPU].on = FALSE]
  /\ ide' = [ide EXCEPT !.irq = FALSE]
  /\ Become(NCPU, ideintr \o Iret \o Ops(NCPU))
  /\ UNCHANGED <<lock, proc, buf, lru, disk, latest, Rest>>

TimerIntr(c) ==
  /\ fault = "none" /\ cpu[c].on /\ intr > 0
  /\ intr' = intr - 1
  /\ cpu' = [cpu EXCEPT ![c].on = FALSE]
  /\ LET clock == <<Acquire(tickslock)>> \o Wakeup(Ticks) \o <<Release(tickslock)>>
         rest == IF cpu[c].proc # 0 THEN Yield ELSE <<>>
     IN  Become(c, (IF c = 1 THEN clock ELSE <<>>) \o rest \o Iret \o Ops(c))
  /\ UNCHANGED <<lock, proc, Data, fault>>
-----------------------------------------------------------------------------
CpuStep(c) ==
  \/ AcquireStep(c) \/ SpinStep(c) \/ ReleaseStep(c) \/ StiStep(c) \/ ScanStep(c)
  \/ SchedStep(c) \/ ResumeStep(c) \/ StateStep(c) \/ LockedStep(c) \/ UnlockedStep(c)
  \/ BgetStep(c) \/ BreadStep(c) \/ PutStep(c) \/ DirtyStep(c) \/ BrelseStep(c) \/ UnrefStep(c)
  \/ IderwStep(c) \/ EnqueueStep(c) \/ FinishedStep(c) \/ IdeintrStep(c) \/ NextJobStep(c)

KNext == DiskStep \/ IdeIntr \/ \E c \in Cpus : CpuStep(c) \/ TimerIntr(c)

KSpec == KInit /\ [][KNext]_kvars

-----------------------------------------------------------------------------
(* Types; besides, ncli counts the spinlocks of a processor and the one it *)
(* spins on.                                                               *)
KTypeOK ==
  /\ lock \in [Locks -> Cpus \cup {0}]
  /\ \A c \in Cpus : /\ cpu[c].cur \in {0, cpu[c].proc} /\ cpu[c].proc \in Procs \cup {0}
                     /\ cpu[c].ncli = Cardinality({l \in Locks : lock[l] = c})
                                      + (IF At(c, "spin") THEN 1 ELSE 0)
  /\ \A p \in Procs : proc[p].state \in {"RUNNABLE", "RUNNING", "SLEEPING", "ZOMBIE"}
  /\ \A i \in Bufs : buf[i].blockno \in Blocks \cup {0} /\ buf[i].refcnt \in 0..Len(Script)
  /\ {lru[j] : j \in DOMAIN lru} = Bufs /\ Len(lru) = NBUF
  /\ ide.job \in Bufs \cup {0}

(* No panic of acquire, release, popcli, sched, iderw, bwrite, brelse or   *)
(* bget: in particular no processor waits for a lock of its own, in an     *)
(* interrupt handler or elsewhere, and no buffer is missing.               *)
KNoPanic == fault = "none"

(* A processor that holds a spinlock is not interrupted: a handler could   *)
(* need the same lock (comment at acquire).                                *)
LockedIsQuiet == \A l \in Locks : lock[l] # 0 => ~cpu[lock[l]].on

(* A process runs on one processor, and its registers are saved before     *)
(* another takes it up: one that is not RUNNING is left only under         *)
(* ptable.lock.                                                            *)
OneProcessor ==
  /\ \A c, d \in Cpus : c # d /\ cpu[c].cur # 0 => cpu[c].cur # cpu[d].cur
  /\ \A c \in Cpus : cpu[c].cur # 0 /\ proc[cpu[c].cur].state # "RUNNING" => lock[ptable] = c

(* Who sleeps will be woken: on a sleep lock while it is held, on a buffer *)
(* while its request is queued; or the wakeup is under way (sleep takes    *)
(* ptable.lock before it gives up the other lock).                         *)
Coming(chan) ==
  \/ \E p \in Procs : \E j \in DOMAIN todo[p] : todo[p][j] = <<"wakeup1", chan>>
  \/ \E c \in Cpus : \E j \in DOMAIN idle[c] : idle[c][j] = <<"wakeup1", chan>>
NoLostWakeup ==
  \A p \in Procs, i \in Bufs : proc[p].state = "SLEEPING" =>
    /\ proc[p].chan = LkChan(i) => buf[i].locked \/ Coming(LkChan(i))
    /\ proc[p].chan = IoChan(i) => \/ \E j \in DOMAIN ide.queue : ide.queue[j] = i
                                   \/ Coming(IoChan(i))

(* A block is in one buffer at most (bget looks and claims under one lock). *)
OneCopy == \A i, j \in Bufs : i # j /\ buf[i].blockno # 0 => buf[i].blockno # buf[j].blockno

(* Whoever has a block locked and read finds what was last put there, by   *)
(* whichever process, and nobody else has it; a block that has been        *)
(* changed and not yet written is not lost from the cache.                 *)
SeesLatest ==
  /\ \A i \in Bufs :
       /\ Cardinality({p \in Procs : proc[p].has /\ proc[p].buf = i}) <= 1
       /\ buf[i].blockno # 0 /\ buf[i].valid => buf[i].data = latest[buf[i].blockno]
  /\ \A b \in Blocks : latest[b] # disk[b] => \E i \in Bufs : buf[i].blockno = b /\ buf[i].valid

(* A request in the queue is being worked on: the disk has the first one,  *)
(* or its interrupt or handler is on the way.                              *)
DiskBusy ==
  ide.queue # <<>> /\ lock[idelock] = 0 => ide.job = Head(ide.queue) \/ ide.irq
       \/ \E c \in Cpus : \E j \in DOMAIN Ops(c) : Ops(c)[j][1] = "ideintr"

(* Every process gets its blocks and ends. *)
AllEnd == <>(\A p \in Procs : proc[p].state = "ZOMBIE")

(* Locks, sleep and context switch between any two instructions: no panic  *)
(* of acquire, release or sched, no interrupt on a CPU that holds a        *)
(* spinlock, no process on two CPUs, no wakeup that comes before the sleep *)
(* it is meant for.                                                        *)
LocksExact == KTypeOK /\ KNoPanic /\ LockedIsQuiet /\ OneProcessor /\ NoLostWakeup

(* The buffer cache and the disk queue between any two instructions: a     *)
(* block has one buffer, its users see what was written last (bget, bread, *)
(* brelse), and the disk works while requests are queued (iderw, ideintr). *)
BuffersExact == OneCopy /\ SeesLatest /\ DiskBusy
=============================================================================
