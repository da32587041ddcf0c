-------------------------------- MODULE Mlfq --------------------------------
(***************************************************************************)
(* The multi-level feedback queue scheduler of pj1 (proc.c, the timer      *)
(* branch of trap.c).  level_queue[0..2] are singly linked lists threaded  *)
(* through the process table; a process that has used its quantum moves    *)
(* one level down, level 2 is ordered by priority, every BOOST ticks all   *)
(* queued processes return to level 0, and schedulerLock lets one process  *)
(* keep the CPU.                                                           *)
(*                                                                         *)
(* k is the process table with the queue heads and the global counters.    *)
(* Every function of proc.c that changes them is an operator from a table  *)
(* to a table, and every critical section under ptable.lock is one step:   *)
(* what a process does before it calls sched(), together with the part of  *)
(* the scheduler loop after swtch returns, and the part before swtch that  *)
(* chooses the next process.  schedulerLock, schedulerUnlock and fork run  *)
(* (partly) without the lock and take several steps.                       *)
(***************************************************************************)
EXTENDS Links

CONSTANT Confs   \* machines and programs to look at, as records; see below

VARIABLES
  conf,   \* one of them
  k,      \* ptable, level_queue, global_tick, scheduler_locked; see TypeOK
  cproc,  \* cpus[c].proc, 0 if none
  sp,     \* the local variable p of scheduler() on each CPU
  pc,     \* where the process in each slot goes on when it runs
  arg,    \* the slot fork or schedulerUnlock has picked
  intr    \* CPUs inside the timer interrupt

vars == <<conf, k, cproc, sp, pc, arg, intr>>

NPROC       == conf.nproc    \* slots of the process table
CPU         == conf.cpus     \* processors, numbered from 0
QuantumBase == conf.base     \* time_quantum = QuantumStep * level + QuantumBase (2 * level + 4)
QuantumStep == conf.step
BOOST       == conf.boost    \* ticks between two priority boosts (100)
MAXPRI      == conf.maxpri   \* priority of a new process (3)
Lockers     == conf.lockers  \* slots whose processes call schedulerLock and schedulerUnlock
KillTargets == conf.kill     \* slots that processes aim kill at
PriTargets  == conf.pri      \* slots that processes aim setPriority at

ASSUME MlfqAssumption ==
  \A f \in Confs :
    /\ f.nproc \in Nat \ {0} /\ f.boost \in Nat \ {0} /\ f.maxpri \in Nat
    /\ f.base \in Nat \ {0} /\ f.step \in Nat
    /\ f.cpus \subseteq Nat /\ 0 \in f.cpus /\ IsFiniteSet(f.cpus)
    /\ f.lockers \subseteq 1..f.nproc /\ f.pri \subseteq 1..f.nproc
    /\ f.kill \subseteq 2..f.nproc   \* nobody kills init

Slots  == 1..NPROC
Init1  == 1            \* initproc
Ticks  == NPROC + 1    \* the channel &ticks; a slot is the channel of wait()
Levels == 0..2

time_quantum(l) == QuantumStep * l + QuantumBase
-----------------------------------------------------------------------------
(* A loop that walks a list with a cycle never ends. *)
Hang(t) == [t EXCEPT !.fault = "hang"]

enqueue(t, p, l) ==
  IF t.already_enqueued[p] THEN t
  ELSE IF t.level_queue[l] = 0
    THEN [t EXCEPT !.level_queue[l] = p, !.next[p] = 0, !.already_enqueued[p] = TRUE]
  ELSE IF Ends(t, t.level_queue[l])
    THEN [t EXCEPT !.next = [@ EXCEPT ![LastNode(t, t.level_queue[l])] = p, ![p] = 0],
                   !.already_enqueued[p] = TRUE]
  ELSE Hang(t)

dequeueKeepsFlag(t, l) ==
  [t EXCEPT !.level_queue[l] = t.next[t.level_queue[l]], !.next[t.level_queue[l]] = 0]
dequeue(t, l) ==
  LET p == t.level_queue[l]
  IN  [t EXCEPT !.level_queue[l] = t.next[p], !.next[p] = 0,
                !.already_enqueued[p] = FALSE]

dequeue_specific(t, l, p) ==
  LET h == t.level_queue[l]
      n == Steps(t, h, {p})
      u == IF n = 0 THEN [t EXCEPT !.level_queue[l] = t.next[p]]
                    ELSE [t EXCEPT !.next[Path(t, h)[n - 1]] = t.next[p]]
  IN  IF ~t.already_enqueued[p] THEN t
      ELSE IF p \in Nodes(t, h)
        THEN [u EXCEPT !.next[p] = 0, !.already_enqueued[p] = FALSE]
      ELSE IF Ends(t, h) THEN t ELSE Hang(t)
-----------------------------------------------------------------------------
(* schedulerUnlock, its search: the first queued process, by level, that   *)
(* has lock_scheduler set; 0 if there is none, -1 if the search runs into  *)
(* a cycle.                                                                *)
Holding(t, l) == {p \in Nodes(t, t.level_queue[l]) : t.lock_scheduler[p]}

FindHolder(t) ==
  LET L == {l \in Levels : Holding(t, l) # {} \/ ~Ends(t, t.level_queue[l])}
      l == Min(L)
      h == t.level_queue[l]
  IN  IF L = {} THEN 0
      ELSE IF Holding(t, l) = {} THEN -1
      ELSE Path(t, h)[Steps(t, h, Holding(t, l))]

(* schedulerUnlock, called with ptable.lock held, what it does to the      *)
(* process it found: out of its queue unless it is RUNNABLE, and if it can *)
(* run, to the head of level 0.                                            *)
CanRun(t, p) == t.state[p] \in {"RUNNABLE", "RUNNING"}
Release(t, p) ==
  LET t1 == [t EXCEPT !.scheduler_locked = FALSE, !.lock_scheduler[p] = FALSE]
      t2 == IF t.state[p] # "RUNNABLE" THEN dequeue_specific(t1, t1.level[p], p) ELSE t1
  IN  IF CanRun(t, p)
        THEN [t2 EXCEPT !.next[p] = t2.level_queue[0], !.level_queue[0] = p,
                        !.level[p] = 0, !.time_allotment[p] = 0,
                        !.already_enqueued[p] = TRUE]
        ELSE t2

Unlocked(t, p) == IF p = 0 THEN t ELSE IF p = -1 THEN Hang(t) ELSE Release(t, p)

schedulerUnlock(t) == IF t.scheduler_locked THEN Unlocked(t, FindHolder(t)) ELSE t
-----------------------------------------------------------------------------
(* wakeup1: the sleepers on chan become runnable, in table order. *)
wakeup1(t, chan) ==
  LET w[n \in 0..NPROC] ==
        IF n = 0 THEN t
        ELSE IF w[n - 1].state[n] = "SLEEPING" /\ w[n - 1].chan[n] = chan
          THEN enqueue([w[n - 1] EXCEPT !.state[n] = "RUNNABLE"], n, t.level[n])
        ELSE w[n - 1]
  IN  w[NPROC]

(* Priority boost, level 0: new priorities and allotments. *)
Refresh(t, S) ==
  [t EXCEPT !.priority = [p \in Slots |-> IF p \in S THEN MAXPRI ELSE @[p]],
            !.time_allotment = [p \in Slots |-> IF p \in S THEN 0 ELSE @[p]]]

(* Priority boost, levels 1 and 2: the loop that links the processes of a  *)
(* level behind cur, the last process of level 0, one by one.              *)
LinkBehind(t, cur, p) ==
  IF cur = 0 THEN [t EXCEPT !.level_queue[0] = p] ELSE [t EXCEPT !.next[cur] = p]
GoOn(t, p) == [t |-> t, cur |-> p, nxt |-> t.next[p]]
MoveOne(u) ==
  IF u.nxt = 0 THEN u
  ELSE GoOn(LinkBehind(Refresh([u.t EXCEPT !.level[u.nxt] = 0], {u.nxt}), u.cur, u.nxt), u.nxt)
Emptied(u, l) ==
  IF u.nxt # 0 THEN [t |-> Hang(u.t), cur |-> 0]
  ELSE [t |-> [u.t EXCEPT !.level_queue[l] = 0], cur |-> u.cur]
MoveLevel(s, l) ==
  LET it[n \in 0..NPROC + 1] ==
        IF n = 0 THEN [t |-> s.t, cur |-> s.cur, nxt |-> s.t.level_queue[l]] ELSE MoveOne(it[n - 1])
  IN  Emptied(it[NPROC + 1], l)

boostOneLevel(t) ==
  LET h == t.level_queue[0]
      s == [t |-> Refresh(t, Nodes(t, h)), cur |-> IF h = 0 THEN 0 ELSE LastNode(t, h)]
  IN  [MoveLevel(s, 1).t EXCEPT !.global_tick = 0]
boost(t) ==
  LET h == t.level_queue[0]
      s == [t |-> Refresh(t, Nodes(t, h)), cur |-> IF h = 0 THEN 0 ELSE LastNode(t, h)]
      u == schedulerUnlock(MoveLevel(MoveLevel(s, 1), 2).t)
  IN  IF Ends(t, h) THEN [u EXCEPT !.global_tick = 0] ELSE Hang(t)

(* A process that has used up its quantum: one level down, or at level 2   *)
(* one priority up.                                                        *)
demote(t, p) ==
  LET t1 == IF t.scheduler_locked THEN dequeue_specific(t, t.level[p], p) ELSE t
  IN  IF t.time_allotment[p] < time_quantum(t.level[p]) THEN t
      ELSE IF t.level[p] < 2
        THEN [t1 EXCEPT !.level[p] = @ + 1, !.time_allotment[p] = 0]
        ELSE [t EXCEPT !.priority[p] = IF @ >= 1 THEN @ - 1 ELSE 0,
                       !.time_allotment[p] = 0]

(* scheduler(), from the return of swtch to release(&ptable.lock): p has   *)
(* stopped running.                                                        *)
AfterRelease(t, p) ==
  IF t.scheduler_locked /\ t.state[p] # "RUNNABLE" THEN schedulerUnlock(t) ELSE t
AfterDemote(t, p) == IF t.state[p] = "RUNNABLE" THEN enqueue(t, p, t.level[p]) ELSE t
AfterSwtch(t, p) == AfterDemote(demote(AfterRelease(t, p), p), p)
AfterEnqueue(t) == IF t.global_tick >= BOOST THEN boost(t) ELSE t

(* Back in the scheduler of CPU c: p is kept while the scheduler is locked.*)
Stop(c, t) ==
  \E u \in {AfterSwtch(t, cproc[c])} :
    /\ k' = AfterEnqueue(u)
    /\ sp' = [sp EXCEPT ![c] = IF u.scheduler_locked THEN cproc[c] ELSE 0]
    /\ cproc' = [cproc EXCEPT ![c] = 0]

(* scheduler(), its choice: the head of the first non-empty level, and at  *)
(* level 2 the first of the processes with the least priority.             *)
NonEmpty(t) == {l \in Levels : t.level_queue[l] # 0}

ChooseHead(t) ==
  IF NonEmpty(t) = {} THEN 0 ELSE t.level_queue[Min(NonEmpty(t))]
Choose(t) ==
  LET h == t.level_queue[Min(NonEmpty(t))]
      N == Nodes(t, h)
      best == {p \in N : \A q \in N : t.priority[p] <= t.priority[q]}
  IN  IF NonEmpty(t) = {} THEN 0
      ELSE IF NonEmpty(t) = {2} THEN Path(t, h)[Steps(t, h, best)]
      ELSE h

Taken(t, p) ==
  IF NonEmpty(t) # {2} THEN dequeue(t, Min(NonEmpty(t)))
  ELSE IF Ends(t, t.level_queue[2]) THEN dequeue_specific(t, 2, p)
  ELSE Hang(t)
-----------------------------------------------------------------------------
(* userinit has just run: init is the only process and is in level 0. *)
Init ==
  /\ conf \in Confs
  /\ k = [state            |-> [p \in Slots |-> IF p = Init1 THEN "RUNNABLE" ELSE "UNUSED"],
          parent           |-> [p \in Slots |-> 0],
          chan             |-> [p \in Slots |-> 0],
          killed           |-> [p \in Slots |-> FALSE],
          level            |-> [p \in Slots |-> 0],
          priority         |-> [p \in Slots |-> IF p = Init1 THEN MAXPRI ELSE 0],
          time_allotment   |-> [p \in Slots |-> 0],
          lock_scheduler   |-> [p \in Slots |-> FALSE],
          already_enqueued |-> [p \in Slots |-> p = Init1],
          next             |-> [p \in Slots |-> 0],
          level_queue      |-> [l \in Levels |-> IF l = 0 THEN Init1 ELSE 0],
          global_tick      |-> 0,
          scheduler_locked |-> FALSE,
          fault            |-> "none"]
  /\ cproc = [c \in CPU |-> 0]
  /\ sp = [c \in CPU |-> 0]
  /\ pc = [p \in Slots |-> "user"]
  /\ arg = [p \in Slots |-> 0]
  /\ intr = {}

(* CPU c has no process: scheduler() takes ptable.lock, chooses one and    *)
(* switches to it; the process releases ptable.lock.  A process that       *)
(* stopped in exit has nowhere to return to, and a free slot no stack.     *)
Pick(c) ==
  LET keep == sp[c] # 0 /\ k.scheduler_locked
      p == IF keep THEN sp[c] ELSE Choose(k)
      t == IF keep THEN k ELSE Taken(k, p)
  IN  /\ k.fault = "none" /\ cproc[c] = 0 /\ c \notin intr
      /\ p # 0
      /\ k' = [t EXCEPT !.state[p] = "RUNNING", !.chan[p] = 0,
                        !.fault = IF t.state[p] \in {"UNUSED", "EMBRYO"} THEN "no stack"
                                  ELSE IF pc[p] = "exit" THEN "zombie exit" ELSE @]
      /\ cproc' = [cproc EXCEPT ![c] = p]
      /\ sp' = [sp EXCEPT ![c] = p]
      /\ UNCHANGED <<pc, arg, intr>>

(* Nothing to run: the loop starts over with p = 0. *)
Idle(c) ==
  /\ k.fault = "none" /\ cproc[c] = 0 /\ c \notin intr
  /\ ~(sp[c] # 0 /\ k.scheduler_locked) /\ Choose(k) = 0
  /\ sp' = [sp EXCEPT ![c] = 0]
  /\ UNCHANGED <<k, cproc, pc, arg, intr>>

(* Process p runs on c and is about to take a step. *)
Runs(c, p) == k.fault = "none" /\ p = cproc[c] /\ p # 0 /\ c \notin intr
Calls(c, p) == Runs(c, p) /\ pc[p] = "user" /\ ~k.killed[p]

(* The timer interrupt, its first part, on CPU 0 only: it counts the tick  *)
(* and wakes the sleepers on &ticks.  Counters saturate at the value they  *)
(* are compared with.                                                      *)
TimerTick(c) ==
  /\ k.fault = "none" /\ c = 0 /\ c \notin intr
  /\ intr' = intr \cup {c}
  /\ k' = wakeup1([k EXCEPT !.global_tick = Min({@ + 1, BOOST})], Ticks)
  /\ UNCHANGED <<cproc, sp, pc, arg>>

exit(t, p) ==
  LET kids == {q \in Slots : t.parent[q] = p}
      t1 == wakeup1(t, t.parent[p])
      t2 == [t1 EXCEPT !.parent = [q \in Slots |-> IF q \in kids THEN Init1 ELSE @[q]]]
      t3 == IF \E q \in kids : t.state[q] = "ZOMBIE" THEN wakeup1(t2, Init1) ELSE t2
  IN  [t3 EXCEPT !.state[p] = "ZOMBIE"]

(* Its second part: the running process is charged and gives up the CPU,   *)
(* or exits if it was killed.                                              *)
Charged(t, p) ==
  [t EXCEPT !.time_allotment[p] = Min({@ + 1, time_quantum(t.level[p])})]

TimerYield(c) ==
  LET p == cproc[c]
      dies == k.killed[p] /\ pc[p] = "user"
      t == IF k.state[p] = "RUNNING" THEN Charged(k, p) ELSE k
  IN  /\ k.fault = "none" /\ (c = 0 => c \in intr)
      /\ intr' = intr \ {c}
      /\ IF p = 0 THEN UNCHANGED <<k, cproc, sp, pc>>
         ELSE IF dies THEN Stop(c, exit(t, p)) /\ pc' = [pc EXCEPT ![p] = "exit"]
         ELSE IF k.state[p] = "RUNNING"
           THEN Stop(c, [t EXCEPT !.state[p] = "RUNNABLE"]) /\ UNCHANGED pc
         ELSE UNCHANGED <<k, cproc, sp, pc>>
      /\ UNCHANGED arg

Yield(c, p) ==
  /\ Calls(c, p)
  /\ Stop(c, [k EXCEPT !.state[p] = "RUNNABLE"])
  /\ UNCHANGED <<pc, arg, intr>>

(* sys_sleep: sleep(&ticks) until enough ticks have passed or it is killed.*)
Sleep(c, p) ==
  /\ Calls(c, p) \/ (Runs(c, p) /\ pc[p] = "sleep" /\ ~k.killed[p])
  /\ pc' = [pc EXCEPT ![p] = "sleep"]
  /\ Stop(c, [k EXCEPT !.state[p] = "SLEEPING", !.chan[p] = Ticks])
  /\ UNCHANGED <<arg, intr>>

SleepReturns(c, p) ==
  /\ Runs(c, p) /\ pc[p] = "sleep"
  /\ pc' = [pc EXCEPT ![p] = "user"]
  /\ UNCHANGED <<k, cproc, sp, arg, intr>>

(* wait: reap the first zombie child, return if there is no child or the   *)
(* caller was killed, or sleep on the caller's own slot and look again.    *)
Wait(c, p) ==
  LET kids == {q \in Slots : k.parent[q] = p}
      dead == {q \in kids : k.state[q] = "ZOMBIE"}
      q == Min(dead)
  IN  /\ Calls(c, p) \/ (Runs(c, p) /\ pc[p] = "wait")
      /\ \/ /\ dead # {}
            /\ k' = [k EXCEPT !.state[q] = "UNUSED", !.parent[q] = 0, !.killed[q] = FALSE]
            /\ pc' = [pc EXCEPT ![p] = "user"]
            /\ UNCHANGED <<cproc, sp>>
         \/ /\ dead = {} /\ (kids = {} \/ k.killed[p])
            /\ pc' = [pc EXCEPT ![p] = "user"]
            /\ UNCHANGED <<k, cproc, sp>>
         \/ /\ dead = {} /\ kids # {} /\ ~k.killed[p]
            /\ pc' = [pc EXCEPT ![p] = "wait"]
            /\ Stop(c, [k EXCEPT !.state[p] = "SLEEPING", !.chan[p] = p])
      /\ UNCHANGED <<arg, intr>>

(* exit, called or forced on the way back to user mode; init never exits. *)
Exit(c, p) ==
  /\ Runs(c, p) /\ pc[p] = "user" /\ p # Init1
  /\ pc' = [pc EXCEPT ![p] = "exit"]
  /\ Stop(c, exit(k, p))
  /\ UNCHANGED <<arg, intr>>

(* fork: allocproc takes the first free slot ... *)
ForkAlloc(c, p) ==
  LET q == Min({i \in Slots : k.state[i] = "UNUSED"})
  IN  /\ Calls(c, p)
      /\ \E i \in Slots : k.state[i] = "UNUSED"
      /\ k' = [k EXCEPT !.state[q] = "EMBRYO", !.level[q] = 0, !.priority[q] = MAXPRI,
                        !.time_allotment[q] = 0, !.next[q] = 0]
      /\ pc' = [pc EXCEPT ![p] = "fork", ![q] = "user"]
      /\ arg' = [arg EXCEPT ![p] = q]
      /\ UNCHANGED <<cproc, sp, intr>>

(* ... then the child becomes runnable, or kalloc or copyuvm fails. *)
ForkReturns(c, p) ==
  /\ Runs(c, p) /\ pc[p] = "fork"
  /\ pc' = [pc EXCEPT ![p] = "user"]
  /\ arg' = [arg EXCEPT ![p] = 0]
  /\ UNCHANGED <<cproc, sp, intr>>
ForkEnd(c, p) ==
  LET q == arg[p]
  IN  /\ ForkReturns(c, p)
      /\ k' = enqueue([k EXCEPT !.state[q] = "RUNNABLE", !.parent[q] = p], q, k.level[q])
ForkFails(c, p) ==
  /\ ForkReturns(c, p)
  /\ k' = [k EXCEPT !.state[arg[p]] = "UNUSED"]

Kill(c, p, q) ==
  LET t == [k EXCEPT !.killed[q] = TRUE]
  IN  /\ Calls(c, p)
      /\ k' = IF k.state[q] = "SLEEPING"
                THEN enqueue([t EXCEPT !.state[q] = "RUNNABLE"], q, k.level[q])
                ELSE t
      /\ UNCHANGED <<cproc, sp, pc, arg, intr>>

setPriority(c, p, q, pri) ==
  /\ Calls(c, p)
  /\ k' = IF pri \in 0..MAXPRI THEN [k EXCEPT !.priority[q] = pri] ELSE k
  /\ UNCHANGED <<cproc, sp, pc, arg, intr>>

(* schedulerLock: the test and the three stores, without any lock. *)
LockTest(c, p) ==
  /\ Calls(c, p)
  /\ ~k.scheduler_locked
  /\ pc' = [pc EXCEPT ![p] = "lock"]
  /\ UNCHANGED <<k, cproc, sp, arg, intr>>

LockSet(c, p) ==
  /\ Runs(c, p)
  /\ \/ /\ pc[p] = "lock" /\ pc' = [pc EXCEPT ![p] = "lock_flag"]
        /\ k' = [k EXCEPT !.global_tick = 0]
     \/ /\ pc[p] = "lock_flag" /\ pc' = [pc EXCEPT ![p] = "lock_mark"]
        /\ k' = [k EXCEPT !.scheduler_locked = TRUE]
     \/ /\ pc[p] = "lock_mark" /\ pc' = [pc EXCEPT ![p] = "user"]
        /\ k' = [k EXCEPT !.lock_scheduler[p] = TRUE]
  /\ UNCHANGED <<cproc, sp, arg, intr>>

(* schedulerUnlock as a system call: the search and the stores, without    *)
(* any lock.                                                               *)
UnlockFind(c, p) ==
  /\ Calls(c, p)
  /\ k.scheduler_locked
  /\ pc' = [pc EXCEPT ![p] = "unlock"]
  /\ arg' = [arg EXCEPT ![p] = FindHolder(k)]
  /\ UNCHANGED <<k, cproc, sp, intr>>

(* dequeue_specific finds q, and its first store, with q->next still set. *)
InQueue(t, q) ==
  t.state[q] # "RUNNABLE" /\ t.already_enqueued[q] /\ q \in Nodes(t, t.level_queue[t.level[q]])
LinkedOut(t, q) ==
  [dequeue_specific(t, t.level[q], q) EXCEPT !.next[q] = t.next[q], !.already_enqueued[q] = TRUE]

(* It goes on with the store named l, or returns. *)
UnlockNext(p, l) == pc' = [pc EXCEPT ![p] = l] /\ UNCHANGED arg
UnlockReturns(p) == pc' = [pc EXCEPT ![p] = "user"] /\ arg' = [arg EXCEPT ![p] = 0]

UnlockApply(c, p) ==
  LET q == arg[p]
  IN  /\ Runs(c, p)
      /\ \/ /\ pc[p] = "unlock" /\ q \in {0, -1} /\ UnlockReturns(p)
            /\ k' = IF q = 0 THEN k ELSE Hang(k)
         \/ /\ pc[p] = "unlock" /\ q \in Slots /\ UnlockNext(p, "unlock_mark")
            /\ k' = [k EXCEPT !.scheduler_locked = FALSE]
         \/ /\ pc[p] = "unlock_mark" /\ UnlockNext(p, "unlock_out")
            /\ k' = [k EXCEPT !.lock_scheduler[q] = FALSE]
         \/ /\ pc[p] = "unlock_out" /\ InQueue(k, q) /\ UnlockNext(p, "unlock_null")
            /\ k' = LinkedOut(k, q)
         \/ /\ pc[p] = "unlock_out" /\ ~InQueue(k, q) /\ UnlockNext(p, "unlock_next")
            /\ k' = IF k.state[q] # "RUNNABLE" THEN dequeue_specific(k, k.level[q], q) ELSE k
         \/ /\ pc[p] = "unlock_null" /\ UnlockNext(p, "unlock_gone")
            /\ k' = [k EXCEPT !.next[q] = 0]
         \/ /\ pc[p] = "unlock_gone" /\ UnlockNext(p, "unlock_next")
            /\ k' = [k EXCEPT !.already_enqueued[q] = FALSE]
         \/ /\ pc[p] = "unlock_next" /\ ~CanRun(k, q) /\ UnlockReturns(p)
            /\ UNCHANGED k
         \/ /\ pc[p] = "unlock_next" /\ CanRun(k, q) /\ UnlockNext(p, "unlock_head")
            /\ k' = [k EXCEPT !.next[q] = k.level_queue[0]]
         \/ /\ pc[p] = "unlock_head" /\ UnlockNext(p, "unlock_level")
            /\ k' = [k EXCEPT !.level_queue[0] = q]
         \/ /\ pc[p] = "unlock_level" /\ UnlockNext(p, "unlock_time")
            /\ k' = [k EXCEPT !.level[q] = 0]
         \/ /\ pc[p] = "unlock_time" /\ UnlockNext(p, "unlock_end")
            /\ k' = [k EXCEPT !.time_allotment[q] = 0]
         \/ /\ pc[p] = "unlock_end" /\ UnlockReturns(p)
            /\ k' = [k EXCEPT !.already_enqueued[q] = TRUE]
      /\ UNCHANGED <<cproc, sp, intr>>

Locking ==
  {"lock", "lock_flag", "lock_mark", "unlock", "unlock_mark", "unlock_out", "unlock_null",
   "unlock_gone", "unlock_next", "unlock_head", "unlock_level", "unlock_time", "unlock_end"}

(* Steps of the kernel that go on by themselves, and calls that processes  *)
(* make in any order.                                                      *)
KernelStep(c) ==
  \/ Pick(c) \/ Idle(c) \/ TimerTick(c) \/ TimerYield(c)
  \/ \E p \in Slots : SleepReturns(c, p) \/ LockSet(c, p) \/ UnlockApply(c, p) \/ ForkEnd(c, p)
AnyCall(c, p) ==
  \/ Yield(c, p) \/ Sleep(c, p) \/ Wait(c, p) \/ Exit(c, p) \/ ForkAlloc(c, p) \/ ForkFails(c, p)
  \/ p \in Lockers /\ (LockTest(c, p) \/ UnlockFind(c, p))
  \/ \E q \in KillTargets : Kill(c, p, q)
  \/ \E q \in PriTargets, pri \in 0..MAXPRI : setPriority(c, p, q, pri)

Next ==
  /\ \E c \in CPU : KernelStep(c) \/ \E p \in Slots : AnyCall(c, p)
  /\ UNCHANGED conf

Spec == Init /\ [][Next]_vars

(* The timer interrupts CPU 0 again and again and its handler returns, so  *)
(* that the process there is stopped; another CPU is back in its scheduler *)
(* again and again, by its own timer.  A CPU in the scheduler loop gets on *)
(* and does not stay without a process while there is one to choose.       *)
AllCpus == UNION {f.cpus : f \in Confs}
Fairness ==
  /\ []<>(0 \in intr) /\ []<>(0 \notin intr)
  /\ \A c \in AllCpus :
       /\ c # 0 => []<>(c \in CPU => cproc[c] = 0)
       /\ []<>(c \in CPU => cproc[c] # 0 \/ Choose(k) = 0)

FairSpec == Spec /\ Fairness
-----------------------------------------------------------------------------
States == {"UNUSED", "EMBRYO", "SLEEPING", "RUNNABLE", "RUNNING", "ZOMBIE"}

Table ==
  [state            : [Slots -> States],
   parent           : [Slots -> 0..NPROC],
   chan             : [Slots -> 0..Ticks],
   killed           : [Slots -> BOOLEAN],
   level            : [Slots -> Levels],
   priority         : [Slots -> 0..MAXPRI],
   time_allotment   : [Slots -> 0..time_quantum(2)],
   lock_scheduler   : [Slots -> BOOLEAN],
   already_enqueued : [Slots -> BOOLEAN],
   next             : [Slots -> 0..NPROC],
   level_queue      : [Levels -> 0..NPROC],
   global_tick      : 0..BOOST,
   scheduler_locked : BOOLEAN,
   fault            : {"none", "hang", "zombie exit", "no stack"}]

(* Types of the process table and of the scheduler's variables. *)
TypeOK ==
  /\ k \in Table
  /\ cproc \in [CPU -> 0..NPROC]
  /\ sp \in [CPU -> 0..NPROC]
  /\ pc \in [Slots -> {"user", "fork", "wait", "sleep", "exit"} \cup Locking]
  /\ arg \in [Slots -> -1..NPROC]
  /\ intr \subseteq CPU

(* The three lists hold exactly the runnable processes, each once and on   *)
(* its own level, end in a null pointer, and agree with already_enqueued.  *)
(* A process is never lost, never queued twice and never dispatched while  *)
(* it sleeps, although enqueue, dequeue, boosting and wakeups in interrupt *)
(* handlers all change the links.  (With schedulerLock this fails.)        *)
QueuesExact ==
  Lockers = {} =>
  /\ \A l \in Levels : Ends(k, k.level_queue[l])
  /\ \A p \in Slots :
       /\ \A l \in Levels :
            p \in Nodes(k, k.level_queue[l]) <=> k.state[p] = "RUNNABLE" /\ k.level[p] = l
       /\ k.already_enqueued[p] <=> k.state[p] = "RUNNABLE"

(* No process runs on two CPUs, and a process is RUNNING exactly while a   *)
(* CPU runs it.                                                            *)
RunsOnce ==
  /\ \A c, d \in CPU : cproc[c] # 0 /\ cproc[c] = cproc[d] => c = d
  /\ \A p \in Slots : k.state[p] = "RUNNING" <=> \E c \in CPU : cproc[c] = p

(* A zombie is a finished process: nothing runs it again before wait has   *)
(* freed its slot, and its kernel stack is not in use when wait frees it,  *)
(* as long as nobody calls schedulerLock.                                  *)
NoFault == Lockers = {} => k.fault = "none"

(* The scheduler runs no process while one that should come first waits:   *)
(* one of a lower level, or at level 2 one of lower priority.              *)
DispatchInOrder ==
  [][\A c \in CPU :
       Lockers = {} /\ cproc[c] = 0 /\ cproc'[c] # 0 =>
         \A q \in Slots :
           k.state[q] = "RUNNABLE" =>
             \/ k.level[cproc'[c]] < k.level[q]
             \/ /\ k.level[cproc'[c]] = k.level[q]
                /\ k.level[q] = 2 => k.priority[cproc'[c]] <= k.priority[q]]_vars

(* A boost leaves no runnable process behind: when the tick counter starts *)
(* over, all of them are at level 0 with a fresh allotment and priority.   *)
BoostReachesAll ==
  [][Lockers = {} /\ k.global_tick = BOOST /\ k'.global_tick = 0 =>
       \A p \in Slots :
         k'.state[p] = "RUNNABLE" =>
           /\ k'.level[p] = 0 /\ k'.time_allotment[p] = 0
           /\ k'.priority[p] = MAXPRI]_vars

(* A process that has used up its quantum is moved down (or loses a        *)
(* priority step) before it waits again: no interleaving of ticks, sleeps, *)
(* kills and boosts lets it wait with a full quantum behind it, as long as *)
(* nobody calls schedulerLock.                                             *)
QuantumKept ==
  \A p \in Slots :
    Lockers = {} /\ k.state[p] \in {"RUNNABLE", "SLEEPING"} =>
      k.time_allotment[p] < time_quantum(k.level[p])

(* Nobody starves: a runnable process runs, however the others use the     *)
(* upper levels, because boosts bring it back to level 0.                  *)
Waits(p) == Lockers = {} /\ p \in Slots /\ k.state[p] = "RUNNABLE"
NoStarvation ==
  \A p \in UNION {1..f.nproc : f \in Confs} : Waits(p) ~> (p \in Slots /\ k.state[p] = "RUNNING")

(* One process at most holds the scheduler: schedulerLock refuses a second *)
(* one ("already locked").                                                 *)
OneOwner ==
  \A p, q \in Slots : k.lock_scheduler[p] /\ k.lock_scheduler[q] => p = q

(* The scheduler is not locked by a process that sleeps or has exited. *)
OwnerCanRun ==
  \A p \in Slots :
    k.scheduler_locked /\ k.lock_scheduler[p] => k.state[p] \in {"RUNNABLE", "RUNNING"}

(* What slots are used for between two critical sections: a process that   *)
(* has exited is a zombie or its slot is free, and every fork under way    *)
(* has a new slot for itself, in which nothing has been charged yet; all   *)
(* this as long as nobody calls schedulerLock.                             *)
SlotsKept ==
  Lockers = {} =>
  /\ ~k.scheduler_locked
  /\ \A p \in Slots :
       /\ pc[p] \notin Locking
       /\ pc[p] = "exit" => k.state[p] \in {"ZOMBIE", "UNUSED"}
       /\ pc[p] = "fork" => arg[p] \in Slots /\ k.state[arg[p]] = "EMBRYO"
       /\ k.state[p] = "EMBRYO" => k.level[p] = 0 /\ k.time_allotment[p] = 0
       /\ \A q \in Slots : pc[p] = "fork" /\ pc[q] = "fork" /\ arg[p] = arg[q] => p = q

(* The scheduler's data at every step of every CPU: the linked queues hold *)
(* each runnable process once and at its level (enqueue, dequeue, demote), *)
(* a process runs on one CPU, none uses more than its quantum at a level,  *)
(* and no zombie is run or freed while a CPU is on its stack.              *)
MlfqInv == TypeOK /\ QueuesExact /\ RunsOnce /\ NoFault /\ QuantumKept /\ SlotsKept

(* The order of the policy: scheduler takes a process of the highest level *)
(* that has one, by priority in L2, and a boost moves every runnable       *)
(* process back to L0.                                                     *)
KeepsOrder == DispatchInOrder /\ BoostReachesAll
=============================================================================
