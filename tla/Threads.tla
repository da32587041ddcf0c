------------------------------- MODULE Threads -------------------------------
(***************************************************************************)
(* Threads and memory limits of pj2 (proc.c, exec.c).  A thread is a slot  *)
(* of the process table of its own; the threads of a process are a linked  *)
(* list that starts at its main thread, share the pid and the page         *)
(* directory, and copy the size of the address space from one another.     *)
(*                                                                         *)
(* k is the process table with the page directories.  A critical section   *)
(* under ptable.lock is one step; system calls that run partly without the *)
(* lock take several, and the timer may preempt them in between.  A        *)
(* process that has just been resumed in sleep() still holds the lock.     *)
(* The scan position of scheduler() is not kept: any RUNNABLE slot may be  *)
(* the next it meets.  Files are left out but for cwd, which stands for    *)
(* what exit and exec close on behalf of other threads.  Sizes are in      *)
(* pages.  Physical memory runs out only when no page directory is left.   *)
(*                                                                         *)
(* conf.rules names the conventions that the programs keep; see Keeps.     *)
(***************************************************************************)
EXTENDS Links

CONSTANTS
  NPROC,        \* slots of the process table
  CPU,          \* processors
  Confs,        \* processors in use, and conventions kept by the programs
  TOP,          \* pages below KERNBASE
  MaxPid,       \* bound: allocproc is called until nextpid reaches it
  ExecSizes,    \* sizes of the programs exec and exec2 load, stack included
  Execers,      \* pids of the processes that call exec and exec2
  Growth,       \* arguments of sbrk
  Growers,      \* pids of the processes that call it
  Limits,       \* limits that processes give to setmemorylimit
  LimitTargets, \* pids that they give to it
  KillTargets   \* pids that processes aim kill at

ASSUME ThreadsAssumption ==
  /\ NPROC \in Nat \ {0} /\ TOP \in Nat \ {0} /\ MaxPid \in Nat
  /\ IsFiniteSet(CPU)
  /\ ExecSizes \subseteq 1..TOP /\ Execers \subseteq Nat \ {1}   \* init does neither
  /\ Growth \subseteq Int \ {0} /\ Growers \subseteq Nat \ {1}
  /\ Limits \subseteq Nat /\ LimitTargets \subseteq Nat
  /\ KillTargets \subseteq Nat \ {1}   \* nobody kills init
  /\ \A f \in Confs :
       /\ f.cpus \subseteq CPU
       /\ f.rules \subseteq {"oldest_first", "joined", "quiet_wait", "one_kind", "in_limit",
                            "not_empty", "no_listing"}

VARIABLES
  conf,   \* the processors in use and the conventions kept
  k,      \* ptable and memory; see TypeOK
  cproc,  \* cpus[c].proc, 0 if none
  pc,     \* where the thread in each slot goes on when it runs
  loc     \* its local variables: a slot p and a number n

vars == <<conf, k, cproc, pc, loc>>

Slots  == 1..NPROC
Init1  == 1             \* initproc
Pgdirs == 1..NPROC + 1
Pages(n) == 0..n - 1

(* The kernel panics, follows a null pointer or loops for ever. *)
Fault(t, f) == [t EXCEPT !.fault = f]
-----------------------------------------------------------------------------
(* Memory: setupkvm takes a page directory, freevm gives it back. *)
Free(t) == Pgdirs \ t.used

setupkvm(t, d, n) == [t EXCEPT !.used = @ \cup {d}, !.mapped[d] = Pages(n)]

freevm(t, d) ==
  IF d \in t.used THEN [t EXCEPT !.used = @ \ {d}, !.mapped[d] = {}]
                  ELSE Fault(t, "kfree")

(* allocuvm maps the pages from old to new; mapping one twice is a panic. *)
allocuvm(t, d, old, new) ==
  IF (Pages(new) \ Pages(old)) \cap t.mapped[d] # {} THEN Fault(t, "remap")
  ELSE [t EXCEPT !.mapped[d] = @ \cup (Pages(new) \ Pages(old))]

(* The loops that store a new size in every thread of main thread m. *)
SetSize(t, m, n) ==
  IF Ends(t, m)
    THEN [t EXCEPT !.sz = [p \in Slots |-> IF p \in Nodes(t, m) THEN n ELSE @[p]]]
    ELSE Fault(t, "hang")

(* allocuvm has no room below KERNBASE; the limit of a process, 0 if none. *)
NoRoom(n) == n > TOP

OverLimit(t, m, n) == t.limit[m] > 0 /\ n > t.limit[m]

growproc(t, q, n) ==
  LET m == t.main[q]
      d == t.pgdir[q]
      new == t.sz[m] + n
      cut == [t EXCEPT !.mapped[d] = @ \ (Pages(t.sz[m]) \ Pages(new))]
  IN  IF n > 0
        THEN IF OverLimit(t, m, new) \/ NoRoom(new) THEN t
             ELSE SetSize(allocuvm(t, d, t.sz[m], new), m, new)
        ELSE IF new < 0 THEN SetSize(t, m, t.sz[m])
             ELSE IF new = 0 THEN cut ELSE SetSize(cut, m, new)
-----------------------------------------------------------------------------
(* allocproc: the first free slot.  next_thread, killed, memory_limit, sz  *)
(* and parent keep what the previous owner left.                           *)
FreeSlot(t) == Min({p \in Slots : t.state[p] = "UNUSED"})

allocproc(t, p) ==
  [t EXCEPT !.state[p] = "EMBRYO", !.pid[p] = t.nextpid, !.nextpid = @ + 1,
            !.is_thread[p] = FALSE, !.tid[p] = 0, !.create_num[p] = 0,
            !.current[p] = p, !.main[p] = p, !.kstack[p] = TRUE]

wakeup1(t, chan) ==
  [t EXCEPT !.state = [p \in Slots |->
     IF @[p] = "SLEEPING" /\ t.chan[p] = chan THEN "RUNNABLE" ELSE @[p]]]

(* What thread_join, exit and kill_for_exec do to the slots they free: the *)
(* kernel stack must be there and must not be in use on another CPU.       *)
FreeThreads(t, S) ==
  LET Clear(f, v) == [p \in Slots |-> IF p \in S THEN v ELSE f[p]]
  IN  IF \E p \in S : ~t.kstack[p] THEN Fault(t, "kfree")
      ELSE IF \E p \in S : t.state[p] = "RUNNING" THEN Fault(t, "stack in use")
      ELSE [t EXCEPT !.kstack = Clear(@, FALSE), !.parent = Clear(@, 0),
                     !.state = Clear(@, "UNUSED"), !.tid = Clear(@, 0),
                     !.join = Clear(@, 0), !.main = Clear(@, 0), !.pid = Clear(@, 0),
                     !.next = Clear(@, 0), !.is_thread = Clear(@, FALSE)]

(* iput(p->cwd); p->cwd = 0 *)
iput(t, p) == IF t.cwd[p] THEN [t EXCEPT !.cwd[p] = FALSE] ELSE Fault(t, "null")

(* Children of p pass to init, which is woken if one of them is a zombie. *)
Reparent(t, p) ==
  LET kids == {q \in Slots : t.parent[q] = p}
      u == [t EXCEPT !.parent = [q \in Slots |-> IF q \in kids THEN Init1 ELSE @[q]]]
  IN  IF \E q \in kids : t.state[q] = "ZOMBIE" THEN wakeup1(u, Init1) ELSE u

(* exit, its part under ptable.lock, but for the switch. *)
exitAlone(t, q) ==
  IF Ends(t, t.main[q])
    THEN [Reparent(wakeup1(t, t.parent[q]), q) EXCEPT !.state[q] = "ZOMBIE"]
    ELSE Fault(t, "hang")
exit(t, q) ==
  LET S == {p \in Nodes(t, t.main[q]) : t.pid[p] = t.pid[q] /\ t.tid[p] # t.tid[q]}
      u == Reparent(wakeup1(FreeThreads(t, S), t.parent[q]), q)
  IN  IF Ends(t, t.main[q]) THEN [u EXCEPT !.state[q] = "ZOMBIE"] ELSE Fault(t, "hang")

(* thread_exit, its part under ptable.lock.  The value it returns is known *)
(* by the thread, so it is not kept apart from tid.                        *)
thread_exit(t, q) ==
  [Reparent(wakeup1(t, t.join[q]), q) EXCEPT !.state[q] = "ZOMBIE"]

(* wait, what it does to a zombie child. *)
ReapKeepsMemory(t, p) ==
  [t EXCEPT !.kstack[p] = FALSE, !.pid[p] = 0, !.parent[p] = 0,
            !.killed[p] = FALSE, !.state[p] = "UNUSED"]
Reap(t, p) ==
  LET u == IF t.main[p] = 0 THEN Fault(t, "null") ELSE freevm(t, t.pgdir[t.main[p]])
  IN  IF ~t.kstack[p] THEN Fault(t, "kfree")
      ELSE [u EXCEPT !.kstack[p] = FALSE, !.pid[p] = 0, !.parent[p] = 0,
                     !.killed[p] = FALSE, !.state[p] = "UNUSED"]

(* thread_create, its part under ptable.lock: np becomes a thread of q's   *)
(* process with a guard page and a stack page of its own.  Without memory  *)
(* newsz is 0, copyout fails and the call returns with ptable.lock held,   *)
(* so that the next acquire panics; over the limit it returns and leaves   *)
(* np and the pages as they are.                                           *)
thread_create(t, q, np) ==
  LET m == t.main[q]
      new == t.sz[m] + 2
      t1 == [t EXCEPT !.main[np] = m, !.parent[np] = t.parent[m], !.pid[np] = t.pid[m],
                      !.create_num[m] = @ + 1, !.tid[np] = t.create_num[m] + 1,
                      !.pgdir[np] = t.pgdir[q]]
      t2 == allocuvm(t1, t.pgdir[q], t.sz[m], new)
      t3 == [t2 EXCEPT !.next = [@ EXCEPT ![LastNode(t2, q)] = np, ![np] = 0],
                       !.sz[np] = new, !.cwd[np] = TRUE, !.state[np] = "RUNNABLE",
                       !.is_thread[np] = TRUE, !.join[np] = q]
  IN  IF NoRoom(new) THEN Fault(t1, "acquire")
      ELSE IF t2.fault # "none" \/ OverLimit(t, m, new) THEN t2
      ELSE IF ~t.cwd[q] THEN Fault(t2, "null")
      ELSE IF ~Ends(t2, q) THEN Fault(t2, "hang")
      ELSE SetSize(t3, m, new)

(* thread_join, its search: the threads numbered n that q has created. *)
JoinableAny(t, q, n) == {p \in Nodes(t, t.next[t.main[q]]) : t.join[p] = q}
Joinable(t, q, n) ==
  {p \in Nodes(t, t.next[t.main[q]]) : t.tid[p] = n /\ t.join[p] = q}

(* thread_join, how it takes p off the list of m.  The body of the loop is *)
(* the assignment, so its first round, if there is one, jumps behind p.    *)
Unlink(t, m, p) ==
  LET h == t.next[m]
      n == t.next[p]
      u == [t EXCEPT !.next[h] = n]
      Back(v, prev) == [v EXCEPT !.current[v.main[p]] = IF @ = p THEN prev ELSE @]
  IN  IF p = h THEN Back([t EXCEPT !.next[m] = n], m)
      ELSE IF h = 0 THEN Fault(t, "null")
      ELSE IF t.next[h] = p THEN Back(t, h)
      ELSE IF n = 0 THEN Fault(u, "null")
      ELSE IF u.next[n] = p THEN Back(u, n)
      ELSE Fault(u, "hang")

(* kill_for_exec, its part under ptable.lock. *)
kill_for_exec(t, q) ==
  LET u == FreeThreads(t, Nodes(t, t.main[q]) \ {q})
  IN  IF Ends(t, t.main[q])
        THEN [u EXCEPT !.main[q] = q, !.is_thread[q] = FALSE, !.tid[q] = 0,
                       !.current[q] = q, !.create_num[q] = 0, !.next[q] = 0]
        ELSE Fault(t, "hang")

(* kill and setmemorylimit act on the first slot with a pid. *)
First(S) == IF S = {} THEN 0 ELSE Min(S)
HasPid(t, pid) == {p \in Slots : t.pid[p] = pid}

kill(t, pid) ==
  LET p == First(HasPid(t, pid))
  IN  IF p = 0 THEN t
      ELSE [t EXCEPT !.killed[p] = TRUE,
                     !.state[p] = IF @ = "SLEEPING" THEN "RUNNABLE" ELSE @]

setmemorylimit(t, pid, limit) ==
  LET p == First({s \in HasPid(t, pid) : ~t.is_thread[s]})
  IN  IF p = 0 \/ t.state[p] = "UNUSED" \/ limit < t.sz[p] THEN t
      ELSE [t EXCEPT !.limit[t.main[p]] = limit]

(* scheduler(): from the thread that ran last round the list to the next   *)
(* RUNNABLE one.                                                           *)
Round(t, m) ==
  LET f[n \in 0..2 * NPROC] ==
        IF n = 0 THEN t.current[m]
        ELSE LET p == t.next[f[n - 1]] IN IF p = 0 THEN m ELSE p
  IN  f

(* The process of p switches to its next thread on a CPU. *)
Dispatch(t, p) ==
  LET m == t.main[p]
      walk == Round(t, m)
      N == {n \in 1..2 * NPROC : t.state[walk[n]] = "RUNNABLE"}
      q == walk[Min(N)]
  IN  IF m = 0 THEN [t |-> Fault(t, "null"), q |-> 0]
      ELSE IF N = {} THEN [t |-> Fault(t, "hang"), q |-> 0]
      ELSE IF ~t.kstack[q] THEN [t |-> Fault(t, "switchuvm"), q |-> 0]
      ELSE [t |-> [t EXCEPT !.current[m] = q, !.state[q] = "RUNNING", !.chan[q] = 0],
            q |-> q]
-----------------------------------------------------------------------------
(* userinit has just run: init is the only process. *)
Init ==
  LET All(v) == [p \in Slots |-> v]
      Only(v, w) == [p \in Slots |-> IF p = Init1 THEN v ELSE w]
  IN  /\ conf \in Confs
      /\ k = [state |-> Only("RUNNABLE", "UNUSED"), pid |-> Only(1, 0),
              parent |-> All(0), chan |-> All(0), killed |-> All(FALSE),
              next |-> All(0), main |-> Only(Init1, 0), current |-> Only(Init1, 0),
              join |-> All(0), tid |-> All(0), is_thread |-> All(FALSE),
              create_num |-> All(0), sz |-> Only(1, 0),
              limit |-> All(0), pgdir |-> Only(1, 0), kstack |-> Only(TRUE, FALSE),
              cwd |-> Only(TRUE, FALSE), nextpid |-> 2, used |-> {1},
              mapped |-> [d \in Pgdirs |-> IF d = 1 THEN Pages(1) ELSE {}],
              fault |-> "none"]
      /\ cproc = [c \in CPU |-> 0]
      /\ pc = All("user")
      /\ loc = All([p |-> 0, n |-> 0])

(* A thread resumed in sleep, or still looking for the thread to join,     *)
(* holds ptable.lock.                                                      *)
LockFree(c) ==
  \A d \in CPU \ {c} : cproc[d] # 0 => pc[cproc[d]] \notin {"join", "wait"}

(* Thread q runs on c; it may take ptable.lock; it is in user mode and     *)
(* makes a system call (init only forks and waits).                        *)
Runs(c, q)  == k.fault = "none" /\ q = cproc[c] /\ q # 0
Locks(c, q) == Runs(c, q) /\ LockFree(c)
Calls(c, q) == Locks(c, q) /\ pc[q] = "user" /\ ~k.killed[q]
UserCall(c, q) == Calls(c, q) /\ q # Init1

(* Conventions.  oldest_first: the thread joined is the first of the list. *)
(* joined: a process calls exec when it has no threads, and exits or is    *)
(* killed when it has no children either.  one_kind: a process has threads *)
(* or one child.  quiet_wait: it does not call wait while a thread of the  *)
(* child is a zombie.  in_limit: a new thread or program fits into memory  *)
(* and the memory limit.  not_empty: sbrk does not give back all pages.    *)
(* no_listing: processinfo is not asked about a thread.                    *)
Keeps(rule, cond) == rule \in conf.rules => cond

Used(p)    == k.state[p] # "UNUSED"
Kids(q)    == {p \in Slots : Used(p) /\ k.parent[p] = q}
Alone(q)   == k.main[q] = q /\ \A p \in Slots \ {q} : Used(p) => k.main[p] # q
Settled(q) == Alone(q) /\ Kids(q) = {} /\ pc[q] \notin {"fork", "create"}

Goto(q, l) == pc' = [pc EXCEPT ![q] = l]
Locals(q, p, n) == loc' = [loc EXCEPT ![q] = [p |-> p, n |-> n]]
LeaveCpu(c) == cproc' = [cproc EXCEPT ![c] = 0]

(* scheduler() on an idle CPU meets the RUNNABLE slot p. *)
Pick(c, p) ==
  /\ k.fault = "none" /\ cproc[c] = 0 /\ LockFree(c)
  /\ k.state[p] = "RUNNABLE"
  /\ k' = Dispatch(k, p).t
  /\ cproc' = [cproc EXCEPT ![c] = Dispatch(k, p).q]
  /\ UNCHANGED <<pc, loc>>

(* The timer interrupt: yield, in user mode or inside a system call. *)
Yield(c, q) ==
  /\ Locks(c, q) /\ pc[q] \notin {"join", "wait"}
  /\ pc[q] = "user" => ~k.killed[q]
  /\ k' = [k EXCEPT !.state[q] = "RUNNABLE"]
  /\ LeaveCpu(c)
  /\ UNCHANGED <<pc, loc>>

(* fork and thread_create both begin with allocproc. *)
Alloc(c, q, l) ==
  LET np == FreeSlot(k)
  IN  /\ Calls(c, q)
      /\ \E p \in Slots : k.state[p] = "UNUSED"
      /\ k' = allocproc(k, np)
      /\ pc' = [pc EXCEPT ![q] = l, ![np] = "user"]
      /\ Locals(q, np, 0)
      /\ UNCHANGED cproc

ForkAlloc(c, q) ==
  /\ Keeps("one_kind", Settled(q))
  /\ Alloc(c, q, "fork")

(* fork: copyuvm fails, or copies the pages below sz, all of which must    *)
(* be mapped, and the child becomes RUNNABLE.                              *)
ForkEnd(c, q) ==
  LET np == loc[q].p
      n == k.sz[k.main[q]]
      d == Min(Free(k))
  IN  /\ Locks(c, q) /\ pc[q] = "fork"
      /\ k' = IF Free(k) = {}
                THEN [k EXCEPT !.kstack[np] = FALSE, !.state[np] = "UNUSED"]
              ELSE IF ~(Pages(n) \subseteq k.mapped[k.pgdir[q]]) THEN Fault(k, "copyuvm")
              ELSE IF ~k.cwd[q] THEN Fault(k, "null")
              ELSE [setupkvm(k, d, n) EXCEPT !.pgdir[np] = d, !.sz[np] = n, !.cwd[np] = TRUE,
                                             !.parent[np] = q, !.state[np] = "RUNNABLE"]
      /\ Goto(q, "user") /\ Locals(q, 0, 0)
      /\ UNCHANGED cproc

(* wait: reap the first zombie whose parent is the caller, return if there *)
(* is no child or the caller was killed, or sleep and look again.          *)
Wait(c, q) ==
  LET kids == {p \in Slots : k.parent[p] = q}
      dead == {p \in kids : k.state[p] = "ZOMBIE"}
  IN  /\ \/ Calls(c, q) /\ Keeps("quiet_wait", \A p \in dead : ~k.is_thread[p])
         \/ Locks(c, q) /\ pc[q] = "wait"
      /\ \/ /\ dead # {}
            /\ k' = Reap(k, Min(dead))
            /\ Goto(q, "user")
            /\ UNCHANGED cproc
         \/ /\ dead = {} /\ (kids = {} \/ k.killed[q])
            /\ Goto(q, "user")
            /\ UNCHANGED <<k, cproc>>
         \/ /\ dead = {} /\ kids # {} /\ ~k.killed[q]
            /\ k' = [k EXCEPT !.state[q] = "SLEEPING", !.chan[q] = q]
            /\ Goto(q, "wait")
            /\ LeaveCpu(c)
      /\ UNCHANGED loc

(* exit, called or forced on the way back to user mode, and thread_exit of *)
(* a main thread.  It starts with the files of the other threads.          *)
Exit(c, q) ==
  /\ Runs(c, q) /\ pc[q] = "user" /\ q # Init1
  /\ k.killed[q] \/ Keeps("joined", Settled(q))
  /\ Goto(q, "exit") /\ Locals(q, k.main[q], 0)
  /\ UNCHANGED <<k, cproc>>

(* exit and kill_for_exec: one thread of the list, without ptable.lock. *)
CloseOther(c, q) ==
  LET p == loc[q].p
  IN  /\ Runs(c, q) /\ pc[q] \in {"exit", "exec"} /\ p # 0
      /\ k' = IF p # q /\ k.state[p] # "ZOMBIE" THEN iput(k, p) ELSE k
      /\ Locals(q, k.next[p], loc[q].n)
      /\ UNCHANGED <<cproc, pc>>

(* The caller's own files, in exit and in thread_exit. *)
CloseOwn(c, q) ==
  /\ Runs(c, q)
  /\ \/ pc[q] = "exit" /\ loc[q].p = 0 /\ Goto(q, "exited")
     \/ pc[q] = "user" /\ ~k.killed[q] /\ k.main[q] # q /\ Goto(q, "thread_exit")
  /\ k' = iput(k, q)
  /\ UNCHANGED <<cproc, loc>>

ExitEnd(c, q) ==
  /\ Locks(c, q)
  /\ \/ pc[q] = "exited" /\ k' = exit(k, q)
     \/ pc[q] = "thread_exit" /\ k' = thread_exit(k, q)
  /\ Goto(q, "dead")
  /\ LeaveCpu(c)
  /\ UNCHANGED loc

CreateAlloc(c, q) ==
  /\ q # Init1
  /\ Keeps("one_kind", Kids(q) = {})
  /\ Alloc(c, q, "create")

CreateEnd(c, q) ==
  LET new == k.sz[k.main[q]] + 2
  IN  /\ Locks(c, q) /\ pc[q] = "create"
      /\ Keeps("in_limit", ~NoRoom(new) /\ ~OverLimit(k, k.main[q], new))
      /\ k' = thread_create(k, q, loc[q].p)
      /\ Goto(q, "user") /\ Locals(q, 0, 0)
      /\ UNCHANGED cproc

(* thread_join: the search; if it fails the call returns ... *)
JoinCall(c, q, n) ==
  LET h == k.next[k.main[q]]
      S == Joinable(k, q, n)
      p == Path(k, h)[Steps(k, h, S)]
  IN  /\ UserCall(c, q)
      /\ S # {}
      /\ Keeps("oldest_first", p = h)
      /\ Goto(q, "join") /\ Locals(q, p, n)
      /\ UNCHANGED <<k, cproc>>

(* ... then it sleeps until the thread is a zombie, and takes it off the   *)
(* list and frees it.                                                      *)
JoinStep(c, q) ==
  LET p == loc[q].p
      u == Unlink(k, k.main[q], p)
  IN  /\ Runs(c, q) /\ pc[q] = "join"
      /\ \/ /\ k.state[p] = "ZOMBIE"
            /\ k' = IF u.fault = "none" THEN FreeThreads(u, {p}) ELSE u
            /\ Goto(q, "user") /\ Locals(q, 0, 0)
            /\ UNCHANGED cproc
         \/ /\ k.state[p] # "ZOMBIE"
            /\ k' = [k EXCEPT !.state[q] = "SLEEPING", !.chan[q] = q]
            /\ LeaveCpu(c)
            /\ UNCHANGED <<pc, loc>>

(* sys_sbrk from growproc on; ThreadTests has the address it returns. *)
Sbrk(c, q, n) ==
  /\ UserCall(c, q)
  /\ Keeps("not_empty", k.sz[k.main[q]] + n # 0)
  /\ k' = growproc(k, q, n)
  /\ UNCHANGED <<cproc, pc, loc>>

(* exec2 up to its check of the limit: a directory with n pages takes the  *)
(* place of the old one, which stays in use.                               *)
Loaded(t, q, d, n) == [setupkvm(t, d, n) EXCEPT !.pgdir[q] = d, !.sz[q] = n]

(* exec and exec2: the new image replaces the old one, and only then is    *)
(* the limit checked; a refused call returns to the old program.           *)
Exec(c, q, n) ==
  LET d == Min(Free(k))
      over == OverLimit(k, k.main[q], n)
  IN  /\ Runs(c, q) /\ pc[q] = "user" /\ ~k.killed[q] /\ q # Init1
      /\ Free(k) # {}
      /\ Keeps("joined", Alone(q)) /\ Keeps("in_limit", ~over)
      /\ k' = Loaded(k, q, d, n)
      /\ IF over THEN UNCHANGED <<pc, loc>>
                 ELSE Goto(q, "exec") /\ Locals(q, k.main[q], k.pgdir[q])
      /\ UNCHANGED cproc

ExecEnd(c, q) ==
  /\ Locks(c, q) /\ pc[q] = "exec" /\ loc[q].p = 0
  /\ k' = freevm(kill_for_exec(k, q), loc[q].n)
  /\ Goto(q, "user") /\ Locals(q, 0, 0)
  /\ UNCHANGED cproc

Kill(c, q, pid) ==
  /\ UserCall(c, q)
  /\ Keeps("joined", \A p \in HasPid(k, pid) : Settled(p) /\ k.state[p] # "EMBRYO")
  /\ k' = kill(k, pid)
  /\ UNCHANGED <<cproc, pc, loc>>

SetLimit(c, q, pid, limit) ==
  /\ UserCall(c, q)
  /\ k' = setmemorylimit(k, pid, limit)
  /\ UNCHANGED <<cproc, pc, loc>>

(* processinfo: asked about a thread it returns with ptable.lock held. *)
ProcessInfo(c, q, i) ==
  /\ UserCall(c, q)
  /\ Keeps("no_listing", ~k.is_thread[i])
  /\ k' = IF k.is_thread[i] THEN Fault(k, "acquire") ELSE k
  /\ UNCHANGED <<cproc, pc, loc>>

(* Steps of the kernel between calls, and the calls that any program may   *)
(* make in any order.                                                      *)
KernelStep(c, q) ==
  \/ Pick(c, q) \/ Yield(c, q) \/ ForkEnd(c, q) \/ CreateEnd(c, q)
  \/ CloseOther(c, q) \/ ExitEnd(c, q) \/ ExecEnd(c, q)
AnyCall(c, q) ==
  \/ k.nextpid < MaxPid /\ (ForkAlloc(c, q) \/ CreateAlloc(c, q))
  \/ Wait(c, q) \/ Exit(c, q) \/ CloseOwn(c, q) \/ JoinStep(c, q)
  \/ \E n \in 1..MaxPid : JoinCall(c, q, n)
  \/ k.pid[q] \in Growers /\ \E n \in Growth : Sbrk(c, q, n)
  \/ k.pid[q] \in Execers /\ \E n \in ExecSizes : Exec(c, q, n)
  \/ \E pid \in KillTargets : Kill(c, q, pid)
  \/ \E pid \in LimitTargets, n \in Limits : SetLimit(c, q, pid, n)
  \/ \E i \in Slots : ProcessInfo(c, q, i)

Next ==
  /\ \E c \in conf.cpus, q \in Slots : KernelStep(c, q) \/ AnyCall(c, q)
  /\ UNCHANGED conf

Spec == Init /\ [][Next]_vars
-----------------------------------------------------------------------------
States == {"UNUSED", "EMBRYO", "SLEEPING", "RUNNABLE", "RUNNING", "ZOMBIE"}

(* Types of the process table, the page directories and the CPUs. *)
TypeOK ==
  /\ k.state \in [Slots -> States]
  /\ \A f \in {k.parent, k.chan, k.next, k.main, k.current, k.join} :
       f \in [Slots -> 0..NPROC + 1]
  /\ \A f \in {k.pid, k.tid, k.create_num} : f \in [Slots -> 0..k.nextpid]
  /\ \A f \in {k.killed, k.is_thread, k.kstack, k.cwd} : f \in [Slots -> BOOLEAN]
  /\ k.sz \in [Slots -> 0..TOP] /\ k.limit \in [Slots -> Limits \cup {0}]
  /\ k.pgdir \in [Slots -> Pgdirs \cup {0}]
  /\ k.used \subseteq Pgdirs /\ k.mapped \in [Pgdirs -> SUBSET Pages(TOP)]
  /\ cproc \in [CPU -> 0..NPROC]
  /\ pc \in [Slots -> {"user", "fork", "wait", "exit", "exited", "thread_exit", "dead",
                       "create", "join", "exec", "sleep"}]
  /\ loc \in [Slots -> [p : 0..NPROC, n : 0..(k.nextpid + NPROC + 1)]]

(* p is the main thread of a process that has not exited. *)
MainThread(p) == k.state[p] \notin {"UNUSED", "EMBRYO", "ZOMBIE"} /\ k.main[p] = p

(* exit, kill_for_exec and thread_join free the kernel stack of a thread   *)
(* only when no CPU runs on it.                                            *)
StackIdle == k.fault # "stack in use"

(* No page is mapped twice: mappages has it as an assertion, "remap". *)
NoRemap == k.fault # "remap"

(* The list of a process, which create appends to, join unlinks from and   *)
(* the scheduler walks, holds exactly its threads, joined ones excepted,   *)
(* and the thread the scheduler starts from is one of them.                *)
ListExact ==
  \A m \in Slots : MainThread(m) =>
    /\ Ends(k, m)
    /\ Nodes(k, m) = {m} \cup {p \in Slots : Used(p) /\ k.is_thread[p] /\ k.main[p] = m}
    /\ k.current[m] \in Nodes(k, m)

(* All threads of a process see one address space: the same directory,     *)
(* which no other process has, and the same size, and exactly the pages    *)
(* below that size are mapped, whichever threads grow it, shrink it or     *)
(* create threads at the same time, unless one is in the middle of exec.   *)
SharedMemory ==
  \A m \in Slots : MainThread(m) /\ (\A p \in Nodes(k, m) : pc[p] # "exec") =>
    /\ k.pgdir[m] \in k.used
    /\ k.mapped[k.pgdir[m]] = Pages(k.sz[m])
    /\ \A p \in Nodes(k, m) : k.pgdir[p] = k.pgdir[m] /\ k.sz[p] = k.sz[m]
    /\ \A p \in Slots \ Nodes(k, m) : MainThread(p) => k.pgdir[p] # k.pgdir[m]

(* A page directory is in use exactly while a process that has it (as its  *)
(* own or as the one exec is about to free) has not been reaped.           *)
MemoryReclaimed ==
  k.used = {k.pgdir[p] : p \in {s \in Slots : Used(s) /\ k.state[s] # "EMBRYO"}}
           \cup {loc[p].n : p \in {s \in Slots : pc[s] = "exec"}}

(* A thread asleep in thread_join waits for a thread that is still there,  *)
(* is the one it asked for and will wake it: the pointer it kept across    *)
(* sleep is not stale and no wakeup was lost.                              *)
JoinerHasWaker ==
  \A q \in Slots : k.state[q] = "SLEEPING" /\ pc[q] = "join" =>
    LET p == loc[q].p
    IN  /\ k.state[p] \notin {"UNUSED", "EMBRYO", "ZOMBIE"}
        /\ k.tid[p] = loc[q].n /\ k.join[p] = q /\ k.main[p] = k.main[q]

(* thread_join returns the value of the thread that was asked for, and     *)
(* leaves its slot free.                                                   *)
JoinReturnsValue ==
  [][\A q \in Slots : pc[q] = "join" /\ pc'[q] = "user" =>
       LET p == loc[q].p
       IN  /\ k.tid[p] = loc[q].n /\ k.main[p] = k.main[q]
           /\ k'.state[p] = "UNUSED"]_vars

(* A process does not become larger than its memory limit: sbrk,           *)
(* thread_create, exec and exec2 return an error instead.                  *)
LimitKept ==
  [][\A m \in Slots :
       MainThread(m) /\ k'.sz[m] > k.sz[m] /\ k'.state[m] # "EMBRYO" =>
         k.limit[m] = 0 \/ k'.sz[m] <= k.limit[m]]_vars

(* Every slot on the list of a process belongs to the process. *)
ListOwn ==
  \A m \in Slots : MainThread(m) => \A p \in Nodes(k, m) : k.main[p] = m

(* The thread structures at every step of every CPU: lists lead through    *)
(* exactly the threads of their process, the threads share one page        *)
(* directory and size, memory is given back when a process is reaped, and  *)
(* who joins has a thread that will wake it (thread_create, thread_exit,   *)
(* thread_join, exit, exec, wait).                                         *)
ThreadInv == TypeOK /\ ListExact /\ SharedMemory /\ MemoryReclaimed /\ JoinerHasWaker
=============================================================================
