---------------------------- MODULE ThreadTests ----------------------------
(***************************************************************************)
(* Threads under the programs of pj2 that use them: thread_test2.c,        *)
(* thread_test3.c, thread_exit.c, thread_exec.c, thread_kill.c and         *)
(* pmanager.c.  init starts one of them; "any" stands for programs that    *)
(* make any calls.  Every loop of the programs over NUM_THREAD threads is  *)
(* written out for one or two.                                             *)
(*                                                                         *)
(* A sleep is long against everything else that the programs do: time      *)
(* passes when all of them sleep or spin.                                  *)
(***************************************************************************)
EXTENDS Threads, Sequences

CONSTANTS
  Tests,    \* programs to start
  OneCpu    \* those that run on one processor

VARIABLES
  test,   \* what init starts
  ip,     \* where each thread is in its program
  var,    \* the pid that a thread knows
  ret,    \* the value that a thread gave to thread_exit
  left,   \* ticks that a thread is going to sleep
  cell,   \* in each page directory, a variable of the program
  oops    \* some thread has met an unexpected result

tvars == <<test, ip, var, ret, left, cell, oops>>

(* Instructions. *)
Ins(op, r, n)  == [op |-> op, r |-> r, n |-> n]
Create(r)      == Ins("create", r, 0)
Join(n, v)     == Ins("join", <<v>>, n)
Fork(r)        == Ins("fork", r, 0)
WaitOne        == Ins("wait", "", 1)
WaitAll        == Ins("wait", "", 0)
ExitAll        == Ins("exit", "", 0)
ThreadExit(v)  == Ins("thread_exit", "", v)
SleepFor(n)    == Ins("sleep", "", n)
Spin           == Ins("spin", "", 0)
Put(v)         == Ins("put", "", v)
See(v)         == Ins("see", "", v)
ExecTo(r, n)   == Ins("exec", r, n)
KillVar        == Ins("kill", "", 0)
ReadSize       == Ins("size", "", 0)
Grow(n)        == Ins("grow", "", n)
Limit(n)       == Ins("limit", "", n)
List(i)        == Ins("list", "", i)
Unexpected     == Ins("unexpected", "", 0)

(* The programs and the functions their threads start with. *)
init(r)         == <<Fork(r), WaitAll, Spin>>
basicthread(v)  == <<ThreadExit(v)>>
racingthread(v) == <<Put(v), ThreadExit(v)>>   \* cell for gcnt, whose value nobody looks at
racingtest      == <<Put(0), Create("racing1"), Create("racing2"), Join(1, 1), Join(2, 2), ExitAll>>
basictest       == <<Create("basic1"), Create("basic2"), Join(1, 1), Join(2, 2), ExitAll>>
jointhread(v)   == <<SleepFor(2), ThreadExit(2 * v)>>
jointest1       == <<Create("join1"), Create("join2"), Join(1, 2), Join(2, 4), ExitAll>>
jointest2       == <<Create("join1"), Create("join2"), SleepFor(5), Join(1, 2), Join(2, 4), ExitAll>>
exitthread1     == <<Spin>>
exittest1       == <<Create("exit1"), Create("exit1"), SleepFor(1), ExitAll>>
exitthread2     == <<ExitAll>>
exittest2       == <<Create("exit2"), Spin>>
forkthread      == <<Fork("forkchild"), WaitOne, ThreadExit(0)>>
forkchild       == <<ExitAll>>
forktest        == <<Create("fork"), Join(1, 0), Create("fork"), Join(2, 0), ExitAll>>
sbrkthread      == <<ReadSize, Grow(1), SleepFor(1), ThreadExit(0)>>   \* sbrk(1000) in its two steps
sbrktest        == <<Create("sbrk"), Join(1, 0), Create("sbrk"), Join(2, 0), ExitAll>>
sbrktest_both   == <<Create("sbrk"), Create("sbrk"), Join(1, 0), Join(2, 0), ExitAll>>
sleepthread     == <<SleepFor(9), ThreadExit(0)>>
sleeptest       == <<Create("sleep"), Create("sleep"), SleepFor(1), ExitAll>>

(* thread_test3.c, with status for cell. *)
thread_basic(v) == IF v = 1 THEN <<SleepFor(2), Put(1), ThreadExit(v)>> ELSE <<ThreadExit(v)>>
thread_fork     == <<Fork("status3"), Put(2), WaitOne, ThreadExit(0)>>
status3         == <<SleepFor(1), Put(3), ExitAll>>
thread_test3    == <<Create("status0"), Create("status1"), SleepFor(1), Join(1, 0), Join(2, 1), See(1),
                     Create("thread_fork"), Join(3, 0), See(2), ExitAll>>

(* thread_exit.c, thread_exec.c and thread_kill.c: "This code shouldn't be *)
(* executed".                                                              *)
thread_main(a)  == <<SleepFor(1), a>>
late_main       == <<SleepFor(2), Unexpected, ExitAll>>
thread_exit_c   == <<Create("main_exit"), Create("late"), SleepFor(2), Unexpected, ExitAll>>
thread_exec_c   == <<Create("main_exec"), Create("late"), SleepFor(2), Unexpected, ExitAll>>
hello_thread    == <<ExitAll>>
thread1         == <<SleepFor(2), Unexpected, ExitAll>>
thread2         == <<SleepFor(1), KillVar, ThreadExit(0)>>
thread_kill_c   == <<Fork("kill_child"), Create("kill2"), Join(1, 0), WaitAll, ExitAll>>
kill_child      == <<Create("kill1"), SleepFor(3), Unexpected, ExitAll>>

(* pmanager.c: execute, memlim, list, kill, exit. *)
pmanager        == <<Fork("execute"), Limit(4), List(1), List(2), List(3), KillVar, ExitAll>>
execute         == <<ExecTo("hello", 2)>>

Text ==
  [racingtest |-> racingtest, basictest |-> basictest, jointest1 |-> jointest1, jointest2 |-> jointest2,
   exittest1 |-> exittest1,
   exittest2 |-> exittest2, forktest |-> forktest, sleeptest |-> sleeptest, thread_test3 |-> thread_test3,
   thread_exit |-> thread_exit_c, thread_exec |-> thread_exec_c, thread_kill |-> thread_kill_c,
   pmanager |-> pmanager, execute |-> execute,
   racing1 |-> racingthread(1), racing2 |-> racingthread(2),
   basic1 |-> basicthread(1), basic2 |-> basicthread(2), join1 |-> jointhread(1), join2 |-> jointhread(2),
   exit1 |-> exitthread1, exit2 |-> exitthread2, fork |-> forkthread, forkchild |-> forkchild,
   sbrktest |-> sbrktest, sbrktest_both |-> sbrktest_both, sbrk |-> sbrkthread,
   sleep |-> sleepthread, status0 |-> thread_basic(0), status1 |-> thread_basic(1),
   thread_fork |-> thread_fork, status3 |-> status3, main_exit |-> thread_main(ExitAll),
   main_exec |-> thread_main(ExecTo("hello", 2)), late |-> late_main, hello |-> hello_thread,
   kill1 |-> thread1, kill2 |-> thread2, kill_child |-> kill_child]

Now(q) == IF ip[q].prog = "init" THEN init(test)[ip[q].pc] ELSE Text[ip[q].prog][ip[q].pc]
At(q, op) == pc[q] = "user" /\ Now(q).op = op
Advanced(q) == [ip EXCEPT ![q].pc = @ + 1]
Over == ip[Init1].prog = "init" /\ Now(Init1).op = "spin"
-----------------------------------------------------------------------------
KStep(c, q) ==
  /\ KernelStep(c, q)
  /\ cell' = [d \in Pgdirs |-> IF d \in k'.used \ k.used THEN cell[k.pgdir[q]] ELSE cell[d]]
  /\ UNCHANGED <<test, ip, var, ret, left, oops>>

(* fork and thread_create: where the new thread starts. *)
Starts(c, q) ==
  LET np == FreeSlot(k)
      forks == Now(q).op = "fork"
  IN  /\ \/ At(q, "fork") /\ ForkAlloc(c, q)
         \/ At(q, "create") /\ CreateAlloc(c, q)
      /\ ip' = [Advanced(q) EXCEPT ![np] = [prog |-> Now(q).r, pc |-> 1]]
      /\ var' = IF forks THEN [var EXCEPT ![q] = k.nextpid, ![np] = 0] ELSE [var EXCEPT ![np] = var[q]]
      /\ UNCHANGED <<test, ret, left, cell, oops>>

Joins(c, q) ==
  LET p == loc[q].p
      done == pc[q] = "join" /\ pc'[q] = "user"
  IN  /\ \/ At(q, "join") /\ JoinCall(c, q, Now(q).n)
         \/ JoinStep(c, q)
      /\ ip' = IF done THEN Advanced(q) ELSE ip
      /\ oops' = (oops \/ (done /\ ret[p] # Now(q).r[1]))
      /\ UNCHANGED <<test, var, ret, left, cell>>
JoinFails(c, q) ==
  /\ At(q, "join") /\ UserCall(c, q) /\ Joinable(k, q, Now(q).n) = {}
  /\ ip' = Advanced(q) /\ oops' = TRUE
  /\ UNCHANGED <<k, cproc, pc, loc, test, var, ret, left, cell>>

(* wait() once, or until it returns -1. *)
WaitsFor(c, q) ==
  LET reaped == pc'[q] = "user" /\ k' # k
      failed == pc'[q] = "user" /\ k' = k
  IN  /\ At(q, "wait") \/ pc[q] = "wait"
      /\ Wait(c, q)
      /\ ip' = IF failed \/ (reaped /\ Now(q).n = 1) THEN Advanced(q) ELSE ip
      /\ oops' = (oops \/ (failed /\ Now(q).n = 1))
      /\ UNCHANGED <<test, var, ret, left, cell>>

Leaves(c, q) ==
  /\ \/ (k.killed[q] \/ At(q, "exit")) /\ Exit(c, q) /\ ret' = ret
     \/ pc[q] = "exit" /\ CloseOwn(c, q) /\ ret' = ret
     \/ At(q, "thread_exit") /\ CloseOwn(c, q) /\ ret' = [ret EXCEPT ![q] = Now(q).n]
  /\ UNCHANGED <<test, ip, var, left, cell, oops>>

Execs(c, q) ==
  /\ At(q, "exec") /\ Exec(c, q, Now(q).n)
  /\ ip' = [ip EXCEPT ![q] = [prog |-> Now(q).r, pc |-> 1]]
  /\ cell' = [d \in Pgdirs |-> IF d \in k'.used \ k.used THEN 0 ELSE cell[d]]
  /\ UNCHANGED <<test, var, ret, left, oops>>

(* Calls and instructions that take one step. *)
Other(c, q) ==
  /\ \/ At(q, "kill") /\ Kill(c, q, var[q]) /\ UNCHANGED <<cell, oops>>
     \/ At(q, "limit") /\ SetLimit(c, q, var[q], Now(q).n) /\ UNCHANGED <<cell, oops>>
     \/ At(q, "grow") /\ Sbrk(c, q, Now(q).n) /\ UNCHANGED <<cell, oops>>
     \/ At(q, "list") /\ ProcessInfo(c, q, Now(q).n) /\ UNCHANGED <<cell, oops>>
     \/ /\ Calls(c, q) /\ Now(q).op \in {"put", "see", "unexpected"}
        /\ cell' = IF Now(q).op = "put" THEN [cell EXCEPT ![k.pgdir[q]] = Now(q).n] ELSE cell
        /\ oops' = (oops \/ Now(q).op = "unexpected"
                         \/ (Now(q).op = "see" /\ cell[k.pgdir[q]] # Now(q).n))
        /\ UNCHANGED <<k, cproc, pc, loc>>
  /\ ip' = Advanced(q)
  /\ UNCHANGED <<test, var, ret, left>>

(* sys_sbrk reads the size, which it will return as the address of the new *)
(* memory, before growproc takes ptable.lock.                              *)
ReadsSize(c, q) ==
  /\ At(q, "size") /\ Runs(c, q) /\ ~k.killed[q]
  /\ var' = [var EXCEPT ![q] = k.sz[q]]
  /\ ip' = Advanced(q)
  /\ UNCHANGED <<k, cproc, pc, loc, test, ret, left, cell, oops>>

(* sys_sleep: asleep on ticks, awake at every tick to look again. *)
TICKS == NPROC + 1
Sleeps(c, q) ==
  LET n == IF pc[q] = "sleep" THEN left[q] ELSE Now(q).n
  IN  /\ At(q, "sleep") \/ pc[q] = "sleep"
      /\ IF pc[q] = "sleep" THEN Locks(c, q) ELSE UserCall(c, q)
      /\ IF n > 0 /\ ~k.killed[q]
           THEN /\ k' = [k EXCEPT !.state[q] = "SLEEPING", !.chan[q] = TICKS]
                /\ Goto(q, "sleep") /\ LeaveCpu(c)
                /\ left' = [left EXCEPT ![q] = n]
                /\ UNCHANGED ip
           ELSE /\ Goto(q, "user") /\ ip' = Advanced(q)
                /\ UNCHANGED <<k, cproc, left>>
      /\ UNCHANGED <<loc, test, var, ret, cell, oops>>
Idles(q) == \/ k.state[q] \notin {"RUNNABLE", "RUNNING"}
            \/ At(q, "spin") /\ ~k.killed[q]
Asleep(q) == k.state[q] = "SLEEPING" /\ k.chan[q] = TICKS
Tick ==
  /\ k.fault = "none" /\ \A q \in Slots : Idles(q)
  /\ \E q \in Slots : Asleep(q)
  /\ k' = wakeup1(k, TICKS)
  /\ left' = [q \in Slots |-> IF Asleep(q) THEN left[q] - 1 ELSE left[q]]
  /\ UNCHANGED <<cproc, pc, loc, test, ip, var, ret, cell, oops>>
-----------------------------------------------------------------------------
TInit ==
  /\ Init
  /\ test \in Tests
  /\ (test = "any") = ("one_kind" \in conf.rules)
  /\ Cardinality(conf.cpus) = IF test \in OneCpu THEN 1 ELSE Cardinality(CPU)
  /\ ip = [q \in Slots |-> [prog |-> "init", pc |-> 1]]
  /\ var = [q \in Slots |-> 0] /\ ret = [q \in Slots |-> 0] /\ left = [q \in Slots |-> 0]
  /\ cell = [d \in Pgdirs |-> 0] /\ oops = FALSE

TNext ==
  \/ test = "any" /\ Next /\ UNCHANGED tvars
  \/ /\ test # "any" /\ UNCHANGED conf
     /\ \/ Tick
        \/ \E c \in conf.cpus, q \in Slots :
             \/ KStep(c, q) \/ Starts(c, q) \/ Joins(c, q) \/ JoinFails(c, q) \/ WaitsFor(c, q)
             \/ Leaves(c, q) \/ Execs(c, q) \/ Other(c, q) \/ ReadsSize(c, q) \/ Sleeps(c, q)

TSpec == TInit /\ [][TNext]_<<vars, tvars>>
-----------------------------------------------------------------------------
(* The test programs pass in every interleaving: joins return the value of *)
(* the thread, wait finds the child of a thread, a child does not write to *)
(* the memory of the thread that forked it, and what "shouldn't be         *)
(* executed" after exit, exec and kill is not (thread_test2.c,             *)
(* thread_test3.c, thread_exit.c, thread_exec.c, thread_kill.c); and the   *)
(* kernel neither panics, nor follows a null pointer, nor loops for ever.  *)
TestsPass == ~oops /\ (test # "any" => k.fault = "none")

(* They end: when nothing is left that can run, but what spins, nothing    *)
(* but init is left of them, neither slots nor memory.                     *)
TestsEnd ==
  (test # "any" /\ \A q \in Slots : Idles(q) /\ ~Asleep(q)) =>
    Over /\ \A p \in Slots \ {Init1} : k.state[p] = "UNUSED"

(* The test programs of the threads get the results they expect, and come  *)
(* to an end that leaves nothing behind.                                   *)
TestsRight == TestsPass /\ TestsEnd

(* Threads of one process that have called sbrk got different memory, so   *)
(* that each finds there what it wrote (sbrkthreadmain of thread_test2.c). *)
OwnHeap ==
  LET Grown(q) == ip[q].prog = "sbrk" /\ ip[q].pc > 2 /\ Used(q)
  IN  \A p, q \in Slots :
        Grown(p) /\ Grown(q) /\ p # q /\ k.pgdir[p] = k.pgdir[q] => var[p] # var[q]
=============================================================================
