----------------------------- MODULE MlfqTests -----------------------------
(***************************************************************************)
(* Mlfq under mlfq_test.c, the test program of pj1: init runs one of its   *)
(* tests.  NUM_THREAD is 1, and each loop is run through twice; sleep      *)
(* returns after one tick or more.  "any" stands for programs that make    *)
(* any calls.                                                              *)
(***************************************************************************)
EXTENDS Mlfq, Sequences

VARIABLES
  ip,    \* where each process is in its program
  child  \* the slot of the process it forked last

tvars == <<ip, child>>

(* Instructions.  who is a slot, or 0 for the process forked last. *)
Ins(op, r, n)    == [op |-> op, r |-> r, n |-> n]
Fork(r)          == Ins("fork", r, 0)
SleepSome        == Ins("sleep", "", 0)
Loop(op, n)      == <<Ins(op, "", n), Ins(op, "", n)>>
SetPri(who, pri) == Ins("setPriority", who, pri)
WaitAll          == Ins("wait", "", 0)
WaitOne          == Ins("wait", "", 1)
ExitNow          == Ins("exit", "", 0)
LockIt           == Ins("lock", "", 0)
UnlockIt         == Ins("unlock", "", 0)
WrongLock        == Ins("lock", "", 1)     \* PASSWORD + 1
WrongUnlock      == Ins("unlock", "", 1)

fork_children(r)  == <<Fork(r), SleepSome>>
fork_children2(r) == <<Fork(r), SetPri(0, 0), SleepSome>>
fork_children3(r) == <<Fork(r), SleepSome>>
exit_children == <<WaitAll, Ins("over", "", 0)>>
Child(body) == <<SleepSome>> \o body \o <<ExitNow>>

(* Slot 1 runs main and 2 is its child. *)
test1 == fork_children("level") \o exit_children
test2 == fork_children2("level") \o exit_children
test3 == fork_children2("yield") \o exit_children
test4 == fork_children2("sleep") \o exit_children
test5 == fork_children3("max0") \o exit_children
(* Test 6, without the second child, which only sleeps. *)
test6 == <<Fork("child6"), SleepSome, SetPri(2, -1), SetPri(2, 11), SetPri(1, 5)>> \o exit_children
child6    == <<SleepSome, Fork("grandson6"), SetPri(0, 0), SleepSome, WaitOne, ExitNow>>
grandson6 == <<SetPri(2, 0), SetPri(1, 0), SleepSome, ExitNow>>

(* 7: lock and unlock by relatives, 8: the normal case, 9: a wrong         *)
(* password, 10: calls twice.                                              *)
test7 == <<Fork("child7"), Fork("child7b"), SleepSome, LockIt, SleepSome>> \o exit_children
child7    == <<LockIt, Fork("grandson7"), UnlockIt, SleepSome, WaitOne, ExitNow>>
grandson7 == <<UnlockIt, LockIt, SleepSome, ExitNow>>
child7b   == <<SleepSome, LockIt, SleepSome>> \o Loop("getLevel", 0) \o <<LockIt, ExitNow>>
test8  == <<Fork("child8"), LockIt, UnlockIt>> \o exit_children
child8 == <<LockIt, UnlockIt, ExitNow>>
test9   == <<Fork("child9"), Fork("child9b")>> \o exit_children
child9  == <<WrongLock, WrongUnlock, ExitNow>>
child9b == <<LockIt, WrongUnlock, ExitNow>>
test10   == <<Fork("child10"), Fork("child10b")>> \o exit_children
child10  == <<LockIt, LockIt, ExitNow>>
child10b == <<LockIt, UnlockIt, UnlockIt, ExitNow>>

Text ==
  [test1 |-> test1, test2 |-> test2, test3 |-> test3, test4 |-> test4, test5 |-> test5,
   level |-> Child(Loop("getLevel", 0)), yield |-> Child(Loop("yield", 0)), sleep |-> Child(Loop("sleep", 0)),
   max0 |-> Child(Loop("keep", 0)),
   test6 |-> test6, child6 |-> child6, grandson6 |-> grandson6,
   test7 |-> test7, child7 |-> child7, grandson7 |-> grandson7, child7b |-> child7b,
   test8 |-> test8, child8 |-> child8, test9 |-> test9, child9 |-> child9, child9b |-> child9b,
   test10 |-> test10, child10 |-> child10, child10b |-> child10b]

(* The instruction i that p is at, and what it asks for. *)
Now(p) == Text[ip[p].prog][ip[p].pc]
At(p, i, op) == pc[p] = "user" /\ i.op = op
Advanced(p) == [ip EXCEPT ![p].pc = @ + 1]
-----------------------------------------------------------------------------
Forks(c, p, i) ==
  /\ At(p, i, "fork") /\ ForkAlloc(c, p)
  /\ child' = [child EXCEPT ![p] = arg'[p]]
  /\ ip' = [Advanced(p) EXCEPT ![arg'[p]] = [prog |-> i.r, pc |-> 1]]

(* wait(), or while(wait() != -1). *)
WaitsFor(c, p, i) ==
  /\ At(p, i, "wait") \/ pc[p] = "wait"
  /\ Wait(c, p)
  /\ ip' = IF pc'[p] = "user" /\ (i.n = 1 \/ k' = k) THEN Advanced(p) ELSE ip
  /\ UNCHANGED child

(* getLevel, and test 5: yield above the level a process wants to keep. *)
AboveMax(p, i) == i.op = "keep" /\ k.level[p] > i.n
LooksAt(c, p, i) ==
  /\ Calls(c, p) /\ i.op \in {"getLevel", "keep"} /\ ~AboveMax(p, i)
  /\ UNCHANGED <<k, cproc, sp, pc, arg, intr>>

(* schedulerLock and schedulerUnlock: no effect, or a wrong password, for  *)
(* which the process exits.                                                *)
Refused(c, p, i) ==
  /\ Calls(c, p)
  /\ \/ i.op = "lock" /\ k.scheduler_locked
     \/ i.op = "unlock" /\ ~k.scheduler_locked
  /\ UNCHANGED <<k, cproc, sp, pc, arg, intr>>
LockCall(c, p, i) ==
  \/ Refused(c, p, i)
  \/ At(p, i, "lock") /\ ~k.scheduler_locked /\ IF i.n = 0 THEN LockTest(c, p) ELSE Exit(c, p)
  \/ At(p, i, "unlock") /\ k.scheduler_locked /\ IF i.n = 0 THEN UnlockFind(c, p) ELSE Exit(c, p)

Other(c, p, i) ==
  /\ \/ (At(p, i, "yield") \/ (pc[p] = "user" /\ AboveMax(p, i))) /\ Yield(c, p)
     \/ At(p, i, "sleep") /\ Sleep(c, p)
     \/ At(p, i, "exit") /\ Exit(c, p)
     \/ At(p, i, "setPriority")
         /\ setPriority(c, p, IF i.r = 0 THEN child[p] ELSE i.r, i.n)
     \/ LockCall(c, p, i)
     \/ LooksAt(c, p, i)
  /\ ip' = Advanced(p)
  /\ UNCHANGED child

SleepsOn(c, p) == pc[p] = "sleep" /\ Sleep(c, p) /\ UNCHANGED tvars

Program(c, p) ==
  /\ Runs(c, p)
  /\ \E i \in {Now(p)} : Forks(c, p, i) \/ WaitsFor(c, p, i) \/ Other(c, p, i) \/ SleepsOn(c, p)
-----------------------------------------------------------------------------
TInit ==
  /\ Init
  /\ ip = [p \in Slots |-> [prog |-> conf.test, pc |-> 1]]
  /\ child = [p \in Slots |-> 0]

TNext ==
  \/ conf.test = "any" /\ Next /\ UNCHANGED tvars
  \/ /\ conf.test # "any" /\ UNCHANGED conf
     /\ \E c \in CPU : \/ KernelStep(c) /\ UNCHANGED tvars
                       \/ \E p \in Slots : Program(c, p)

TSpec == TInit /\ [][TNext]_<<vars, tvars>> /\ Fairness
=============================================================================
