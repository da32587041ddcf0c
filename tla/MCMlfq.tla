------------------------------- MODULE MCMlfq -------------------------------
(* Instances of MlfqTests for TLC. *)
EXTENDS MlfqTests

Conf(n, cpus, step, ticks, maxpri, test) ==
  [nproc |-> n, cpus |-> cpus, base |-> 1, step |-> step, boost |-> ticks, maxpri |-> maxpri,
   lockers |-> {}, kill |-> {}, pri |-> {}, test |-> test]

(* Any calls on one CPU, there also with kill, and with priorities and     *)
(* rare boosts; on two CPUs; and with schedulerLock.                       *)
OneCpu == Conf(3, {0}, 0, 2, 0, "any")
OneKill == [Conf(3, {0}, 0, 1, 1, "any") EXCEPT !.kill = {2}]
OnePri == [Conf(2, {0}, 0, 5, 1, "any") EXCEPT !.kill = {2}, !.pri = {1, 2}]
TwoCpu == Conf(3, {0, 1}, 0, 1, 0, "any")
LockAny(S) == [Conf(2, {0}, 1, 1, 0, "any") EXCEPT !.lockers = S]

LockTestOf(ticks, t) == [Conf(3, {0}, 0, ticks, 1, t) EXCEPT !.lockers = 1..3]
LockTests(ticks) == {LockTestOf(ticks, t) : t \in {"test7", "test8", "test9", "test10"}}
(* The tests without schedulerLock, on one CPU. *)
MCTests == {Conf(IF t = "test6" THEN 3 ELSE 2, {0}, 0, 1, 1, t) :
              t \in {"test1", "test2", "test3", "test4", "test5", "test6"}}
MCConfs == {OneCpu, OneKill, OnePri, TwoCpu, LockAny({2})} \cup LockTests(1) \cup MCTests
MCLockTwo == {LockAny({1, 2})}
MCLockTests == LockTests(3)
=============================================================================
