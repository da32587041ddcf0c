SPECIFICATION TSpec
CONSTANTS
  NPROC = 5
  c1 = c1
  c2 = c2
  CPU <- MCCpu2
  TOP = 7
  MaxPid = 5
  ExecSizes = {2}
  Execers = {3}
  Growth <- MCGrowth
  Growers = {2}
  Limits = {4}
  KillTargets = {2}
  LimitTargets = {2}
  Confs <- MCConfs
  Tests = {"any", "racingtest", "basictest", "jointest1", "jointest2", "exittest1", "exittest2",
           "forktest", "sbrktest", "sleeptest", "thread_test3", "thread_exit", "thread_exec", "thread_kill", "pmanager"}
  OneCpu = {"exittest1", "exittest2", "thread_exit", "thread_exec", "thread_kill", "sleeptest"}
SYMMETRY Symm
INVARIANTS ThreadInv TestsRight
PROPERTY JoinReturnsValue
