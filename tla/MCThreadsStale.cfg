SPECIFICATION TSpec
CONSTANTS
  NPROC = 4
  c1 = c1
  c2 = c2
  CPU = {c1}
  TOP = 5
  MaxPid = 5
  ExecSizes = {2}
  Execers = {}
  Growth <- MCGrowth
  Growers = {2}
  Limits = {4}
  KillTargets = {}
  LimitTargets = {}
  Confs <- MCStale
  Tests = {"any"}
  OneCpu = {}
INVARIANTS ListOwn
CHECK_DEADLOCK FALSE
