SPECIFICATION Spec
CONSTANTS
  Tests = {"anything"}
  NINODES = 30
  NINODE = 8
  MAXFILE = 16
  FSSIZE = 60
  NFILE = 7
  NOFILE = 6
  PIPESIZE = 2
  WRAP = 6
  MaxWrite = 2
  NPROC = 6
  PGSIZE = 2
  TABLES = 1
  IMAGE = 2
  MEMORY = 23
  MaxTicks = 2
INVARIANTS LinksCounted
CHECK_DEADLOCK FALSE
