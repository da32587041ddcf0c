SPECIFICATION Spec
CONSTANTS
  Tests = {"usertests_1", "usertests_2", "usertests_3", "usertests_4", "usertests_5",
           "usertests_6", "usertests_7", "linkunlink", "concreate", "fourfiles", "sharedfd", "dirtest",
           "sbrktest", "pipe1", "preempt", "test1", "test3", "test4", "zombie", "anything",
           "links", "stressfs", "sh", "commands"}
  NINODES = 30
  NINODE = 8
  MAXFILE = 16
  FSSIZE = 60
  NFILE = 7
  NOFILE = 6
  PIPESIZE = 2
  WRAP = 6
  MaxWrite = 2
  NPROC = 6
  PGSIZE = 2
  TABLES = 1
  IMAGE = 2
  MEMORY = 23
  MaxTicks = 2
INVARIANTS FilesExact PagesExact  TestsPass
PROPERTIES TestsEnd
CHECK_DEADLOCK FALSE
