SPECIFICATION MachineSpec
CONSTANTS
  MaxCpu = 2
  Machines <- MCMachines
  Script <- MCScript
  NBUF = 2
  NBLOCK = 3
  PGSIZE = 2
  NPT = 2
  NUT = 2
  NPAGES = 14
  NSPACE = 2
  GrowBy = {0, 2, 7}
  Shift = 4
  Segments = {1, 3}
  ArgLens = {1, 3}
  MaxStores = 1
  MaxNcpu = 3
  PcMachines <- MCPcMachines
  LOW = 4
  HIGH = 2
  SECTSIZE = 4
  RAM = 20
  KSegments <- MCKSegments
  StartTimes <- MCStartTimes
  MaxTicks = 2
  INPUT_BUF = 2
  UINT = 4
  COLS = 2
  ROWS = 3
  Readers = {1, 2}
  Counts = {3}
  Plain = {"a"}
  Keys = {42, 54, 157, 58, 32}
  Begin <- MCBegin
  MaxKeys = 4
INVARIANTS LocksExact BuffersExact VmInv BootInv TimeTrue ConInv
PROPERTIES FailureUndone ImplementsTty MachineLive
CHECK_DEADLOCK FALSE
