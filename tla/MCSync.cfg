SPECIFICATION Spec
CONSTANTS
  p1 = p1
  p2 = p2
  b1 = b1
  b2 = b2
  b3 = b3
  v1 = v1
  v2 = v2
  Proc <- MCProc2
  Users <- MCOneTwo
  Block <- MCBlock3
  Val <- MCVal2
  NBUF = 5
  LOGSIZE = 2
  nlog = 3
SYMMETRY Symm
INVARIANTS SyncInv NoPanic
PROPERTIES ImplementsSnapshotDisk DurableAtSync
