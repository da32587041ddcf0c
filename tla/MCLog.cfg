SPECIFICATION FairSpec
CONSTANTS
  p1 = p1
  p2 = p2
  p3 = p3
  b1 = b1
  b2 = b2
  v1 = v1
  v2 = v2
  Proc <- MCProc3
  Block <- MCBlock2
  Val <- MCVal2
  MAXOPBLOCKS = 2
  LOGSIZE = 4
  nlog = 4
  OpBlocks = 1
INVARIANT LogInv
PROPERTIES SleeperWakes DurableAtCommit ImplementsAtomicDisk
