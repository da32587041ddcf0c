SPECIFICATION Spec
CONSTANTS
  p1 = p1
  p2 = p2
  b1 = b1
  b2 = b2
  b3 = b3
  v1 = v1
  v2 = v2
  Proc <- MCProc2
  Users <- MCTwo
  Block <- MCBlock2
  Val <- MCVal2
  NBUF = 5
  LOGSIZE = 5
  nlog = 5
PROPERTY ModificationStays
