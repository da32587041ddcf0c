SPECIFICATION ULSpec
CONSTANTS
  MAXARGS = 3
  Lines <- MCLines
  Chars = {"a", " ", "|", "&", ";", "(", ")", "<", ">"}
  MaxTyped = 4
  CELLS = 6
  CHARS = 2
  WIDTH = 7
  MaxText = 5
  GREPBUF = 4
  WCBUF = 2
  DIRSIZ = 2
  CORE = 3
  HEAP = 8
  HEADER = 2
  Requests = {0, 1, 5}
  UINT = 100
  NDIRECT = 1
  NINDIRECT = 2
  SIZE = 32
  NMETA = 1
  NINODES = 4
  Chunks = {3}
  FileLens = {5}
  Places = {5}
  MaxShort = 3
  MaxCreate = 1
INVARIANTS ShellExact HeapExact LibExact ToolsExact InodeInv
PROPERTIES ImplementsByteFiles DeleteReclaims
CHECK_DEADLOCK FALSE
