CONSTANTS
  p1 = p1
  p2 = p2
  p3 = p3
  NoProc = NoProc
  Procs = {p1, p2, p3}
  NOFILE = 2
  PIPESIZE = 2
  Wrap = 4
  Bytes = {0, 1}
  ReadSizes = {1}
  WriteSizes = {1, 3}
  Junk = 1
  MaxKilled = 1
SPECIFICATION Spec
INVARIANT TypeOK NoUseAfterFree NoStrandedEnd
PROPERTY ImplementsByteQueue
SYMMETRY PipeSymmetry
CHECK_DEADLOCK FALSE
