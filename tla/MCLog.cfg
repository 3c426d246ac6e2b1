CONSTANTS
  a = a
  b = b
  p1 = p1
  p2 = p2
  p3 = p3
  Blocks = {a, b}
  Vals = {0, 1}
  Procs = {p1, p2, p3}
  LOGSIZE = 6
  MAXOPBLOCKS = 3
  NLOG = 6
  OpBlocks = 1
SPECIFICATION FairSpec
INVARIANT TypeOK QuietIsDurable NoOverflow CommitIsAlone NoStrandedCaller
PROPERTY ImplementsAtomicDisk LogSettles
