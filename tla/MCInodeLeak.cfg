CONSTANTS
  p1 = p1
  p2 = p2
  p3 = p3
  a = a
  b = b
  NoProc = NoProc
  Procs = {p1, p2}
  Names = {a, b}
  DirOf <- OwnDirs
  NINODES = 2
  NINODE = 3
  MaxOps = 3
  MaxCrashes = 0
SPECIFICATION Spec
INVARIANT NoLeak
SYMMETRY InodeSymmetry
CHECK_DEADLOCK FALSE
