CONSTANTS
  a = a
  b = b
  c = c
  d = d
  p1 = p1
  p2 = p2
  NoProc = NoProc
  NoBlock = NoBlock
  Blocks = {a, b, c, d}
  Vals = {0, 1}
  Procs = {p1, p2}
  NBUF = 3
  MaxPinned = 2
SPECIFICATION Spec
INVARIANT TypeOK OneBuffer NoLostWakeup
PROPERTY ImplementsBlockStore
SYMMETRY CacheSymmetry
