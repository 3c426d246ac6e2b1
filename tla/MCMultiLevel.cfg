CONSTANTS
  Files = {1, 2}
  Layers <- MCLayers
  NINDIRECT = 4
  FSSIZE = 39
  BPB = 1
  MAXOPBLOCKS = 10
  MaxSize <- MCMaxSize
  MaxTruncs = 1
  Lengths = {3, 6, 8}
  Backs = {0, 3}
SPECIFICATION Spec
INVARIANT OneOwner ReadsBack PartBound
CHECK_DEADLOCK FALSE
