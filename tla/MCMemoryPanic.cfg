\* Two slots, four user pages in tables of two, few enough frames to run out.
SPECIFICATION Spec
CONSTANTS
  Procs = {1, 2}
  InitProc = 1
  NFRAMES = 12
  NPAGES = 4
  PERTABLE = 2
  SbrkSizes <- MCSbrkSizes
  SsuSizes = {2, 4}
  ImageSizes = {1, 3}
  MaxCalls = 7
INVARIANT StrayIsKilled
\* A panic stops the kernel, and the calls are bounded.
CHECK_DEADLOCK FALSE
