CONSTANTS
  NPROC = 3
  MAXPRIOR = 3
  QWIDTH = 2
  TIMEQUANTUM = 2
  AGETICKS = 2
  Priors <- MCPriors
  Timers = {2}
  MaxTicks = 4
SPECIFICATION Spec
INVARIANT TypeOK Registered QuantumBound
PROPERTY AgingReachesAll
CHECK_DEADLOCK FALSE
