CONSTANTS
  cpu0 = cpu0
  cpu1 = cpu1
  none = none
  NPROC = 3
  CPUs = {cpu0}
  BootCpu = cpu0
  NoCpu = none
  MaxPid = 3
  MaxSleep = 1
  KillPids = {2}
SPECIFICATION FairSpec
PROPERTY KilledDies OrphansReaped RunnableRuns SleeperWakes
