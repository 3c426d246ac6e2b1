CONSTANTS
  cpu0 = cpu0
  cpu1 = cpu1
  none = none
  NPROC = 3
  CPUs <- MCCpus
  BootCpu = cpu0
  NoCpu = none
  MaxPid = 4
  MaxSleep = 1
  KillPids = {2, 3}
SPECIFICATION Spec
INVARIANT TypeOK RunningIsUnique SwitchDiscipline NoMissedWakeup NoOrphan
PROPERTY ImplementsLife
