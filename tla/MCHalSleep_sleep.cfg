SPECIFICATION FairSpec
CONSTANTS
  UserQty = 2
  MaxFreq = 2
  InitMin = 0
  HighMin = 1
  LowVolt = 1
  CpuUser = {c}
  SysUser = {s}
  ChipUser = {h}
  Device = {"lpu", "dma", "trace"}
  Irq = {i}
  MaxOps = 1
  MaxNv = 1
INVARIANTS
  DeepSleepAllowed
  FlushedBeforeDeep
  ClockMeetsVotes
  VoltageFits
PROPERTIES
  IdleGoesDeep
  InterruptWakes
