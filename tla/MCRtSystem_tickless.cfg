SPECIFICATION RtFairSpec
CONSTANTS
  UserQty = 1
  MaxFreq = 0
  InitMin = 0
  HighMin = 0
  LowVolt = 0
  CpuUser = {}
  SysUser = {s}
  ChipUser = {}
  Device = {}
  Irq = {}
  MaxOps = 1
  MaxNv = 0
  Thread = {t, tm}
  TimerThread = tm
  OsTimer = {x}
  Reload = 4
  Grain = 1
  MaxDelay = 2
  MaxSleep = 2
  MaxSlack = 1
INVARIANTS
  
  
  NoSleepOverRequest
PROPERTIES
  DelaysEnd
