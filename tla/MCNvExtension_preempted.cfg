SPECIFICATION NvSpec
CONSTANTS
  main = main
  bak = bak
  other = other
  t1 = t1
  t2 = t2
  Erased = Erased
  Garbled = Garbled
  ModuleCount = 1
  Sector <- MCSectors
  Owner <- MCOwner
  PageCount = 2
  Data = {1, 2}
  OpraListLen = 3
  WriteBuffLen = 1
  SyncSector = {}
  SyncWhileClosed = FALSE
  CpUsed = FALSE
  Main = main
  Bak = bak
  Thread = {t1}
  Preempts = TRUE
INVARIANTS
  UpdateNotForgotten
