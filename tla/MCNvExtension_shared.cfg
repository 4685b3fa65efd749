SPECIFICATION NvSpec
CONSTANTS
  main = main
  bak = bak
  other = other
  t1 = t1
  t2 = t2
  Erased = Erased
  Garbled = Garbled
  ModuleCount = 2
  Sector <- MCSectorsShared
  Owner <- MCOwnerShared
  PageCount = 2
  Data = {1, 2, 3}
  OpraListLen = 2
  WriteBuffLen = 1
  SyncSector = {}
  SyncWhileClosed = FALSE
  CpUsed = TRUE
  Main = main
  Bak = bak
  Thread = {t1}
  Preempts = TRUE
INVARIANTS
  OneCopySafe
PROPERTIES
  FlushedIsNeverLost
  CopiesAgree
