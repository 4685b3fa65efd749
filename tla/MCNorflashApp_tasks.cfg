SPECIFICATION FairAppSpec
CONSTANTS
  s1 = s1
  s2 = s2
  s3 = s3
  d1 = d1
  d2 = d2
  Erased = Erased
  Garbled = Garbled
  ModuleCount = 2
  Sector <- MCSectors3
  Owner <- MCOwner3
  PageCount = 2
  Data = {d1}
  OpraListLen = 2
  WriteBuffLen = 1
  SyncSector = {}
  SyncWhileClosed = FALSE
  CpUsed = TRUE
  MaxCalls = 3
  FlushFirst = TRUE
INVARIANTS
  CallsTakeEffect
  BufferFirst
PROPERTIES
  CallsReturn
  EventuallyFlushed
