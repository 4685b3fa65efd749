SPECIFICATION FairSpec
CONSTANTS
  TotalSize = 16
  BlockSize = 8
  SectorSize = 4
  PageSize = 2
  SuspendMode = TRUE
  MaxLen = 5
  WorkUnits = 2
  EraseRange <- MCEraseRange
  WriteRange <- MCWriteRange
  SuspendRange <- MCSuspendRange
  CallLimit = 3
  Erased = Erased
  Old = Old
  Garbled = Garbled
INVARIANTS
  DoneIsDone
  WholePages
  SuspendStateTells
PROPERTIES
  OperationEnds
