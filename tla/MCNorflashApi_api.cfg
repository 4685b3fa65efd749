SPECIFICATION Spec
CONSTANTS
  s1 = s1
  s2 = s2
  s3 = s3
  d1 = d1
  d2 = d2
  Erased = Erased
  Garbled = Garbled
  ModuleCount = 2
  Sector <- MCSectors3
  Owner <- MCOwner3
  PageCount = 1
  Data = {d1, d2}
  OpraListLen = 3
  WriteBuffLen = 1
  SyncSector = {s1, s2}
  SyncWhileClosed = FALSE
  CpUsed = TRUE
SYMMETRY MCSymmetry
INVARIANTS
  TypeOK
  LockIsInFlight
  
  ChipAgrees
  OnePendingPerKind
PROPERTIES
  StoreSpec
  InFlightStable
