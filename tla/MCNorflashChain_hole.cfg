SPECIFICATION Spec
CONSTANTS
  s1 = s1
  s2 = s2
  s3 = s3
  ModuleCount = 2
  Sector <- MCSectors3
  Owner <- MCOwner3
  OpraListLen = 6
  WriteBuffLen = 1
  AvoidsHole = FALSE
INVARIANTS
  NoFreedNodeLinked
