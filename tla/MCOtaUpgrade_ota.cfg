SPECIFICATION Spec
CONSTANTS
  i0 = i0
  i1 = i1
  Image <- MCImage
  New = i1
  Total = 3
  SectorLen = 2
  SegLen = 2
  LogLen = 1
  MaxCode = 5
  Faults <- MCFaults
INVARIANTS
  
  CopyIsWhole
PROPERTIES
  UpgradeEnds
CHECK_DEADLOCK FALSE
