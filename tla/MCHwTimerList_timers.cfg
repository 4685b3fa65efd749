SPECIFICATION FairSpec
CONSTANTS
  Timer = {a, b, c}
  None = None
  MaxTicks = 4
  MaxLate = 2
INVARIANTS
  HardwareFollows
PROPERTIES
  DeadlineKept
  FiresWhenDue
  EveryTimerFires
