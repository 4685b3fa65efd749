SPECIFICATION FairSpec

CONSTANTS
  Event <- MCEvent
  Sender = {s1}
  Opener = {o1}
  MaxMsg = 2
  None = None

INVARIANTS
  
  NoWorkAfterClose

  
