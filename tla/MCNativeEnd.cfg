SPECIFICATION FairSpec
CONSTANTS
  Callers = {c1}
  NoCaller = NoCaller
  MaxStream = 1
  MaxFrames = 0
  MaxPending = 1
  MaxWire = 3
CHECK_DEADLOCK FALSE
INVARIANTS
  WireOrder CommittedInputReachedProvider
PROPERTIES
  SessionEnds
