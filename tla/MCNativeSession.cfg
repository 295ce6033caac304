SPECIFICATION Spec
CONSTANTS
  Callers = {c1}
  NoCaller = NoCaller
  MaxStream = 4
  MaxFrames = 1
  MaxPending = 3
  MaxWire = 2
CONSTRAINT SessionGoesOn
CHECK_DEADLOCK FALSE
INVARIANTS
  GateClosed OutputInOrder
