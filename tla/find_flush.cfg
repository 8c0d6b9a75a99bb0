SPECIFICATION Spec
CONSTANTS
  Viewers = {v1, v2}
  Base = 1
  MaxEvents = 2
  MaxFaults = 1
  MaxBuffer = 2
CHECK_DEADLOCK FALSE
INVARIANTS
  FlushedIsPending
