SPECIFICATION FairSpec
CONSTANTS
  Workers = {w1, w2}
  NoWorker = NoWorker
  LeaseTicks = 2
  MaxFence = 3
CHECK_DEADLOCK FALSE
INVARIANTS
  GuardedIsCurrent
PROPERTIES
  NoRevival
  ImplementsFence
  SupersededStops
