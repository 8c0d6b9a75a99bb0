SPECIFICATION PartsSpec
CONSTANTS
  Parts = {"election", "transport"}
  Servers = {s1, s2}
  Calls = {c1}
  Renewals = {r1}
  None = None
  Lease = 2
  Interval = 1
  Attempts = 1
  MaxErrors = 2
  MaxResigns = 1
  MayCrash = {s1}
  Viewers = {v1, v2}
  Base = 1
  MaxEvents = 2
  MaxFaults = 1
  MaxBuffer = 2
CHECK_DEADLOCK FALSE
INVARIANTS
  YesWasTrue
  DeliveredInOrder
PROPERTIES
  OwnerOnly
  LeaseKept
  LeadershipHeals
  NothingHeldBack
