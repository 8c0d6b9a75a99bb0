SPECIFICATION Spec
CONSTANTS
  Dependencies = {access, knowledge}
  Callers = {starter, caller}
  Starter = starter
  Interval = 2
  Timeout = 3
  MaxAge = 6
  Deadline = 9
  MaxLag = 1
INVARIANTS
  WriteWindow
  CheckIsFresh
  StoppedInTime
