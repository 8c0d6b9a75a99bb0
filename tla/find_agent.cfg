SPECIFICATION FairSpec
CONSTANTS
  Readers = {r1}
  Agents = {g1}
  Configured = g1
  MaxRevision = 1
  MaxEpoch = 1
  MaxSwitches = 0
  Deletable = {g1}
PROPERTIES
  RefusalEndsService
