SPECIFICATION PartsSpec
CONSTANTS
  Parts = {"search", "reader", "schedule", "feishu", "index", "blob", "generation", "guard"}
  Calls = {c1, c2}
  Snapshots = {a, b}
  None = None
  MaxChanges = 2
  MaxErrors = 1
  Readers = {r1}
  Workers = {w1, w2}
  Callers = {c1, c2}
  Writers = {w1, w2, w3}
  Viewers = {v1, v2, v3}
  Local = {v1, v2}
  Dependencies = {access}
  Starter = c1
  Agents = {g1, g2}
  Configured = g1
  MaxRevision = 2
  MaxEpoch = 1
  MaxSwitches = 2
  Deletable = {g1}
  Poll = 2
  Reconcile = 3
  TickTime = 1
  MaxRequests = 1
  MaxQueue = 2
  Life = 3
  Margin = 1
  Retries = 1
  MaxTokens = 2
  MaxRefusals = 1
  Timeout = 1
  Delay = 1
  MaxIds = 4
  IndexFaults = 2
  MaxLosses = 1
  MaxOverlaps = 2
  MaxSpoils = 1
  BlobFaults = 2
CHECK_DEADLOCK FALSE
INVARIANTS
  EnabledFilesExact
  DueIsQueued
  AuthIsTrue
  PutWasThere
  StopIsShared
  LateViewersKnow
PROPERTIES
  ConfirmedAfterWork
  FailuresPass
  CallsEnd
  ReturnedWasReadable
  FullScanComes
  RequestsEnd
  IndexedOnce
  StreamsEnd
  CallsReturn
