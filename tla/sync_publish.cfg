SPECIFICATION Spec
CONSTANTS
  Workers = {w1, w2}
  NoWorker = NoWorker
  NoRev = NoRev
  Nodes <- OneNode
  Docs <- OneDoc
  Docx <- OneDoc
  PageOf <- OnePages
  Pages = 1
  InitPlace <- OnePlace
  InitTarget <- OneTarget
  InitForeign <- OneForeign
  MaxRetries = 1
  MaxNodes = 1
  ScanLimit = 1
  MaxRuns = 2
  MaxEdits = 2
  Troubles = {"edit", "crash", "expire", "transient", "media", "index", "denied", "gone", "close"}
  MaxTrouble = 3
SYMMETRY Alike
INVARIANTS
  TypeOK
  AgentFilesExact
  RunningIsActive
  PublishedIsWhole
PROPERTIES
  NoRollback
