SPECIFICATION FairSpec
CONSTANTS
  Workers = {w1, w2}
  NoWorker = NoWorker
  NoRev = NoRev
  Nodes <- OneNode
  Docs <- OneDoc
  Docx <- OneDoc
  PageOf <- OnePages
  Pages = 1
  InitPlace <- OnePlace
  InitTarget <- OneTarget
  InitForeign <- OneForeign
  MaxRetries = 1
  MaxNodes = 1
  ScanLimit = 1
  MaxRuns = 1
  MaxEdits = 1
  Troubles = {"edit", "crash", "expire", "yield", "transient", "invalid", "media", "index", "denied", "gone", "ok", "close"}
  MaxTrouble = 2
PROPERTY RequestedEnds
