SPECIFICATION Spec
CONSTANTS
  Workers = {w1}
  NoWorker = NoWorker
  NoRev = NoRev
  Nodes <- TreeNodes
  Docs <- TreeDocs
  Docx <- TextDocs
  PageOf <- TwoPages
  Pages = 2
  InitPlace <- GuestPlace
  InitTarget <- TreeTarget
  InitForeign <- TreeForeign
  MaxRetries = 1
  MaxNodes = 2
  ScanLimit = 1
  MaxRuns = 3
  MaxEdits = 0
  Troubles = {"enter", "delete", "denied", "ok", "transient", "invalid", "yield", "close"}
  MaxTrouble = 2
PROPERTIES
  OnlyPublicationServes
  OfflineNeedsCause
  FullScanAccounts
