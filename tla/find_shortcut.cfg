SPECIFICATION Spec
CONSTANTS
  Workers = {w1}
  NoWorker = NoWorker
  NoRev = NoRev
  Nodes <- TreeNodes
  Docs <- TreeDocs
  Docx <- TreeDocs
  PageOf <- TreePages
  Pages = 1
  InitPlace <- TreePlace
  InitTarget <- ShortcutTarget
  InitForeign <- ShortcutForeign
  MaxRetries = 0
  MaxNodes = 3
  ScanLimit = 1
  MaxRuns = 2
  MaxEdits = 0
  Troubles = {"delete"}
  MaxTrouble = 1
PROPERTY ScanFindsDeleted
