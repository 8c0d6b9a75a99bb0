SPECIFICATION Spec
CONSTANTS
  Workers = {w1}
  NoWorker = NoWorker
  NoRev = NoRev
  Nodes <- TreeNodes
  Docs <- TreeDocs
  Docx <- TreeDocs
  PageOf <- TreePages
  Pages = 1
  InitPlace <- TreePlace
  InitTarget <- TreeTarget
  InitForeign <- TreeForeign
  MaxRetries = 0
  MaxNodes = 3
  ScanLimit = 1
  MaxRuns = 3
  MaxEdits = 0
  Troubles = {"move", "delete", "leave", "retarget", "rescope"}
  MaxTrouble = 2
INVARIANTS
  ServedHasNode
PROPERTIES
  RemovedAfterTwoScans
  SucceededServesAll
