SPECIFICATION PartsSpec
CONSTANTS
  main = main
  other = other
  e1 = e1
  e2 = e2
  r1 = r1
  r2 = r2
  Sheets = {main, other}
  Main = main
  Edits = {e1, e2}
  Removals = {r1, r2}
  Faults <- FaultKinds
  None = None
  ColumnNames = {"note", "status"}
  StatusName = "status"
  Contents = {0, 1, 2}
  Options = {1}
  Batches <- SomeBatches
  Structures <- SomeStructures
  HandWrites <- SomeHandWrites
  MaxWritten = 3
  ReadRows = 3
  Questions <- SomeQuestions
  PageSize = 1
  ReadWrites = 2
SYMMETRY Symmetry
INVARIANTS StoreFollowsMemory SheetsAreWrittenInTurn TranscriptIsTrue PagesCoverTheSheet
CHECK_DEADLOCK FALSE
