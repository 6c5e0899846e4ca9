SPECIFICATION HistorySpec
CONSTANTS
  NoStmt = NoStmt
  Stmts <- EvenStmts
  Sizes <- EvenSizes
  Cols <- EvenCols
  Undeclarable = {"returning"}
  Limit = 2
  ArraySize = 4
  Wants = {1, 3}
  Moves <- SomeMoves
  Retries = 1
  Faults = {"refuse", "resuming", "noAnswer", "txEnds", "oversizeEnds"}
INVARIANTS
  RowsInOrder
  ShortMeansEnd
  PaginatesIfPossible
  StreamInv
PROPERTIES
  ImplementsResultStream
  NeverAgain
