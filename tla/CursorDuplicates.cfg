SPECIFICATION Spec
CONSTANTS
  NoStmt = NoStmt
  Stmts <- UnevenStmts
  Sizes <- UnevenSizes
  Cols <- UnevenCols
  Undeclarable = {}
  Limit = 4
  ArraySize = 4
  Wants = {1, 3}
  Moves = {}
  Retries = 1
  Faults = {}
INVARIANTS
  RowsInOrder
