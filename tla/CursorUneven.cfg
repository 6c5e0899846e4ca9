SPECIFICATION FairSpec
CONSTANTS
  NoStmt = NoStmt
  Stmts <- UnevenStmts
  Sizes <- UnevenSizes
  Cols <- UnevenCols
  Undeclarable = {}
  Limit = 4
  ArraySize = 4
  Wants = {1, 3}
  Moves <- SomeMoves
  Retries = 1
  Faults = {"refuse", "resuming", "noAnswer", "txEnds", "oversizeEnds"}
INVARIANTS
  NoRowSkipped
PROPERTIES
  CallReturns
