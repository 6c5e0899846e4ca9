SPECIFICATION AsyncSpec
CONSTANTS
  NoStmt = NoStmt
  Stmts <- SomeStmts
  Sizes <- SomeSizes
  Cols <- SomeCols
  Unsupported <- SomeUnsupported
  Undeclarable = {}
  Limit = 2
  ArraySize = 4
  Wants = {1, 3}
  Moves <- SomeMoves
  Retries = 1
  Faults = {"refuse", "resuming", "noAnswer", "txEnds", "oversizeEnds"}
INVARIANTS
  SupportedInOrder
  RowsOfLastExecute
  OnlyHeadMissing
