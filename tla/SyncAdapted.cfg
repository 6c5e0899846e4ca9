SPECIFICATION Spec
CONSTANTS
  Stmts <- TwoStmts
  NoStmt = NoStmt
  Length <- TwoLengths
  Wants = {1, 2}
  Places = {1, 4}
  NotDrained = NotDrained
INVARIANTS
  FacadeInv
  DrainedIsTheRest
PROPERTIES
  ImplementsResultStream
