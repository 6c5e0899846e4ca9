SPECIFICATION Spec
CONSTANTS
  Txs = {x1, x2, x3}
  NoTx = NoTx
  NoPlace = NoPlace
  Retries = 4
  Faults = {"refuse", "resuming", "noAnswer", "badStatus", "txEnds"}
INVARIANTS
  NoSilentAutocommit
  CommitKeepsWork
  RollbackUndoesWork
  OnlyFaultsLeak
  ConnectionInv
