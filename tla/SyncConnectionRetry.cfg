SPECIFICATION Spec
CONSTANTS
  Txs = {x1, x2}
  NoTx = NoTx
  NoPlace = NoPlace
  Retries = 4
  Faults = {"resuming"}
INVARIANTS
  StartRetriesResuming
