SPECIFICATION FairSpec
CONSTANTS
  Tasks = {t1, t2}
  Drivers = {t1}
  Txs = {x1, x2}
  NoTx = NoTx
  Clients = {own1, own2, injected}
  Injected = injected
  NoClient = NoClient
  Cancels = {"begin", "commit", "rollback", "statement", "connect", "close"}
  Faults = {"refuse", "noAnswer", "badStatus", "txEnds"}
INVARIANTS
  ConnectionInv
  NotNamedOnceRolledBack
  NoOrphanTx
  HeldIsOpen
  NoClientLeaked
PROPERTIES
  RollbackLands
  InjectedIsLeftOpen
