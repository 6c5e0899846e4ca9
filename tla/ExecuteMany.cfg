SPECIFICATION FairSpec
CONSTANTS
  N = 5
  ArraySizes = {0, 2, 3}
  Retries = 2
  Faults = {"refuse", "resuming", "noAnswer", "interrupt"}
CHECK_DEADLOCK FALSE
INVARIANTS
  ReturnsWhenAllApplied
  GeneratorNeverTwice
  ListAppliedInOrder
  StopsBeforeOdd
  BatchInv
PROPERTIES
  ImplementsRetry
  CallEnds
