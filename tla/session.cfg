SPECIFICATION FairSpec
CONSTANTS
  MaxFiles = 2
  MaxSize = 1
  MaxLeft = 2
  NULL = NULL
INVARIANTS TypeOK InStep FatalCloses
PROPERTIES ImplementsCall CallReturns ConnectionEnds
CHECK_DEADLOCK FALSE
