SPECIFICATION FairSpec
CONSTANTS
  Producers = {p1}
  Consumers = {k1, k2}
  closer = main
  Elems = {e1, e2}
  END = END
  Nodes = {a1, a2, a3}
  MallocFails = TRUE
  NULL = NULL
INVARIANTS TypeOK Linked NoSleepOnWork JoinedEmpty
PROPERTIES ImplementsQueue ServesQueue CloseEnds
CHECK_DEADLOCK FALSE
