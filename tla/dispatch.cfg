SPECIFICATION Spec
CONSTANTS
  Peers = {p1, p2, p3}
  Workers = {w1, w2}
  Fds = {2, 3, 4}
  FdLimit = 3
  Cut = {}
  NULL = NULL
INVARIANTS TypeOK OnePlace ClientNumExact MaskHeard NobodyCutOff JoinedClean
PROPERTIES SlowCloseWaits
SYMMETRY Interchangeable
CHECK_DEADLOCK FALSE
