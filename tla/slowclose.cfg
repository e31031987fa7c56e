SPECIFICATION FairSpec
CONSTANTS
  Peers = {p1, p2}
  Workers = {w1}
  Fds = {2, 3}
  FdLimit = 3
  Cut = {p1}
  NULL = NULL
PROPERTIES SlowCloseEnds RequestsHeard
CHECK_DEADLOCK FALSE
