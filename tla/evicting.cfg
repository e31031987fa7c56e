SPECIFICATION Spec
CONSTANTS
  c1 = c1
  c2 = c2
  c3 = c3
  Clients = {c1, c2, c3}
  Workers = {w1}
  Names = {n1, n2}
  Workload <- Evicting
  Mortal = {c1, c2, c3}
  MaxFileNum = 1
  MaxFileDim = 1
  AppendDim = 1
  NULL = NULL
INVARIANTS UseToken TableExact NoRequestLost
SYMMETRY SameButFirst
CHECK_DEADLOCK FALSE
