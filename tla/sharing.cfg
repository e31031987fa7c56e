SPECIFICATION Spec
CONSTANTS
  c1 = c1
  c2 = c2
  c3 = c3
  Clients = {c1, c2, c3}
  Workers = {w1, w2}
  Names = {n1}
  Workload <- Sharing
  Mortal = {c1}
  MaxFileNum = 1
  MaxFileDim = 1
  AppendDim = 1
  NULL = NULL
INVARIANTS UseToken LockExclusion WaitsForOwner TableExact
  NoRequestLost
SYMMETRY SameButFirst
CHECK_DEADLOCK FALSE
