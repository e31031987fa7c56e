SPECIFICATION Spec
CONSTANTS
  c1 = c1
  c2 = c2
  c3 = c3
  Clients = {c1, c2}
  Workers = {w1}
  Names = {n1}
  Workload <- OwnerCreates
  Mortal = {}
  MaxFileNum = 1
  MaxFileDim = 1
  AppendDim = 1
  NULL = NULL
INVARIANT LockExclusion
CHECK_DEADLOCK FALSE
