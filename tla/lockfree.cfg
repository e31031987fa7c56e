SPECIFICATION FairSpec
CONSTANTS
  c1 = c1
  c2 = c2
  c3 = c3
  Clients = {c1, c2, c3}
  Workers = {w1, w2}
  Names = {n1}
  Workload <- LockFree
  Mortal = {}
  MaxFileNum = 1
  MaxFileDim = 1
  AppendDim = 1
  NULL = NULL
PROPERTIES RequestsAnswered
