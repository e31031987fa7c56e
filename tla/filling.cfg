SPECIFICATION Spec
CONSTANTS
  c1 = c1
  c2 = c2
  c3 = c3
  Clients = {c1, c2}
  Workers = {w1, w2}
  Names = {n1, n2, n3}
  Workload <- Filling
  Mortal = {}
  MaxFileNum = 2
  MaxFileDim = 1
  AppendDim = 1
  NULL = NULL
INVARIANT BytesAccounted
SYMMETRY Interchangeable
CHECK_DEADLOCK FALSE
