SPECIFICATION Spec
CONSTANTS
  Names = {1, 2, 3, 4}
  Nodes = {a1, a2, a3, a4, a5}
  MaxFileNum = 3
  MaxFileDim = 2
  Sizes = {1, 2}
  NULL = NULL
INVARIANTS TypeOK WellFormed Accounts ReadsOldest
PROPERTIES ImplementsLRU
