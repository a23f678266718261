SPECIFICATION ChunkSpec
CONSTANTS
  p1 = p1
  p2 = p2
  a1 = a1
  a2 = a2
  b1 = b1
  m = m
  n = n
  j1 = j1
  j2 = j2
  j3 = j3
  j4 = j4
  None = None
  Paths = {p1, p2}
  Contents = {a1, a2, b1}
  MayHold <- Distinct
  Missing = b1
  Buffers = {}
  Branches = {m, n}
  Jobs = {j1, j2, j3}
  Scope <- WholeDirectory
  Order <- ChunkOrder
  Serial = TRUE
  MaxTime = 5
  MaxFaults = 1
  ChunksOf <- OneOrTwoChunks
  Still = TRUE
INVARIANTS
  StorageTypeOK
  FindsSingles
  FindsOnlyTree
  TagsHaveChunks
PROPERTIES
  OtherBranchesKeep
SYMMETRY DistinctSymmetry
CHECK_DEADLOCK FALSE
