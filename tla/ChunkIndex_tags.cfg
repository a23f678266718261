SPECIFICATION ChunkSpec
CONSTANTS
  p1 = p1
  p2 = p2
  a1 = a1
  a2 = a2
  b1 = b1
  m = m
  n = n
  j1 = j1
  j2 = j2
  j3 = j3
  j4 = j4
  None = None
  Paths = {p1}
  Contents = {a1, a2}
  MayHold <- Distinct
  Missing = None
  Buffers = {}
  Branches = {m, n}
  Jobs = {j1, j2, j3, j4}
  Scope <- WholeDirectory
  Order <- ChunkOrder
  Serial = TRUE
  MaxTime = 7
  MaxFaults = 0
  ChunksOf <- TwoChunks
  Still = TRUE
INVARIANTS
  FindsTree
SYMMETRY JobSymmetry
CHECK_DEADLOCK FALSE
