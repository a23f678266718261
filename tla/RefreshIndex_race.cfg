SPECIFICATION Spec
CONSTANTS
  p1 = p1
  p2 = p2
  a1 = a1
  a2 = a2
  b1 = b1
  m = m
  n = n
  j1 = j1
  j2 = j2
  j3 = j3
  j4 = j4
  None = None
  Paths = {p1, p2}
  Contents = {a1, b1}
  MayHold <- Shared
  Missing = b1
  Buffers = {p2}
  Branches = {m}
  Jobs = {j1, j2}
  Scope <- OneFileSecond
  Order <- ChunkOrder
  Serial = FALSE
  MaxTime = 4
  MaxFaults = 2
INVARIANTS
  TypeOK
  NoFalseProgress
CHECK_DEADLOCK FALSE
