SPECIFICATION Spec
CONSTANTS
  w1 = w1
  w2 = w2
  d1 = d1
  d2 = d2
  f1 = f1
  NoCall = NoCall
  Windows = {w1, w2}
  DirCalls = {d1, d2}
  FileCalls = {}
  WindowOf <- OneEach
  MaxDelay = 0
  StaleAfter = 0
  DbMayFail = {}
  MaxUpdates = 1
INVARIANT LockExcludesOthers
