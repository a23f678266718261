SPECIFICATION Spec
CONSTANTS
  w1 = w1
  w2 = w2
  d1 = d1
  d2 = d2
  f1 = f1
  NoCall = NoCall
  Windows = {w1}
  DirCalls = {d1, d2}
  FileCalls = {f1}
  WindowOf <- OneWindow
  MaxDelay = 0
  StaleAfter = 1
  DbMayFail = {}
  MaxUpdates = 1
SYMMETRY AlikeRefreshes
INVARIANTS
  OneCurrentRefresh
  SupersededStops
  QuietShowsResult
  QuietAcceptsFiles
