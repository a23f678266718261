SPECIFICATION CacheSpec
CONSTANTS
  k1 = k1
  w1 = w1
  v1 = v1
  EmptyKey = EmptyKey
  Absent = Absent
  Nobody = Nobody
  CacheWindows = {w1}
  Keys = {k1}
  Values = {v1}
  Capacity = 1
  MaxClock = 1
  MaxFailures = 0
PROPERTY CloseSaves
CHECK_DEADLOCK FALSE
