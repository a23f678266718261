SPECIFICATION Spec
CONSTANTS
  r1 = r1
  r2 = r2
  r3 = r3
  x = x
  nl = nl
  Requests = {r1, r2}
  WithToken = {r2}
  Chars = {x}
  NewLine = nl
  Texts <- Typing
  None = None
  MaxChunks = 1
PROPERTY FullStopIsOwn
CHECK_DEADLOCK FALSE
