SPECIFICATION FairSpec
CONSTANTS
  r1 = r1
  r2 = r2
  r3 = r3
  x = x
  nl = nl
  Requests = {r1, r2}
  WithToken = {r2}
  Chars = {x, nl}
  NewLine = nl
  Texts <- Typing
  None = None
  MaxChunks = 2
INVARIANTS
  TypeOK
  ContinuesTyped
  PendingIsCurrent
PROPERTY RequestsEnd
CHECK_DEADLOCK FALSE
