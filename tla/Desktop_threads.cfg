SPECIFICATION MCSpec
CONSTANTS
  Orgs = {a, b}
  MaxLogins = 2
  MaxGestures = 3
  Threads = 4
  Docs = {p, q}
  PageCount = 2
  MaxOutputs = 2
INVARIANT DesktopSound
PROPERTY DesktopCatchesUp
CHECK_DEADLOCK FALSE
