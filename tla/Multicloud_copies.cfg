SPECIFICATION MulticloudSpec
CONSTANTS
  r1 = r1
  r2 = r2
  n1 = n1
  n2 = n2
  v1 = v1
  Roots <- MCRoots
  FileNames <- MCNames
  InitialItems <- MCInitial
  Scanners <- MCScanners
  ItemCount = 3
  PlanCount = 2
  MountCount = 2
  CloudEdits = 1
  NoRoot = NoRoot
INVARIANTS InventoryFaithful CopiesAccounted
CHECK_DEADLOCK FALSE
