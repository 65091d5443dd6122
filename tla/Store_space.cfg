SPECIFICATION StoreSpec
CONSTANTS
  d1 = d1
  d2 = d2
  d3 = d3
  report = report
  picture = picture
  Docs <- MCDocs
  Content <- MCContent
  Size <- MCSize
  Plans <- MCPlans
  Ops <- MCOps
  MaxCrashes = 1
  NoDoc = NoDoc
  NoOp = NoOp
  NoTx = NoTx
INVARIANTS SpaceAccounted FilesMatchRows
CHECK_DEADLOCK FALSE
SYMMETRY MCSymmetry
