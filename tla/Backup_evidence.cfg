SPECIFICATION Spec
CONSTANTS
  s1 = s1
  s2 = s2
  o1 = o1
  d1 = d1
  Signers <- MCSigners
  Outputs <- MCOutputs
  Documents <- MCDocuments
  RecordCount = 2
  None = None
SYMMETRY MCSymmetry
INVARIANTS FinalizedIsKept OneReceipt BackupIsWhole
PROPERTIES HistoryStays
CHECK_DEADLOCK FALSE
