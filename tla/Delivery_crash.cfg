SPECIFICATION FairSpec
CONSTANTS
  ItemCount = 2
  MaxRetryAttempts = 1
  AttemptBound = 2
  MaxAccidents = 1
  MaxLate = 1
INVARIANT RowsAgree
PROPERTIES Handshake 
CHECK_DEADLOCK FALSE
