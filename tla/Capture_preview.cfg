SPECIFICATION CaptureFairSpec
CONSTANTS
  PageCount = 2
  MaxGestures = 4
INVARIANTS ClearedStaysCleared
PROPERTIES UserDecides PreviewCatchesUp
CHECK_DEADLOCK FALSE
