SPECIFICATION Spec
CONSTANTS
  RequestCount = 1
  PendingLimit = 1
  MaxEvents = 1
  Targets <- MCTargets
  Queue = Queue
INVARIANTS DispatchedIsHeld NothingUnnoticed
 
CHECK_DEADLOCK FALSE
