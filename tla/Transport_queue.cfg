SPECIFICATION FairSpec
CONSTANTS
  Docs = {d1}
  LegacyDocs = {d1}
  Targets = {t1, t2}
  NasTargets = {t1}
  Segments = {home, renamed}
  JobIds = {1, 2, 3}
  MaxAttempts = 2
  AttemptBound = 3
  MaxCrashes = 1
  NoDoc = NoDoc
  NoTarget = NoTarget
  NoPath = NoPath
  NoJob = NoJob
INVARIANTS RunningIsHeld PathsOnOwnTarget JobsTellTheTruth
PROPERTIES CopyLifecycle LegacyFilesUntouched JobsSettle
CHECK_DEADLOCK FALSE
