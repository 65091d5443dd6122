SPECIFICATION FairSpec
CONSTANTS
  d1 = d1
  d2 = d2
  n1 = n1
  n2 = n2
  p1 = p1
  p2 = p2
  a1 = a1
  a2 = a2
  onedrive = onedrive
  google = google
  Docs <- MCOneDoc
  Names <- MCNames
  Places <- MCPlaces
  Accounts <- MCAccounts
  Providers <- MCProviders
  ProviderOf <- MCProviderOf
  JobIds <- MCTwoJobs
  Items <- MCItems
  MaxAttempts = 1
  MaxEdits = 1
  MaxSwitches = 1
  MaxRemovals = 1
  MaxCrashes = 1
  NoDoc = NoDoc
  NoProvider = NoProvider
  NoAccount = NoAccount
  NoItem = NoItem
  NoCursor = NoCursor
  NoJob = NoJob
INVARIANTS NothingUnknown ShownStateIsTrue
PROPERTIES SyncSeesRemovals 
CHECK_DEADLOCK FALSE
