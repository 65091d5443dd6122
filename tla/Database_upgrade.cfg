SPECIFICATION UpgradeFairSpec
CONSTANTS
  d1 = d1
  d2 = d2
  e1 = e1
  e2 = e2
  k1 = k1
  k2 = k2
  p1 = p1
  p2 = p2
  h1 = h1
  Orgs <- MCOrgs
  Users <- MCUsers
  Databases <- MCDatabases
  MaxInterruptions = 2
  Absent = Absent
  Null = Null
INVARIANTS DatabaseKept OwnersApart
PROPERTY UpgradeEnds
CHECK_DEADLOCK FALSE
