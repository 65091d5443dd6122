SPECIFICATION Spec
CONSTANTS
  u1 = u1
  u2 = u2
  u3 = u3
  Users <- MCThreeUsers
  OrgCount = 2
  Roles = {"OWNER", "ADMIN", "EDITOR"}
  NoUser = NoUser
  Files = {f}
  Endpoints = {e}
  MaxSaves = 3
  CodeCount = 2
  MaxFailures = 5
  MaxPasswords = 4
  MaxBatches = 3
  MaxSessions = 3
  Sites = {h, m, n}
  MaxEdits = 3
  MaxBinds = 2
  NoSite = NoSite
  CloudOrgs = {a, b}
  People = {x, y}
  MaxAccounts = 2
  MaxRenewals = 1
  Nobody = Nobody
  Instances = {i, j}
  PeerOrgs = {a, b}
  Addresses = {r, s}
  Checkers = {k, l}
  MaxChanges = 5
  NoOne = NoOne
SYMMETRY MCSymmetry
INVARIANTS  ContextTrue SecretsSound RecoverySound OriginsSound
PROPERTIES HandsOff
CHECK_DEADLOCK FALSE
