SPECIFICATION Spec
CONSTANTS
  a1 = a1
  a2 = a2
  f1 = f1
  f2 = f2
  Folders <- MCFolders
  Names = {n1, n2}
  Remotes <- MCRemotes
  Accounts <- MCAccounts
  OwnerOf <- MCOwner
  MaxEdits = 3
  MaxSwitches = 1
  MaxMaps = 1
  Top = Top
  Elsewhere = Elsewhere
  NoFolder = NoFolder
  NoRemote = NoRemote
  NoAccount = NoAccount
SYMMETRY MCSymmetry
INVARIANT MappingsSound
PROPERTIES FoldersFaithful
CHECK_DEADLOCK FALSE
