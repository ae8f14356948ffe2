CONSTANTS
  MANAGED = MANAGED
  Temps = {t1, t2}
  Entries = {1, 2}
  Requests <- MCRequests
  MaxFaults = 2
  Ids = {a, b, c}
  NoId = NoId
  MaxCacheFaults = 2
  NoFile = NoFile
  NoState = NoState
  Limit = 13
  MaxTime = 2
  MaxEdits = 1
  MaxListFaults = 1
SPECIFICATION MCSpec
SYMMETRY Contents
INVARIANTS StoreIsSound ListFollowsCommands EndsAsRequested
PROPERTIES RefreshKeepsFallback ReplacesAtomically
