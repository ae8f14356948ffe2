CONSTANTS
  Ids = {a, b}
  NoId = NoId
  MaxFaults = 1
SPECIFICATION Spec
INVARIANT SelectionSynced
