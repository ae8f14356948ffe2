CONSTANTS
  Registry <- MCRegistry
  Offers <- MCOffers
  MaxElems = {1, 2}
  MaxFaults = 1
  None = None
  SavedConfigs <- MCConfigs
  SavedLists <- MCLists
  InitialCaches <- MCCaches
  MaxChanges = 3
SPECIFICATION MCSpec
INVARIANTS AllOrNothing OkEnforces PreviewPredicts LockReleased
PROPERTY CacheIsEnforced
