CONSTANTS
  None = None
  All = All
  Asns = {1, 2}
  V4 = {"a4", "b4"}
  V6 = {"a6"}
  InitialFiles <- MCInitialFiles
  Requests <- MCRequests
  Answers <- MCAnswers
  CacheLimit = 2
  StaleAfter = 1
  MaxTime = 1
  MaxCommands = 2
  MaxFaults = 1
  MaxElems = {1, 2}
  LineFloor = 2
  CidrFloor = 1
  Cap = 5
  BodySetting = 0
  DefaultBody = 1
  HardBody = 2
  MaxIplist = 3
  MaxRedirects = 1
  MaxFeedEvents = 4
  Urls = {"default", "custom"}
  DefaultUrl = "default"
  MetaBodyLimit = 2
  MetaReadLimit = 1
  MaxEntries = 3
  MaxBlock = 2
  Coverage = 3
  MaxMetaEvents = 2
SPECIFICATION MCSpec
INVARIANTS
  OutageBridged
  NotModifiedIsCurrent
  PreviewAgrees
  ScopeIsFaithful
PROPERTIES
  DuplicatesStayCovered
  PromotedIsFound
