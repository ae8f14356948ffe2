CONSTANTS
  Procs = {p1, p2}
  as1 = as1
  Asns = {as1}
  Nets <- MCNets
  Prefixes <- MCPrefixes
  Commands <- MCCommands
  Stores <- MCStores
  MaxTime = 2
  MaxFaults = 1
  None = None
  Feeds <- MCFeeds
  Targets <- MCTargets
  Requests <- MCRequests
SPECIFICATION MCSpec
SYMMETRY Processes
INVARIANT QueriesAreHonest
PROPERTIES NoCollateral UnbanAsPreviewed BanNeverUncovers EnforcesLockedFiles
