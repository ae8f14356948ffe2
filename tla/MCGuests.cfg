CONSTANTS
  a = a
  b = b
  None = None
  Checks = {a, b}
  Phases <- MCPhases
  Pieces <- MCPieces
  MaxPieces <- MCMaxPieces
  MaxTrailing = 1
  DrainReads = 1
  MaxFaults = 1
  MaxRebootFaults = 2
  Values = {v1, v2}
  MaxRuns = 2
  MaxSetupFaults = 1
SPECIFICATION MCSpec
INVARIANT TestedAsClaimed
PROPERTY EveryWaitEnds
