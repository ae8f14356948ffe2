CONSTANTS
  None = None
  Procs = {p1, p2}
  Commands <- MCCommands
  Files <- MCFiles
  Starter <- MCStarter
  LongNames = {"long"}
  SizeLimit = 7
  MaxRuns = 3
  MaxFaults = 1
  MaxEdits = 1
SPECIFICATION MCSpec
SYMMETRY Editors
PROPERTIES ExemptionsAreApproved KeepsTheRest InstallIsSafe
