CONSTANTS
  Width = 3
  Pow <- MCPow
  Inputs <- MCInputs
  MaxCandidates = 2
  MaxSafelist = 2
SPECIFICATION Spec
INVARIANTS Exact Canonical
