CONSTANTS
  a = a
  b = b
  c = c
  x = x
  y = y
  Urls = {a, b, c}
  Configured <- MCConfigured
  Nets = {x, y}
  Bodies <- MCBodies
  MAX_WORKERS = 2
  Cpus = {1, 2}
  AggregateLimit = 1
  None = None
  r1 = r1
  r2 = r2
  debian = debian
  ubuntu = ubuntu
  Runs = {r1, r2}
  Targets <- MCTargets
  Required <- MCRequired
  Selections <- MCSelections
  MaxParallel = 2
  MaxFaults = 2
SPECIFICATION MCSpec
SYMMETRY Interchangeable
INVARIANTS FetchesAreIndependent GuestsAndGateAreSafe
