CONSTANTS
  Timeout = 1
  OutputLimit = 2
  ReadSize = 2
  PipeSize = 3
  MaxOutput = 3
  MaxFaults = 1
  None = None
  Invocations <- MCInvocations
  Terminals <- MCTerminals
SPECIFICATION MCSpec
INVARIANTS OkIsComplete NothingAfterError OperatorIsServed
PROPERTIES Progress InterruptEnds
