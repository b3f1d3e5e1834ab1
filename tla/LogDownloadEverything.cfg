SPECIFICATION Spec
CONSTANTS
  NLogs = 1
  Size <- MCSize
  Stored <- MCStored
  Burst = 2
  MaxRetries = 2
  Window = 2
  Lists = 1
  Downloads = 1
INVARIANTS
  GotEverything
