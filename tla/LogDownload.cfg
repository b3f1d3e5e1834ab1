SPECIFICATION Spec
CONSTANTS
  NLogs = 2
  Size <- MCSize
  Stored <- MCStored
  Burst = 2
  MaxRetries = 2
  Window = 1
  Lists = 2
  Downloads = 2
INVARIANTS
  TypeOK
  OwnLog
  HolesOnlyFromLoss
  WholeWhenUndisturbed
PROPERTIES
  ListWhole

  Ends
