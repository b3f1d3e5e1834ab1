SPECIFICATION Spec
CONSTANTS
  Boards = {"A", "B"}
  First = "A"
  NParams = 3
  FtpLen = 1
  MaxAttempts = 1
  MaxStalled = 2
  MaxSessions = 2
  MaxSwitches = 1
  MaxValues = 3
INVARIANTS
  TypeOK
  CachedOwn
  FetchedWhole
PROPERTIES
  Returns
