SPECIFICATION Spec
CONSTANTS
  Vehicles = {"a", "b"}
  Boards = {"a"}
  SysId <- MCSysId
  Table <- MCTable
  Requests = {"r1", "r2"}
  Browsers = {"f1"}
  FtpLen = 1
  MaxRetries = 1
  MaxStalled = 2
  MaxCalls = 2
  MaxMoves = 2
  MaxValues = 2
INVARIANTS
  TypeOK
  SessionOwn
PROPERTIES
  Whole
  Ends
CHECK_DEADLOCK FALSE
