SPECIFICATION Spec
CONSTANTS
  Vehicles = {"a", "b"}
  Boards = {"a"}
  SysId <- MCSysId
  Table <- MCTable
  Requests = {"r1", "r2"}
  Browsers = {"f1"}
  FtpLen = 1
  MaxRetries = 1
  MaxStalled = 2
  MaxCalls = 2
  MaxMoves = 2
  MaxValues = 2
CHECK_DEADLOCK FALSE
INVARIANT Dropped
