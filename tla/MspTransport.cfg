SPECIFICATION Spec
CONSTANTS
  Editors = {"e1"}
  Lockers = {"l1", "l2"}
  Pollers = {"p1"}
  Starters = {"s1"}
  Names = {"x", "y"}
  PollLen = 1
  Attempts = 1
  MaxCalls = 3
  MaxBoards = 2
  MaxWire = 1
INVARIANTS
  TypeOK
  OneInFlight
  SettingsNamed
  StoppedStays
PROPERTIES
  PollsPause
  Returns
