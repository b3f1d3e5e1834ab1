SPECIFICATION Spec
CONSTANTS
  Vehicles = {"p", "b"}
  Primary = "p"
  Lens = {1, 2}
  MaxCalls = 2
  MaxWire = 1
  MaxAsks = 1
INVARIANT Accepted
CHECK_DEADLOCK FALSE
