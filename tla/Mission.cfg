SPECIFICATION Spec
CONSTANTS
  Vehicles = {"p", "b"}
  Primary = "p"
  Lens = {1, 2}
  MaxCalls = 2
  MaxWire = 1
  MaxAsks = 1
INVARIANTS
  TypeOK
  UploadTold
  DownloadTold
PROPERTIES
  Ends
CHECK_DEADLOCK FALSE
