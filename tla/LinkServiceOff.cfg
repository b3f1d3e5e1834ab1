SPECIFICATION Spec
CONSTANTS
  Ids = {"c1", "c2"}
  Revisions = {0}
  MaxBatch = 3
  MaxEngines = 1
INVARIANTS
  OffIsOff
