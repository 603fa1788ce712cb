SPECIFICATION Spec
CONSTANTS
  a1 = a1
  a2 = a2
  j1 = j1
  j2 = j2
  None = None
  Asset <- Assets
  Live = {a1}
  Job <- Jobs
  MaxBatch = 2
  MaxRows = 3
  MaxEvents = 2
CHECK_DEADLOCK FALSE
SYMMETRY Symmetry
INVARIANTS
  OnlySafeIsDeleted
  LoggedFirst
  LogIsTrue
