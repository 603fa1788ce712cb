SPECIFICATION FairSpec
CONSTANTS
  p1 = p1
  p2 = p2
  Proc = {p1, p2}
  MaxRelease = 2
  MaxFaults = 1
  MaxLaunches = 2
INVARIANTS NeverWithoutApp WholeRelease
PROPERTIES UpdateArrives
CHECK_DEADLOCK FALSE
