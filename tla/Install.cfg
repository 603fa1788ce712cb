SPECIFICATION AllSpec
CONSTANTS
  x1 = x1
  x2 = x2
  x3 = x3
  q1 = q1
  q2 = q2
  Proc <- TwoOpeners
  Programs <- ThreePrograms
  NoProc = NoProc
  Newest = 3
  MaxCommits = 2
  MaxStarts = 3
  MaxLaunches = 2
  MaxFaults = 1
SYMMETRY Symmetry
CHECK_DEADLOCK FALSE
INVARIANTS ProgramComesUp  HistoryArrives NewDataIsKept
  NeverStuck SchemaIsThere
PROPERTIES NoDowngrade
