SPECIFICATION TrashSpec
CONSTANTS
  f1 = f1
  f2 = f2
  f3 = f3
  m1 = m1
  m2 = m2
  File <- TwoFiles
  Mover = {m1, m2}
  MaxName = 1
  Retention = 0
  MaxDay = 1
  DbFails = TRUE
  Vacant = Vacant
  Placeholder = Placeholder
  Leftover = Leftover
  NoTime = NoTime
  Idle = Idle
SYMMETRY Symmetry
PROPERTIES NothingIsReplaced EarlyOnlyIfUnpruned
