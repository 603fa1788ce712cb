SPECIFICATION Spec
CONSTANTS
  a1 = a1
  a2 = a2
  p1 = p1
  p2 = p2
  NoPipe = NoPipe
  Asset <- TwoAssets
  Live = {a1}
  Pipe <- TwoPipes
  MaxRetries = 2
  MaxStarts = 2
  MaxDbErrors = 1
CHECK_DEADLOCK FALSE
SYMMETRY Symmetry
INVARIANTS
  ExportsAreBrief
  RecordsAreTrue
  NoLoneStill
