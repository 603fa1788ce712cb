SPECIFICATION Spec
CONSTANTS
  c1 = c1
  c2 = c2
  c3 = c3
  r1 = r1
  r2 = r2
  Path = {p1}
  Content <- TwoContents
  Size <- SizeOf
  Stamp <- TwoStamps
  Row = {r1, r2}
  MaxWrites = 2
  NoFile = NoFile
  NoSize = NoSize
  NoRow = NoRow
  NoPath = NoPath
SYMMETRY Symmetry
INVARIANTS WorkerTakesUploaded SettingsTakesUploaded
