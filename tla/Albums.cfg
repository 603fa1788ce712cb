SPECIFICATION Spec
CONSTANTS
  c1 = c1
  l1 = l1
  l2 = l2
  f1 = f1
  p1 = p1
  p2 = p2
  n1 = n1
  n2 = n2
  None = None
  Collection = {c1}
  Title <- Titles
  AllIn = n1
  LibTask <- LibTasks
  FolderTask = {f1}
  Pipe <- Pipes
  MaxAlbums = 3
  MaxEvents = 2
CHECK_DEADLOCK FALSE
SYMMETRY Symmetry
INVARIANTS
  MirrorsAreOwn
  OneMirror
  OneByName
  PlacedIsThere
