SPECIFICATION AllSpec
CONSTANTS
  p1 = p1
  g1 = g1
  g2 = g2
  f1 = f1
  Files = {f1}
  Photos = {f1}
  card = card
  disk = disk
  share = share
  r1 = r1
  Volumes = {card, disk, share}
  Roots = {r1}
  Cards = {card}
  Shares = {share}
  NoEngine = NoEngine
  NoPath = NoPath
  Path <- OneFolder
  Engine <- TwoEngines
  MissThreshold = 2
  MaxRestarts = 2
  NoRoot = NoRoot
  MaxMoves = 3
  MaxWrites = 2
  MaxTries = 2
  MaxChecks = 2
  MaxStarts = 2
CHECK_DEADLOCK FALSE
INVARIANTS NoLeakedWatcher NoGapNoLoss NothingSlips
PROPERTIES DeafIsTakenDown UnwantedIsDropped CardIsImported
