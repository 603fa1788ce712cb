SPECIFICATION FairSyncSpec
CONSTANTS
  a1 = a1
  Asset = {a1}
  MaxChanges = 4
INVARIANTS
  NothingMissed
PROPERTIES
  EveryAssetIsQueued
