SPECIFICATION FairSpec
CONSTANTS
  w1 = w1
  w2 = w2
  h1 = h1
  Entry <- OneEntry
  Hash = {h1}
  NoHash = NoHash
  Worker = {w1, w2}
  NoPipeline = NoPipeline
  Concurrency = 1
  MaxRetries = 2
  MaxDbErrors = 1
INVARIANTS
  OneHolder
  NoForgottenClaim
  CompletedIsStored
PROPERTIES
  KeepsPromise
  EveryRowSettles
