SPECIFICATION FairSpec
CONSTANTS
  e1 = e1
  e2 = e2
  e3 = e3
  k1 = k1
  k2 = k2
  Event = {e1, e2, e3}
  Key = {k1, k2}
  KeyOf <- SharedKey
  Worker = {w1, w2}
  BatchSize = 2
  MaxAttempts = 2
  MaxKills = 0
  MaxUnmarked = 1
  MaxReplays = 0
  NoJob = NoJob
PROPERTY RetriedOrDead
