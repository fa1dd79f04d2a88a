SPECIFICATION FairSpec
CONSTANTS
  Workers = {w1, w2}
  Favicons = {f1, f2}
  FirstFavicons = {f1}
  ProbeEnabled = TRUE
  FailuresBeforeSlowdown = 2
  SlowdownMultiplier = 2
  OnlineInterval = 1
  OfflineInterval = 2
  MaxSlowInterval = 3
  MaxChanges = 1
  MaxFailures = 1
INVARIANTS TypeOK Backoff
PROPERTIES OverwritesOnlyStale  
CHECK_DEADLOCK FALSE
