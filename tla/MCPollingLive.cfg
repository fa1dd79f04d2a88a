SPECIFICATION FairSpec
CONSTANTS
  Servers = {s1, s2}
  Workers = {w1}
  WorkCap = 1
  Stamps = {t1, t2, t3, t4}
  Profiles <- ManagedAndFallback
  RedisEnabled = FALSE
  TriggerEnabled = TRUE
  MaxKicks = 1
  MaxRefreshes = 2
PROPERTIES KeepsPolling
CHECK_DEADLOCK FALSE
