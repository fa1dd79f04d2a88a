SPECIFICATION Spec
CONSTANTS
  Servers = {s1, s2}
  Workers = {w1, w2}
  WorkCap = 1
  Stamps = {t1, t2, t3}
  Profiles <- FallbackAndInternal
  RedisEnabled = TRUE
  TriggerEnabled = TRUE
  MaxKicks = 1
  MaxRefreshes = 1
INVARIANTS AllCovered
CHECK_DEADLOCK FALSE
