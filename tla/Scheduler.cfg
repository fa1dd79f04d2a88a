SPECIFICATION FairSpec
CONSTANTS
  MaxCalls = 3
  MaxTime = 3
INVARIANTS TypeOK NoLostWakeup
PROPERTIES IsDelayQueue
CHECK_DEADLOCK FALSE
