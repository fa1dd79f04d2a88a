SPECIFICATION FairSpec
CONSTANTS
  Timeout = 2
  NVersions = 2
  MaxVarint = 2
  MaxAddresses = 2
  MaxBody = 2
  Candidates = {c1, c2}
  Targets <- ThreeTargets
  MaxRequests = 2
  MaxFaults = 1
INVARIANTS TypeOK NoFalseDown BoundedPoll
PROPERTIES NeverOlder EveryRequestSettled
CHECK_DEADLOCK FALSE
