SPECIFICATION FairSpec
CONSTANTS
  Servers = {s1}
  Workers = {w1, w2}
  Answers <- ThreeAnswers
  Modes = {"plain", "probe"}
  QueueMax = 1
  HeartbeatInterval = 1
  MaxChanges = 2
INVARIANTS TypeOK EventsMeanChanges
 
