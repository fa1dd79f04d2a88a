SPECIFICATION FairSpec
CONSTANTS
  MaxEvents = 4
  BatchSize = 2
  BufferMax = 6
  SegmentMax = 4
  Background = TRUE
  MayLosePower = FALSE
  MaxFailures = 3
  MaxIoErrors = 1
  MaxCrashes = 1
INVARIANTS TypeOK NoSilentLoss  WithinBudget
PROPERTIES OldestFirst CompletedDrained
