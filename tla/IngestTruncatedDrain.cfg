SPECIFICATION Spec
CONSTANTS
  MaxEvents = 6
  BatchSize = 2
  BufferMax = 12
  SegmentMax = 6
  Background = FALSE
  MayLosePower = FALSE
  MaxFailures = 4
  MaxIoErrors = 0
  MaxCrashes = 1

PROPERTIES FullyDrained
CHECK_DEADLOCK FALSE
