SPECIFICATION Spec
CONSTANTS
  MaxEvents = 6
  BatchSize = 2
  BufferMax = 12
  SegmentMax = 2
  Background = FALSE
  MayLosePower = TRUE
  MaxFailures = 4
  MaxIoErrors = 0
  MaxCrashes = 1

PROPERTIES Durable
CHECK_DEADLOCK FALSE
