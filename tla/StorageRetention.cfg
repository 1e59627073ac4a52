\* No failures, readings on time, time enough for a partition to expire.
CONSTANTS
  Day = 4
  Hour = 4
  Minute = 2
  Month = 8
  Interval = 1
  RawKeep = 12
  RollupKeep = 20
  Configs <- OneConfig
  MaxClock = 18
  MaxReadings = 1
  MaxLate = 0
  MaxFailures = 0
SPECIFICATION Spec
INVARIANT
  RawIsAgedOut
\* Time ends at MaxClock.
CHECK_DEADLOCK FALSE
