\* A day of four units, minutes of two; a pass every unit.
CONSTANTS
  Day = 4
  Hour = 4
  Minute = 2
  Month = 8
  Interval = 1
  RawKeep = 12
  RollupKeep = 20
  Configs <- MCConfigs
  MaxClock = 10
  MaxReadings = 2
  MaxLate = 5
  MaxFailures = 2
SPECIFICATION Spec
INVARIANTS
  BucketsRolledUpWhole
  QueriesAnswerStored
  RollupAnswersAreReadings
\* Time ends at MaxClock, and refused flags end the process.
CHECK_DEADLOCK FALSE
