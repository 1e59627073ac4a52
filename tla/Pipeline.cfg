\* Two sources compete for a one-slot bus; a batch of two, or two partial ones;
\* one dead letter fits; shutdown at every step.
CONSTANTS
  Sources = {s1, s2}
  Workers = {w1, w2}
  IngestBuffer = 1
  BatchSize = 2
  DeadCap = 1
  MaxPoints = 2
  MaxTotal = 2
  MaxPoll = 2
  MaxPollErrors = 1
SPECIFICATION FairSpec
INVARIANTS
  TypeOK
  ClosedAfterUse
  StoppedHoldNothing
  EveryPointOnce
  CountersBalance
PROPERTIES
  ShutdownCompletes
  PointsSettle
\* Run returns and everything stops.
CHECK_DEADLOCK FALSE
