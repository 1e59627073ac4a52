\* The smallest pipeline: one point and one worker are enough to strand it.
CONSTANTS
  Sources = {s1}
  Workers = {w1}
  IngestBuffer = 1
  BatchSize = 2
  DeadCap = 1
  MaxPoints = 1
  MaxTotal = 1
  MaxPoll = 1
  MaxPollErrors = 0
SPECIFICATION Spec
INVARIANT DeliversAllPoints
\* Run returns and everything stops.
CHECK_DEADLOCK FALSE
