\* More letters than the sink holds, put at any time.
CONSTANTS
  Cap = 2
  MaxPuts = 5
SPECIFICATION FairSpec
INVARIANTS
  LettersAccounted
PROPERTIES
  ImplementsQueue
  CancelReturns
  SignalDrains
\* Drain may have returned, or wait for a letter that never comes.
CHECK_DEADLOCK FALSE
