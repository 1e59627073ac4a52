CONSTANTS
  Polls <- MCPolls
  RegisterMaps <- MCRegisterMaps
  UnitID = 1
  MaxPolls = 6
SPECIFICATION Spec
INVARIANT
  PollsReadRegisters
\* Polling ends at MaxPolls.
CHECK_DEADLOCK FALSE
