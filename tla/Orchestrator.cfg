\* Three submits by two clients: one audit entry more than the log holds.
CONSTANTS
  Clients = {c1, c2}
  Devices = {d1}
  Requests <- MCRequests
  MinValve = 10
  MaxValve = 90
  MinFan = 20
  MaxFan = 80
  MinDischarge = 0
  MaxDischarge = 100
  RequireTwoPerson = TRUE
  HasSink = TRUE
  Cap = 2
  NaN = NaN
  MaxSubmits = 3
SPECIFICATION Spec
SYMMETRY Symmetric
INVARIANTS
  SinkInEnvelope
  AuditIsComplete
  LaterSubmitWins
  ValveExtremesNeedTwo
\* Clients stop once MaxSubmits calls have been made.
CHECK_DEADLOCK FALSE
