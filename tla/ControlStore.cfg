\* Two devices; one audit entry more than the log holds.
CONSTANTS
  Devices = {d1, d2}
  Numbers <- MCNumbers
  NaN = NaN
  MinValve = 10
  MaxValve = 90
  MinFan = 20
  MaxFan = 80
  MinDischarge = 0
  MaxDischarge = 100
  AuditCap = 2
  MaxRecords = 3
SPECIFICATION Spec
SYMMETRY Symmetric
INVARIANTS
  TypeOK
  LatchedIsCooled
  AuditExplainsState
\* Operators stop once MaxRecords entries have been recorded.
CHECK_DEADLOCK FALSE
