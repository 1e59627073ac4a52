\* Every branch of run_once, with both sides of each threshold, on a full
\* device and on one that exposes nothing but its current.
CONSTANTS
  Temps = {4, 45, 46}
  Volts = {198, 265}
  Amps = {80, 81}
  Socs = {20}
  Exposures = {{"rack_air_temp", "pdu_voltage", "pdu_current", "ups_soc"}, {"pdu_current"}}
  Demands = {0, 60}
  MinValve = 20
  MaxValve = 90
  MinFan = 10
  MaxFan = 90
  MaxErrors = 2
  HeartbeatEvery = 2
  FailSafe = "ShedLoad"
  MaxResets = 1
SPECIFICATION FairSpec
INVARIANTS
  TypeOK
  LatchCountsErrors
  LatchedWritesOnlySafe
  UnhealthyCycleCools
  Envelope
PROPERTIES
  NeverAutoRestores
  CommsLossLatches
  OverheatIsCooled
  ElectricalFaultIsShed
