\* Two clients, three calls, one more than the log holds, for the deployments of
\* main; two calls where the manager was given a live grid source.
CONSTANTS
  s1 = s1
  s2 = s2
  Clients = {c1, c2}
  Servers = {s1, s2}
  NoServer = NoServer
  Requests <- MCRequests
  IpmiHost = s2
  Deployments = {{"ipmi"}, {"redfish"}, {"redfish", "ipmi"}}
  AuthToken = Token
  NoToken = NoToken
  Nameplate = 400
  CriticalShutdown = {s2}
  AuditCap = 2
  LiveGrid = {{"redfish"}}
  MaxCalls <- MCMaxCalls
SPECIFICATION FairSpec
INVARIANTS
  ReportedChangesLogged
  LastSuccessHolds
  WorseSignalDrawsLess
PROPERTIES
  RedfishCallsReturn
  ShutdownCompletes
  GridReachesPreviews
\* The process exits.
CHECK_DEADLOCK FALSE
