------------------------------ MODULE Hardware ------------------------------
(***************************************************************************)
(* The hardware management API: concurrent handlers that change a server's *)
(* power, boot device or power cap through its BMC (Redfish or ipmitool)   *)
(* and record what they did, the grid-stress monitor with the throttle     *)
(* preview that reads it, and the shutdown of cmd/hardware.                *)
(*                                                                         *)
(* A handler blocks in its BMC call: others run meanwhile, and the request *)
(* may reach the BMC late, be lost, or take effect although the handler    *)
(* gave up waiting.  What a BMC holds is abstracted to the number of the   *)
(* call that last set it.                                                  *)
(***************************************************************************)
EXTENDS Integers, Sequences, FiniteSets

CONSTANTS
  Clients,          \* concurrent requests
  Servers,          \* ids of compute servers
  NoServer,         \* the empty id
  Requests,         \* what clients send
  IpmiHost,         \* the one BMC ipmitool is configured for
  Deployments,      \* sets of backends NewManager is given
  AuthToken,        \* Server.authToken; NoToken serves everyone
  NoToken,
  Nameplate,        \* -nameplate-w
  CriticalShutdown, \* -critical-shutdown
  AuditCap,         \* AuditLog.cap
  LiveGrid,         \* deployments whose grid-stress source is not the static stub
  MaxCalls          \* bound of the model: per deployment, requests ever made

Writes == {"power", "boot", "powercap"}
Vias == {"redfish", "ipmi", "", "other"}
Levels == <<"none", "mild", "high", "critical">>
Level == {Levels[i] : i \in 1..4}
Request == [op : Writes, method : {"GET", "POST"}, token : {AuthToken, NoToken},
            server : Servers \cup {NoServer}, system : Servers \cup {NoServer},
            hasTarget : BOOLEAN, via : Vias]
             \cup [op : {"resolve"}, method : {"GET", "POST"}, token : {AuthToken, NoToken},
                   servers : SUBSET Servers]

ASSUME ServersAssumption ==
  /\ NoServer \notin Servers
  /\ IpmiHost \in Servers
  /\ CriticalShutdown \subseteq Servers
ASSUME RequestsAssumption == Requests \subseteq Request
ASSUME DeploymentsAssumption ==
  /\ Deployments \subseteq SUBSET {"redfish", "ipmi"}
  /\ LiveGrid \subseteq Deployments
ASSUME BoundsAssumption ==
  /\ Nameplate \in Nat
  /\ AuditCap \in Nat \ {0}
  /\ MaxCalls \in [Deployments -> Nat]

VARIABLES
  backends,  \* the clients NewManager was given
  server,    \* "serving"; "closing" once the context is done; "stopped"
  call,      \* the handler that serves each client
  history,   \* every call made: what it is about, and what became of it
  hw,        \* per server and setting, the call whose request took effect last
  audit,     \* AuditLog.entries
  seq,       \* AuditLog.seq
  grid,      \* the level the grid-stress source would report
  latest,    \* GridStressMonitor.latest
  monitor,   \* whether GridStressMonitor.Run is still looping
  previews   \* answers of /hw/throttle/resolve

books == <<history, audit, seq>>
stress == <<grid, latest, monitor>>
vars == <<backends, server, call, hw, books, stress, previews>>

-----------------------------------------------------------------------------
(* Which BMC a request goes to. *)
Backend(req) ==
  CASE req.op # "power" -> "redfish"
    [] req.op = "power" /\ (req.via = "ipmi" \/ (req.via = "" /\ "redfish" \notin backends
                                                  /\ "ipmi" \in backends)) -> "ipmi"
    [] req.op = "power" /\ (req.via = "redfish" \/ (req.via = "" /\ "redfish" \in backends)) -> "redfish"
    [] OTHER -> "no backend"

(* ipmitool always talks to the configured host, whatever server is named. *)
Target(req) ==
  IF Backend(req) = "ipmi" THEN IpmiHost
  ELSE IF req.system = NoServer THEN req.server ELSE req.system

Authorized(req) == AuthToken = NoToken \/ req.token = AuthToken

(* The checks a handler makes before it does anything; handlePower does not *)
(* look at the method.                                                      *)
WellFormed(req) ==
  /\ req.op # "power" => req.method = "POST"
  /\ req.op \in Writes => req.server # NoServer
  /\ req.op = "boot" => req.hasTarget
  /\ req.op = "resolve" => req.servers # {}

Served(req) ==
  /\ Authorized(req)
  /\ WellFormed(req)
  /\ req.op \in Writes => Backend(req) \in backends

Ended == Cardinality({n \in DOMAIN history : history[n].status # "open"})
Call(op, target, net) ==
  [op |-> op, target |-> target, status |-> "open", net |-> net, began |-> Ended, ended |-> 0]
Idle == [pc |-> "idle"]

Init ==
  /\ backends \in Deployments
  /\ server = "serving"
  /\ call = [c \in Clients |-> Idle]
  /\ history = <<>>
  /\ hw = [s \in Servers |-> [op \in Writes |-> 0]]
  /\ audit = <<>>
  /\ seq = 0
  /\ grid = "none"
  /\ latest = "none"
  /\ monitor = TRUE
  /\ previews = {}

-----------------------------------------------------------------------------
CanCall(c) == server = "serving" /\ call[c] = Idle /\ Len(history) < MaxCalls[backends]

(* 400, 401, 405 and 503: nothing is sent and nothing recorded. *)
Refuse(c, req) ==
  /\ CanCall(c)
  /\ ~Served(req)
  /\ history' = Append(history, [Call("none", NoServer, "none") EXCEPT
                                !.status = "refused", !.ended = Ended + 1])
  /\ UNCHANGED <<backends, server, call, hw, audit, seq, stress, previews>>

(* handlePower, handleBoot, handlePowerCap up to their BMC call. *)
Send(c, req) ==
  /\ CanCall(c)
  /\ req.op \in Writes /\ Served(req)
  /\ history' = Append(history, Call(req.op, Target(req), "wire"))
  /\ call' = [call EXCEPT ![c] = [pc |-> "sending", n |-> Len(history) + 1,
                                  backend |-> Backend(req), server |-> req.server]]
  /\ UNCHANGED <<backends, server, hw, audit, seq, stress, previews>>

(* The BMC takes a request, also one whose handler no longer waits.  A      *)
(* request it rejects, or that is lost, stays on the wire for ever: nothing *)
(* makes a BMC take one.                                                    *)
BmcApplies(n) ==
  /\ history[n].net = "wire"
  /\ history' = [history EXCEPT ![n].net = "taken"]
  /\ hw' = [hw EXCEPT ![history[n].target][history[n].op] = n]
  /\ UNCHANGED <<backends, server, call, audit, seq, stress, previews>>

\* Mutant: the response's status code is not looked at.
CallSucceeds_AnyStatus(c) ==
  /\ call[c].pc = "sending"
  /\ call' = [call EXCEPT ![c].pc = "ok"]
  /\ UNCHANGED <<backends, server, hw, books, stress, previews>>

(* A 2xx answer, or ipmitool exits 0. *)
CallSucceeds(c) ==
  /\ call[c].pc = "sending"
  /\ history[call[c].n].net = "taken"
  /\ call' = [call EXCEPT ![c].pc = "ok"]
  /\ UNCHANGED <<backends, server, hw, books, stress, previews>>

Fails(c) ==
  /\ call[c].pc = "sending"
  /\ call' = [call EXCEPT ![c].pc = "failed"]
  /\ UNCHANGED <<backends, server, hw, books, stress, previews>>

\* Mutant: the HTTP client has no timeout and waits for the BMC.
RedfishFails_NoTimeout(c) ==
  /\ call[c].pc = "sending"
  /\ call[c].backend = "redfish"
  /\ history[call[c].n].net = "taken"
  /\ Fails(c)

(* Any error of redfishSend: its HTTP client gives up after 15 s, so one is *)
(* always at hand.                                                          *)
RedfishFails(c) ==
  /\ call[c].pc = "sending"
  /\ call[c].backend = "redfish"
  /\ Fails(c)

(* ipmitool fails or is killed because the client went away; nothing limits *)
(* how long it may run.                                                     *)
IpmiFails(c) ==
  /\ call[c].pc = "sending"
  /\ call[c].backend = "ipmi"
  /\ Fails(c)

\* Mutant: the oldest entries are kept.
Trim_KeepsOldest(log) == IF Len(log) > AuditCap THEN SubSeq(log, 1, AuditCap) ELSE log

Trim(log) ==
  IF Len(log) > AuditCap THEN SubSeq(log, Len(log) - AuditCap + 1, Len(log)) ELSE log

(* handlePower records before it looks at the error, the others after.      *)
Recorded(op, pc) == pc = "ok" \/ op = "power"

(* The handler records and answers 200 or 502. *)
Answer(c) ==
  LET n == call[c].n
  IN /\ call[c].pc \in {"ok", "failed"}
     /\ call' = [call EXCEPT ![c] = Idle]
     /\ history' = [history EXCEPT ![n].status = call[c].pc, ![n].ended = Ended + 1]
     /\ IF Recorded(history[n].op, call[c].pc)
        THEN /\ seq' = seq + 1
             /\ audit' = Trim(Append(audit, [id |-> seq', call |-> n, server |-> call[c].server]))
        ELSE UNCHANGED <<audit, seq>>
     /\ UNCHANGED <<backends, server, hw, stress, previews>>

-----------------------------------------------------------------------------
MildCapW == (Nameplate * 9) \div 10
MaxPowerCapW == (Nameplate * 7) \div 10

(* ThrottlePolicy.Resolve; a cap of 0 is no cap. *)
Resolve(s, level) ==
  LET shutdown == level = "critical" /\ s \in CriticalShutdown
  IN [shutdown |-> shutdown,
      capW |-> CASE level = "mild" -> MildCapW
                 [] level = "high" \/ (level = "critical" /\ ~shutdown) -> MaxPowerCapW
                 [] OTHER -> 0]

(* handleThrottleResolve reads the signal once and then resolves every      *)
(* server with it.                                                          *)
Preview(c, req) ==
  /\ CanCall(c)
  /\ req.op = "resolve" /\ Served(req)
  /\ history' = Append(history, Call("resolve", NoServer, "none"))
  /\ call' = [call EXCEPT ![c] = [pc |-> "resolving", n |-> Len(history) + 1,
                                  servers |-> req.servers, signal |-> latest]]
  /\ UNCHANGED <<backends, server, hw, audit, seq, stress, previews>>

\* Mutant: every server is resolved with the signal of that moment.
SignalFor_Rereads(c) == latest

SignalFor(c) == call[c].signal

PreviewAnswer(c) ==
  /\ call[c].pc = "resolving"
  /\ previews' = previews \cup
       {[signal |-> call[c].signal,
         actions |-> [s \in call[c].servers |-> Resolve(s, SignalFor(c))]]}
  /\ history' = [history EXCEPT ![call[c].n].status = "ok", ![call[c].n].ended = Ended + 1]
  /\ call' = [call EXCEPT ![c] = Idle]
  /\ UNCHANGED <<backends, server, hw, audit, seq, stress>>

(* The grid changes; the source reports it or fails.  The stub that main    *)
(* passes always reports "none".                                            *)
GridMoves(level) ==
  /\ server = "serving"
  /\ backends \in LiveGrid
  /\ level # grid
  /\ grid' = level
  /\ UNCHANGED <<backends, server, call, hw, books, latest, monitor, previews>>

PollOnce ==
  /\ monitor
  /\ latest' = grid
  /\ UNCHANGED <<backends, server, call, hw, books, grid, monitor, previews>>

\* Mutant: the polling loop ends at the first error.
PollFails_EndsLoop ==
  /\ monitor
  /\ monitor' = FALSE
  /\ UNCHANGED <<backends, server, call, hw, books, grid, latest, previews>>

(* The error is dropped, the old signal stays, the loop goes on. *)
PollFails ==
  /\ monitor
  /\ UNCHANGED vars

-----------------------------------------------------------------------------
(* SIGTERM, or ListenAndServe fails: no new requests, and the polling loop  *)
(* ends (a poll that is under way stores a signal nobody can ask for).      *)
Signal ==
  /\ server = "serving"
  /\ server' = "closing"
  /\ monitor' = FALSE
  /\ UNCHANGED <<backends, call, hw, books, grid, latest, previews>>

(* The process ends and takes its handlers along; what they sent is not     *)
(* taken back.                                                              *)
Exit ==
  /\ server' = "stopped"
  /\ call' = [c \in Clients |-> Idle]
  /\ history' = [n \in DOMAIN history |->
       IF history[n].status = "open" THEN [history[n] EXCEPT !.status = "dead"] ELSE history[n]]
  /\ UNCHANGED <<backends, hw, audit, seq, stress, previews>>

ShutdownReturns ==
  /\ server = "closing"
  /\ \A c \in Clients : call[c] = Idle
  /\ Exit

\* Mutant: Shutdown gets a context without a deadline.
ShutdownExpires_NoDeadline ==
  /\ server = "closing"
  /\ \A c \in Clients : call[c] = Idle
  /\ Exit

(* Shutdown's 10 s are over while handlers still wait. *)
ShutdownExpires ==
  /\ server = "closing"
  /\ \E c \in Clients : call[c] # Idle
  /\ Exit

Handler(c) ==
  CallSucceeds(c) \/ RedfishFails(c) \/ IpmiFails(c) \/ Answer(c) \/ PreviewAnswer(c)

Next ==
  \/ \E c \in Clients :
       \/ Handler(c)
       \/ \E req \in Requests : Refuse(c, req) \/ Send(c, req) \/ Preview(c, req)
  \/ \E n \in DOMAIN history : BmcApplies(n)
  \/ \E level \in Level : GridMoves(level)
  \/ PollOnce \/ PollFails
  \/ Signal \/ ShutdownReturns \/ ShutdownExpires

(* Handlers run, the HTTP client's and Shutdown's timers expire, and a      *)
(* source that fails does not fail at every tick for ever.  No BMC answers  *)
(* by necessity, and nothing ends an ipmitool.                              *)
Fairness ==
  /\ \A c \in Clients :
       WF_vars(RedfishFails(c)) /\ WF_vars(Answer(c)) /\ WF_vars(PreviewAnswer(c))
  /\ WF_vars(PollOnce)
  /\ WF_vars(ShutdownReturns) /\ WF_vars(ShutdownExpires)

Spec == Init /\ [][Next]_vars
FairSpec == Spec /\ Fairness

-----------------------------------------------------------------------------
Succeeded(n) == history[n].status = "ok"

(* What a client was told and what the log says agree (audit.go:11-14):     *)
(* every change answered 200 is in the log, or the log is full of calls     *)
(* that were answered later; entries are in the order of the answers, and   *)
(* none is about a call that was refused, previewed or never answered.      *)
(* Which failed changes are recorded is not part of it.                     *)
Logged == {audit[i].call : i \in DOMAIN audit}
ReportedChangesLogged ==
  /\ Len(audit) <= AuditCap
  /\ \A n \in Logged : history[n].op \in Writes /\ history[n].status \in {"ok", "failed"}
  /\ \A i, j \in DOMAIN audit :
       i < j => history[audit[i].call].ended < history[audit[j].call].ended
  /\ \A n \in DOMAIN history \ Logged :
       (history[n].op \in Writes /\ Succeeded(n)) =>
         /\ Len(audit) = AuditCap
         /\ \A m \in Logged : history[n].ended < history[m].ended

(* What a BMC holds is never older than the last success that was reported: *)
(* a call that was answered 200 is only ever superseded by one that began   *)
(* before it ended, by a later one, or by one whose handler never learned   *)
(* its fate.                                                                *)
LastSuccessHolds ==
  \A n \in DOMAIN history :
    (history[n].op \in Writes /\ Succeeded(n)) =>
      LET m == hw[history[n].target][history[n].op]
      IN /\ m # 0
         /\ Succeeded(m) => m = n \/ history[m].ended > history[n].began

(* The worse the signal an answer shows, the less power it lets a server    *)
(* draw, also when the signal changed while the answer was computed.        *)
Severity(level) == CHOOSE i \in 1..4 : Levels[i] = level
Draw(action) ==
  IF action.shutdown THEN 0 ELSE IF action.capW = 0 THEN Nameplate ELSE action.capW
WorseSignalDrawsLess ==
  \A p, q \in previews : Severity(p.signal) <= Severity(q.signal) =>
    \A s \in DOMAIN p.actions \cap DOMAIN q.actions :
      Draw(q.actions[s]) <= Draw(p.actions[s])

(* redfish.go gives its HTTP client a timeout: no Redfish call blocks its   *)
(* handler for ever, not even with a BMC that never answers.                *)
RedfishCallsReturn ==
  \A c \in Clients :
    (call[c].pc = "sending" /\ call[c].backend = "redfish") ~> (call[c] = Idle)

(* The process ends after a signal, also with an ipmitool that hangs. *)
ShutdownCompletes == (server = "closing") ~> (server = "stopped")

(* A level the grid keeps is the one previews are made with, whatever polls *)
(* failed before.                                                           *)
GridReachesPreviews ==
  \A level \in Level :
    (grid = level) ~> (latest = level \/ grid # level \/ server # "serving")

=============================================================================
