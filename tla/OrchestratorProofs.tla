------------------------- MODULE OrchestratorProofs -------------------------
(***************************************************************************)
(* Proofs, for any number of concurrent clients, any requests, policy and  *)
(* log size, of the safety properties of the orchestration service in      *)
(* module Orchestrator.                                                    *)
(***************************************************************************)
EXTENDS Orchestrator, SequenceTheorems, TLAPS

CallRecord ==
  [pc : {"apply", "accepted", "failed"}, n : Nat, device : Devices, cmd : Commands, val : Float]
AuditEntry ==
  [id : Nat, call : Nat, device : Devices, cmd : Commands \cup {"other"}, accepted : BOOLEAN]
CallHistory == [began : Nat, id : Nat, source : Sources, isNaN : BOOLEAN]

Types ==
  /\ call \in [Clients -> {Idle} \cup CallRecord]
  /\ audit \in Seq(AuditEntry)
  /\ seq \in Nat
  /\ state \in [Devices -> [Commands -> Float]]
  /\ writer \in [Devices -> [Commands -> Nat]]
  /\ history \in Seq(CallHistory)

(* References into the history: a call is in flight in one client only, and *)
(* has no audit entry yet; ids and starting points come from seq.           *)
References ==
  /\ \A c \in Clients :
       call[c] # Idle => call[c].n \in DOMAIN history /\ history[call[c].n].id = 0
  /\ \A b, c \in Clients :
       call[b] # Idle /\ call[c] # Idle /\ call[b].n = call[c].n => b = c
  /\ \A n \in DOMAIN history : history[n].began <= seq /\ history[n].id <= seq
  /\ \A d \in Devices, cmd \in Commands : writer[d][cmd] \in 0..Len(history)
  /\ \A i \in DOMAIN audit : /\ audit[i].call \in DOMAIN history
                             /\ audit[i].accepted => audit[i].cmd \in Commands

(* What the policy lets an originator write to a channel, if it asked for   *)
(* NaN or for a number.                                                     *)
Lawful(cmd, val, source, isNaN) ==
  /\ (cmd \in Numeric /\ ~isNaN) => val \in Lo(cmd)..Hi(cmd)
  /\ (RequireTwoPerson /\ source = "operator" /\ cmd = "valve") => val \notin {MinValve, MaxValve}

(* Calls past the policy check carry lawful values, and so the sink holds   *)
(* lawful values only.                                                      *)
CallsLawful ==
  \A c \in Clients :
    call[c] # Idle =>
      LET h == history[call[c].n] IN Lawful(call[c].cmd, call[c].val, h.source, h.isNaN)
SinkLawful ==
  \A d \in Devices, cmd \in Commands :
    writer[d][cmd] # 0 =>
      LET h == history[writer[d][cmd]] IN Lawful(cmd, state[d][cmd], h.source, h.isNaN)

(* The channel was written, and not by a call whose entry precedes the      *)
(* beginning of call n.                                                     *)
Covered(d, cmd, n) ==
  LET w == writer[d][cmd]
  IN w # 0 /\ (history[w].id # 0 => history[w].id > history[n].began)

(* A call the sink has accepted is covered from its delivery on, before it  *)
(* has an entry, and stays covered when other calls overwrite the channel.  *)
AcceptedCovered ==
  \A c \in Clients :
    (call[c] # Idle /\ call[c].pc = "accepted") => Covered(call[c].device, call[c].cmd, call[c].n)

(* Returned calls have distinct audit ids. *)
Returned == DOMAIN history \ InFlight
IdsDistinct == \A m, n \in Returned : history[m].id = history[n].id => m = n

(* The inductive invariant. *)
Ledger == AuditIsComplete /\ IdsDistinct
IInv == Types /\ References /\ CallsLawful /\ SinkLawful /\ AcceptedCovered
          /\ LaterSubmitWins /\ Ledger

-----------------------------------------------------------------------------
(* The policy. *)

(* A request is one of the assumed shape. *)
LEMMA RequestTyped ==
  ASSUME NEW req \in Requests
  PROVE  /\ req.device \in Devices /\ req.cmd \in Commands \cup {"other"}
         /\ req.val.num \in Float /\ req.source \in Sources
<1>1. req \in [device : Devices, cmd : Commands \cup {"other"}, val : Values, source : Sources]
  BY RequestsAssumption, Zenon
<1>2. req.device \in Devices /\ req.cmd \in Commands \cup {"other"} /\ req.source \in Sources
      /\ req.val \in Values
  BY <1>1
<1>. QED BY <1>2 DEF Values

(* A number, or NaN, is clamped into the envelope, or stays NaN.            *)
LEMMA ClampedInEnvelope ==
  ASSUME NEW cmd \in Numeric, NEW x \in Float
  PROVE  /\ x # NaN => ClampedValue(cmd, x) \in Lo(cmd)..Hi(cmd)
         /\ x = NaN => ClampedValue(cmd, x) = NaN
<1>1. Lo(cmd) \in Int /\ Hi(cmd) \in Int /\ Lo(cmd) <= Hi(cmd)
  BY PolicyAssumption DEF Numeric, Commands, Lo, Hi
<1>2. CASE x = NaN
  BY <1>2 DEF ClampedValue, Less
<1>3. CASE x # NaN
  <2>1. x \in Int /\ Lo(cmd) # NaN /\ Hi(cmd) # NaN
    BY <1>1, <1>3, RequestsAssumption DEF Float
  <2>. QED BY <1>1, <1>3, <2>1 DEF ClampedValue, Less
<1>. QED BY <1>2, <1>3

(* What passes the policy is lawful, and a float.                           *)
LEMMA PolicyLawful ==
  ASSUME NEW req \in Requests, ~Refused(req)
  PROVE  /\ req.cmd \in Commands
         /\ Applied(req) \in Float
         /\ Lawful(req.cmd, Applied(req), req.source, req.val.num = NaN)
<1>1. req.cmd \in Commands /\ ~NeedsTwoPerson(req)
  BY DEF Refused
<1>2. req.val.num \in Float
  BY RequestTyped
<1>3. CASE req.cmd = "outlet"
  <2>1. Applied(req) \in {0, 1}
    BY <1>3 DEF Applied, ToBool
  <2>2. Applied(req) \in Float
    BY <2>1 DEF Float
  <2>. QED BY <1>1, <1>3, <2>2 DEF Lawful, Numeric
<1>4. CASE req.cmd # "outlet"
  <2>1. req.cmd \in Numeric /\ Applied(req) = ClampedValue(req.cmd, req.val.num)
    BY <1>1, <1>4 DEF Numeric, Applied
  <2>2. Lo(req.cmd) \in Int /\ Hi(req.cmd) \in Int
    BY <2>1, PolicyAssumption DEF Numeric, Commands, Lo, Hi
  <2>3. /\ req.val.num # NaN => Applied(req) \in Lo(req.cmd)..Hi(req.cmd)
        /\ req.val.num = NaN => Applied(req) = NaN
    BY <1>2, <2>1, ClampedInEnvelope
  <2> DEFINE x == Applied(req)
  <2>4. x \in Float
    BY <2>2, <2>3 DEF Float
  <2>5. ASSUME RequireTwoPerson, req.source = "operator", req.cmd = "valve"
        PROVE  x \notin {MinValve, MaxValve}
    <3>1. x = NaN \/ ~(x >= MaxValve \/ x <= MinValve)
      BY <1>1, <2>5 DEF NeedsTwoPerson
    <3>2. MinValve \in Int /\ MaxValve \in Int /\ NaN \notin Int
      BY PolicyAssumption, RequestsAssumption
    <3> HIDE DEF x
    <3>. QED BY <2>4, <3>1, <3>2 DEF Float
  <2>. QED BY <1>1, <2>1, <2>3, <2>4, <2>5 DEF Lawful
<1>. QED BY <1>3, <1>4

-----------------------------------------------------------------------------
(* What steps do to calls, history and log. *)

(* A client that is past the policy check is in a call.                     *)
LEMMA BusyTyped ==
  ASSUME Types, NEW c \in Clients
  PROVE  /\ call[c] = Idle \/ call[c] \in CallRecord
         /\ call[c].pc \in {"apply", "accepted", "failed"} <=> call[c] # Idle
<1>1. call[c] = Idle \/ call[c] \in CallRecord
  BY DEF Types
<1>2. CASE call[c] = Idle
  <2>1. Idle.pc = "idle"
    BY DEF Idle
  <2>. QED BY <1>2, <2>1
<1>3. CASE call[c] \in CallRecord
  <2>1. call[c].pc \in {"apply", "accepted", "failed"}
    BY <1>3 DEF CallRecord
  <2>2. Idle.pc = "idle"
    BY DEF Idle
  <2>. QED BY <1>3, <2>1, <2>2
<1>. QED BY <1>1, <1>2, <1>3

(* A call that begins extends the history by one. *)
LEMMA CallBegins ==
  ASSUME Types, NEW h \in CallHistory, history' = Append(history, h)
  PROVE  /\ history' \in Seq(CallHistory) /\ Len(history') = Len(history) + 1
         /\ history'[Len(history) + 1] = h
         /\ \A n \in DOMAIN history : n \in DOMAIN history' /\ history'[n] = history[n]
  BY AppendProperties DEF Types

(* A call that returns gets its id; nothing else in the history changes.    *)
LEMMA CallReturns ==
  ASSUME Types, NEW k \in DOMAIN history, NEW id \in Nat,
         history' = [history EXCEPT ![k].id = id]
  PROVE  /\ history' \in Seq(CallHistory) /\ Len(history') = Len(history)
         /\ DOMAIN history' = DOMAIN history
         /\ history'[k].id = id
         /\ \A n \in DOMAIN history : /\ n # k => history'[n] = history[n]
                                      /\ history'[n].began = history[n].began
                                      /\ history'[n].source = history[n].source
                                      /\ history'[n].isNaN = history[n].isNaN
<1>1. history \in Seq(CallHistory) /\ history[k] \in CallHistory
  BY DEF Types
<1> DEFINE h == [history[k] EXCEPT !.id = id]
<1>2. h \in CallHistory /\ h.id = id /\ h.began = history[k].began /\ h.source = history[k].source
      /\ h.isNaN = history[k].isNaN
  BY <1>1 DEF CallHistory
<1>3. history' = [history EXCEPT ![k] = h]
  OBVIOUS
<1> HIDE DEF h
<1>4. history' \in Seq(CallHistory) /\ Len(history') = Len(history)
  BY <1>1, <1>2, <1>3, ExceptSeq
<1>5. DOMAIN history' = DOMAIN history /\ history'[k] = h
      /\ \A n \in DOMAIN history : n # k => history'[n] = history[n]
  BY <1>1, <1>3
<1>. QED BY <1>2, <1>4, <1>5

(* Recording appends one entry with the next id and, at the cap, forgets    *)
(* the oldest: with k = 0 or 1 entries forgotten every entry moves k places *)
(* to the front.                                                            *)
LEMMA RecordEffect ==
  ASSUME Types, Len(audit) = IF seq < Cap THEN seq ELSE Cap,
         NEW n \in Nat, NEW device \in Devices, NEW cmd \in Commands \cup {"other"},
         NEW accepted \in BOOLEAN, Record(n, device, cmd, accepted)
  PROVE  /\ seq' = seq + 1 /\ audit' \in Seq(AuditEntry)
         /\ Len(audit') = IF seq' < Cap THEN seq' ELSE Cap
         /\ Len(audit') >= 1
         /\ audit'[Len(audit')] = Entry(seq + 1, n, device, cmd, accepted)
         /\ \E k \in {0, 1} :
              /\ Len(audit') = Len(audit) + 1 - k
              /\ \A i \in 1..(Len(audit') - 1) : i + k \in DOMAIN audit /\ audit'[i] = audit[i + k]
<1> DEFINE new == Entry(seq + 1, n, device, cmd, accepted)
           log == Append(audit, new)
<1>1. /\ audit \in Seq(AuditEntry) /\ Len(audit) \in Nat /\ DOMAIN audit = 1..Len(audit)
      /\ Cap \in Nat /\ Cap > 0 /\ seq \in Nat
  BY AuditAssumption DEF Types
<1>2. new \in AuditEntry
  BY <1>1 DEF AuditEntry, Entry
<1> HIDE DEF new
<1>3. /\ log \in Seq(AuditEntry) /\ Len(log) = Len(audit) + 1 /\ log[Len(audit) + 1] = new
      /\ \A i \in 1..Len(audit) : log[i] = audit[i]
  BY <1>1, <1>2, AppendProperties
<1>4. seq' = seq + 1 /\ audit' = Trim(log)
  BY DEF Record, new
<1> HIDE DEF log
<1>5. CASE Len(audit) < Cap
  <2>1. audit' = log
    BY <1>1, <1>3, <1>4, <1>5 DEF Trim
  <2>2. /\ Len(audit') = Len(audit) + 1 - 0
        /\ \A i \in 1..(Len(audit') - 1) : i + 0 \in DOMAIN audit /\ audit'[i] = audit[i + 0]
    BY <1>1, <1>3, <2>1
  <2>3. Len(audit') = (IF seq' < Cap THEN seq' ELSE Cap) /\ Len(audit') >= 1
    BY <1>1, <1>4, <1>5, <2>2
  <2>. QED BY <1>3, <1>4, <2>1, <2>2, <2>3 DEF new
<1>6. CASE Len(audit) = Cap
  <2>1. audit' = SubSeq(log, 2, Len(audit) + 1)
    BY <1>1, <1>3, <1>4, <1>6 DEF Trim
  <2>2. \A i \in 2..(Len(audit) + 1) : log[i] \in AuditEntry
    BY <1>1, <1>3, ElementOfSeq
  <2>3. /\ audit' \in Seq(AuditEntry) /\ Len(audit') = Len(audit)
        /\ \A i \in 1..Len(audit) : audit'[i] = log[i + 1]
    BY <1>1, <1>6, <2>1, <2>2, SubSeqProperties
  <2>4. /\ Len(audit') = Len(audit) + 1 - 1
        /\ \A i \in 1..(Len(audit') - 1) : i + 1 \in DOMAIN audit /\ audit'[i] = audit[i + 1]
    BY <1>1, <1>3, <2>3
  <2>5. Len(audit') = (IF seq' < Cap THEN seq' ELSE Cap) /\ Len(audit') >= 1
    BY <1>1, <1>4, <1>6, <2>3
  <2>. QED BY <1>1, <1>3, <1>4, <1>6, <2>3, <2>4, <2>5 DEF new
<1>. QED BY <1>1, <1>5, <1>6

(* Every step keeps the history's facts, except that a call without an id   *)
(* may get the next one.                                                    *)
HistoryStep ==
  /\ seq' \in {seq, seq + 1}
  /\ Len(history') >= Len(history)
  /\ \A n \in DOMAIN history :
       /\ n \in DOMAIN history'
       /\ history'[n].source = history[n].source
       /\ history'[n].isNaN = history[n].isNaN /\ history'[n].began = history[n].began
       /\ history'[n].id = history[n].id \/ (history[n].id = 0 /\ history'[n].id = seq + 1)

(* Every step leaves a channel alone or has a call in flight write it. *)
SinkStep(c) ==
  \A d \in Devices, cmd \in Commands :
    \/ state'[d][cmd] = state[d][cmd] /\ writer'[d][cmd] = writer[d][cmd]
    \/ /\ call[c] # Idle /\ d = call[c].device /\ cmd = call[c].cmd
       /\ state'[d][cmd] = call[c].val /\ writer'[d][cmd] = call[c].n

(* The sink takes a command: one channel and its writer change.             *)
LEMMA TakesEffect ==
  ASSUME Types, NEW c \in Clients, call[c] # Idle, Takes(c)
  PROVE  /\ state' \in [Devices -> [Commands -> Float]]
         /\ writer' \in [Devices -> [Commands -> Nat]]
         /\ SinkStep(c)
         /\ writer'[call[c].device][call[c].cmd] = call[c].n
<1> DEFINE d == call[c].device
           cmd == call[c].cmd
           n == call[c].n
           x == call[c].val
<1>1. d \in Devices /\ cmd \in Commands /\ n \in Nat /\ x \in Float
  BY BusyTyped DEF CallRecord
<1>2. /\ state' = [state EXCEPT ![d][cmd] = x]
      /\ writer' = [writer EXCEPT ![d][cmd] = n]
  BY DEF Takes
<1>3. SinkStep(c) <=> \A e \in Devices, k \in Commands :
        \/ state'[e][k] = state[e][k] /\ writer'[e][k] = writer[e][k]
        \/ e = d /\ k = cmd /\ state'[e][k] = x /\ writer'[e][k] = n
  BY DEF SinkStep
<1> HIDE DEF d, cmd, n, x
<1>4. state' \in [Devices -> [Commands -> Float]] /\ writer' \in [Devices -> [Commands -> Nat]]
  BY <1>1, <1>2 DEF Types
<1>5. writer'[d][cmd] = n
  BY <1>1, <1>2 DEF Types
<1>6. SinkStep(c)
  <2>1. ASSUME NEW e \in Devices, NEW k \in Commands
        PROVE  \/ state'[e][k] = state[e][k] /\ writer'[e][k] = writer[e][k]
               \/ e = d /\ k = cmd /\ state'[e][k] = x /\ writer'[e][k] = n
    BY <1>1, <1>2 DEF Types
  <2>. QED BY <1>3, <2>1
<1>. QED BY <1>4, <1>5, <1>6 DEF d, cmd, n

(* A refused call: the history and the log grow by one.                     *)
LEMMA RejectEffect ==
  ASSUME Types, References, AuditIsComplete,
         NEW c \in Clients, NEW req \in Requests, Reject(c, req)
  PROVE  /\ Types' /\ HistoryStep /\ SinkStep(c) /\ seq' = seq + 1 /\ call' = call
         /\ Len(history') = Len(history) + 1
         /\ history'[Len(history) + 1].began = seq /\ history'[Len(history) + 1].id = seq + 1
         /\ \A n \in DOMAIN history : n \in DOMAIN history' /\ history'[n] = history[n]
<1>1. req.device \in Devices /\ req.cmd \in Commands \cup {"other"} /\ req.source \in Sources
  BY RequestTyped
<1>2. /\ Record(Len(history) + 1, req.device, req.cmd, FALSE)
      /\ Len(history) + 1 \in Nat /\ seq \in Nat /\ history \in Seq(CallHistory)
  <2>1. Record(Len(history) + 1, req.device, req.cmd, FALSE)
    BY DEF Reject
  <2>2. Len(history) + 1 \in Nat /\ seq \in Nat /\ history \in Seq(CallHistory)
    BY DEF Types
  <2>. QED BY <2>1, <2>2
<1>3. seq' = seq + 1 /\ audit' \in Seq(AuditEntry)
  BY <1>1, <1>2, RecordEffect DEF AuditIsComplete
<1> DEFINE h == [began |-> seq, id |-> seq + 1, source |-> req.source,
                 isNaN |-> req.val.num = NaN]
<1>4. h \in CallHistory /\ history' = Append(history, h)
  <2>1. h \in CallHistory
    BY <1>1, <1>2 DEF CallHistory
  <2>2. history' = Append(history, h)
    BY <1>3 DEF Reject
  <2>. QED BY <2>1, <2>2
<1>. h.began = seq /\ h.id = seq + 1
  OBVIOUS
<1> HIDE DEF h
<1>5. /\ history' \in Seq(CallHistory) /\ Len(history') = Len(history) + 1
      /\ history'[Len(history) + 1] = h
      /\ \A n \in DOMAIN history : n \in DOMAIN history' /\ history'[n] = history[n]
  BY <1>4, CallBegins
<1>6. HistoryStep
  BY <1>2, <1>3, <1>5 DEF HistoryStep
<1>7. UNCHANGED <<call, state, writer>>
  BY DEF Reject
<1>8. SinkStep(c)
  BY <1>7 DEF SinkStep
<1>9. Types'
  BY <1>2, <1>3, <1>5, <1>7 DEF Types
<1>. QED BY <1>3, <1>5, <1>6, <1>7, <1>8, <1>9

(* A routed call: it is in flight, numbered by its place in the history.    *)
LEMMA RouteEffect ==
  ASSUME Types, NEW c \in Clients, NEW req \in Requests, Route(c, req)
  PROVE  /\ Types' /\ HistoryStep /\ SinkStep(c) /\ UNCHANGED <<audit, seq, state, writer>>
         /\ Len(history') = Len(history) + 1
         /\ history'[Len(history) + 1] = [began |-> seq, id |-> 0, source |-> req.source,
                                          isNaN |-> req.val.num = NaN]
         /\ \A n \in DOMAIN history : n \in DOMAIN history' /\ history'[n] = history[n]
         /\ call[c] = Idle
         /\ call'[c] = [pc |-> "apply", n |-> Len(history) + 1, device |-> req.device,
                        cmd |-> req.cmd, val |-> Applied(req)]
         /\ \A b \in Clients : b # c => call'[b] = call[b]
<1>1. req.device \in Devices /\ req.source \in Sources
  BY RequestTyped
<1>2. req.cmd \in Commands /\ Applied(req) \in Float
  BY PolicyLawful DEF Route
<1>3. /\ Len(history) + 1 \in Nat /\ seq \in Nat /\ history \in Seq(CallHistory)
      /\ call \in [Clients -> {Idle} \cup CallRecord]
  BY DEF Types
<1> DEFINE r == [pc |-> "apply", n |-> Len(history) + 1, device |-> req.device,
                 cmd |-> req.cmd, val |-> Applied(req)]
           h == [began |-> seq, id |-> 0, source |-> req.source,
                 isNaN |-> req.val.num = NaN]
<1>4. r \in CallRecord /\ h \in CallHistory
  BY <1>1, <1>2, <1>3 DEF CallRecord, CallHistory
<1>5. call' = [call EXCEPT ![c] = r] /\ history' = Append(history, h)
  BY DEF Route
<1> HIDE DEF r, h
<1>6. /\ call' \in [Clients -> {Idle} \cup CallRecord] /\ call'[c] = r
      /\ \A b \in Clients : b # c => call'[b] = call[b]
  BY <1>3, <1>4, <1>5
<1>7. /\ history' \in Seq(CallHistory) /\ Len(history') = Len(history) + 1
      /\ history'[Len(history) + 1] = h
      /\ \A n \in DOMAIN history : n \in DOMAIN history' /\ history'[n] = history[n]
  BY <1>4, <1>5, CallBegins
<1>8. UNCHANGED <<audit, seq, state, writer>> /\ call[c] = Idle
  BY DEF Route
<1>9. HistoryStep
  BY <1>3, <1>7, <1>8 DEF HistoryStep
<1>10. SinkStep(c)
  BY <1>8 DEF SinkStep
<1>11. Types'
  BY <1>6, <1>7, <1>8 DEF Types
<1>. QED BY <1>6, <1>7, <1>8, <1>9, <1>10, <1>11 DEF r, h

(* A delivery, successful or not. *)
LEMMA DeliveryEffect ==
  ASSUME Types, NEW c \in Clients, Delivered(c) \/ DeliveryFails(c)
  PROVE  /\ Types' /\ HistoryStep /\ SinkStep(c)
         /\ UNCHANGED <<audit, seq, history>>
         /\ call[c] # Idle /\ call'[c] # Idle
         /\ call'[c].n = call[c].n /\ call'[c].device = call[c].device
         /\ call'[c].cmd = call[c].cmd /\ call'[c].val = call[c].val
         /\ \A b \in Clients : b # c => call'[b] = call[b]
<1>1. call[c].pc = "apply" /\ UNCHANGED <<audit, seq, history>>
  BY DEF Delivered, DeliveryFails
<1>2. call[c] # Idle /\ call[c] \in CallRecord
  BY <1>1, BusyTyped
<1>3. PICK pc \in {"accepted", "failed"} : call' = [call EXCEPT ![c].pc = pc]
  BY DEF Delivered, DeliveryFails
<1> DEFINE r == [call[c] EXCEPT !.pc = pc]
<1>4. /\ r \in CallRecord /\ r.n = call[c].n /\ r.device = call[c].device
      /\ r.cmd = call[c].cmd /\ r.val = call[c].val /\ r.pc = pc
  BY <1>2 DEF CallRecord
<1>5. call' = [call EXCEPT ![c] = r] /\ call \in [Clients -> {Idle} \cup CallRecord]
  BY <1>3 DEF Types
<1>6. r # Idle
  <2>1. Idle.pc = "idle"
    BY DEF Idle
  <2>. QED BY <1>4, <2>1
<1> HIDE DEF r
<1>7. /\ call' \in [Clients -> {Idle} \cup CallRecord] /\ call'[c] = r
      /\ \A b \in Clients : b # c => call'[b] = call[b]
  BY <1>4, <1>5
<1>8. /\ state' \in [Devices -> [Commands -> Float]] /\ writer' \in [Devices -> [Commands -> Nat]]
      /\ SinkStep(c)
  <2>1. CASE Takes(c)
    BY <1>2, <2>1, TakesEffect
  <2>2. CASE UNCHANGED <<state, writer>>
    BY <2>2 DEF Types, SinkStep
  <2>. QED BY <2>1, <2>2 DEF Delivered, DeliveryFails
<1>9. HistoryStep
  BY <1>1 DEF HistoryStep, Types
<1>10. Types'
  BY <1>1, <1>7, <1>8 DEF Types
<1>. QED BY <1>1, <1>2, <1>4, <1>6, <1>7, <1>8, <1>9, <1>10

(* An answered call: it gets the next id, and its client is idle again.     *)
LEMMA AnswerEffect ==
  ASSUME Types, References, AuditIsComplete, NEW c \in Clients, Answer(c)
  PROVE  /\ Types' /\ HistoryStep /\ SinkStep(c) /\ seq' = seq + 1
         /\ call[c] # Idle /\ call'[c] = Idle
         /\ DOMAIN history' = DOMAIN history
         /\ history'[call[c].n].id = seq + 1
         /\ \A n \in DOMAIN history : n # call[c].n => history'[n] = history[n]
         /\ \A b \in Clients : b # c => call'[b] = call[b]
<1>1. call[c] # Idle /\ call[c] \in CallRecord
  BY BusyTyped DEF Answer
<1> DEFINE k == call[c].n
<1>2. k \in DOMAIN history /\ history[k].id = 0 /\ k \in Nat
  BY <1>1 DEF References, CallRecord
<1>3. call[c].device \in Devices /\ call[c].cmd \in Commands \cup {"other"}
  BY <1>1 DEF CallRecord
<1>4. Record(k, call[c].device, call[c].cmd, call[c].pc = "accepted")
  BY DEF Answer
<1>5. /\ seq' = seq + 1 /\ audit' \in Seq(AuditEntry) /\ seq \in Nat /\ seq + 1 \in Nat
      /\ Len(history) \in Nat
  <2>1. seq \in Nat /\ Len(history) \in Nat
    BY DEF Types
  <2>2. Len(audit) = IF seq < Cap THEN seq ELSE Cap
    BY DEF AuditIsComplete
  <2>3. seq' = seq + 1 /\ audit' \in Seq(AuditEntry)
    BY <1>2, <1>3, <1>4, <2>2, RecordEffect
  <2>. QED BY <2>1, <2>3
<1>6. history' = [history EXCEPT ![k].id = seq + 1]
  BY <1>5 DEF Answer
<1> HIDE DEF k
<1>7. /\ history' \in Seq(CallHistory) /\ Len(history') = Len(history)
      /\ DOMAIN history' = DOMAIN history /\ history'[k].id = seq + 1
      /\ \A n \in DOMAIN history : /\ n # k => history'[n] = history[n]
                                   /\ history'[n].began = history[n].began
                                   /\ history'[n].source = history[n].source
                                   /\ history'[n].isNaN = history[n].isNaN
  BY <1>2, <1>5, <1>6, CallReturns
<1>8. HistoryStep
  <2>1. \A n \in DOMAIN history :
          history'[n].id = history[n].id \/ (history[n].id = 0 /\ history'[n].id = seq + 1)
    BY <1>2, <1>7
  <2>. QED BY <1>5, <1>7, <2>1 DEF HistoryStep
<1>9. /\ call' \in [Clients -> {Idle} \cup CallRecord] /\ call'[c] = Idle
      /\ \A b \in Clients : b # c => call'[b] = call[b]
  BY DEF Answer, Types
<1>10. UNCHANGED <<state, writer>>
  BY DEF Answer
<1>11. Types' /\ SinkStep(c)
  BY <1>5, <1>7, <1>9, <1>10 DEF Types, SinkStep
<1>. QED BY <1>1, <1>5, <1>7, <1>8, <1>9, <1>11 DEF k

(* The fields of an entry. *)
LEMMA EntryFields ==
  ASSUME NEW id, NEW n, NEW device, NEW cmd, NEW accepted \in BOOLEAN,
         NEW e, e = Entry(id, n, device, cmd, accepted)
  PROVE  /\ e.id = id /\ e.call = n /\ e.device = device /\ e.cmd = cmd
         /\ e.accepted <=> accepted
<1>1. e.id = id /\ e.call = n /\ e.device = device /\ e.cmd = cmd
  BY DEF Entry
<1>2. CASE accepted
  BY <1>2 DEF Entry
<1>3. CASE ~accepted
  BY <1>3 DEF Entry
<1>. QED BY <1>1, <1>2, <1>3

(* The log after a record: entry i of it is the new one, or was at i + k.   *)
NewEntry(i, n, device, cmd, accepted) ==
  /\ i = Len(audit') /\ audit'[i].id = seq + 1
  /\ audit'[i].call = n /\ audit'[i].device = device /\ audit'[i].cmd = cmd
  /\ audit'[i].accepted <=> accepted
OldEntry(i, k) ==
  /\ Len(audit') = Len(audit) + 1 - k
  /\ i + k \in DOMAIN audit /\ audit'[i] = audit[i + k]

(* The window of the log moves by one record.                               *)
LEMMA RecordLogs ==
  ASSUME Types, AuditIsComplete,
         NEW n \in Nat, NEW device \in Devices, NEW cmd \in Commands \cup {"other"},
         NEW accepted \in BOOLEAN, Record(n, device, cmd, accepted),
         NEW i \in DOMAIN audit'
  PROVE  NewEntry(i, n, device, cmd, accepted) \/ \E k \in {0, 1} : OldEntry(i, k)
<1>1. Len(audit) = IF seq < Cap THEN seq ELSE Cap
  BY DEF AuditIsComplete
<1>2. audit' \in Seq(AuditEntry) /\ audit'[Len(audit')] = Entry(seq + 1, n, device, cmd, accepted)
  BY <1>1, RecordEffect
<1>3. PICK k \in {0, 1} :
        /\ Len(audit') = Len(audit) + 1 - k
        /\ \A j \in 1..(Len(audit') - 1) : j + k \in DOMAIN audit /\ audit'[j] = audit[j + k]
  BY <1>1, RecordEffect
<1>4. i \in 1..(Len(audit') - 1) \/ i = Len(audit')
  BY <1>2
<1>5. i = Len(audit') => NewEntry(i, n, device, cmd, accepted)
  BY <1>2, EntryFields DEF NewEntry
<1>. QED BY <1>3, <1>4, <1>5 DEF OldEntry

(* What a refused call writes to the log. *)
LEMMA RejectLogs ==
  ASSUME Types, AuditIsComplete, NEW c \in Clients, NEW req \in Requests, Reject(c, req),
         NEW i \in DOMAIN audit'
  PROVE  \/ NewEntry(i, Len(history) + 1, req.device, req.cmd, FALSE)
         \/ \E k \in {0, 1} : OldEntry(i, k)
<1>1. Len(history) + 1 \in Nat
  BY DEF Types
<1>2. req.device \in Devices /\ req.cmd \in Commands \cup {"other"}
  BY RequestTyped
<1>3. Record(Len(history) + 1, req.device, req.cmd, FALSE)
  BY DEF Reject
<1>. QED BY <1>1, <1>2, <1>3, RecordLogs

(* What an answered call writes to the log. *)
LEMMA AnswerLogs ==
  ASSUME Types, AuditIsComplete, NEW c \in Clients, Answer(c),
         NEW i \in DOMAIN audit'
  PROVE  \/ NewEntry(i, call[c].n, call[c].device, call[c].cmd, call[c].pc = "accepted")
         \/ \E k \in {0, 1} : OldEntry(i, k)
<1>1. call[c] \in CallRecord
  BY BusyTyped DEF Answer
<1>2. /\ call[c].n \in Nat /\ call[c].device \in Devices
      /\ call[c].cmd \in Commands \cup {"other"}
  BY <1>1 DEF CallRecord
<1>3. Record(call[c].n, call[c].device, call[c].cmd, call[c].pc = "accepted")
  BY DEF Answer
<1>. QED BY <1>2, <1>3, RecordLogs

(* Whatever a client does. *)
LEMMA SubmitEffect ==
  ASSUME IInv, NEW c \in Clients, Submit(c)
  PROVE  Types' /\ HistoryStep /\ SinkStep(c)
<1>0. Types /\ References /\ AuditIsComplete
  BY DEF IInv, Ledger
<1>1. ASSUME NEW req \in Requests, Reject(c, req) PROVE Types' /\ HistoryStep /\ SinkStep(c)
  BY <1>0, <1>1, RejectEffect
<1>2. ASSUME NEW req \in Requests, Route(c, req) PROVE Types' /\ HistoryStep /\ SinkStep(c)
  BY <1>0, <1>2, RouteEffect
<1>3. CASE Delivered(c) \/ DeliveryFails(c)
  BY <1>0, <1>3, DeliveryEffect
<1>4. CASE Answer(c)
  BY <1>0, <1>4, AnswerEffect
<1>. QED BY <1>1, <1>2, <1>3, <1>4 DEF Submit

-----------------------------------------------------------------------------
(* The invariant, part by part. *)

(* What a call in flight wrote, or would write, is what the sink holds.     *)
LEMMA SinkLawfulStep ==
  ASSUME IInv, NEW c \in Clients, Submit(c)
  PROVE  SinkLawful'
<1>0. HistoryStep /\ SinkStep(c) /\ Types /\ References /\ CallsLawful /\ SinkLawful
  BY SubmitEffect DEF IInv
<1> SUFFICES ASSUME NEW d \in Devices, NEW cmd \in Commands, writer'[d][cmd] # 0
             PROVE  Lawful(cmd, state'[d][cmd], history'[writer'[d][cmd]].source,
                           history'[writer'[d][cmd]].isNaN)
  BY DEF SinkLawful, Lawful
<1>1. CASE state'[d][cmd] = state[d][cmd] /\ writer'[d][cmd] = writer[d][cmd]
  <2>1. writer[d][cmd] \in DOMAIN history
    BY <1>0, <1>1 DEF References, Types
  <2>2. /\ history'[writer[d][cmd]].source = history[writer[d][cmd]].source
        /\ history'[writer[d][cmd]].isNaN = history[writer[d][cmd]].isNaN
    BY <1>0, <2>1 DEF HistoryStep
  <2>. QED BY <1>0, <1>1, <2>2 DEF SinkLawful
<1>2. CASE /\ call[c] # Idle /\ d = call[c].device /\ cmd = call[c].cmd
           /\ state'[d][cmd] = call[c].val /\ writer'[d][cmd] = call[c].n
  <2>1. call[c].n \in DOMAIN history
    BY <1>0, <1>2 DEF References
  <2>2. /\ history'[call[c].n].source = history[call[c].n].source
        /\ history'[call[c].n].isNaN = history[call[c].n].isNaN
    BY <1>0, <2>1 DEF HistoryStep
  <2>. QED BY <1>0, <1>2, <2>2 DEF CallsLawful
<1>. QED BY <1>0, <1>1, <1>2 DEF SinkStep

CoveredAfter(d, cmd, n) ==
  LET w == writer'[d][cmd]
  IN w # 0 /\ (history'[w].id # 0 => history'[w].id > history'[n].began)

(* A covered call stays covered: whoever writes the channel has no entry    *)
(* yet, and the entry it gets is later than every call's beginning.         *)
LEMMA CoveredStep ==
  ASSUME IInv, NEW c \in Clients, Submit(c),
         NEW d \in Devices, NEW cmd \in Commands, NEW n \in DOMAIN history,
         Covered(d, cmd, n)
  PROVE  CoveredAfter(d, cmd, n)
<1>0. HistoryStep /\ SinkStep(c) /\ Types /\ References
  BY SubmitEffect DEF IInv
<1> DEFINE w == writer[d][cmd]
           v == writer'[d][cmd]
<1>1. history[n].began <= seq /\ history[n].began \in Nat /\ seq \in Nat
      /\ history'[n].began = history[n].began
  <2>1. history[n] \in CallHistory /\ seq \in Nat
    BY <1>0 DEF Types
  <2>2. history[n].began \in Nat
    BY <2>1 DEF CallHistory
  <2>. QED BY <1>0, <2>1, <2>2 DEF References, HistoryStep
<1>2. v \in DOMAIN history /\ v # 0
      /\ (history[v].id # 0 => history[v].id > history[n].began)
  <2>1. CASE v = w
    <3>1. w \in 0..Len(history) /\ w # 0
      BY <1>0 DEF References, Covered
    <3>2. w \in DOMAIN history
      BY <1>0, <3>1 DEF Types
    <3>. QED BY <2>1, <3>1, <3>2 DEF Covered
  <2>2. CASE call[c] # Idle /\ v = call[c].n
    <3>1. v \in DOMAIN history /\ history[v].id = 0
      BY <1>0, <2>2 DEF References
    <3>2. v # 0
      BY <1>0, <3>1 DEF Types
    <3>. QED BY <3>1, <3>2
  <2>. QED BY <1>0, <2>1, <2>2 DEF SinkStep
<1>3. history'[v].id = history[v].id \/ history'[v].id = seq + 1
  BY <1>0, <1>2 DEF HistoryStep
<1> HIDE DEF v
<1>4. history'[v].id # 0 => history'[v].id > history'[n].began
  BY <1>1, <1>2, <1>3
<1>. QED BY <1>2, <1>4 DEF CoveredAfter, v

(* A call delivered with success is covered from that moment: it wrote the  *)
(* channel itself and has no entry yet.                                     *)
LEMMA AcceptedCoveredStep ==
  ASSUME IInv, NEW c \in Clients, Submit(c)
  PROVE  AcceptedCovered'
<1>0. Types /\ References /\ AcceptedCovered /\ AuditIsComplete
  BY DEF IInv, Ledger
<1>1. ASSUME NEW b \in Clients, call[b] # Idle, call[b].pc = "accepted"
      PROVE  CoveredAfter(call[b].device, call[b].cmd, call[b].n)
  <2>1. /\ call[b].device \in Devices /\ call[b].cmd \in Commands
        /\ call[b].n \in DOMAIN history
    BY <1>0, <1>1, BusyTyped DEF CallRecord, References
  <2>2. Covered(call[b].device, call[b].cmd, call[b].n)
    BY <1>0, <1>1 DEF AcceptedCovered
  <2>. QED BY <2>1, <2>2, CoveredStep
<1> SUFFICES ASSUME NEW b \in Clients, call'[b] # Idle, call'[b].pc = "accepted"
             PROVE  CoveredAfter(call'[b].device, call'[b].cmd, call'[b].n)
  BY DEF AcceptedCovered, Covered, CoveredAfter
<1>2. CASE call'[b] = call[b]
  BY <1>1, <1>2
<1>3. CASE call'[b] # call[b]
  <2>1. CASE b # c
    BY <1>0, <1>3, <2>1, RejectEffect, RouteEffect, DeliveryEffect, AnswerEffect DEF Submit
  <2>2. CASE \E req \in Requests : Reject(c, req)
    BY <1>0, <1>3, <2>2, RejectEffect
  <2>3. ASSUME b = c, NEW req \in Requests, Route(c, req) PROVE FALSE
    <3>1. call'[c].pc = "apply"
      <4>1. call'[c] = [pc |-> "apply", n |-> Len(history) + 1, device |-> req.device,
                        cmd |-> req.cmd, val |-> Applied(req)]
        BY <1>0, <2>3, RouteEffect
      <4>. QED BY <4>1
    <3>. QED BY <2>3, <3>1
  <2>4. CASE b = c /\ Answer(c)
    BY <1>0, <2>4, AnswerEffect
  <2>5. ASSUME b = c, DeliveryFails(c) PROVE FALSE
    BY <1>0, <2>5, BusyTyped DEF DeliveryFails, Types
  <2>6. CASE b = c /\ Delivered(c)
    <3>1. /\ call[c] # Idle /\ UNCHANGED history /\ call'[c].n = call[c].n
          /\ call'[c].device = call[c].device /\ call'[c].cmd = call[c].cmd
      BY <1>0, <2>6, DeliveryEffect
    <3>2. writer'[call[c].device][call[c].cmd] = call[c].n
      BY <1>0, <2>6, <3>1, TakesEffect DEF Delivered
    <3>3. call[c].n \in DOMAIN history /\ history[call[c].n].id = 0
      BY <1>0, <3>1 DEF References
    <3>4. call[c].n # 0
      BY <1>0, <3>3 DEF Types
    <3>. QED BY <2>6, <3>1, <3>2, <3>3, <3>4 DEF CoveredAfter
  <2>. QED BY <2>1, <2>2, <2>3, <2>4, <2>5, <2>6 DEF Submit
<1>. QED BY <1>2, <1>3

(* Old entries stay covered; the entry of an accepted call is covered when  *)
(* it is written.                                                           *)
LEMMA LaterSubmitWinsStep ==
  ASSUME IInv, NEW c \in Clients, Submit(c)
  PROVE  LaterSubmitWins'
<1>0. Types /\ References /\ AuditIsComplete /\ LaterSubmitWins /\ AcceptedCovered
  BY DEF IInv, Ledger
<1>1. ASSUME NEW j \in DOMAIN audit, audit[j].accepted
      PROVE  CoveredAfter(audit[j].device, audit[j].cmd, audit[j].call)
  <2>1. audit[j] \in AuditEntry
    BY <1>0 DEF Types
  <2>2. /\ audit[j].device \in Devices /\ audit[j].cmd \in Commands
        /\ audit[j].call \in DOMAIN history
    BY <1>0, <1>1, <2>1 DEF AuditEntry, References
  <2>3. Covered(audit[j].device, audit[j].cmd, audit[j].call)
    BY <1>0, <1>1 DEF LaterSubmitWins, Covered
  <2>. QED BY <2>2, <2>3, CoveredStep
<1> SUFFICES ASSUME NEW i \in DOMAIN audit', audit'[i].accepted
             PROVE  CoveredAfter(audit'[i].device, audit'[i].cmd, audit'[i].call)
  BY DEF LaterSubmitWins, CoveredAfter
<1>2. CASE \E j \in DOMAIN audit : audit'[i] = audit[j]
  BY <1>1, <1>2
<1>3. CASE ~ \E j \in DOMAIN audit : audit'[i] = audit[j]
  <2>1. ASSUME NEW req \in Requests, Reject(c, req) PROVE FALSE
    <3>1. NewEntry(i, Len(history) + 1, req.device, req.cmd, FALSE)
      BY <1>0, <1>3, <2>1, RejectLogs DEF OldEntry
    <3>. QED BY <3>1 DEF NewEntry
  <2>2. CASE \E req \in Requests : Route(c, req)
    BY <1>0, <1>3, <2>2, RouteEffect
  <2>3. CASE Delivered(c) \/ DeliveryFails(c)
    BY <1>0, <1>3, <2>3, DeliveryEffect
  <2>4. CASE Answer(c)
    <3>1. NewEntry(i, call[c].n, call[c].device, call[c].cmd, call[c].pc = "accepted")
      BY <1>0, <1>3, <2>4, AnswerLogs DEF OldEntry
    <3>2. /\ audit'[i].call = call[c].n /\ audit'[i].device = call[c].device
          /\ audit'[i].cmd = call[c].cmd /\ call[c].pc = "accepted"
      BY <3>1 DEF NewEntry
    <3>3. call[c] # Idle
      BY <1>0, <2>4, AnswerEffect
    <3>4. /\ call[c].device \in Devices /\ call[c].cmd \in Commands
          /\ call[c].n \in DOMAIN history
      BY <1>0, <3>3, BusyTyped DEF CallRecord, References
    <3>5. Covered(call[c].device, call[c].cmd, call[c].n)
      BY <1>0, <3>2, <3>3 DEF AcceptedCovered
    <3>. QED BY <3>2, <3>4, <3>5, CoveredStep
  <2>. QED BY <2>1, <2>2, <2>3, <2>4 DEF Submit
<1>. QED BY <1>2, <1>3

(* Calls in flight keep pointing at their place in the history.             *)
LEMMA ReferencesStep ==
  ASSUME IInv, NEW c \in Clients, Submit(c)
  PROVE  References'
<1>0. /\ Types /\ References /\ AuditIsComplete /\ HistoryStep /\ SinkStep(c) /\ Types'
  BY SubmitEffect DEF IInv, Ledger
<1>1. /\ history \in Seq(CallHistory) /\ Len(history) \in Nat /\ seq \in Nat
      /\ DOMAIN history = 1..Len(history)
      /\ history' \in Seq(CallHistory) /\ Len(history') \in Nat
      /\ DOMAIN history' = 1..Len(history')
  BY <1>0 DEF Types
<1> DEFINE Flying(h, k) ==
             /\ \A b \in Clients : k[b] # Idle => k[b].n \in DOMAIN h /\ h[k[b].n].id = 0
             /\ \A a, b \in Clients : k[a] # Idle /\ k[b] # Idle /\ k[a].n = k[b].n => a = b
           Bounded == \A n \in DOMAIN history' :
                        history'[n].began <= seq' /\ history'[n].id <= seq'
           Logged == \A i \in DOMAIN audit' : /\ audit'[i].call \in DOMAIN history'
                                              /\ audit'[i].accepted => audit'[i].cmd \in Commands
<1>2. Flying(history, call)
  BY <1>0 DEF References
<1>3. \A n \in DOMAIN history :
        /\ n \in DOMAIN history'
        /\ history'[n].began <= seq' /\ history'[n].id <= seq'
  <2> SUFFICES ASSUME NEW n \in DOMAIN history
               PROVE  /\ n \in DOMAIN history'
                      /\ history'[n].began <= seq' /\ history'[n].id <= seq'
    OBVIOUS
  <2>1. history[n] \in CallHistory
    BY <1>1
  <2>2. history[n].began \in Nat /\ history[n].id \in Nat
    BY <2>1 DEF CallHistory
  <2>3. history[n].began <= seq /\ history[n].id <= seq
    BY <1>0 DEF References
  <2>4. /\ n \in DOMAIN history' /\ history'[n].began = history[n].began
        /\ seq' \in {seq, seq + 1}
        /\ history'[n].id = history[n].id \/ history'[n].id = seq + 1
    BY <1>0 DEF HistoryStep
  <2>5. seq' = seq => history'[n].id <= seq
    <3>1. CASE Answer(c)
      <4>1. seq' = seq + 1
        BY <1>0, <3>1, AnswerEffect
      <4>. QED BY <1>1, <4>1
    <3>2. CASE \E req \in Requests : Reject(c, req)
      <4>1. seq' = seq + 1
        BY <1>0, <3>2, RejectEffect
      <4>. QED BY <1>1, <4>1
    <3>3. CASE \E req \in Requests : Route(c, req)
      BY <1>0, <2>3, <3>3, RouteEffect
    <3>4. CASE Delivered(c) \/ DeliveryFails(c)
      BY <1>0, <2>3, <3>4, DeliveryEffect
    <3>. QED BY <3>1, <3>2, <3>3, <3>4 DEF Submit
  <2>. QED BY <1>1, <2>2, <2>3, <2>4, <2>5
<1>4. \A d \in Devices, cmd \in Commands : writer'[d][cmd] \in 0..Len(history')
  <2> SUFFICES ASSUME NEW d \in Devices, NEW cmd \in Commands
               PROVE  writer'[d][cmd] \in 0..Len(history')
    OBVIOUS
  <2>1. CASE writer'[d][cmd] = writer[d][cmd]
    BY <1>0, <1>1, <2>1 DEF References, HistoryStep
  <2>2. CASE call[c] # Idle /\ writer'[d][cmd] = call[c].n
    BY <1>1, <1>2, <1>3, <2>2
  <2>. QED BY <1>0, <2>1, <2>2 DEF SinkStep
<1>5. \A j \in DOMAIN audit : /\ audit[j].call \in DOMAIN history'
                              /\ audit[j].accepted => audit[j].cmd \in Commands
  BY <1>0, <1>3 DEF References
<1> HIDE DEF Flying, Bounded, Logged
<1>6. ASSUME NEW req \in Requests, Reject(c, req)
      PROVE  Flying(history', call') /\ Bounded /\ Logged
  <2>1. /\ call' = call /\ seq' = seq + 1 /\ Len(history') = Len(history) + 1
        /\ history'[Len(history) + 1].began = seq /\ history'[Len(history) + 1].id = seq + 1
        /\ \A n \in DOMAIN history : n \in DOMAIN history' /\ history'[n] = history[n]
    BY <1>0, <1>6, RejectEffect
  <2>2. Flying(history', call')
    BY <1>2, <2>1 DEF Flying
  <2>3. Bounded
    <3> SUFFICES ASSUME NEW n \in DOMAIN history'
                 PROVE  history'[n].began <= seq' /\ history'[n].id <= seq'
      BY DEF Bounded
    <3>1. CASE n = Len(history) + 1
      BY <1>1, <2>1, <3>1
    <3>2. CASE n # Len(history) + 1
      <4>1. n \in DOMAIN history
        BY <1>1, <2>1, <3>2
      <4>. QED BY <1>3, <4>1
    <3>. QED BY <3>1, <3>2
  <2>4. Logged
    <3> SUFFICES ASSUME NEW i \in DOMAIN audit'
                 PROVE  /\ audit'[i].call \in DOMAIN history'
                        /\ audit'[i].accepted => audit'[i].cmd \in Commands
      BY DEF Logged
    <3>1. CASE NewEntry(i, Len(history) + 1, req.device, req.cmd, FALSE)
      <4>1. audit'[i].call = Len(history) + 1 /\ ~audit'[i].accepted
        BY <3>1 DEF NewEntry
      <4>. QED BY <1>1, <2>1, <4>1
    <3>2. CASE \E k \in {0, 1} : OldEntry(i, k)
      BY <1>5, <3>2 DEF OldEntry
    <3>. QED BY <1>0, <1>6, <3>1, <3>2, RejectLogs
  <2>. QED BY <2>2, <2>3, <2>4
<1>7. ASSUME NEW req \in Requests, Route(c, req)
      PROVE  Flying(history', call') /\ Bounded /\ Logged
  <2>1. /\ UNCHANGED <<audit, seq>> /\ Len(history') = Len(history) + 1
        /\ history'[Len(history) + 1] = [began |-> seq, id |-> 0, source |-> req.source,
                                         isNaN |-> req.val.num = NaN]
        /\ \A n \in DOMAIN history : n \in DOMAIN history' /\ history'[n] = history[n]
        /\ call'[c] = [pc |-> "apply", n |-> Len(history) + 1, device |-> req.device,
                       cmd |-> req.cmd, val |-> Applied(req)]
        /\ \A b \in Clients : b # c => call'[b] = call[b]
    BY <1>0, <1>7, RouteEffect
  <2>2. /\ call'[c].n = Len(history) + 1
        /\ history'[Len(history) + 1].began = seq /\ history'[Len(history) + 1].id = 0
    BY <2>1
  <2>3. /\ Len(history) + 1 \in DOMAIN history' /\ Len(history) + 1 \notin DOMAIN history
    BY <1>1, <2>1
  <2>4. Flying(history', call')
    BY <1>2, <2>1, <2>2, <2>3 DEF Flying
  <2>5. Bounded
    <3> SUFFICES ASSUME NEW n \in DOMAIN history'
                 PROVE  history'[n].began <= seq' /\ history'[n].id <= seq'
      BY DEF Bounded
    <3>1. CASE n = Len(history) + 1
      BY <1>1, <2>1, <2>2, <3>1
    <3>2. CASE n # Len(history) + 1
      <4>1. n \in DOMAIN history
        BY <1>1, <2>1, <3>2
      <4>. QED BY <1>3, <4>1
    <3>. QED BY <3>1, <3>2
  <2>6. Logged
    BY <1>5, <2>1 DEF Logged
  <2>. QED BY <2>4, <2>5, <2>6
<1>8. ASSUME Delivered(c) \/ DeliveryFails(c)
      PROVE  Flying(history', call') /\ Bounded /\ Logged
  <2>1. /\ UNCHANGED <<audit, seq, history>> /\ call[c] # Idle /\ call'[c].n = call[c].n
        /\ \A b \in Clients : b # c => call'[b] = call[b]
    BY <1>0, <1>8, DeliveryEffect
  <2>2. \A b \in Clients : (call'[b] # Idle => call[b] # Idle) /\ call'[b].n = call[b].n
    BY <2>1
  <2>3. Flying(history', call')
    BY <1>2, <2>1, <2>2 DEF Flying
  <2>4. Bounded /\ Logged
    BY <1>3, <1>5, <2>1 DEF Bounded, Logged
  <2>. QED BY <2>3, <2>4
<1>9. ASSUME Answer(c) PROVE Flying(history', call') /\ Bounded /\ Logged
  <2>1. /\ call[c] # Idle /\ call'[c] = Idle /\ DOMAIN history' = DOMAIN history
        /\ \A n \in DOMAIN history : n # call[c].n => history'[n] = history[n]
        /\ \A b \in Clients : b # c => call'[b] = call[b]
    BY <1>0, <1>9, AnswerEffect
  <2>2. Flying(history', call')
    BY <1>2, <2>1 DEF Flying
  <2>3. Bounded
    BY <1>3, <2>1 DEF Bounded
  <2>4. Logged
    <3> SUFFICES ASSUME NEW i \in DOMAIN audit'
                 PROVE  /\ audit'[i].call \in DOMAIN history'
                        /\ audit'[i].accepted => audit'[i].cmd \in Commands
      BY DEF Logged
    <3>1. CASE NewEntry(i, call[c].n, call[c].device, call[c].cmd, call[c].pc = "accepted")
      <4>1. audit'[i].call = call[c].n /\ audit'[i].cmd = call[c].cmd
        BY <3>1 DEF NewEntry
      <4>2. call[c].n \in DOMAIN history /\ call[c].cmd \in Commands
        BY <1>0, <2>1, BusyTyped DEF References, CallRecord
      <4>. QED BY <2>1, <4>1, <4>2
    <3>2. CASE \E k \in {0, 1} : OldEntry(i, k)
      BY <1>5, <3>2 DEF OldEntry
    <3>. QED BY <1>0, <1>9, <3>1, <3>2, AnswerLogs
  <2>. QED BY <2>2, <2>3, <2>4
<1>10. Flying(history', call') /\ Bounded /\ Logged
  BY <1>6, <1>7, <1>8, <1>9 DEF Submit
<1>. QED BY <1>4, <1>10 DEF Flying, Bounded, Logged, References

(* What the policy let through stays what it is while in flight.            *)
LEMMA CallsLawfulStep ==
  ASSUME IInv, NEW c \in Clients, Submit(c)
  PROVE  CallsLawful'
<1>0. /\ Types /\ References /\ AuditIsComplete /\ HistoryStep /\ CallsLawful
  BY SubmitEffect DEF IInv, Ledger
<1> SUFFICES ASSUME NEW b \in Clients, call'[b] # Idle
             PROVE  Lawful(call'[b].cmd, call'[b].val, history'[call'[b].n].source,
                    history'[call'[b].n].isNaN)
  BY DEF CallsLawful, Lawful
<1>1. ASSUME call[b] # Idle, call'[b].cmd = call[b].cmd, call'[b].val = call[b].val,
             call'[b].n = call[b].n
      PROVE  Lawful(call'[b].cmd, call'[b].val, history'[call'[b].n].source,
                    history'[call'[b].n].isNaN)
  <2>1. call[b].n \in DOMAIN history
    BY <1>0, <1>1 DEF References
  <2>2. /\ history'[call[b].n].source = history[call[b].n].source
        /\ history'[call[b].n].isNaN = history[call[b].n].isNaN
    BY <1>0, <2>1 DEF HistoryStep
  <2>. QED BY <1>0, <1>1, <2>2 DEF CallsLawful
<1>2. CASE \E req \in Requests : Reject(c, req)
  BY <1>0, <1>1, <1>2, RejectEffect
<1>3. ASSUME NEW req \in Requests, Route(c, req)
      PROVE  Lawful(call'[b].cmd, call'[b].val, history'[call'[b].n].source,
                    history'[call'[b].n].isNaN)
  <2>1. CASE b # c
    BY <1>0, <1>1, <1>3, <2>1, RouteEffect
  <2>2. CASE b = c
    <3>1. /\ history'[Len(history) + 1] = [began |-> seq, id |-> 0, source |-> req.source,
                                           isNaN |-> req.val.num = NaN]
          /\ call'[c] = [pc |-> "apply", n |-> Len(history) + 1, device |-> req.device,
                         cmd |-> req.cmd, val |-> Applied(req)]
      BY <1>0, <1>3, RouteEffect
    <3>2. /\ call'[c].n = Len(history) + 1 /\ call'[c].cmd = req.cmd
          /\ call'[c].val = Applied(req) /\ history'[Len(history) + 1].source = req.source
          /\ history'[Len(history) + 1].isNaN = (req.val.num = NaN)
      BY <3>1
    <3>3. Lawful(req.cmd, Applied(req), req.source, req.val.num = NaN)
      BY <1>3, PolicyLawful DEF Route
    <3>. QED BY <2>2, <3>2, <3>3
  <2>. QED BY <2>1, <2>2
<1>4. CASE Delivered(c) \/ DeliveryFails(c)
  <2>1. /\ call[c] # Idle /\ call'[c].n = call[c].n
        /\ call'[c].cmd = call[c].cmd /\ call'[c].val = call[c].val
        /\ \A a \in Clients : a # c => call'[a] = call[a]
    BY <1>0, <1>4, DeliveryEffect
  <2>. QED BY <1>1, <2>1
<1>5. CASE Answer(c)
  BY <1>0, <1>1, <1>5, AnswerEffect
<1>. QED BY <1>2, <1>3, <1>4, <1>5 DEF Submit

-----------------------------------------------------------------------------
(* The ledger: ids and the calls that hold them. *)

(* Either no call returns, or one does and takes the next id; the ids of    *)
(* the calls that returned earlier stay.                                    *)
Settles ==
  /\ \A n \in Returned : history'[n].id = history[n].id
  /\ \/ seq' = seq /\ Returned' = Returned
     \/ /\ seq' = seq + 1
        /\ \E m : /\ m \notin Returned /\ Returned' = Returned \cup {m}
                  /\ history'[m].id = seq + 1

(* Every step settles no call or one. *)
LEMMA SubmitSettles ==
  ASSUME IInv, NEW c \in Clients, Submit(c)
  PROVE  Settles
<1>0. /\ Types /\ References /\ AuditIsComplete /\ Types'
  BY SubmitEffect DEF IInv, Ledger
<1>1. /\ Len(history) \in Nat /\ DOMAIN history = 1..Len(history)
      /\ DOMAIN history' = 1..Len(history') /\ seq \in Nat
  BY <1>0 DEF Types
<1>2. /\ InFlight \subseteq DOMAIN history
      /\ \A n : n \in InFlight <=> \E b \in Clients : call[b] # Idle /\ call[b].n = n
      /\ \A n : n \in InFlight' <=> \E b \in Clients : call'[b] # Idle /\ call'[b].n = n
  BY <1>0 DEF InFlight, References
<1>3. ASSUME NEW req \in Requests, Reject(c, req) PROVE Settles
  <2> DEFINE m == Len(history) + 1
  <2>1. /\ call' = call /\ seq' = seq + 1 /\ Len(history') = m
        /\ history'[m].id = seq + 1
        /\ \A n \in DOMAIN history : n \in DOMAIN history' /\ history'[n] = history[n]
    BY <1>0, <1>3, RejectEffect
  <2>2. m \notin DOMAIN history /\ DOMAIN history' = DOMAIN history \cup {m}
    BY <1>1, <2>1
  <2> HIDE DEF m
  <2>3. InFlight' = InFlight
    BY <2>1 DEF InFlight
  <2>4. m \notin Returned /\ Returned' = Returned \cup {m}
    BY <1>2, <2>2, <2>3 DEF Returned
  <2>. QED BY <2>1, <2>4 DEF Settles, Returned
<1>4. ASSUME NEW req \in Requests, Route(c, req) PROVE Settles
  <2> DEFINE m == Len(history) + 1
  <2>1. /\ seq' = seq /\ Len(history') = m /\ call[c] = Idle
        /\ \A n \in DOMAIN history : n \in DOMAIN history' /\ history'[n] = history[n]
        /\ call'[c] = [pc |-> "apply", n |-> m, device |-> req.device,
                       cmd |-> req.cmd, val |-> Applied(req)]
        /\ \A b \in Clients : b # c => call'[b] = call[b]
    BY <1>0, <1>4, RouteEffect
  <2>2. m \notin DOMAIN history /\ DOMAIN history' = DOMAIN history \cup {m}
    BY <1>1, <2>1
  <2>3. call'[c].n = m /\ call'[c].pc = "apply"
    BY <2>1
  <2>4. Idle.pc = "idle"
    BY DEF Idle
  <2>5. call'[c] # Idle
    BY <2>3, <2>4
  <2> HIDE DEF m
  <2>6. \A n : n \in InFlight' <=> n \in InFlight \cup {m}
    BY <1>2, <2>1, <2>3, <2>5
  <2>7. Returned' = Returned
    BY <1>2, <2>2, <2>6 DEF Returned
  <2>. QED BY <2>1, <2>7 DEF Settles, Returned
<1>5. ASSUME Delivered(c) \/ DeliveryFails(c) PROVE Settles
  <2>1. /\ UNCHANGED <<seq, history>> /\ call[c] # Idle /\ call'[c] # Idle
        /\ call'[c].n = call[c].n
        /\ \A b \in Clients : b # c => call'[b] = call[b]
    BY <1>0, <1>5, DeliveryEffect
  <2>2. \A n : n \in InFlight' <=> n \in InFlight
    BY <1>2, <2>1
  <2>3. Returned' = Returned
    BY <2>1, <2>2 DEF Returned
  <2>. QED BY <2>1, <2>3 DEF Settles
<1>6. ASSUME Answer(c) PROVE Settles
  <2> DEFINE m == call[c].n
  <2>1. /\ seq' = seq + 1 /\ call[c] # Idle /\ call'[c] = Idle
        /\ DOMAIN history' = DOMAIN history /\ history'[m].id = seq + 1
        /\ \A n \in DOMAIN history : n # m => history'[n] = history[n]
        /\ \A b \in Clients : b # c => call'[b] = call[b]
    BY <1>0, <1>6, AnswerEffect
  <2>2. m \in InFlight /\ \A b \in Clients : b # c /\ call[b] # Idle => call[b].n # m
    BY <1>0, <1>2, <2>1 DEF References
  <2>3. \A n : n \in InFlight' <=> n \in InFlight \ {m}
    BY <1>2, <2>1, <2>2
  <2> HIDE DEF m
  <2>4. m \notin Returned /\ Returned' = Returned \cup {m}
    BY <1>2, <2>1, <2>2, <2>3 DEF Returned
  <2>. QED BY <2>1, <2>4 DEF Settles, Returned
<1>. QED BY <1>3, <1>4, <1>5, <1>6 DEF Submit

(* The calls that returned hold the ids 1..seq, each id one call.           *)
LEMMA IdsStep ==
  ASSUME IInv, Settles
  PROVE  IdsDistinct' /\ {history[n].id : n \in DOMAIN history \ InFlight}' = 1..seq'
<1>0. /\ seq \in Nat /\ {history[n].id : n \in Returned} = 1..seq /\ IdsDistinct
  BY DEF IInv, Ledger, AuditIsComplete, Returned, Types
<1>1. /\ \A n \in Returned : history[n].id \in 1..seq
      /\ \A k \in 1..seq : \E n \in Returned : history[n].id = k
  BY <1>0
<1>2. \A n \in Returned : history'[n].id = history[n].id
  BY DEF Settles
<1>3. ASSUME {history'[n].id : n \in Returned'} = 1..seq', IdsDistinct'
      PROVE  IdsDistinct' /\ {history[n].id : n \in DOMAIN history \ InFlight}' = 1..seq'
  BY <1>3 DEF Returned
<1>4. CASE seq' = seq /\ Returned' = Returned
  <2>1. {history'[n].id : n \in Returned'} = 1..seq'
    BY <1>0, <1>2, <1>4
  <2>2. IdsDistinct'
    BY <1>0, <1>2, <1>4 DEF IdsDistinct
  <2>. QED BY <1>3, <2>1, <2>2
<1>5. ASSUME NEW m, seq' = seq + 1, m \notin Returned, Returned' = Returned \cup {m},
             history'[m].id = seq + 1
      PROVE  IdsDistinct' /\ {history[n].id : n \in DOMAIN history \ InFlight}' = 1..seq'
  <2>1. \A n \in Returned' : history'[n].id \in 1..seq'
    BY <1>0, <1>1, <1>2, <1>5
  <2>2. \A k \in 1..seq' : \E n \in Returned' : history'[n].id = k
    <3> SUFFICES ASSUME NEW k \in 1..seq' PROVE \E n \in Returned' : history'[n].id = k
      OBVIOUS
    <3>1. CASE k = seq + 1
      BY <1>5, <3>1
    <3>2. CASE k \in 1..seq
      BY <1>1, <1>2, <1>5, <3>2
    <3>. QED BY <1>0, <1>5, <3>1, <3>2
  <2>3. {history'[n].id : n \in Returned'} = 1..seq'
    BY <2>1, <2>2
  <2>4. \A n \in Returned : history'[n].id # seq + 1
    BY <1>0, <1>1, <1>2
  <2>5. IdsDistinct'
    BY <1>0, <1>2, <1>5, <2>4 DEF IdsDistinct
  <2>. QED BY <1>3, <2>3, <2>5
<1>. QED BY <1>4, <1>5 DEF Settles

(* The log is the window of the last records: positions give ids, and every *)
(* entry has the id of its call.                                            *)
Window ==
  /\ Len(audit) = IF seq < Cap THEN seq ELSE Cap
  /\ \A i \in DOMAIN audit : audit[i].id = seq - Len(audit) + i
  /\ \A i \in DOMAIN audit : history[audit[i].call].id = audit[i].id

(* Recording moves the window by one: the new entry's call has the new id.  *)
LEMMA RecordMovesWindow ==
  ASSUME IInv, HistoryStep,
         NEW n \in Nat, NEW device \in Devices, NEW cmd \in Commands \cup {"other"},
         NEW accepted \in BOOLEAN, Record(n, device, cmd, accepted),
         history'[n].id = seq + 1
  PROVE  Window'
<1>0. /\ Types /\ References /\ AuditIsComplete
      /\ audit \in Seq(AuditEntry) /\ seq \in Nat /\ Cap \in Nat /\ Len(audit) \in Nat
      /\ DOMAIN audit = 1..Len(audit) /\ Len(audit) = IF seq < Cap THEN seq ELSE Cap
  BY AuditAssumption DEF IInv, Ledger, Types, AuditIsComplete
<1>1. /\ seq' = seq + 1 /\ audit' \in Seq(AuditEntry)
      /\ Len(audit') = IF seq' < Cap THEN seq' ELSE Cap
  BY <1>0, RecordEffect
<1>2. ASSUME NEW i \in DOMAIN audit'
      PROVE  /\ audit'[i].id = seq' - Len(audit') + i
             /\ history'[audit'[i].call].id = audit'[i].id
  <2>1. CASE NewEntry(i, n, device, cmd, accepted)
    <3>1. i = Len(audit') /\ audit'[i].id = seq + 1 /\ audit'[i].call = n
      BY <2>1 DEF NewEntry
    <3>. QED BY <1>0, <1>1, <3>1
  <2>2. ASSUME NEW k \in {0, 1}, OldEntry(i, k)
        PROVE  /\ audit'[i].id = seq' - Len(audit') + i
               /\ history'[audit'[i].call].id = audit'[i].id
    <3> DEFINE j == i + k
    <3>1. /\ j \in DOMAIN audit /\ audit'[i] = audit[j] /\ Len(audit') = Len(audit) + 1 - k
      BY <2>2 DEF OldEntry
    <3>2. /\ audit[j].id = seq - Len(audit) + j
          /\ history[audit[j].call].id = audit[j].id
      BY <1>0, <3>1 DEF AuditIsComplete
    <3>3. i \in Nat /\ j \in 1..Len(audit)
      BY <1>0, <1>1, <3>1
    <3>4. audit'[i].id = seq' - Len(audit') + i
      <4>1. audit'[i].id = seq - Len(audit) + (i + k)
        BY <3>1, <3>2
      <4>2. seq' = seq + 1 /\ Len(audit') = Len(audit) + 1 - k
        BY <1>1, <3>1
      <4>3. seq \in Nat /\ Len(audit) \in Nat /\ i \in Nat
        BY <1>0, <3>3
      <4>. QED BY <4>1, <4>2, <4>3
    <3>5. audit[j].id # 0
      BY <1>0, <3>2, <3>3
    <3>6. audit[j].call \in DOMAIN history
      BY <1>0, <3>1 DEF References
    <3>7. history'[audit[j].call].id = history[audit[j].call].id
      BY <3>2, <3>5, <3>6 DEF HistoryStep
    <3> HIDE DEF j
    <3>. QED BY <3>1, <3>2, <3>4, <3>7
  <2>. QED BY <1>0, <2>1, <2>2, RecordLogs
<1>. QED BY <1>1, <1>2 DEF Window

(* Every step keeps the log the window of the last records. *)
LEMMA WindowStep ==
  ASSUME IInv, NEW c \in Clients, Submit(c)
  PROVE  Window'
<1>0. /\ Types /\ References /\ AuditIsComplete /\ HistoryStep /\ Window
  BY SubmitEffect DEF IInv, Ledger, Window, AuditIsComplete
<1>1. ASSUME NEW req \in Requests, Reject(c, req) PROVE Window'
  <2>1. history'[Len(history) + 1].id = seq + 1
    BY <1>0, <1>1, RejectEffect
  <2>2. Len(history) + 1 \in Nat
    BY <1>0 DEF Types
  <2>3. req.device \in Devices /\ req.cmd \in Commands \cup {"other"}
    BY RequestTyped
  <2>4. Record(Len(history) + 1, req.device, req.cmd, FALSE)
    BY <1>1 DEF Reject
  <2>. QED BY <1>0, <2>1, <2>2, <2>3, <2>4, RecordMovesWindow
<1>2. ASSUME Answer(c) PROVE Window'
  <2>1. history'[call[c].n].id = seq + 1 /\ call[c] # Idle
    BY <1>0, <1>2, AnswerEffect
  <2>2. /\ call[c].n \in Nat /\ call[c].device \in Devices
        /\ call[c].cmd \in Commands \cup {"other"}
    BY <1>0, <2>1, BusyTyped DEF CallRecord
  <2>3. Record(call[c].n, call[c].device, call[c].cmd, call[c].pc = "accepted")
    BY <1>2 DEF Answer
  <2>. QED BY <1>0, <2>1, <2>2, <2>3, RecordMovesWindow
<1>3. ASSUME UNCHANGED <<audit, seq>>,
             \A n \in DOMAIN history : history'[n] = history[n]
      PROVE  Window'
  <2>1. \A i \in DOMAIN audit : audit[i].call \in DOMAIN history
    BY <1>0 DEF References
  <2>. QED BY <1>0, <1>3, <2>1 DEF Window
<1>4. ASSUME NEW req \in Requests, Route(c, req) PROVE Window'
  BY <1>0, <1>3, <1>4, RouteEffect
<1>5. ASSUME Delivered(c) \/ DeliveryFails(c) PROVE Window'
  BY <1>0, <1>3, <1>5, DeliveryEffect
<1>. QED BY <1>1, <1>2, <1>4, <1>5 DEF Submit

(* The ledger as a whole. *)
LEMMA LedgerStep ==
  ASSUME IInv, NEW c \in Clients, Submit(c)
  PROVE  Ledger'
<1>1. Window'
  BY WindowStep
<1>2. IdsDistinct' /\ {history[n].id : n \in DOMAIN history \ InFlight}' = 1..seq'
  BY SubmitSettles, IdsStep
<1>3. (\A n \in InFlight : history[n].id = 0)'
  BY ReferencesStep DEF References, InFlight
<1>. QED BY <1>1, <1>2, <1>3 DEF Window, Ledger, AuditIsComplete

-----------------------------------------------------------------------------
(* Before the first call. *)
LEMMA InitIInv == Init => IInv
<1> SUFFICES ASSUME Init PROVE IInv
  OBVIOUS
<1>1. /\ \A c \in Clients : call[c] = Idle
      /\ audit = <<>> /\ history = <<>> /\ seq = 0
      /\ \A d \in Devices, cmd \in Commands : writer[d][cmd] = 0
  BY DEF Init
<1>2. Types
  BY DEF Init, Types, Float
<1>3. References
  BY <1>1 DEF References
<1>4. CallsLawful /\ SinkLawful /\ AcceptedCovered /\ LaterSubmitWins
  BY <1>1 DEF CallsLawful, SinkLawful, AcceptedCovered, LaterSubmitWins
<1>5. InFlight = {} /\ DOMAIN history = {}
  BY <1>1 DEF InFlight
<1>6. Ledger
  BY <1>1, <1>5, AuditAssumption DEF Ledger, AuditIsComplete, IdsDistinct, Returned
<1>. QED BY <1>2, <1>3, <1>4, <1>6 DEF IInv

(* The inductive invariant holds in every reachable state. *)
THEOREM InvariantHolds == Spec => []IInv
<1>1. Init => IInv
  BY InitIInv
<1>2. IInv /\ [Next]_vars => IInv'
  <2> SUFFICES ASSUME IInv, [Next]_vars PROVE IInv'
    OBVIOUS
  <2>1. ASSUME NEW c \in Clients, Submit(c) PROVE IInv'
    BY <2>1, SubmitEffect, ReferencesStep, CallsLawfulStep, SinkLawfulStep,
       AcceptedCoveredStep, LaterSubmitWinsStep, LedgerStep DEF IInv
  <2>2. CASE UNCHANGED vars
    BY <2>2 DEF vars, IInv, Types, References, CallsLawful, SinkLawful, AcceptedCovered, Covered,
                LaterSubmitWins, Ledger, AuditIsComplete, IdsDistinct, Returned, InFlight
  <2>. QED BY <2>1, <2>2 DEF Next
<1>. QED BY <1>1, <1>2, PTL DEF Spec

(* Every channel of the sink that a request for a number wrote last is      *)
(* inside its policy limits, whatever requests run concurrently.            *)
THEOREM SinkStaysInEnvelope == Spec => []SinkInEnvelope
<1>1. IInv => SinkInEnvelope
  BY DEF IInv, SinkLawful, Lawful, SinkInEnvelope, Numeric
<1>. QED BY <1>1, InvariantHolds, PTL

(* The audit log has no gaps and every call that returned has its id.       *)
THEOREM AuditStaysComplete == Spec => []AuditIsComplete
<1>1. IInv => AuditIsComplete
  BY DEF IInv, Ledger
<1>. QED BY <1>1, InvariantHolds, PTL

(* No two calls that returned share an audit id. *)
THEOREM AuditIdsDistinct == Spec => []IdsDistinct
<1>1. IInv => IdsDistinct
  BY DEF IInv, Ledger
<1>. QED BY <1>1, InvariantHolds, PTL

(* A Submit that began after another was audited is not overwritten by it.  *)
THEOREM LaterSubmitPrevails == Spec => []LaterSubmitWins
<1>1. IInv => LaterSubmitWins
  BY DEF IInv
<1>. QED BY <1>1, InvariantHolds, PTL

(* No operator alone leaves a valve at an end of its range.                 *)
THEOREM TwoPersonRuleHolds == Spec => []ValveExtremesNeedTwo
<1>1. IInv => ValveExtremesNeedTwo
  BY DEF IInv, SinkLawful, Lawful, ValveExtremesNeedTwo, ByOperator, Commands
<1>. QED BY <1>1, InvariantHolds, PTL

=============================================================================
