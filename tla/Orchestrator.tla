---------------------------- MODULE Orchestrator ----------------------------
(***************************************************************************)
(* The orchestration service: concurrent Submit calls, each of which       *)
(* enforces the policy envelope, hands the command to the edge sink and    *)
(* then records one audit entry.                                           *)
(*                                                                         *)
(* The orchestrator's mutex is held inside record only, and the sink has a *)
(* mutex of its own, so other calls run between a command's delivery and   *)
(* its audit entry.  What the policy decides is local to the call and is   *)
(* one step with whatever follows it.  Outlets are 0 or 1.                 *)
(***************************************************************************)
EXTENDS Integers, Sequences, FiniteSets

CONSTANTS
  Clients,       \* concurrent callers of Submit
  Devices,
  Requests,      \* the SubmitRequests clients make
  MinValve, MaxValve, MinFan, MaxFan, MinDischarge, MaxDischarge,  \* Policy
  RequireTwoPerson,   \* Policy.RequireTwoPerson
  HasSink,       \* FALSE: policy-only mode
  Cap,           \* Orchestrator.cap
  NaN,           \* the float that compares false with every other
  MaxSubmits     \* bound of the model: calls ever made

Commands == {"valve", "fan", "discharge_limit", "outlet"}
Numeric == Commands \ {"outlet"}

(* A value's type, and the number it holds or its text scans to; for the    *)
(* other types, 1 if it reads as true ("word" is text that is no number).   *)
ValueTypes == {"number", "digits", "word", "bool", "null"}
Float == Int \cup {NaN}

Values == [type : ValueTypes, num : Float]
Sources == {"operator", "ai_brain"}

ASSUME RequestsAssumption ==
  /\ NaN \notin Int
  /\ Requests \subseteq [device : Devices, cmd : Commands \cup {"other"},
                         val : Values, source : Sources]
ASSUME PolicyAssumption ==
  /\ {MinValve, MaxValve, MinFan, MaxFan, MinDischarge, MaxDischarge} \subseteq Int
  /\ MinValve <= MaxValve /\ MinFan <= MaxFan /\ MinDischarge <= MaxDischarge
  /\ RequireTwoPerson \in BOOLEAN /\ HasSink \in BOOLEAN
ASSUME AuditAssumption == Cap \in Nat \ {0} /\ MaxSubmits \in Nat

VARIABLES
  call,     \* per client: the Submit it is in
  audit,    \* Orchestrator.audit
  seq,      \* Orchestrator.seq
  state,    \* the sink's state, per device and channel (SimSink.state)
  writer,   \* history: per device and channel, the call that wrote it last
  history   \* history: per call, its source, whether it asked for NaN, seq
            \* when it began, its entry's id

vars == <<call, audit, seq, state, writer, history>>

-----------------------------------------------------------------------------
IsFloat(v) == v.type \in {"number", "digits"}
IsBool(v) == v.type # "null"
ToBool(v) == IF v.type = "number" THEN (IF v.num = 0 THEN 0 ELSE 1)
             ELSE IF v.num = 1 THEN 1 ELSE 0

Lo(cmd) == CASE cmd = "valve" -> MinValve [] cmd = "fan" -> MinFan
             [] cmd = "discharge_limit" -> MinDischarge
Hi(cmd) == CASE cmd = "valve" -> MaxValve [] cmd = "fan" -> MaxFan
             [] cmd = "discharge_limit" -> MaxDischarge

Less(x, y) == x # NaN /\ y # NaN /\ x < y

\* Mutant: only the upper end of the envelope is enforced.
ClampedValue_NoFloor(cmd, v) == IF Less(Hi(cmd), v) THEN Hi(cmd) ELSE v

ClampedValue(cmd, v) ==
  IF Less(v, Lo(cmd)) THEN Lo(cmd) ELSE IF Less(Hi(cmd), v) THEN Hi(cmd) ELSE v

Applied(req) ==
  IF req.cmd = "outlet" THEN ToBool(req.val) ELSE ClampedValue(req.cmd, req.val.num)

(* The two-person rule compares valve and fan alike with the valve's limits. *)
NeedsTwoPerson(req) ==
  /\ RequireTwoPerson /\ req.source = "operator"
  /\ req.cmd \in {"valve", "fan"}
  /\ Applied(req) # NaN
  /\ Applied(req) >= MaxValve \/ Applied(req) <= MinValve

\* Mutant: the two-person rule only warns.
Refused_NotByRule(req) ==
  \/ req.cmd \notin Commands
  \/ req.cmd \in Numeric /\ ~IsFloat(req.val)
  \/ req.cmd = "outlet" /\ ~IsBool(req.val)
  \/ ~HasSink

(* Submit's early returns, in its order. *)
Refused(req) ==
  \/ req.cmd \notin Commands
  \/ req.cmd \in Numeric /\ ~IsFloat(req.val)
  \/ req.cmd = "outlet" /\ ~IsBool(req.val)
  \/ NeedsTwoPerson(req)
  \/ ~HasSink

-----------------------------------------------------------------------------
Idle == [pc |-> "idle"]
Entry(id, n, device, cmd, accepted) ==
  [id |-> id, call |-> n, device |-> device, cmd |-> cmd, accepted |-> accepted]

Init ==
  /\ call = [c \in Clients |-> Idle]
  /\ audit = <<>>
  /\ seq = 0
  /\ state = [d \in Devices |-> [cmd \in Commands |-> 0]]
  /\ writer = [d \in Devices |-> [cmd \in Commands |-> 0]]
  /\ history = <<>>

Trim(log) ==
  IF Len(log) > Cap THEN SubSeq(log, Len(log) - Cap + 1, Len(log)) ELSE log

(* record: number the entry, append it, forget the oldest beyond cap. *)
Record(n, device, cmd, accepted) ==
  /\ seq' = seq + 1
  /\ audit' = Trim(Append(audit, Entry(seq', n, device, cmd, accepted)))

(* A Submit that the policy refuses records its rejection and returns. *)
Reject(c, req) ==
  /\ call[c] = Idle
  /\ Len(history) < MaxSubmits
  /\ Refused(req)
  /\ Record(Len(history) + 1, req.device, req.cmd, FALSE)
  /\ history' = Append(history, [began |-> seq, id |-> seq', source |-> req.source,
                                isNaN |-> req.val.num = NaN])
  /\ UNCHANGED <<call, state, writer>>

(* A Submit that passes the policy is about to call sink.Apply. *)
Route(c, req) ==
  /\ call[c] = Idle
  /\ Len(history) < MaxSubmits
  /\ ~Refused(req)
  /\ call' = [call EXCEPT ![c] = [pc |-> "apply", n |-> Len(history) + 1,
                device |-> req.device, cmd |-> req.cmd, val |-> Applied(req)]]
  /\ history' = Append(history, [began |-> seq, id |-> 0, source |-> req.source,
                                isNaN |-> req.val.num = NaN])
  /\ UNCHANGED <<audit, seq, state, writer>>

Takes(c) ==
  /\ state' = [state EXCEPT ![call[c].device][call[c].cmd] = call[c].val]
  /\ writer' = [writer EXCEPT ![call[c].device][call[c].cmd] = call[c].n]

\* Mutant: the sink answers with a state it does not store.
Delivered_NotStored(c) ==
  /\ call[c].pc = "apply"
  /\ call' = [call EXCEPT ![c].pc = "accepted"]
  /\ IF writer[call[c].device][call[c].cmd] = 0 THEN Takes(c) ELSE UNCHANGED <<state, writer>>
  /\ UNCHANGED <<audit, seq, history>>

(* SimSink.Apply, under its own lock. *)
Delivered(c) ==
  /\ call[c].pc = "apply"
  /\ call' = [call EXCEPT ![c].pc = "accepted"]
  /\ Takes(c)
  /\ UNCHANGED <<audit, seq, history>>

(* Apply of a sink that reaches its device over a link may fail before or   *)
(* after the device took the command.                                       *)
DeliveryFails(c) ==
  /\ call[c].pc = "apply"
  /\ call' = [call EXCEPT ![c].pc = "failed"]
  /\ Takes(c) \/ UNCHANGED <<state, writer>>
  /\ UNCHANGED <<audit, seq, history>>

\* Mutant: a failed delivery returns its error without an audit entry.
Answer_ErrorUnaudited(c) ==
  /\ call[c].pc \in {"accepted", "failed"}
  /\ IF call[c].pc = "failed"
     THEN UNCHANGED <<audit, seq, history>>
     ELSE /\ Record(call[c].n, call[c].device, call[c].cmd, TRUE)
          /\ history' = [history EXCEPT ![call[c].n].id = seq']
  /\ call' = [call EXCEPT ![c] = Idle]
  /\ UNCHANGED <<state, writer>>

(* The tail of Submit: record what the sink said, and return. *)
Answer(c) ==
  /\ call[c].pc \in {"accepted", "failed"}
  /\ Record(call[c].n, call[c].device, call[c].cmd, call[c].pc = "accepted")
  /\ history' = [history EXCEPT ![call[c].n].id = seq']
  /\ call' = [call EXCEPT ![c] = Idle]
  /\ UNCHANGED <<state, writer>>

Submit(c) ==
  \/ \E req \in Requests : Reject(c, req) \/ Route(c, req)
  \/ Delivered(c) \/ DeliveryFails(c) \/ Answer(c)

Next == \E c \in Clients : Submit(c)
Spec == Init /\ [][Next]_vars

-----------------------------------------------------------------------------
InFlight == {call[c].n : c \in {k \in Clients : call[k] # Idle}}

(* "Every actuator path is clamped to the same envelope"                    *)
(* (architecture.md:65): a channel of the sink that a request for a number  *)
(* wrote last is inside its policy limits, for any mix of numbers, numeric  *)
(* text and concurrent or failed calls.  A request for NaN, which           *)
(* clampedValue passes on unchanged, is outside this property.              *)
SinkInEnvelope ==
  \A d \in Devices, cmd \in Numeric :
    LET w == writer[d][cmd]
    IN w # 0 /\ ~history[w].isNaN => state[d][cmd] \in Lo(cmd)..Hi(cmd)

(* The audit log is the window of the last cap records, gapless and in the  *)
(* order of their ids, and every call that returned, accepted, refused or   *)
(* failed, got exactly one id.                                              *)
AuditIsComplete ==
  /\ Len(audit) = IF seq < Cap THEN seq ELSE Cap
  /\ \A i \in DOMAIN audit : audit[i].id = seq - Len(audit) + i
  /\ \A i \in DOMAIN audit : history[audit[i].call].id = audit[i].id
  /\ {history[n].id : n \in DOMAIN history \ InFlight} = 1..seq
  /\ \A n \in InFlight : history[n].id = 0

(* Calls that do not overlap take effect in order: once a call that began   *)
(* after the audit entry of another was written has been accepted, the      *)
(* channel no longer holds the other's value.                               *)
LaterSubmitWins ==
  \A i \in DOMAIN audit :
    LET e == audit[i]
        w == writer[e.device][e.cmd]
    IN e.accepted => /\ w # 0
                     /\ history[w].id # 0 => history[w].id > history[e.call].began

ByOperator(d, cmd) == writer[d][cmd] # 0 /\ history[writer[d][cmd]].source = "operator"

(* Under the two-person rule no operator alone leaves a valve at either end *)
(* of its range, not even by a value that only clamping moved there.        *)
ValveExtremesNeedTwo ==
  RequireTwoPerson =>
    \A d \in Devices :
      ByOperator(d, "valve") => state[d]["valve"] \notin {MinValve, MaxValve}

=============================================================================
