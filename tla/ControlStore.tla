---------------------------- MODULE ControlStore ----------------------------
(***************************************************************************)
(* The manual-override store of the control API: actuator state per        *)
(* device and an audit log.  Every operation holds the store's mutex from  *)
(* its first read to its last write, so each is one step; operators call   *)
(* them in any order.  Outlets are 0 or 1.                                 *)
(***************************************************************************)
EXTENDS Integers, Sequences

CONSTANTS
  Devices,       \* ids a request can name, seeded or not
  Numbers,       \* what numeric values can hold
  NaN,           \* the float that compares false with every other
  MinValve, MaxValve, MinFan, MaxFan, MinDischarge, MaxDischarge,  \* SafetyLimits
  AuditCap,      \* Store.auditCap
  MaxRecords     \* bound of the model: audit entries ever recorded

Numeric == {"valve", "fan", "discharge_limit"}
Commands == Numeric \cup {"outlet"}

ASSUME NumbersAssumption == NaN \notin Int /\ Numbers \subseteq Int \cup {NaN}
ASSUME LimitsAssumption ==
  /\ {MinValve, MaxValve, MinFan, MaxFan, MinDischarge, MaxDischarge} \subseteq Int
  /\ MinValve <= MaxValve /\ MinFan <= MaxFan /\ MinDischarge <= MaxDischarge
ASSUME AuditAssumption == AuditCap \in Nat \ {0} /\ MaxRecords \in Nat

VARIABLES
  state,   \* Store.state: the devices seeded so far
  audit,   \* Store.audit
  seq      \* Store.seq

vars == <<state, audit, seq>>

-----------------------------------------------------------------------------
(* JSON values: a number; text that parses to one (or to NaN); and the rest *)
(* (true, false, other text, null), num telling whether it reads as true.   *)
(* Neither conversion can fail: what is no number is 0, what is not true is *)
(* false.                                                                   *)
Values == [type : {"number"}, num : Numbers \ {NaN}] \cup [type : {"digits"}, num : Numbers]
            \cup [type : {"word"}, num : {0, 1}]
ToFloat(v) == IF v.type = "word" THEN 0 ELSE v.num
ToBool(v) == IF v.num = 1 \/ (v.type = "number" /\ v.num # 0) THEN 1 ELSE 0

Lo(cmd) == CASE cmd = "valve" -> MinValve [] cmd = "fan" -> MinFan
             [] cmd = "discharge_limit" -> MinDischarge
Hi(cmd) == CASE cmd = "valve" -> MaxValve [] cmd = "fan" -> MaxFan
             [] cmd = "discharge_limit" -> MaxDischarge

\* Mutant: the NaN check is missing.
Clamp_NaN(cmd, v) ==
  IF v = NaN THEN v
  ELSE IF v < Lo(cmd) THEN Lo(cmd) ELSE IF v > Hi(cmd) THEN Hi(cmd) ELSE v

Clamp(cmd, v) ==
  IF v = NaN THEN Lo(cmd)
  ELSE IF v < Lo(cmd) THEN Lo(cmd) ELSE IF v > Hi(cmd) THEN Hi(cmd) ELSE v

Applied(cmd, v) == IF cmd = "outlet" THEN ToBool(v) ELSE Clamp(cmd, ToFloat(v))

Known(d) == d \in DOMAIN state

\* Mutant: the log keeps its oldest entries.
Trim_KeepsOldest(log) ==
  IF Len(log) > AuditCap THEN SubSeq(log, 1, AuditCap) ELSE log

Trim(log) ==
  IF Len(log) > AuditCap THEN SubSeq(log, Len(log) - AuditCap + 1, Len(log)) ELSE log

(* recordLocked *)
Record(d, kind, cmd, applied) ==
  /\ seq < MaxRecords
  /\ seq' = seq + 1
  /\ audit' = Trim(Append(audit,
       [id |-> seq', device |-> d, kind |-> kind, cmd |-> cmd, applied |-> applied]))

Init ==
  /\ state = [d \in {} |-> 0]
  /\ audit = <<>>
  /\ seq = 0

(* cmd/control seeds every device of the topology spec with 50, 50, on, 50; *)
(* a device that is known already keeps its state.  Seeding is over before  *)
(* the server answers its first request.                                    *)
Seed(d) ==
  /\ seq = 0
  /\ ~Known(d)
  /\ state' = [e \in DOMAIN state \cup {d} |->
        IF e # d THEN state[e]
        ELSE [valve |-> Clamp("valve", 50), fan |-> Clamp("fan", 50), outlet |-> 1,
              discharge_limit |-> Clamp("discharge_limit", 50),
              mode |-> "auto", latched |-> FALSE]]
  /\ UNCHANGED <<audit, seq>>

\* Mutant: a latched device takes overrides.
Override_WhileLatched(d, cmd, v) ==
  /\ Known(d)
  /\ cmd \in Commands
  /\ state' = [state EXCEPT ![d][cmd] = Applied(cmd, v), ![d].mode = "manual"]
  /\ Record(d, "override", cmd, Applied(cmd, v))

(* An unknown device, a latched one and an unknown command are refused      *)
(* before anything is written.                                              *)
Override(d, cmd, v) ==
  /\ Known(d)
  /\ ~state[d].latched
  /\ cmd \in Commands
  /\ state' = [state EXCEPT ![d][cmd] = Applied(cmd, v), ![d].mode = "manual"]
  /\ Record(d, "override", cmd, Applied(cmd, v))

Reset(d) ==
  /\ Known(d)
  /\ state' = [state EXCEPT ![d].mode = "auto", ![d].latched = FALSE]
  /\ Record(d, "reset", "none", 0)

LatchSafe(d) ==
  /\ Known(d)
  /\ state' = [state EXCEPT ![d].latched = TRUE, ![d].mode = "safe",
                            ![d].valve = MaxValve, ![d].fan = MaxFan]
  /\ Record(d, "latch_safe", "none", 0)

Next ==
  \E d \in Devices :
    \/ Seed(d) \/ Reset(d) \/ LatchSafe(d)
    \/ \E cmd \in Commands, v \in Values : Override(d, cmd, v)

Spec == Init /\ [][Next]_vars

-----------------------------------------------------------------------------
(* The shape of every variable; a channel is always inside its envelope,    *)
(* also after values that are not numbers.                                  *)
TypeOK ==
  /\ DOMAIN state \subseteq Devices
  /\ state \in [DOMAIN state ->
       [valve : MinValve..MaxValve, fan : MinFan..MaxFan, outlet : {0, 1},
        discharge_limit : MinDischarge..MaxDischarge,
        mode : {"auto", "manual", "safe"}, latched : BOOLEAN]]
  /\ seq \in 0..MaxRecords
  /\ Len(audit) <= AuditCap

(* "Fail-safe is the default: latched SafeState drives cooling to max": for *)
(* as long as a device is latched its valve and fan are at their maximum,   *)
(* whatever overrides operators send meanwhile.                             *)
LatchedIsCooled ==
  \A d \in DOMAIN state :
    /\ state[d].latched <=> state[d].mode = "safe"
    /\ state[d].latched => state[d].valve = MaxValve /\ state[d].fan = MaxFan

(* The log explains the state: the last entry about a device says what mode *)
(* it is in, and a channel still holds what the last override of it that    *)
(* the log remembers applied, unless the device was latched since.          *)
ModeAfter(kind) ==
  CASE kind = "override" -> "manual" [] kind = "reset" -> "auto" [] kind = "latch_safe" -> "safe"
AuditExplainsState ==
  \A i \in DOMAIN audit :
    LET e == audit[i]
        later == {j \in (i + 1)..Len(audit) : audit[j].device = e.device}
    IN /\ later = {} => state[e.device].mode = ModeAfter(e.kind)
       /\ (e.kind = "override" /\ \A j \in later : audit[j].kind = "reset")
            => state[e.device][e.cmd] = e.applied

=============================================================================
