----------------------------- MODULE Supervisor -----------------------------
(***************************************************************************)
(* The control loop of the Rust edge: Supervisor::run_once driving the     *)
(* rack agent (cooling, PDU, UPS) through the SafetyEnforcer against one   *)
(* device behind the HAL.                                                  *)
(*                                                                         *)
(* A cycle is not atomic: run_once awaits the HAL once for read_all and    *)
(* once per command, so the plant, the link and other users of the HAL can *)
(* move between any two of those steps.  The PID output is abstracted to   *)
(* any member of Demands; the heartbeat only depends on cycle modulo       *)
(* heartbeat_every, so that is what `cycle` holds.                         *)
(***************************************************************************)
EXTENDS Integers, Sequences

CONSTANTS
  Temps, Volts, Amps, Socs,  \* values the plant's four channels can take
  Exposures,                 \* sets of channels a device may expose to read_all
  Demands,                   \* outputs of the cooling PID loop (percent)
  MinValve, MaxValve,        \* SafetyLimits.min_valve / max_valve
  MinFan, MaxFan,            \* SafetyLimits.min_fan / max_fan
  MaxErrors,                 \* SupervisorOptions.max_consecutive_errors
  HeartbeatEvery,            \* SupervisorOptions.heartbeat_every
  FailSafe,                  \* SupervisorOptions.fail_safe
  MaxResets                  \* bound of the model: operator resets

Channels == {"rack_air_temp", "pdu_voltage", "pdu_current", "ups_soc"}
Pct == 0..100

ASSUME ReadingsAssumption ==
  /\ Temps \subseteq Int /\ Volts \subseteq Int
  /\ Amps \subseteq Int /\ Socs \subseteq Int
  /\ Exposures \subseteq SUBSET Channels
ASSUME LimitsAssumption ==
  /\ Demands \subseteq Pct
  /\ MinValve \in Pct /\ MaxValve \in Pct /\ MinValve <= MaxValve
  /\ MinFan \in Pct /\ MaxFan \in Pct /\ MinFan <= MaxFan
ASSUME OptionsAssumption ==
  /\ MaxErrors \in Nat \ {0}
  /\ HeartbeatEvery \in Nat
  /\ FailSafe \in {"FullCooling", "ShedLoad"}
  /\ MaxResets \in Nat

VARIABLES
  cycle,               \* Supervisor.cycle, modulo the heartbeat period
  consecutive_errors,
  latched_safe,
  pc,                  \* "idle" between cycles, "writing" inside one
  pending,             \* commands of this cycle still to be written
  outcome,             \* what the current or last cycle found and did
  act,                 \* the device's actuators
  plant,               \* the physical quantities behind the exposed channels
  link,                \* whether HAL reads and HAL commands get through
  resets               \* resets so far (bounds the model)

supervisor == <<cycle, consecutive_errors, latched_safe, pc, pending, outcome>>
vars == <<supervisor, act, plant, link, resets>>

-----------------------------------------------------------------------------
(* SafetyLimits::default() and the thresholds rack_supervisor gives the agents. *)
CritAirTemp == 45
MinAirTemp == 5
MaxVoltage == 264
MinVoltage == 198
MaxCurrent == 80
LowSoc == 20
HighSoc == 80
ConserveLimit == 50

Off == 0
On == 1
Actuators == {"valve", "fan", "outlet", "discharge"}
Command == [act : Actuators, val : Pct]
Set(a, v) == [act |-> a, val |-> v]

Clamp(v, lo, hi) == IF v < lo THEN lo ELSE IF v > hi THEN hi ELSE v

(* SafeState::commands *)
FullCooling == <<Set("valve", 100), Set("fan", 100)>>
SafeCommands(state) ==
  IF state = "FullCooling" THEN FullCooling
                           ELSE Append(FullCooling, Set("outlet", Off))

-----------------------------------------------------------------------------
(* Snapshot accessors: a channel the device does not expose is absent, and  *)
(* a comparison with an absent reading is never true.                       *)
Sees(snap, ch) == ch \in DOMAIN snap
Overheated(snap) == Sees(snap, "rack_air_temp") /\ snap["rack_air_temp"] > CritAirTemp
Overcooled(snap) == Sees(snap, "rack_air_temp") /\ snap["rack_air_temp"] < MinAirTemp
VoltageFault(snap) ==
  /\ Sees(snap, "pdu_voltage")
  /\ snap["pdu_voltage"] > MaxVoltage \/ snap["pdu_voltage"] < MinVoltage
Overcurrent(snap) == Sees(snap, "pdu_current") /\ snap["pdu_current"] > MaxCurrent

(* Agents.  The PDU agent returns before it looks at the current when the   *)
(* voltage is absent; no agent ever commands an outlet on.                  *)
CoolingAgent(snap, demand) ==
  IF Sees(snap, "rack_air_temp")
  THEN <<Set("valve", demand), Set("fan", (demand * 4) \div 10)>>
  ELSE <<Set("valve", 50)>>

\* Mutant: a nominal reading switches the outlet back on.
PduAgent_Restores(snap) ==
  IF Sees(snap, "pdu_voltage") /\ (VoltageFault(snap) \/ Overcurrent(snap))
  THEN <<Set("outlet", Off)>> ELSE <<Set("outlet", On)>>

PduAgent(snap) ==
  IF Sees(snap, "pdu_voltage") /\ (VoltageFault(snap) \/ Overcurrent(snap))
  THEN <<Set("outlet", Off)>> ELSE <<>>

DischargeLimit(soc) ==
  IF soc <= LowSoc THEN 100 ELSE IF soc >= HighSoc THEN ConserveLimit ELSE 80

UpsAgent(snap) ==
  IF Sees(snap, "ups_soc") THEN <<Set("discharge", DischargeLimit(snap["ups_soc"]))>>
                           ELSE <<>>

CompositeAgent(snap, demand) ==
  CoolingAgent(snap, demand) \o PduAgent(snap) \o UpsAgent(snap)

\* Mutant: the enforcer passes commands through.
ClampCommand_Identity(c) == c

(* SafetyEnforcer::clamp and ::enforce, the checks in the code's order. *)
ClampCommand(c) ==
  CASE c.act = "valve" -> Set("valve", Clamp(c.val, MinValve, MaxValve))
    [] c.act = "fan"   -> Set("fan", Clamp(c.val, MinFan, MaxFan))
    [] c.act \in {"outlet", "discharge"} -> c

ClampAll(cmds) == [i \in DOMAIN cmds |-> ClampCommand(cmds[i])]

Trips(snap) ==
  Overheated(snap) \/ Overcooled(snap) \/ VoltageFault(snap) \/ Overcurrent(snap)

\* Mutants: the safe state itself is clamped; the critical-temperature check
\* is missing; an electrical trip only cools.
Enforce_ClampsTrip(snap, requested) ==
  ClampAll(IF Overheated(snap) \/ Overcooled(snap) THEN SafeCommands("FullCooling")
           ELSE IF VoltageFault(snap) \/ Overcurrent(snap) THEN SafeCommands("ShedLoad")
           ELSE requested)
Enforce_NoCritical(snap, requested) ==
  IF Overcooled(snap) THEN SafeCommands("FullCooling")
  ELSE IF VoltageFault(snap) \/ Overcurrent(snap) THEN SafeCommands("ShedLoad")
  ELSE ClampAll(requested)
Enforce_OnlyCools(snap, requested) ==
  IF Trips(snap) THEN SafeCommands("FullCooling") ELSE ClampAll(requested)

Enforce(snap, requested) ==
  IF Overheated(snap) \/ Overcooled(snap) THEN SafeCommands("FullCooling")
  ELSE IF VoltageFault(snap) \/ Overcurrent(snap) THEN SafeCommands("ShedLoad")
  ELSE ClampAll(requested)

-----------------------------------------------------------------------------
Beat == IF HeartbeatEvery = 0 THEN 1 ELSE HeartbeatEvery

Kinds == {"none", "latched", "comms", "trip", "allow"}
Outcome == [kind : Kinds,           \* which branch run_once took
            lost : BOOLEAN,         \* the HAL refused a command of the cycle
            heartbeat : BOOLEAN]    \* the finished cycle carried a heartbeat

ChannelValues == [rack_air_temp |-> Temps, pdu_voltage |-> Volts,
                  pdu_current |-> Amps, ups_soc |-> Socs]
Readings(exposed) ==
  {p \in [exposed -> UNION {ChannelValues[ch] : ch \in exposed}] :
     \A ch \in exposed : p[ch] \in ChannelValues[ch]}
Plant == UNION {Readings(exposed) : exposed \in Exposures}

(* A HAL call succeeds, fails with an error, or (no backend sets a timeout  *)
(* on its socket) is never answered, in which case the await never returns. *)
Answers == {"up", "down", "silent"}
Link == [read : Answers, command : Answers]

(* The simulator's rack as RackState::new leaves it, read at any plant. *)
Init ==
  /\ cycle = 0
  /\ consecutive_errors = 0
  /\ latched_safe = FALSE
  /\ pc = "idle"
  /\ pending = <<>>
  /\ outcome = [kind |-> "none", lost |-> FALSE, heartbeat |-> FALSE]
  /\ act = [a \in Actuators |->
              IF a = "outlet" THEN On ELSE IF a = "discharge" THEN 100 ELSE 50]
  /\ plant \in Plant
  /\ link = [read |-> "up", command |-> "up"]
  /\ resets = 0

(* The start of run_once: every branch counts the cycle, picks the commands *)
(* to write, and has not yet seen a write fail.                             *)
Begin(kind, cmds) ==
  /\ pc = "idle"
  /\ pc' = "writing"
  /\ cycle' = (cycle + 1) % Beat
  /\ pending' = cmds
  /\ outcome' = [kind |-> kind, lost |-> FALSE, heartbeat |-> FALSE]
  /\ UNCHANGED <<latched_safe, act, plant, link, resets>>

BeginLatched ==
  /\ latched_safe
  /\ Begin("latched", SafeCommands(FailSafe))
  /\ UNCHANGED consecutive_errors

\* Mutant: the error counter is set instead of incremented.
ReadFails_Forgets ==
  /\ ~latched_safe
  /\ link.read = "down"
  /\ consecutive_errors' = 1
  /\ Begin("comms", SafeCommands(FailSafe))

ReadFails ==
  /\ ~latched_safe
  /\ link.read = "down"
  /\ consecutive_errors' = consecutive_errors + 1
  /\ Begin("comms", SafeCommands(FailSafe))

\* Mutants: a good read does not clear the errors; a latched supervisor still
\* asks its agent.
ReadSucceeds_KeepsErrors ==
  LET snap == plant
  IN /\ ~latched_safe
     /\ link.read = "up"
     /\ UNCHANGED consecutive_errors
     /\ \E demand \in Demands :
          Begin(IF Trips(snap) THEN "trip" ELSE "allow",
                Enforce(snap, CompositeAgent(snap, demand)))
ReadSucceeds_WhileLatched ==
  LET snap == plant
  IN /\ link.read = "up"
     /\ consecutive_errors' = 0
     /\ \E demand \in Demands :
          Begin(IF Trips(snap) THEN "trip" ELSE "allow",
                Enforce(snap, CompositeAgent(snap, demand)))

ReadSucceeds ==
  LET snap == plant
  IN /\ ~latched_safe
     /\ link.read = "up"
     /\ consecutive_errors' = 0
     /\ \E demand \in Demands :
          Begin(IF Trips(snap) THEN "trip" ELSE "allow",
                Enforce(snap, CompositeAgent(snap, demand)))

(* One `let _ = hal.command(..)`: an error is dropped and the loop goes on. *)
WriteCommand ==
  /\ pc = "writing"
  /\ pending # <<>>
  /\ pending' = Tail(pending)
  /\ \/ /\ link.command = "up"
        /\ act' = [act EXCEPT ![Head(pending).act] = Head(pending).val]
        /\ UNCHANGED outcome
     \/ /\ link.command = "down"
        /\ outcome' = [outcome EXCEPT !.lost = TRUE]
        /\ UNCHANGED act
  /\ UNCHANGED <<cycle, consecutive_errors, latched_safe, pc, plant, link, resets>>

\* Mutant: one error too many before latching.
Finish_Late ==
  /\ pc = "writing"
  /\ pending = <<>>
  /\ pc' = "idle"
  /\ latched_safe' = (latched_safe \/ (outcome.kind = "comms" /\ consecutive_errors > MaxErrors))
  /\ outcome' = [outcome EXCEPT !.heartbeat = (cycle = 0)]
  /\ UNCHANGED <<cycle, consecutive_errors, pending, act, plant, link, resets>>

(* After the last command: latch if this was one comms loss too many, and   *)
(* finish(), which decides whether the outcome carries a heartbeat.         *)
Finish ==
  /\ pc = "writing"
  /\ pending = <<>>
  /\ pc' = "idle"
  /\ latched_safe' = (latched_safe \/ (outcome.kind = "comms" /\ consecutive_errors >= MaxErrors))
  /\ outcome' = [outcome EXCEPT !.heartbeat = (cycle = 0)]
  /\ UNCHANGED <<cycle, consecutive_errors, pending, act, plant, link, resets>>

(* Supervisor::reset takes &mut self, so it only runs between cycles. *)
Reset ==
  /\ pc = "idle"
  /\ resets < MaxResets
  /\ latched_safe' = FALSE
  /\ consecutive_errors' = 0
  /\ resets' = resets + 1
  /\ UNCHANGED <<cycle, pc, pending, outcome, act, plant, link>>

(* Environment: physics, the network, and an operator who switches the      *)
(* outlet back on through the same HAL.                                     *)
PlantMoves ==
  /\ plant' \in Plant /\ DOMAIN plant' = DOMAIN plant
  /\ UNCHANGED <<supervisor, act, link, resets>>

LinkMoves ==
  /\ link' \in Link
  /\ UNCHANGED <<supervisor, act, plant, resets>>

RestoreOutlet ==
  /\ act' = [act EXCEPT !["outlet"] = On]
  /\ UNCHANGED <<supervisor, plant, link, resets>>

RunOnce == BeginLatched \/ ReadFails \/ ReadSucceeds \/ WriteCommand \/ Finish
Next == RunOnce \/ Reset \/ PlantMoves \/ LinkMoves \/ RestoreOutlet

(* Supervisor::run loops forever, so a cycle that can take a step takes it; *)
(* one that awaits a silent link cannot.                                    *)
Spec == Init /\ [][Next]_vars
FairSpec == Spec /\ WF_vars(RunOnce)

-----------------------------------------------------------------------------
(* The shape of every variable: what TLC checks first and every proof uses. *)
TypeOK ==
  /\ cycle \in 0..(Beat - 1)
  /\ consecutive_errors \in 0..MaxErrors
  /\ latched_safe \in BOOLEAN
  /\ pc \in {"idle", "writing"}
  /\ pending \in Seq(Command)
  /\ outcome \in Outcome
  /\ act \in [Actuators -> Pct]
  /\ plant \in Plant
  /\ link \in Link
  /\ resets \in 0..MaxResets

(* The supervisor is latched exactly when max_consecutive_errors reads in a *)
(* row have failed since the last good read or reset; only inside the cycle *)
(* of the last failure is the counter already full and the latch not set.   *)
(* Failures with a good read between them never add up.                     *)
LatchCountsErrors ==
  /\ latched_safe <=> /\ consecutive_errors = MaxErrors
                      /\ ~(pc = "writing" /\ outcome.kind = "comms")
  /\ consecutive_errors > 0 => outcome.kind \in {"comms", "latched"}

(* While latched the agent has no say: whatever is still to be written is   *)
(* a tail of the configured safe state.                                     *)
LatchedWritesOnlySafe ==
  latched_safe =>
    \E k \in 0..Len(SafeCommands(FailSafe)) :
      pending = SubSeq(SafeCommands(FailSafe), k + 1, Len(SafeCommands(FailSafe)))

(* A finished unhealthy cycle (latched, comms loss or trip) whose commands  *)
(* the HAL all took leaves valve and fan wide open, until the next cycle.   *)
UnhealthyCycleCools ==
  (pc = "idle" /\ outcome.kind \in {"latched", "comms", "trip"} /\ ~outcome.lost)
    => act["valve"] = 100 /\ act["fan"] = 100

(* "A buggy agent can never drive hardware outside its bounds": valve and   *)
(* fan are inside the envelope, or wide open because a safe state was       *)
(* applied, or where the device started.                                    *)
Envelope ==
  /\ act["valve"] \in (MinValve..MaxValve) \cup {50, 100}
  /\ act["fan"] \in (MinFan..MaxFan) \cup {50, 100}

(* The PDU agent "never auto-restores" the outlet: no step of the           *)
(* supervisor turns an outlet back on, however its cycles are interleaved   *)
(* with plant, link and operator.                                           *)
NeverAutoRestores ==
  [][act["outlet"] = Off /\ act'["outlet"] = On => UNCHANGED supervisor]_vars

(* Progress.  A read link that stays down latches the supervisor for good   *)
(* once the operator stops resetting it, even though commands may fail too. *)
CommsLossLatches ==
  <>[](link.read = "down" /\ link.command # "silent") => <>[]latched_safe

(* An overheated rack whose HAL works is eventually, and then forever,      *)
(* cooled at full, latched or not.                                          *)
OverheatIsCooled ==
  <>[](Overheated(plant) /\ link = [read |-> "up", command |-> "up"])
    => <>[](act["valve"] = 100 /\ act["fan"] = 100)

(* An electrical fault that lasts keeps shedding the outlet, as long as the *)
(* temperature is inside its own band and the supervisor is not latched.    *)
ElectricalFaultIsShed ==
  <>[](/\ VoltageFault(plant) \/ Overcurrent(plant)
       /\ ~Overheated(plant) /\ ~Overcooled(plant) /\ ~latched_safe
       /\ link = [read |-> "up", command |-> "up"])
    => []<>(act["outlet"] = Off)

=============================================================================
