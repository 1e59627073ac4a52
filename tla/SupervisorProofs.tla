-------------------------- MODULE SupervisorProofs --------------------------
(***************************************************************************)
(* Proofs, for every plant, limit and option, of the safety properties of  *)
(* the control loop in module Supervisor.                                  *)
(***************************************************************************)
EXTENDS Supervisor, SequenceTheorems, TLAPS

(* What an agent may ask for: anything but an outlet switched on.           *)
Requestable == {c \in Command : c.act = "outlet" => c.val = Off}

(* What may be waiting to be written: inside the envelope or wide open.     *)
Writable ==
  {c \in Requestable : /\ c.act = "valve" => c.val \in (MinValve..MaxValve) \cup {100}
                       /\ c.act = "fan" => c.val \in (MinFan..MaxFan) \cup {100}}

Unhealthy == outcome.kind \in {"latched", "comms", "trip"}

(* In an unhealthy cycle that lost no command, valve and fan are wide open  *)
(* already or their opening is still to be written, and no other setting of *)
(* either is.                                                               *)
CoolingOwed ==
  (Unhealthy /\ ~outcome.lost) =>
    \A a \in {"valve", "fan"} :
      /\ act[a] = 100 \/ (\E i \in DOMAIN pending : pending[i].act = a)
      /\ \A i \in DOMAIN pending : pending[i].act = a => pending[i].val = 100

(* The inductive invariant.  While a cycle runs, the device's next settings *)
(* depend on what is still pending, so the invariant says what that can be. *)
PendingOK ==
  /\ pending \in Seq(Writable)
  /\ pc = "idle" => pending = <<>>

IInv ==
  /\ TypeOK
  /\ LatchCountsErrors
  /\ PendingOK
  /\ LatchedWritesOnlySafe
  /\ Envelope
  /\ CoolingOwed

-----------------------------------------------------------------------------
(* Lemmas about the commands the cycle computes.                            *)

(* The safe states only open valve and fan fully or switch an outlet off.   *)
LEMMA SafeCommandsWritable ==
  ASSUME NEW s
  PROVE  /\ SafeCommands(s) \in Seq(Writable)
         /\ \A i \in DOMAIN SafeCommands(s) :
              SafeCommands(s)[i].act \in {"valve", "fan"} => SafeCommands(s)[i].val = 100
         /\ \A a \in {"valve", "fan"} :
              \E i \in DOMAIN SafeCommands(s) : SafeCommands(s)[i].act = a
<1> DEFINE v == Set("valve", 100)
           f == Set("fan", 100)
           o == Set("outlet", Off)
<1>1. v \in Writable /\ f \in Writable /\ o \in Writable
  BY DEF Writable, Requestable, Command, Actuators, Pct, Set, Off
<1>2. v.act = "valve" /\ v.val = 100 /\ f.act = "fan" /\ f.val = 100 /\ o.act = "outlet"
  BY DEF Set
<1> HIDE DEF v, f, o
<1>3. CASE s = "FullCooling"
  <2>1. SafeCommands(s) = <<v, f>>
    BY <1>3 DEF SafeCommands, FullCooling, v, f
  <2>. QED BY <1>1, <1>2, <2>1
<1>4. CASE s # "FullCooling"
  <2> DEFINE t == Append(<<v, f>>, o)
  <2>1. SafeCommands(s) = t
    BY <1>4 DEF SafeCommands, FullCooling, v, f, o
  <2>2. <<v, f>> \in Seq(Writable)
    BY <1>1
  <2>3. /\ t \in Seq(Writable) /\ DOMAIN t = 1..3
        /\ t[1] = v /\ t[2] = f /\ t[3] = o
    BY <1>1, <2>2, AppendProperties
  <2> HIDE DEF t
  <2>4. \A i \in DOMAIN t : t[i] \in {v, f, o}
    BY <2>3
  <2>. QED BY <1>2, <2>1, <2>3, <2>4
<1>. QED BY <1>3, <1>4

(* The enforcer's clamp puts whatever an agent may ask for in the envelope. *)
LEMMA ClampCommandWritable ==
  ASSUME NEW c \in Requestable
  PROVE  ClampCommand(c) \in Writable
  BY LimitsAssumption
     DEF ClampCommand, Clamp, Set, Requestable, Writable, Command, Actuators, Pct, Off

(* Clamping a list of requests clamps each of them. *)
LEMMA ClampAllWritable ==
  ASSUME NEW cmds \in Seq(Requestable)
  PROVE  ClampAll(cmds) \in Seq(Writable)
<1>1. \A i \in DOMAIN cmds : ClampCommand(cmds[i]) \in Writable
  BY ClampCommandWritable
<1>2. ClampAll(cmds) \in [1..Len(cmds) -> Writable]
  BY <1>1 DEF ClampAll
<1>. QED BY <1>2, SeqDef

(* No agent asks for an outlet to be switched on. *)
LEMMA AgentRequestable ==
  ASSUME NEW snap, NEW demand \in Demands
  PROVE  CompositeAgent(snap, demand) \in Seq(Requestable)
<1>1. CoolingAgent(snap, demand) \in Seq(Requestable)
  <2>1. demand \in Pct /\ (demand * 4) \div 10 \in Pct
    BY LimitsAssumption DEF Pct
  <2>2. /\ Set("valve", demand) \in Requestable
        /\ Set("fan", (demand * 4) \div 10) \in Requestable
        /\ Set("valve", 50) \in Requestable
    BY <2>1 DEF Requestable, Command, Actuators, Set, Pct
  <2>. QED BY <2>2 DEF CoolingAgent
<1>2. PduAgent(snap) \in Seq(Requestable)
  <2>1. Set("outlet", Off) \in Requestable
    BY DEF Requestable, Command, Actuators, Set, Pct, Off
  <2>. QED BY <2>1 DEF PduAgent
<1>3. UpsAgent(snap) \in Seq(Requestable)
  <2>1. \A x : DischargeLimit(x) \in Pct
    BY DEF DischargeLimit, ConserveLimit, Pct
  <2>2. \A x : Set("discharge", DischargeLimit(x)) \in Requestable
    BY <2>1 DEF Requestable, Command, Actuators, Set
  <2>. QED BY <2>2 DEF UpsAgent
<1>. QED BY <1>1, <1>2, <1>3, ConcatProperties DEF CompositeAgent

(* What the enforcer lets through is writable; a trip is a safe state.      *)
LEMMA EnforceWritable ==
  ASSUME NEW snap, NEW demand \in Demands
  PROVE  /\ Enforce(snap, CompositeAgent(snap, demand)) \in Seq(Writable)
         /\ Trips(snap) =>
              \E s : Enforce(snap, CompositeAgent(snap, demand)) = SafeCommands(s)
<1>1. ClampAll(CompositeAgent(snap, demand)) \in Seq(Writable)
  BY AgentRequestable, ClampAllWritable
<1>. QED BY <1>1, SafeCommandsWritable DEF Enforce, Trips

(* Writing one command leaves a tail of what was to be written. *)
LEMMA TailOfTail ==
  ASSUME NEW S, NEW s \in Seq(S), NEW k \in 0..Len(s),
         SubSeq(s, k + 1, Len(s)) # <<>>
  PROVE  /\ k + 1 \in 0..Len(s)
         /\ Tail(SubSeq(s, k + 1, Len(s))) = SubSeq(s, k + 2, Len(s))
  OBVIOUS

-----------------------------------------------------------------------------
(* The invariant holds initially.                                           *)
LEMMA InitIInv == Init => IInv
<1> SUFFICES ASSUME Init PROVE IInv
  OBVIOUS
<1> USE DEF Init
<1>1. TypeOK
  <2>1. pending \in Seq(Command)
    OBVIOUS
  <2>2. outcome \in Outcome /\ link \in Link
    BY DEF Outcome, Kinds, Link, Answers
  <2>3. act \in [Actuators -> Pct]
    BY DEF Actuators, Pct, On
  <2>4. cycle \in 0..(Beat - 1) /\ consecutive_errors \in 0..MaxErrors /\ resets \in 0..MaxResets
    BY OptionsAssumption DEF Beat
  <2>. QED BY <2>1, <2>2, <2>3, <2>4 DEF TypeOK
<1>2. LatchCountsErrors /\ PendingOK
  BY OptionsAssumption DEF LatchCountsErrors, PendingOK
<1>3. LatchedWritesOnlySafe /\ CoolingOwed
  BY DEF LatchedWritesOnlySafe, CoolingOwed, Unhealthy
<1>4. Envelope
  BY DEF Envelope, Actuators
<1>. QED BY <1>1, <1>2, <1>3, <1>4 DEF IInv

(* What the three ways to begin a cycle have in common. *)
LEMMA BeginType ==
  ASSUME TypeOK, NEW kind \in Kinds, NEW cmds \in Seq(Writable),
         Begin(kind, cmds), consecutive_errors' \in 0..MaxErrors
  PROVE  TypeOK'
<1>1. cycle' \in 0..(Beat - 1)
  BY OptionsAssumption DEF TypeOK, Begin, Beat
<1>2. pending' \in Seq(Command)
  BY DEF Begin, Writable, Requestable
<1>3. outcome' \in Outcome
  BY DEF Begin, Outcome
<1>. QED BY <1>1, <1>2, <1>3 DEF TypeOK, Begin

(* A cycle that begins owes exactly what the safe state it picked will pay. *)
LEMMA BeginPending ==
  ASSUME NEW kind \in Kinds, NEW cmds \in Seq(Writable), Begin(kind, cmds),
         kind # "allow" => \E s : cmds = SafeCommands(s),
         IInv
  PROVE  PendingOK' /\ Envelope' /\ CoolingOwed'
<1>1. PendingOK'
  BY DEF Begin, PendingOK
<1>2. Envelope'
  BY DEF Begin, IInv, Envelope
<1>3. CoolingOwed'
  <2> SUFFICES ASSUME Unhealthy' PROVE CoolingOwed'
    BY DEF CoolingOwed
  <2>1. PICK s : pending' = SafeCommands(s)
    BY DEF Begin, Unhealthy
  <2>. QED BY <2>1, SafeCommandsWritable DEF CoolingOwed
<1>. QED BY <1>1, <1>2, <1>3

(* Every step preserves it: one step of the proof per action. *)
LEMMA NextIInv == IInv /\ [Next]_vars => IInv'
<1> SUFFICES ASSUME IInv, [Next]_vars PROVE IInv'
  OBVIOUS
<1> USE DEF IInv
<1>1. CASE BeginLatched
  <2> DEFINE safe == SafeCommands(FailSafe)
  <2>1. safe \in Seq(Writable)
    BY SafeCommandsWritable
  <2>2. TypeOK'
    BY <1>1, <2>1, BeginType DEF BeginLatched, Kinds, TypeOK
  <2>3. LatchCountsErrors'
    BY <1>1, OptionsAssumption DEF BeginLatched, Begin, LatchCountsErrors, TypeOK
  <2>4. PendingOK' /\ Envelope' /\ CoolingOwed'
    BY <1>1, <2>1, BeginPending DEF BeginLatched, Kinds
  <2>5. LatchedWritesOnlySafe'
    <3>1. pending' = SubSeq(safe, 0 + 1, Len(safe)) /\ 0 \in 0..Len(safe)
      BY <1>1, <2>1 DEF BeginLatched, Begin
    <3>. QED BY <3>1 DEF LatchedWritesOnlySafe
  <2>. QED BY <2>2, <2>3, <2>4, <2>5
<1>2. CASE ReadFails
  <2>1. SafeCommands(FailSafe) \in Seq(Writable)
    BY SafeCommandsWritable
  <2>2. consecutive_errors' \in 1..MaxErrors /\ consecutive_errors' \in 0..MaxErrors
    BY <1>2, OptionsAssumption DEF ReadFails, Begin, LatchCountsErrors, TypeOK
  <2>3. TypeOK'
    BY <1>2, <2>1, <2>2, BeginType DEF ReadFails, Kinds
  <2>4. LatchCountsErrors'
    BY <1>2, <2>2 DEF ReadFails, Begin, LatchCountsErrors
  <2>5. PendingOK' /\ Envelope' /\ CoolingOwed'
    BY <1>2, <2>1, BeginPending DEF ReadFails, Kinds
  <2>6. LatchedWritesOnlySafe'
    BY <1>2 DEF ReadFails, Begin, LatchedWritesOnlySafe
  <2>. QED BY <2>3, <2>4, <2>5, <2>6
<1>3. CASE ReadSucceeds
  <2> DEFINE snap == plant
             kind == IF Trips(snap) THEN "trip" ELSE "allow"
             cmds(d) == Enforce(snap, CompositeAgent(snap, d))
  <2>1. PICK d \in Demands : Begin(kind, cmds(d))
    BY <1>3 DEF ReadSucceeds
  <2>2. /\ cmds(d) \in Seq(Writable)
        /\ kind # "allow" => \E s : cmds(d) = SafeCommands(s)
    BY EnforceWritable
  <2>3. kind \in Kinds \ {"comms"}
    BY DEF Kinds
  <2>4. ~latched_safe /\ ~latched_safe' /\ consecutive_errors' = 0
    BY <1>3, <2>1 DEF ReadSucceeds, Begin
  <2> HIDE DEF snap, kind, cmds
  <2>5. TypeOK'
    BY <2>1, <2>2, <2>3, <2>4, BeginType, OptionsAssumption
  <2>6. LatchCountsErrors'
    BY <2>4, OptionsAssumption DEF LatchCountsErrors
  <2>7. PendingOK' /\ Envelope' /\ CoolingOwed'
    BY <2>1, <2>2, <2>3, BeginPending
  <2>8. LatchedWritesOnlySafe'
    BY <2>4 DEF LatchedWritesOnlySafe
  <2>. QED BY <2>5, <2>6, <2>7, <2>8
<1>5. CASE Finish
  <2>1. TypeOK'
    BY <1>5 DEF Finish, TypeOK, Outcome
  <2>2. LatchCountsErrors'
    <3>1. consecutive_errors >= MaxErrors <=> consecutive_errors = MaxErrors
      BY OptionsAssumption DEF TypeOK
    <3>2. consecutive_errors = MaxErrors => outcome.kind \in {"comms", "latched"}
      BY OptionsAssumption DEF LatchCountsErrors
    <3>3. /\ pc = "writing" /\ pc' = "idle" /\ UNCHANGED consecutive_errors
          /\ latched_safe' <=> latched_safe \/ (outcome.kind = "comms" /\ consecutive_errors = MaxErrors)
      BY <1>5, <3>1 DEF Finish
    <3>4. outcome'.kind = outcome.kind
      BY <1>5 DEF Finish, TypeOK, Outcome
    <3>. QED BY <3>2, <3>3, <3>4, Zenon DEF LatchCountsErrors
  <2>3. PendingOK' /\ Envelope' /\ CoolingOwed'
    BY <1>5 DEF Finish, PendingOK, Envelope, CoolingOwed, Unhealthy, TypeOK, Outcome
  <2>4. LatchedWritesOnlySafe'
    <3> DEFINE safe == SafeCommands(FailSafe)
    <3>1. safe \in Seq(Writable)
      BY SafeCommandsWritable
    <3>2. pending' = SubSeq(safe, Len(safe) + 1, Len(safe)) /\ Len(safe) \in 0..Len(safe)
      BY <1>5, <3>1 DEF Finish
    <3>. QED BY <3>2 DEF LatchedWritesOnlySafe
  <2>. QED BY <2>1, <2>2, <2>3, <2>4
<1>6. CASE Reset
  <2>1. TypeOK'
    <3>1. consecutive_errors' \in 0..MaxErrors /\ resets' \in 0..MaxResets
      BY <1>6, OptionsAssumption DEF Reset, TypeOK
    <3>. QED BY <1>6, <3>1 DEF Reset, TypeOK
  <2>3. LatchCountsErrors'
    BY <1>6, OptionsAssumption DEF Reset, LatchCountsErrors
  <2>2. PendingOK' /\ Envelope' /\ CoolingOwed' /\ LatchedWritesOnlySafe'
    BY <1>6 DEF Reset, PendingOK, Envelope, CoolingOwed, Unhealthy, LatchedWritesOnlySafe
  <2>. QED BY <2>1, <2>2, <2>3
<1>7. CASE PlantMoves \/ LinkMoves
  BY <1>7 DEF PlantMoves, LinkMoves, supervisor, TypeOK, LatchCountsErrors, PendingOK,
              LatchedWritesOnlySafe, Envelope, CoolingOwed, Unhealthy
<1>8. CASE RestoreOutlet
  <2>1. act' \in [Actuators -> Pct] /\ act'["valve"] = act["valve"] /\ act'["fan"] = act["fan"]
    <3>1. "outlet" \in Actuators /\ "valve" \in Actuators /\ "fan" \in Actuators /\ On \in Pct
      BY DEF Actuators, On, Pct
    <3>. QED BY <1>8, <3>1 DEF RestoreOutlet, TypeOK
  <2>2. TypeOK' /\ LatchCountsErrors' /\ PendingOK' /\ LatchedWritesOnlySafe'
    BY <1>8, <2>1 DEF RestoreOutlet, supervisor, TypeOK, LatchCountsErrors, PendingOK,
                      LatchedWritesOnlySafe
  <2>3. Envelope' /\ CoolingOwed'
    BY <1>8, <2>1 DEF RestoreOutlet, supervisor, Envelope, CoolingOwed, Unhealthy
  <2>. QED BY <2>2, <2>3
<1>9. CASE UNCHANGED vars
  BY <1>9 DEF vars, supervisor, TypeOK, LatchCountsErrors, PendingOK,
              LatchedWritesOnlySafe, Envelope, CoolingOwed, Unhealthy
<1>4. CASE WriteCommand
  <2> DEFINE c == Head(pending)
  <2>1. /\ pending \in Seq(Writable) /\ pending # <<>>
        /\ c = pending[1] /\ c \in Writable
        /\ pending' = Tail(pending) /\ pending' \in Seq(Writable)
        /\ DOMAIN pending' = 1..(Len(pending) - 1)
        /\ \A i \in DOMAIN pending' : i + 1 \in DOMAIN pending /\ pending'[i] = pending[i + 1]
    BY <1>4, HeadTailProperties DEF WriteCommand, PendingOK
  <2>2. \/ outcome'.lost
        \/ UNCHANGED outcome /\ act' = [act EXCEPT ![c.act] = c.val]
    BY <1>4 DEF WriteCommand, TypeOK, Outcome
  <2>3. /\ outcome' \in Outcome /\ outcome'.kind = outcome.kind
        /\ act' = act \/ act' = [act EXCEPT ![c.act] = c.val]
    BY <1>4 DEF WriteCommand, TypeOK, Outcome
  <2>4. /\ UNCHANGED <<cycle, consecutive_errors, latched_safe, pc, plant, link, resets>>
        /\ pc = "writing"
    BY <1>4 DEF WriteCommand
  <2> HIDE DEF c
  <2>5. c.act \in Actuators /\ c.val \in Pct
    BY <2>1 DEF Writable, Requestable, Command
  <2>6. TypeOK'
    <3>1. pending' \in Seq(Command)
      BY <2>1 DEF Writable, Requestable
    <3>2. act' \in [Actuators -> Pct]
      BY <2>3, <2>5 DEF TypeOK
    <3>. QED BY <2>3, <2>4, <3>1, <3>2 DEF TypeOK
  <2>7. LatchCountsErrors' /\ PendingOK'
    BY <2>1, <2>3, <2>4 DEF LatchCountsErrors, PendingOK
  <2>8. LatchedWritesOnlySafe'
    <3> DEFINE safe == SafeCommands(FailSafe)
    <3> SUFFICES ASSUME latched_safe
                 PROVE  \E k \in 0..Len(safe) : pending' = SubSeq(safe, k + 1, Len(safe))
      BY <2>4 DEF LatchedWritesOnlySafe
    <3>1. safe \in Seq(Writable)
      BY SafeCommandsWritable
    <3>2. PICK k \in 0..Len(safe) : pending = SubSeq(safe, k + 1, Len(safe))
      BY DEF LatchedWritesOnlySafe
    <3>3. k + 1 \in 0..Len(safe) /\ pending' = SubSeq(safe, k + 2, Len(safe))
      BY <2>1, <3>1, <3>2, TailOfTail
    <3> HIDE DEF safe
    <3>4. k + 2 = (k + 1) + 1
      OBVIOUS
    <3>. QED BY <3>3, <3>4
  <2>9. Envelope'
    BY <2>1, <2>3, <2>5 DEF Envelope, Writable, TypeOK, Actuators
  <2>10. CoolingOwed'
    <3> SUFFICES ASSUME Unhealthy', ~outcome'.lost, NEW a \in {"valve", "fan"}
                 PROVE  /\ act'[a] = 100 \/ (\E i \in DOMAIN pending' : pending'[i].act = a)
                        /\ \A i \in DOMAIN pending' :
                             pending'[i].act = a => pending'[i].val = 100
      BY DEF CoolingOwed
    <3>1. Unhealthy /\ ~outcome.lost /\ act' = [act EXCEPT ![c.act] = c.val]
      BY <2>2, <2>3 DEF Unhealthy
    <3>2. /\ act[a] = 100 \/ (\E i \in DOMAIN pending : pending[i].act = a)
          /\ \A i \in DOMAIN pending : pending[i].act = a => pending[i].val = 100
      BY <3>1 DEF CoolingOwed
    <3>3. CASE c.act = a
      BY <2>1, <3>1, <3>2, <3>3 DEF TypeOK, Actuators
    <3>4. CASE c.act # a
      <4>1. act'[a] = act[a]
        BY <2>5, <3>1, <3>4 DEF TypeOK, Actuators
      <4>2. ASSUME NEW i \in DOMAIN pending, pending[i].act = a
            PROVE  i - 1 \in DOMAIN pending' /\ pending'[i - 1] = pending[i]
        <5>1. i \in 1..Len(pending) /\ i # 1
          BY <2>1, <3>4, <4>2
        <5>2. i - 1 \in 1..(Len(pending) - 1) /\ (i - 1) + 1 = i
          BY <2>1, <5>1
        <5>. QED BY <2>1, <5>2
      <4>. QED BY <2>1, <3>2, <4>1, <4>2
    <3>. QED BY <3>3, <3>4
  <2>. QED BY <2>6, <2>7, <2>8, <2>9, <2>10
<1>. QED BY <1>1, <1>2, <1>3, <1>4, <1>5, <1>6, <1>7, <1>8, <1>9 DEF Next, RunOnce

-----------------------------------------------------------------------------
(* The inductive invariant holds in every reachable state. *)
THEOREM InvariantHolds == Spec => []IInv
<1>1. Init => IInv
  BY InitIInv
<1>2. IInv /\ [Next]_vars => IInv'
  BY NextIInv
<1>. QED BY <1>1, <1>2, PTL DEF Spec

(* Every variable keeps its type; in particular the error counter of        *)
(* run_once never runs past max_consecutive_errors.                         *)
THEOREM TypeCorrect == Spec => []TypeOK
<1>1. IInv => TypeOK
  BY DEF IInv
<1>. QED BY <1>1, InvariantHolds, PTL

(* run_once latches exactly on the max_consecutive_errors-th read failure   *)
(* in a row, never earlier and never later.                                 *)
THEOREM LatchIsExact == Spec => []LatchCountsErrors
<1>1. IInv => LatchCountsErrors
  BY DEF IInv
<1>. QED BY <1>1, InvariantHolds, PTL

(* The latched branch of run_once writes the configured safe state and      *)
(* nothing else, in its order.                                              *)
THEOREM LatchedIsSafe == Spec => []LatchedWritesOnlySafe
<1>1. IInv => LatchedWritesOnlySafe
  BY DEF IInv
<1>. QED BY <1>1, InvariantHolds, PTL

(* Whatever the agents ask for, SafetyEnforcer keeps valve and fan inside   *)
(* their limits or wide open.                                               *)
THEOREM EnvelopeHolds == Spec => []Envelope
<1>1. IInv => Envelope
  BY DEF IInv
<1>. QED BY <1>1, InvariantHolds, PTL

(* An unhealthy cycle of run_once whose commands were taken ends with full  *)
(* cooling.                                                                 *)
THEOREM UnhealthyCools == Spec => []UnhealthyCycleCools
<1>1. IInv => UnhealthyCycleCools
  <2> SUFFICES ASSUME IInv, pc = "idle", Unhealthy, ~outcome.lost,
                      NEW a \in {"valve", "fan"}
               PROVE  act[a] = 100
    BY DEF UnhealthyCycleCools, Unhealthy
  <2>1. DOMAIN pending = {}
    BY DEF IInv, PendingOK
  <2>. QED BY <2>1 DEF IInv, CoolingOwed
<1>. QED BY <1>1, InvariantHolds, PTL

(* No step of run_once or reset switches an outlet back on.                 *)
THEOREM OutletStaysOff == Spec => NeverAutoRestores
<1> DEFINE Restored == act["outlet"] = Off /\ act'["outlet"] = On => UNCHANGED supervisor
<1>1. IInv /\ [Next]_vars => [Restored]_vars
  <2> SUFFICES ASSUME IInv, Next PROVE Restored
    OBVIOUS
  <2>1. CASE WriteCommand
    <3>1. Head(pending) \in Writable
      BY <2>1, HeadTailProperties DEF WriteCommand, IInv, PendingOK
    <3>2. "outlet" \in DOMAIN act
      BY DEF IInv, TypeOK, Actuators
    <3>3. act'["outlet"] \in {act["outlet"], Off}
      BY <2>1, <3>1, <3>2 DEF WriteCommand, Writable, Requestable
    <3>. QED BY <3>3 DEF On, Off
  <2>2. CASE BeginLatched \/ ReadFails \/ ReadSucceeds \/ Finish \/ Reset
    <3>1. UNCHANGED act
      BY <2>2 DEF BeginLatched, ReadFails, ReadSucceeds, Begin, Finish, Reset
    <3>. QED BY <3>1 DEF On, Off
  <2>3. CASE PlantMoves \/ LinkMoves \/ RestoreOutlet
    BY <2>3 DEF PlantMoves, LinkMoves, RestoreOutlet
  <2>. QED BY <2>1, <2>2, <2>3 DEF Next, RunOnce
<1>2. Spec => [][Restored]_vars
  BY <1>1, InvariantHolds, PTL DEF Spec
<1>. QED BY <1>2 DEF NeverAutoRestores

=============================================================================
