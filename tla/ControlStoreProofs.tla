------------------------- MODULE ControlStoreProofs -------------------------
(***************************************************************************)
(* Proofs, for any devices, envelopes, inputs and log size, of the safety  *)
(* properties of the manual-override store in module ControlStore.         *)
(***************************************************************************)
EXTENDS ControlStore, SequenceTheorems, TLAPS

DeviceState ==
  [valve : MinValve..MaxValve, fan : MinFan..MaxFan, outlet : {0, 1},
   discharge_limit : MinDischarge..MaxDischarge,
   mode : {"auto", "manual", "safe"}, latched : BOOLEAN]

AuditEntry ==
  [id : Nat, device : Devices, kind : {"override", "reset", "latch_safe"},
   cmd : Commands \cup {"none"}, applied : Int]

(* What the log says is about devices that exist, and an override names the *)
(* channel it wrote.                                                        *)
EntriesOK ==
  /\ audit \in Seq(AuditEntry)
  /\ \A i \in DOMAIN audit : /\ audit[i].device \in DOMAIN state
                             /\ audit[i].kind = "override" => audit[i].cmd \in Commands

(* The inductive invariant. *)
IInv == TypeOK /\ LatchedIsCooled /\ EntriesOK /\ AuditExplainsState

(* Whatever JSON value an operator sends, what is written is a number       *)
(* inside the channel's envelope; NaN becomes the lower end.                *)
LEMMA ClampInEnvelope ==
  ASSUME NEW cmd \in Numeric, NEW x \in Int \cup {NaN}
  PROVE  Clamp(cmd, x) \in Lo(cmd)..Hi(cmd)
<1>1. Lo(cmd) \in Int /\ Hi(cmd) \in Int /\ Lo(cmd) <= Hi(cmd)
  BY LimitsAssumption DEF Numeric, Lo, Hi
<1>. QED BY <1>1 DEF Clamp

(* Every value is written as a number the channel can hold. *)
LEMMA AppliedInRange ==
  ASSUME NEW cmd \in Commands, NEW v \in Values
  PROVE  IF cmd = "outlet" THEN Applied(cmd, v) \in {0, 1}
         ELSE Applied(cmd, v) \in Lo(cmd)..Hi(cmd)
<1>1. CASE cmd = "outlet"
  BY <1>1 DEF Applied, ToBool
<1>2. CASE cmd # "outlet"
  <2>1. ToFloat(v) \in Int \cup {NaN}
    <3>1. v.type = "word" \/ v.num \in Numbers
      BY DEF Values
    <3>2. CASE v.type = "word"
      BY <3>2 DEF ToFloat
    <3>3. CASE v.type # "word"
      <4>1. ToFloat(v) = v.num
        BY <3>3 DEF ToFloat
      <4>2. v.num \in Numbers
        BY <3>1, <3>3
      <4>. QED BY <4>1, <4>2, NumbersAssumption, Zenon
    <3>. QED BY <3>2, <3>3
  <2>2. cmd \in Numeric
    BY <1>2 DEF Commands
  <2>. QED BY <1>2, <2>1, <2>2, ClampInEnvelope DEF Applied
<1>. QED BY <1>1, <1>2

-----------------------------------------------------------------------------
(* Recording appends one entry and, at the cap, forgets the oldest: with    *)
(* k = 0 or 1 entries forgotten every entry moves k places to the front.    *)
LEMMA RecordEffect ==
  ASSUME EntriesOK, Len(audit) <= AuditCap, seq \in Nat,
         NEW d \in Devices, NEW kind \in {"override", "reset", "latch_safe"},
         NEW cmd \in Commands \cup {"none"}, NEW applied \in Int,
         Record(d, kind, cmd, applied)
  PROVE  /\ audit' \in Seq(AuditEntry) /\ Len(audit') <= AuditCap /\ Len(audit') >= 1
         /\ \E k \in {0, 1} :
              /\ Len(audit') = Len(audit) + 1 - k
              /\ \A i \in 1..(Len(audit') - 1) : audit'[i] = audit[i + k]
         /\ audit'[Len(audit')] = [id |-> seq', device |-> d, kind |-> kind,
                                  cmd |-> cmd, applied |-> applied]
<1> DEFINE new == [id |-> seq', device |-> d, kind |-> kind, cmd |-> cmd, applied |-> applied]
           log == Append(audit, new)
<1>1. seq' \in Nat
  BY DEF Record
<1>2. new \in AuditEntry
  BY <1>1 DEF AuditEntry
<1>3. audit \in Seq(AuditEntry) /\ Len(audit) \in Nat /\ AuditCap \in Nat /\ AuditCap > 0
  BY AuditAssumption DEF EntriesOK
<1> HIDE DEF new
<1>4. /\ log \in Seq(AuditEntry) /\ Len(log) = Len(audit) + 1 /\ log[Len(audit) + 1] = new
      /\ \A i \in 1..Len(audit) : log[i] = audit[i]
  BY <1>2, <1>3, AppendProperties
<1>5. audit' = Trim(log)
  BY DEF Record, new
<1> HIDE DEF log
<1>6. CASE Len(audit) < AuditCap
  <2>1. audit' = log
    BY <1>3, <1>4, <1>5, <1>6 DEF Trim
  <2>2. /\ Len(audit') = Len(audit) + 1 - 0
        /\ \A i \in 1..(Len(audit') - 1) : audit'[i] = audit[i + 0]
    BY <1>3, <1>4, <2>1
  <2>. QED BY <1>3, <1>4, <1>6, <2>1, <2>2 DEF new
<1>7. CASE Len(audit) = AuditCap
  <2>1. audit' = SubSeq(log, 2, Len(audit) + 1)
    BY <1>3, <1>4, <1>5, <1>7 DEF Trim
  <2>2. \A i \in 2..(Len(audit) + 1) : log[i] \in AuditEntry
    BY <1>3, <1>4, ElementOfSeq
  <2>3. /\ audit' \in Seq(AuditEntry) /\ Len(audit') = Len(audit)
        /\ \A i \in 1..Len(audit) : audit'[i] = log[i + 1]
    BY <1>3, <1>7, <2>1, <2>2, SubSeqProperties
  <2>4. /\ Len(audit') = Len(audit) + 1 - 1
        /\ \A i \in 1..(Len(audit') - 1) : audit'[i] = audit[i + 1]
    BY <1>3, <1>4, <2>3
  <2>. QED BY <1>3, <1>4, <1>7, <2>3, <2>4 DEF new
<1>. QED BY <1>3, <1>6, <1>7

(* Only the device an operation names changes, to a state of the right      *)
(* shape.                                                                   *)
LEMMA StateTyped ==
  TypeOK <=> /\ DOMAIN state \subseteq Devices
             /\ state \in [DOMAIN state -> DeviceState]
             /\ seq \in 0..MaxRecords
             /\ Len(audit) <= AuditCap
  BY DEF TypeOK, DeviceState

(* Before any device is seeded. *)
LEMMA InitIInv == Init => IInv
<1> SUFFICES ASSUME Init PROVE IInv
  OBVIOUS
<1>1. DOMAIN state = {} /\ audit = <<>> /\ seq = 0
  BY DEF Init
<1>2. state \in [DOMAIN state -> DeviceState]
  BY DEF Init
<1>3. TypeOK
  BY <1>1, <1>2, AuditAssumption, StateTyped
<1>4. EntriesOK /\ AuditExplainsState
  BY <1>1 DEF EntriesOK, AuditExplainsState
<1>. QED BY <1>1, <1>3, <1>4 DEF IInv, LatchedIsCooled

(* Seeding: no entry has been recorded yet.                                 *)
LEMMA SeedIInv ==
  ASSUME IInv, NEW d \in Devices, Seed(d)
  PROVE  IInv'
<1> DEFINE new == [valve |-> Clamp("valve", 50), fan |-> Clamp("fan", 50), outlet |-> 1,
                   discharge_limit |-> Clamp("discharge_limit", 50),
                   mode |-> "auto", latched |-> FALSE]
<1>1. new \in DeviceState
  BY ClampInEnvelope DEF DeviceState, Numeric, Lo, Hi
<1>2. new.latched = FALSE /\ new.mode = "auto"
  OBVIOUS
<1>3. state' = [e \in DOMAIN state \cup {d} |-> IF e # d THEN state[e] ELSE new]
  BY DEF Seed
<1> HIDE DEF new
<1>4. TypeOK'
  BY <1>1, <1>3, StateTyped DEF IInv, Seed, DeviceState, TypeOK
<1>5. LatchedIsCooled'
  BY <1>2, <1>3 DEF IInv, LatchedIsCooled
<1>6. /\ UNCHANGED <<audit, seq>> /\ DOMAIN state \subseteq DOMAIN state'
      /\ \A e \in DOMAIN state : state'[e] = state[e]
  BY <1>3 DEF Seed, Known
<1>7. EntriesOK'
  BY <1>6 DEF IInv, EntriesOK
<1>8. AuditExplainsState'
  BY <1>6 DEF IInv, EntriesOK, AuditExplainsState
<1>. QED BY <1>4, <1>5, <1>7, <1>8 DEF IInv

-----------------------------------------------------------------------------
(* The log goes on explaining the state across an operation that records    *)
(* itself: it changes one device, to the mode its entry stands for; an      *)
(* override leaves its value in its channel, a reset leaves every channel.  *)
LEMMA RecordedOperation ==
  ASSUME IInv, NEW d \in Devices, Known(d),
         NEW kind \in {"override", "reset", "latch_safe"},
         NEW cmd \in Commands \cup {"none"}, NEW applied \in Int,
         Record(d, kind, cmd, applied),
         DOMAIN state' = DOMAIN state,
         \A e \in DOMAIN state : e # d => state'[e] = state[e],
         state'[d].mode = ModeAfter(kind),
         kind = "override" => cmd \in Commands /\ state'[d][cmd] = applied,
         kind = "reset" => \A c \in Commands : state'[d][c] = state[d][c]
  PROVE  EntriesOK' /\ AuditExplainsState'
<1> DEFINE n == Len(audit')
           new == [id |-> seq', device |-> d, kind |-> kind, cmd |-> cmd, applied |-> applied]
<1>1. /\ EntriesOK /\ Len(audit) <= AuditCap /\ seq \in Nat /\ Len(audit) \in Nat
      /\ DOMAIN audit = 1..Len(audit)
  BY AuditAssumption DEF IInv, TypeOK, EntriesOK
<1>2. audit' \in Seq(AuditEntry) /\ n >= 1 /\ audit'[n] = new
  BY <1>1, RecordEffect
<1>3. PICK k \in {0, 1} : /\ n = Len(audit) + 1 - k
                          /\ \A i \in 1..(n - 1) : audit'[i] = audit[i + k]
  BY <1>1, RecordEffect
<1>4. new.device = d /\ new.kind = kind /\ new.cmd = cmd /\ new.applied = applied
  OBVIOUS
<1>5. DOMAIN audit' = 1..n /\ n \in Nat
  BY <1>2
<1> HIDE DEF n, new
<1>6. ASSUME NEW i \in 1..n, i # n
      PROVE  i + k \in DOMAIN audit /\ audit'[i] = audit[i + k]
  <2>1. i \in 1..(n - 1) /\ i + k \in 1..Len(audit)
    BY <1>1, <1>3, <1>5, <1>6
  <2>. QED BY <1>1, <1>3, <2>1
<1>7. EntriesOK'
  <2>1. ASSUME NEW i \in 1..n
        PROVE  /\ audit'[i].device \in DOMAIN state
               /\ audit'[i].kind = "override" => audit'[i].cmd \in Commands
    <3>1. CASE i = n
      BY <1>2, <1>4, <3>1 DEF Known
    <3>2. CASE i # n
      BY <1>1, <1>6, <3>2 DEF EntriesOK
    <3>. QED BY <3>1, <3>2
  <2>. QED BY <1>2, <1>5, <2>1 DEF EntriesOK
<1>8. AuditExplainsState'
  <2> SUFFICES ASSUME NEW i \in 1..n
               PROVE  LET e == audit'[i]
                          later == {j \in (i + 1)..n : audit'[j].device = e.device}
                      IN /\ later = {} => state'[e.device].mode = ModeAfter(e.kind)
                         /\ (e.kind = "override" /\ \A j \in later : audit'[j].kind = "reset")
                              => state'[e.device][e.cmd] = e.applied
    BY <1>5 DEF AuditExplainsState, n
  <2> DEFINE e == audit'[i]
             later == {j \in (i + 1)..n : audit'[j].device = e.device}
             before == {j \in (i + k + 1)..Len(audit) : audit[j].device = e.device}
  <2>1. CASE i = n
    BY <1>2, <1>4, <2>1
  <2>2. CASE i # n
    <3>1. i + k \in DOMAIN audit /\ e = audit[i + k]
      BY <1>6, <2>2
    <3>2. /\ before = {} => state[e.device].mode = ModeAfter(e.kind)
          /\ (e.kind = "override" /\ \A j \in before : audit[j].kind = "reset")
               => state[e.device][e.cmd] = e.applied
      BY <3>1 DEF IInv, AuditExplainsState
    <3>3. \A j \in before : j - k \in later /\ audit'[j - k] = audit[j]
      <4> SUFFICES ASSUME NEW j \in before
                   PROVE  j - k \in later /\ audit'[j - k] = audit[j]
        OBVIOUS
      <4>1. j - k \in (i + 1)..(n - 1) /\ j - k \in 1..n /\ j - k # n /\ j - k + k = j
        BY <1>1, <1>3, <1>5
      <4>2. audit'[j - k] = audit[j]
        BY <1>6, <4>1
      <4>. QED BY <4>1, <4>2, <1>5
    <3> HIDE DEF e
    <3>4. e.device \in DOMAIN state /\ (e.kind = "override" => e.cmd \in Commands)
      BY <1>1, <3>1 DEF EntriesOK
    <3>5. CASE e.device # d
      <4>1. \A j \in later : j + k \in before /\ audit'[j] = audit[j + k]
        <5> SUFFICES ASSUME NEW j \in later
                     PROVE  j + k \in before /\ audit'[j] = audit[j + k]
          OBVIOUS
        <5>1. j # n /\ j \in 1..n
          BY <1>2, <1>4, <1>5, <3>5
        <5>2. audit'[j] = audit[j + k] /\ j + k \in DOMAIN audit
          BY <1>6, <5>1
        <5>. QED BY <1>1, <1>5, <5>1, <5>2
      <4>2. state'[e.device] = state[e.device]
        BY <3>4, <3>5
      <4> HIDE DEF before, later
      <4>3. later = {} => before = {}
        BY <3>3
      <4>4. (\A j \in later : audit'[j].kind = "reset") => \A j \in before : audit[j].kind = "reset"
        BY <3>3
      <4>. QED BY <3>2, <4>2, <4>3, <4>4 DEF e, later
    <3>6. CASE e.device = d
      <4>1. n \in later
        BY <1>2, <1>4, <1>5, <2>2, <3>6
      <4> HIDE DEF before, later
      <4>2. (\A j \in later : audit'[j].kind = "reset")
             => kind = "reset" /\ \A j \in before : audit[j].kind = "reset"
        BY <1>2, <1>4, <3>3, <4>1
      <4>. QED BY <3>2, <3>4, <3>6, <4>1, <4>2 DEF e, later
    <3>. QED BY <3>5, <3>6
  <2>. QED BY <2>1, <2>2
<1>. QED BY <1>7, <1>8

(* An operation that records itself keeps the types.                        *)
LEMMA RecordTypes ==
  ASSUME IInv, NEW d \in Devices, NEW kind \in {"override", "reset", "latch_safe"},
         NEW cmd \in Commands \cup {"none"}, NEW applied \in Int,
         Record(d, kind, cmd, applied),
         DOMAIN state' = DOMAIN state, state' \in [DOMAIN state -> DeviceState]
  PROVE  TypeOK'
<1>1. EntriesOK /\ Len(audit) <= AuditCap /\ seq \in 0..MaxRecords /\ seq \in Nat
  BY DEF IInv, TypeOK
<1>2. Len(audit') <= AuditCap
  BY <1>1, RecordEffect
<1>3. seq' \in 0..MaxRecords
  BY <1>1, AuditAssumption DEF Record
<1>4. DOMAIN state \subseteq Devices
  BY DEF IInv, TypeOK
<1>5. DOMAIN state' \subseteq Devices /\ state' \in [DOMAIN state' -> DeviceState]
  BY <1>4
<1>. QED BY <1>2, <1>3, <1>5 DEF TypeOK, DeviceState

(* An override writes its channel and the mode of one unlatched device.     *)
LEMMA OverrideIInv ==
  ASSUME IInv, NEW d \in Devices, NEW cmd \in Commands, NEW v \in Values,
         Override(d, cmd, v)
  PROVE  IInv'
<1> DEFINE x == Applied(cmd, v)
<1>0. state \in [DOMAIN state -> DeviceState] /\ d \in DOMAIN state /\ state[d].latched = FALSE
      /\ DOMAIN state \subseteq Devices
  BY StateTyped DEF IInv, Override, Known, DeviceState
<1>1. IF cmd = "outlet" THEN x \in {0, 1} ELSE x \in Lo(cmd)..Hi(cmd)
  BY AppliedInRange
<1>2. state' = [state EXCEPT ![d][cmd] = x, ![d].mode = "manual"]
  BY DEF Override
<1> HIDE DEF x
<1>3. state' = [state EXCEPT ![d] = [state[d] EXCEPT ![cmd] = x, !.mode = "manual"]]
  BY <1>0, <1>2
<1>4. /\ state'[d] \in DeviceState /\ state'[d].mode = "manual" /\ state'[d].latched = FALSE
      /\ state'[d][cmd] = x /\ x \in Int
  <2> DEFINE s == state[d]
             t == state'[d]
  <2>0. s \in DeviceState /\ t = [s EXCEPT ![cmd] = x, !.mode = "manual"] /\ s.latched = FALSE
    BY <1>0, <1>3
  <2> HIDE DEF s, t
  <2>1. CASE cmd = "valve"
    <3>1. x \in MinValve..MaxValve /\ t = [s EXCEPT !.valve = x, !.mode = "manual"]
      BY <1>1, <2>0, <2>1 DEF Lo, Hi
    <3>2. x \in Int
      BY <3>1
    <3>3. t \in DeviceState
      BY <2>0, <3>1 DEF DeviceState
    <3>4. t.mode = "manual" /\ t.latched = FALSE /\ t[cmd] = x
      BY <2>0, <2>1, <3>1 DEF DeviceState
    <3>. QED BY <3>2, <3>3, <3>4 DEF t
  <2>2. CASE cmd = "fan"
    <3>1. x \in MinFan..MaxFan /\ t = [s EXCEPT !.fan = x, !.mode = "manual"]
      BY <1>1, <2>0, <2>2 DEF Lo, Hi
    <3>2. x \in Int
      BY <3>1
    <3>3. t \in DeviceState
      BY <2>0, <3>1 DEF DeviceState
    <3>4. t.mode = "manual" /\ t.latched = FALSE /\ t[cmd] = x
      BY <2>0, <2>2, <3>1 DEF DeviceState
    <3>. QED BY <3>2, <3>3, <3>4 DEF t
  <2>3. CASE cmd = "discharge_limit"
    <3>1. /\ x \in MinDischarge..MaxDischarge
          /\ t = [s EXCEPT !.discharge_limit = x, !.mode = "manual"]
      BY <1>1, <2>0, <2>3 DEF Lo, Hi
    <3>2. x \in Int
      BY <3>1
    <3>3. t \in DeviceState
      BY <2>0, <3>1 DEF DeviceState
    <3>4. t.mode = "manual" /\ t.latched = FALSE /\ t[cmd] = x
      BY <2>0, <2>3, <3>1 DEF DeviceState
    <3>. QED BY <3>2, <3>3, <3>4 DEF t
  <2>4. CASE cmd = "outlet"
    <3>1. x \in {0, 1} /\ t = [s EXCEPT !.outlet = x, !.mode = "manual"]
      BY <1>1, <2>0, <2>4
    <3>2. x \in Int
      BY <3>1
    <3>3. t \in DeviceState
      BY <2>0, <3>1 DEF DeviceState
    <3>4. t.mode = "manual" /\ t.latched = FALSE /\ t[cmd] = x
      BY <2>0, <2>4, <3>1 DEF DeviceState
    <3>. QED BY <3>2, <3>3, <3>4 DEF t
  <2>. QED BY <2>1, <2>2, <2>3, <2>4 DEF Commands, Numeric
<1>5. /\ DOMAIN state' = DOMAIN state /\ state' \in [DOMAIN state -> DeviceState]
      /\ \A e \in DOMAIN state : e # d => state'[e] = state[e]
  BY <1>0, <1>3, <1>4
<1>6. Record(d, "override", cmd, x)
  BY DEF Override, x
<1>7. EntriesOK' /\ AuditExplainsState'
  BY <1>4, <1>5, <1>6, RecordedOperation DEF Override, ModeAfter
<1>8. TypeOK'
  BY <1>0, <1>4, <1>5, <1>6, RecordTypes
<1>9. LatchedIsCooled'
  BY <1>4, <1>5 DEF IInv, LatchedIsCooled
<1>. QED BY <1>7, <1>8, <1>9 DEF IInv

(* A reset touches the mode and the latch of one device only. *)
LEMMA ResetIInv ==
  ASSUME IInv, NEW d \in Devices, Reset(d)
  PROVE  IInv'
<1>0. /\ state \in [DOMAIN state -> DeviceState] /\ d \in DOMAIN state
      /\ DOMAIN state \subseteq Devices
  BY StateTyped DEF IInv, Reset, Known
<1>1. state' = [state EXCEPT ![d] = [state[d] EXCEPT !.mode = "auto", !.latched = FALSE]]
  BY <1>0 DEF Reset
<1>2. /\ state'[d] \in DeviceState /\ state'[d].mode = "auto" /\ state'[d].latched = FALSE
      /\ \A c \in Commands : state'[d][c] = state[d][c]
  BY <1>0, <1>1 DEF DeviceState, Commands, Numeric
<1>3. /\ DOMAIN state' = DOMAIN state /\ state' \in [DOMAIN state -> DeviceState]
      /\ \A e \in DOMAIN state : e # d => state'[e] = state[e]
  BY <1>0, <1>1, <1>2
<1>4. Record(d, "reset", "none", 0)
  BY DEF Reset
<1>5. EntriesOK' /\ AuditExplainsState'
  BY <1>2, <1>3, <1>4, RecordedOperation DEF Reset, ModeAfter
<1>6. TypeOK'
  BY <1>0, <1>2, <1>3, <1>4, RecordTypes
<1>7. LatchedIsCooled'
  BY <1>2, <1>3 DEF IInv, LatchedIsCooled
<1>. QED BY <1>5, <1>6, <1>7 DEF IInv

(* The latch drives cooling to its maximum in the step that sets it. *)
LEMMA LatchIInv ==
  ASSUME IInv, NEW d \in Devices, LatchSafe(d)
  PROVE  IInv'
<1>0. /\ state \in [DOMAIN state -> DeviceState] /\ d \in DOMAIN state
      /\ DOMAIN state \subseteq Devices
  BY StateTyped DEF IInv, LatchSafe, Known
<1>1. state' = [state EXCEPT ![d] = [state[d] EXCEPT !.latched = TRUE, !.mode = "safe",
                                                      !.valve = MaxValve, !.fan = MaxFan]]
  BY <1>0 DEF LatchSafe
<1>2. /\ state'[d] \in DeviceState /\ state'[d].mode = "safe" /\ state'[d].latched = TRUE
      /\ state'[d].valve = MaxValve /\ state'[d].fan = MaxFan
  <2> DEFINE s == state[d]
             t == state'[d]
  <2>1. s \in DeviceState /\ t = [s EXCEPT !.latched = TRUE, !.mode = "safe",
                                           !.valve = MaxValve, !.fan = MaxFan]
    BY <1>0, <1>1
  <2>2. MaxValve \in MinValve..MaxValve /\ MaxFan \in MinFan..MaxFan
    BY LimitsAssumption
  <2> HIDE DEF s, t
  <2>3. t \in DeviceState
    BY <2>1, <2>2 DEF DeviceState
  <2>4. t.mode = "safe" /\ t.latched = TRUE /\ t.valve = MaxValve /\ t.fan = MaxFan
    BY <2>1 DEF DeviceState
  <2>. QED BY <2>3, <2>4 DEF t
<1>3. /\ DOMAIN state' = DOMAIN state /\ state' \in [DOMAIN state -> DeviceState]
      /\ \A e \in DOMAIN state : e # d => state'[e] = state[e]
  BY <1>0, <1>1, <1>2
<1>4. Record(d, "latch_safe", "none", 0)
  BY DEF LatchSafe
<1>5. EntriesOK' /\ AuditExplainsState'
  BY <1>2, <1>3, <1>4, RecordedOperation DEF LatchSafe, ModeAfter
<1>6. TypeOK'
  BY <1>3, <1>4, RecordTypes
<1>7. LatchedIsCooled'
  BY <1>2, <1>3 DEF IInv, LatchedIsCooled
<1>. QED BY <1>5, <1>6, <1>7 DEF IInv

-----------------------------------------------------------------------------
(* The inductive invariant holds in every reachable state. *)
THEOREM InvariantHolds == Spec => []IInv
<1>1. Init => IInv
  BY InitIInv
<1>2. IInv /\ [Next]_vars => IInv'
  <2> SUFFICES ASSUME IInv, [Next]_vars PROVE IInv'
    OBVIOUS
  <2>1. ASSUME NEW d \in Devices, Seed(d) PROVE IInv'
    BY <2>1, SeedIInv
  <2>2. ASSUME NEW d \in Devices, Reset(d) PROVE IInv'
    BY <2>2, ResetIInv
  <2>3. ASSUME NEW d \in Devices, LatchSafe(d) PROVE IInv'
    BY <2>3, LatchIInv
  <2>4. ASSUME NEW d \in Devices, NEW cmd \in Commands, NEW v \in Values, Override(d, cmd, v)
        PROVE  IInv'
    BY <2>4, OverrideIInv
  <2>5. CASE UNCHANGED vars
    BY <2>5 DEF vars, IInv, TypeOK, LatchedIsCooled, EntriesOK, AuditExplainsState
  <2>. QED BY <2>1, <2>2, <2>3, <2>4, <2>5 DEF Next
<1>. QED BY <1>1, <1>2, PTL DEF Spec

(* Every channel of every device is inside its envelope, whatever JSON      *)
(* values operators send, and the log never outgrows its cap.               *)
THEOREM TypeCorrect == Spec => []TypeOK
<1>1. IInv => TypeOK
  BY DEF IInv
<1>. QED BY <1>1, InvariantHolds, PTL

(* A latched device stays at full cooling until it is reset. *)
THEOREM LatchedStaysCooled == Spec => []LatchedIsCooled
<1>1. IInv => LatchedIsCooled
  BY DEF IInv
<1>. QED BY <1>1, InvariantHolds, PTL

(* The log explains the mode of every device it mentions and the value of   *)
(* every channel it remembers an override of, also once it has wrapped.     *)
THEOREM LogExplainsState == Spec => []AuditExplainsState
<1>1. IInv => AuditExplainsState
  BY DEF IInv
<1>. QED BY <1>1, InvariantHolds, PTL

=============================================================================
