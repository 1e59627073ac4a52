--------------------------- MODULE HardwareProofs ---------------------------
(***************************************************************************)
(* Proofs, for any number of concurrent handlers, servers and calls and    *)
(* any log size, of the safety properties of the hardware management API   *)
(* in module Hardware.                                                     *)
(***************************************************************************)
EXTENDS Hardware, SequenceTheorems, FiniteSetTheorems, TLAPS

Sending == [pc : {"sending", "ok", "failed"}, n : Nat,
            backend : {"redfish", "ipmi"}, server : Servers]
Resolving == [pc : {"resolving"}, n : Nat, servers : SUBSET Servers, signal : Level]
CallHistory ==
  [op : Writes \cup {"resolve", "none"}, target : Servers \cup {NoServer},
   status : {"open", "ok", "failed", "refused", "dead"},
   net : {"none", "wire", "taken"}, began : Nat, ended : Nat]
AuditEntry == [id : Nat, call : Nat, server : Servers]

Types ==
  /\ backends \in Deployments
  /\ call \in [Clients -> {Idle} \cup Sending \cup Resolving]
  /\ history \in Seq(CallHistory)
  /\ hw \in [Servers -> [Writes -> Nat]]
  /\ audit \in Seq(AuditEntry) /\ seq \in Nat
  /\ grid \in Level /\ latest \in Level

(* A call is handled by one client only, which no one else can end, and a   *)
(* handler has a success to report only once its BMC took the request.      *)
Handlers ==
  /\ \A c \in Clients : call[c] # Idle =>
       LET n == call[c].n
       IN /\ n \in DOMAIN history /\ history[n].status = "open"
          /\ IF call[c].pc = "resolving" THEN history[n].op = "resolve"
             ELSE history[n].op \in Writes
          /\ call[c].pc = "ok" => history[n].net = "taken"
  /\ \A b, c \in Clients :
       call[b] # Idle /\ call[c] # Idle /\ call[b].n = call[c].n => b = c

(* Changes, and nothing else, are sent to servers; a successful one was     *)
(* taken.  No call begins or ends later than the calls that have ended.     *)
Calls ==
  \A n \in DOMAIN history :
    LET h == history[n]
    IN /\ IF h.op \in Writes THEN h.target \in Servers /\ h.net \in {"wire", "taken"}
          ELSE h.net = "none"
       /\ h.op \in Writes /\ Succeeded(n) => h.net = "taken"
       /\ h.began <= Ended /\ h.ended <= Ended

(* A request that a BMC took is the last it took, or the holder of its      *)
(* place is not reported as a success, or ended after the request began.    *)
TakenCovered ==
  /\ \A s \in Servers, op \in Writes : hw[s][op] \in 0..Len(history)
  /\ \A n \in DOMAIN history : history[n].net = "taken" =>
       LET m == hw[history[n].target][history[n].op]
       IN /\ m # 0
          /\ Succeeded(m) => m = n \/ history[m].ended > history[n].began

(* A preview resolves every server with the one signal it shows.            *)
PreviewsOfOneSignal ==
  \A p \in previews :
    /\ p.signal \in Level
    /\ \A s \in DOMAIN p.actions : p.actions[s] = Resolve(s, p.signal)

(* What the handlers record: successful changes, and power commands however *)
(* they ended.  Entries are in the order in which their calls ended; what   *)
(* is missing is older than all of them, and only a full log misses         *)
(* anything.                                                                *)
MustBeLogged(n) ==
  LET h == history[n]
  IN h.op \in Writes /\ (h.status = "ok" \/ (h.status = "failed" /\ h.op = "power"))
Must == {n \in DOMAIN history : MustBeLogged(n)}
LogOrdered ==
  /\ Len(audit) <= AuditCap
  /\ Logged \subseteq Must
  /\ \A i, j \in DOMAIN audit :
       i < j => history[audit[i].call].ended < history[audit[j].call].ended
  /\ \A n \in Must \ Logged :
       /\ Len(audit) = AuditCap
       /\ \A i \in DOMAIN audit : history[n].ended < history[audit[i].call].ended

(* The inductive invariant. *)
IInv == Types /\ Handlers /\ Calls /\ TakenCovered /\ PreviewsOfOneSignal /\ LogOrdered

-----------------------------------------------------------------------------
(* Throttling. *)

(* The levels and their order. *)
LEMMA LevelOrder ==
  /\ Level = {"none", "mild", "high", "critical"}
  /\ Severity("none") = 1 /\ Severity("mild") = 2
  /\ Severity("high") = 3 /\ Severity("critical") = 4
<1>1. Levels[1] = "none" /\ Levels[2] = "mild" /\ Levels[3] = "high" /\ Levels[4] = "critical"
  BY DEF Levels
<1>2. 1..4 = {1, 2, 3, 4}
  OBVIOUS
<1>3. Level = {"none", "mild", "high", "critical"}
  BY <1>1, <1>2 DEF Level
<1>4. ASSUME NEW i \in 1..4
      PROVE  Severity(Levels[i]) = i
  <2>1. \A j \in 1..4 : Levels[j] = Levels[i] => j = i
    BY <1>1, <1>2
  <2>2. \E j \in 1..4 : Levels[j] = Levels[i]
    OBVIOUS
  <2>3. /\ Severity(Levels[i]) \in 1..4
        /\ Levels[Severity(Levels[i])] = Levels[i]
    BY <2>2 DEF Severity
  <2>. QED BY <2>1, <2>3
<1>. QED BY <1>1, <1>3, <1>4

(* What each level lets a server draw. *)
LEMMA DrawAt ==
  ASSUME NEW s
  PROVE  /\ Draw(Resolve(s, "none")) = Nameplate
         /\ Draw(Resolve(s, "mild")) = IF MildCapW = 0 THEN Nameplate ELSE MildCapW
         /\ Draw(Resolve(s, "high")) = IF MaxPowerCapW = 0 THEN Nameplate ELSE MaxPowerCapW
         /\ Draw(Resolve(s, "critical")) =
              IF s \in CriticalShutdown THEN 0
              ELSE IF MaxPowerCapW = 0 THEN Nameplate ELSE MaxPowerCapW
<1>1. /\ ~Resolve(s, "none").shutdown /\ Resolve(s, "none").capW = 0
  BY DEF Resolve
<1>2. /\ ~Resolve(s, "mild").shutdown /\ Resolve(s, "mild").capW = MildCapW
  BY DEF Resolve
<1>3. /\ ~Resolve(s, "high").shutdown /\ Resolve(s, "high").capW = MaxPowerCapW
  BY DEF Resolve
<1>4. s \in CriticalShutdown => Resolve(s, "critical").shutdown
  BY DEF Resolve
<1>5. s \notin CriticalShutdown =>
        ~Resolve(s, "critical").shutdown /\ Resolve(s, "critical").capW = MaxPowerCapW
  BY DEF Resolve
<1>. QED BY <1>1, <1>2, <1>3, <1>4, <1>5 DEF Draw

(* The caps shrink as the level rises, also for a nameplate so small that a *)
(* cap rounds to 0, which means no cap.                                     *)
LEMMA CapsOrdered ==
  /\ MildCapW \in Nat /\ MaxPowerCapW \in Nat /\ MaxPowerCapW <= MildCapW /\ MildCapW <= Nameplate
  /\ MaxPowerCapW = 0 => MildCapW = 0
  BY BoundsAssumption DEF MildCapW, MaxPowerCapW

(* A worse level never lets a server draw more. *)
LEMMA ResolveMonotone ==
  ASSUME NEW s, NEW a \in Level, NEW b \in Level, Severity(a) <= Severity(b)
  PROVE  Draw(Resolve(s, b)) <= Draw(Resolve(s, a))
<1>1. Nameplate \in Nat
  BY BoundsAssumption
<1>2. a = b \/ a = "none" \/ b = "critical" \/ (a = "mild" /\ b = "high")
  BY LevelOrder
<1>3. Draw(Resolve(s, a)) \in Nat
  BY <1>1, CapsOrdered, DrawAt, LevelOrder
<1>4. Draw(Resolve(s, b)) \in Nat /\ Draw(Resolve(s, b)) <= Nameplate
  BY <1>1, CapsOrdered, DrawAt, LevelOrder
<1>5. CASE a = b
  BY <1>3, <1>5
<1>6. CASE a = "none"
  BY <1>4, <1>6, DrawAt
<1>7. CASE b = "critical"
  BY <1>1, <1>3, <1>7, CapsOrdered, DrawAt, LevelOrder
<1>8. CASE a = "mild" /\ b = "high"
  BY <1>1, <1>8, CapsOrdered, DrawAt
<1>. QED BY <1>2, <1>5, <1>6, <1>7, <1>8

(* Previews that resolve all servers with the signal they show are ordered. *)
LEMMA PreviewsOrdered == PreviewsOfOneSignal => WorseSignalDrawsLess
  BY ResolveMonotone DEF PreviewsOfOneSignal, WorseSignalDrawsLess

-----------------------------------------------------------------------------
(* The log. *)

(* A log that is ordered and misses only what is older agrees with what     *)
(* clients were told.                                                       *)
LEMMA OrderedLogAgrees ==
  ASSUME LogOrdered
  PROVE  ReportedChangesLogged
<1>1. /\ Len(audit) <= AuditCap
      /\ \A i, j \in DOMAIN audit :
           i < j => history[audit[i].call].ended < history[audit[j].call].ended
  BY DEF LogOrdered
<1>2. \A n \in Logged : history[n].op \in Writes /\ history[n].status \in {"ok", "failed"}
  BY DEF LogOrdered, Must, MustBeLogged
<1>3. ASSUME NEW n \in DOMAIN history \ Logged, history[n].op \in Writes, Succeeded(n)
      PROVE  Len(audit) = AuditCap /\ \A m \in Logged : history[n].ended < history[m].ended
  <2>1. n \in Must \ Logged
    BY <1>3 DEF Must, MustBeLogged, Succeeded
  <2>. QED BY <2>1 DEF LogOrdered, Logged
<1>. QED BY <1>1, <1>2, <1>3 DEF ReportedChangesLogged

-----------------------------------------------------------------------------
(* How steps change the history. *)

(* What a step may do to a call that was made before: its BMC takes it, its *)
(* handler answers, or the process dies with it.                            *)
CallStep(n) ==
  LET h == history[n]
      k == history'[n]
  IN /\ k.op = h.op /\ k.target = h.target /\ k.began = h.began
     /\ k.net = h.net \/ (h.net = "wire" /\ k.net = "taken")
     /\ \/ k.status = h.status /\ k.ended = h.ended
        \/ h.status = "open" /\ k.status = "dead" /\ k.ended = h.ended
        \/ /\ h.status = "open" /\ k.status \in {"ok", "failed"} /\ k.ended = Ended + 1
           /\ h.op \in Writes /\ k.status = "ok" => h.net = "taken"

(* What a call is when it is new: under way, or refused. *)
CallStarts(n) ==
  LET k == history'[n]
  IN /\ k.began = Ended
     /\ \/ k.status = "open" /\ k.ended = 0
        \/ k.status = "refused" /\ k.ended = Ended + 1
     /\ IF k.op \in Writes THEN k.target \in Servers /\ k.net = "wire" ELSE k.net = "none"

HistoryStep ==
  /\ DOMAIN history \subseteq DOMAIN history'
  /\ \A n \in DOMAIN history : CallStep(n)
  /\ \A n \in DOMAIN history' : n \notin DOMAIN history => CallStarts(n)

EndedSet == {n \in DOMAIN history : history[n].status # "open"}

(* The calls that have ended are a number of calls, and that number grows   *)
(* with every call that ends.                                               *)
LEMMA EndedGrows ==
  ASSUME Types, Types', EndedSet \subseteq EndedSet'
  PROVE  /\ Ended \in Nat /\ Ended' \in Nat /\ Ended <= Ended'
         /\ \A n \in EndedSet' : n \notin EndedSet => Ended + 1 <= Ended'
<1>1. IsFiniteSet(EndedSet) /\ IsFiniteSet(EndedSet')
  <2>1. /\ DOMAIN history = 1..Len(history) /\ Len(history) \in Nat
        /\ DOMAIN history' = 1..Len(history') /\ Len(history') \in Nat
    BY DEF Types
  <2>2. IsFiniteSet(1..Len(history)) /\ IsFiniteSet(1..Len(history'))
    BY <2>1, FS_Interval
  <2>3. EndedSet \in SUBSET (1..Len(history)) /\ EndedSet' \in SUBSET (1..Len(history'))
    BY <2>1 DEF EndedSet
  <2>. QED BY <2>2, <2>3, FS_Subset
<1>2. Ended = Cardinality(EndedSet) /\ Ended' = Cardinality(EndedSet')
  BY DEF Ended, EndedSet
<1>3. Ended \in Nat /\ Ended' \in Nat
  BY <1>1, <1>2, FS_CardinalityType
<1>4. Ended <= Ended'
  <2>1. EndedSet \in SUBSET EndedSet'
    OBVIOUS
  <2>. QED BY <1>1, <1>2, <2>1, FS_Subset
<1>5. ASSUME NEW n \in EndedSet', n \notin EndedSet
      PROVE  Ended + 1 <= Ended'
  <2>1. EndedSet \cup {n} \in SUBSET EndedSet'
    BY <1>5
  <2>2. Cardinality(EndedSet \cup {n}) = Cardinality(EndedSet) + 1
    BY <1>1, <1>5, FS_AddElement
  <2>3. Cardinality(EndedSet \cup {n}) <= Cardinality(EndedSet')
    BY <1>1, <2>1, FS_Subset
  <2>. QED BY <1>2, <2>2, <2>3
<1>. QED BY <1>3, <1>4, <1>5

(* Ended is a number. *)
LEMMA EndedIsNumber ==
  ASSUME Types
  PROVE  Ended \in Nat
<1>1. DOMAIN history = 1..Len(history) /\ Len(history) \in Nat
  BY DEF Types
<1>2. IsFiniteSet(1..Len(history))
  BY <1>1, FS_Interval
<1>3. EndedSet \in SUBSET (1..Len(history)) /\ Ended = Cardinality(EndedSet)
  BY <1>1 DEF EndedSet, Ended
<1>. QED BY <1>2, <1>3, FS_Subset, FS_CardinalityType

(* A call that has ended stays ended. *)
LEMMA EndIsFinal ==
  ASSUME HistoryStep
  PROVE  EndedSet \subseteq EndedSet'
<1>1. ASSUME NEW n \in EndedSet
      PROVE  n \in DOMAIN history' /\ history'[n].status # "open"
  <2>1. n \in DOMAIN history /\ history[n].status # "open"
    BY DEF EndedSet
  <2>2. CallStep(n)
    BY <2>1 DEF HistoryStep
  <2>. QED BY <2>1, <2>2 DEF CallStep, HistoryStep
<1>. QED BY <1>1 DEF EndedSet

(* The types of one call's fields. *)
LEMMA CallFields ==
  ASSUME Types, NEW n \in DOMAIN history
  PROVE  /\ history[n].began \in Nat /\ history[n].ended \in Nat
         /\ history[n].net \in {"none", "wire", "taken"}
         /\ history[n].status \in {"open", "ok", "failed", "refused", "dead"}
         /\ history[n].target \in Servers \cup {NoServer}
<1>1. history[n] \in CallHistory
  BY DEF Types
<1>. QED BY <1>1 DEF CallHistory

(* Such steps keep every call lawful. *)
LEMMA StepKeepsCalls ==
  ASSUME Types, Types', Calls, HistoryStep
  PROVE  Calls'
<1>1. /\ Ended \in Nat /\ Ended' \in Nat /\ Ended <= Ended'
      /\ \A n \in EndedSet' : n \notin EndedSet => Ended + 1 <= Ended'
  BY EndedGrows, EndIsFinal
<1>2. ASSUME NEW n \in DOMAIN history'
      PROVE  LET h == history'[n]
             IN /\ IF h.op \in Writes THEN h.target \in Servers /\ h.net \in {"wire", "taken"}
                   ELSE h.net = "none"
                /\ h.op \in Writes /\ h.status = "ok" => h.net = "taken"
                /\ h.began <= Ended' /\ h.ended <= Ended'
  <2>1. CASE n \in DOMAIN history
    <3>1. CallStep(n)
      BY <2>1 DEF HistoryStep
    <3>2. /\ IF history[n].op \in Writes
             THEN history[n].target \in Servers /\ history[n].net \in {"wire", "taken"}
             ELSE history[n].net = "none"
          /\ history[n].op \in Writes /\ history[n].status = "ok" => history[n].net = "taken"
          /\ history[n].began <= Ended /\ history[n].ended <= Ended
      BY <2>1 DEF Calls, Succeeded
    <3>3. history[n].began \in Nat /\ history[n].ended \in Nat
      BY <2>1, CallFields
    <3>4. history'[n].began <= Ended'
      BY <1>1, <3>1, <3>2, <3>3 DEF CallStep
    <3>5. history'[n].ended <= Ended'
      <4>1. CASE history'[n].ended = history[n].ended
        BY <1>1, <3>2, <3>3, <4>1
      <4>2. CASE history[n].status = "open" /\ history'[n].status # "open"
                   /\ history'[n].ended = Ended + 1
        <5>1. n \in EndedSet' /\ n \notin EndedSet
          BY <4>2 DEF EndedSet
        <5>. QED BY <1>1, <4>2, <5>1
      <4>. QED BY <3>1, <4>1, <4>2 DEF CallStep
    <3>. QED BY <3>1, <3>2, <3>4, <3>5 DEF CallStep
  <2>2. CASE n \notin DOMAIN history
    <3>1. CallStarts(n)
      BY <2>2 DEF HistoryStep
    <3>2. history'[n].ended <= Ended'
      <4>1. CASE history'[n].ended = 0
        BY <1>1, <4>1
      <4>2. CASE history'[n].status = "refused" /\ history'[n].ended = Ended + 1
        <5>1. n \in EndedSet' /\ n \notin EndedSet
          BY <2>2, <4>2 DEF EndedSet
        <5>. QED BY <1>1, <4>2, <5>1
      <4>. QED BY <3>1, <4>1, <4>2 DEF CallStarts
    <3>. QED BY <1>1, <3>1, <3>2 DEF CallStarts
  <2>. QED BY <2>1, <2>2
<1>. QED BY <1>2 DEF Calls, Succeeded

(* Steps in which no BMC takes a request keep what was taken covered: a     *)
(* call that ends now ends after every call that has begun.                 *)
LEMMA StepKeepsTaken ==
  ASSUME Types, Types', Calls, TakenCovered, HistoryStep, hw' = hw,
         \A n \in DOMAIN history : history'[n].net = history[n].net
  PROVE  TakenCovered'
<1>1. Len(history) \in Nat /\ Len(history') \in Nat /\ Len(history) <= Len(history')
  <2>1. /\ DOMAIN history = 1..Len(history) /\ Len(history) \in Nat
        /\ DOMAIN history' = 1..Len(history') /\ Len(history') \in Nat
    BY DEF Types
  <2>2. 1..Len(history) \subseteq 1..Len(history')
    BY <2>1 DEF HistoryStep
  <2>. QED BY <2>1, <2>2
<1>2. \A s \in Servers, op \in Writes : hw'[s][op] \in 0..Len(history')
  BY <1>1 DEF TakenCovered
<1>3. Ended \in Nat
  BY EndedGrows, EndIsFinal
<1>4. ASSUME NEW n \in DOMAIN history', history'[n].net = "taken"
      PROVE  LET m == hw'[history'[n].target][history'[n].op]
             IN /\ m # 0
                /\ history'[m].status = "ok" => m = n \/ history'[m].ended > history'[n].began
  <2> DEFINE m == hw[history[n].target][history[n].op]
  <2>1. n \in DOMAIN history
    <3>1. CASE n \notin DOMAIN history
      <4>1. CallStarts(n)
        BY <3>1 DEF HistoryStep
      <4>. QED BY <1>4, <4>1 DEF CallStarts
    <3>. QED BY <3>1
  <2>2. CallStep(n)
    BY <2>1 DEF HistoryStep
  <2>3. history[n].net = "taken"
    BY <1>4, <2>1
  <2>4. history[n].target \in Servers /\ history[n].op \in Writes
    BY <2>1, <2>3 DEF Calls
  <2>5. m # 0 /\ (history[m].status = "ok" => m = n \/ history[m].ended > history[n].began)
    BY <2>1, <2>3 DEF TakenCovered, Succeeded
  <2>6. m \in DOMAIN history
    <3>1. m \in 0..Len(history)
      BY <2>4 DEF TakenCovered
    <3>. QED BY <1>1, <2>5, <3>1 DEF Types
  <2>7. m = hw'[history'[n].target][history'[n].op]
    BY <2>2 DEF CallStep
  <2>8. history[n].began \in Nat /\ history[n].began <= Ended
    BY <2>1, CallFields DEF Calls
  <2>9. CallStep(m)
    BY <2>6 DEF HistoryStep
  <2>10. history'[m].status = "ok" =>
           (history[m].status = "ok" /\ history'[m].ended = history[m].ended)
           \/ history'[m].ended = Ended + 1
    BY <2>9 DEF CallStep
  <2>11. history'[n].began = history[n].began
    BY <2>2 DEF CallStep
  <2> HIDE DEF m
  <2>12. history'[m].status = "ok" => m = n \/ history'[m].ended > history'[n].began
    BY <1>3, <2>5, <2>8, <2>10, <2>11
  <2>. QED BY <2>5, <2>7, <2>12
<1>. QED BY <1>2, <1>4 DEF TakenCovered, Succeeded

(* Steps that add nothing to what must be logged, nor to the log. *)
LEMMA StepKeepsLog ==
  ASSUME Types, LogOrdered, HistoryStep, audit' = audit,
         \A n \in DOMAIN history' : MustBeLogged(n)' => n \in DOMAIN history /\ MustBeLogged(n)
  PROVE  LogOrdered'
<1>1. ASSUME NEW n \in Must
      PROVE  n \in Must' /\ history'[n].ended = history[n].ended
  <2>1. n \in DOMAIN history /\ MustBeLogged(n)
    BY DEF Must
  <2>2. CallStep(n) /\ n \in DOMAIN history'
    BY <2>1 DEF HistoryStep
  <2>3. history[n].status # "open" 
    BY <2>1 DEF MustBeLogged
  <2>4. history'[n].op = history[n].op /\ history'[n].status = history[n].status
        /\ history'[n].ended = history[n].ended
    BY <2>2, <2>3 DEF CallStep
  <2>. QED BY <2>1, <2>2, <2>4 DEF Must, MustBeLogged
<1>2. Must' = Must
  BY <1>1 DEF Must
<1>3. Logged' = Logged /\ \A i \in DOMAIN audit : audit[i].call \in Logged
  BY DEF Logged
<1>4. Logged \subseteq Must
  BY DEF LogOrdered
<1>5. \A i \in DOMAIN audit : history'[audit[i].call].ended = history[audit[i].call].ended
  BY <1>1, <1>3, <1>4
<1>6. \A n \in Must \ Logged : history'[n].ended = history[n].ended
  BY <1>1
<1>7. /\ Len(audit) <= AuditCap
      /\ \A i, j \in DOMAIN audit :
           i < j => history[audit[i].call].ended < history[audit[j].call].ended
      /\ \A n \in Must \ Logged :
           /\ Len(audit) = AuditCap
           /\ \A i \in DOMAIN audit : history[n].ended < history[audit[i].call].ended
  BY DEF LogOrdered
<1>8. /\ \A i, j \in DOMAIN audit :
           i < j => history'[audit[i].call].ended < history'[audit[j].call].ended
      /\ \A n \in Must \ Logged :
           /\ Len(audit) = AuditCap
           /\ \A i \in DOMAIN audit : history'[n].ended < history'[audit[i].call].ended
  BY <1>5, <1>6, <1>7
<1> HIDE DEF Must, Logged
<1>. QED BY <1>2, <1>3, <1>4, <1>7, <1>8 DEF LogOrdered

(* A record is appended and, when the log was full, the oldest one goes. *)
LEMMA RecordEffect ==
  ASSUME audit \in Seq(AuditEntry), Len(audit) <= AuditCap, NEW new \in AuditEntry,
         audit' = Trim(Append(audit, new))
  PROVE  /\ audit' \in Seq(AuditEntry) /\ Len(audit') <= AuditCap /\ Len(audit') >= 1
         /\ audit'[Len(audit')] = new
         /\ \E k \in {0, 1} :
              /\ Len(audit') = Len(audit) + 1 - k
              /\ k = 1 => Len(audit) = AuditCap
              /\ \A i \in 1..(Len(audit') - 1) : audit'[i] = audit[i + k]
<1> DEFINE log == Append(audit, new)
<1>1. Len(audit) \in Nat /\ AuditCap \in Nat /\ AuditCap > 0
  BY BoundsAssumption
<1>2. /\ log \in Seq(AuditEntry) /\ Len(log) = Len(audit) + 1 /\ log[Len(audit) + 1] = new
      /\ \A i \in 1..Len(audit) : log[i] = audit[i]
  BY AppendProperties
<1>3. audit' = Trim(log)
  OBVIOUS
<1> HIDE DEF log
<1>4. CASE Len(audit) < AuditCap
  <2>1. audit' = log
    BY <1>1, <1>2, <1>3, <1>4 DEF Trim
  <2>2. /\ Len(audit') = Len(audit) + 1 - 0
        /\ \A i \in 1..(Len(audit') - 1) : audit'[i] = audit[i + 0]
    BY <1>1, <1>2, <2>1
  <2>. QED BY <1>1, <1>2, <1>4, <2>1, <2>2
<1>5. CASE Len(audit) = AuditCap
  <2>0. Len(log) > AuditCap /\ Len(log) - AuditCap + 1 = 2 /\ Len(log) = Len(audit) + 1
    <3>1. Len(log) = Len(audit) + 1
      BY <1>2
    <3>. QED BY <1>1, <1>5, <3>1
  <2>1. audit' = SubSeq(log, 2, Len(audit) + 1)
    BY <1>3, <2>0 DEF Trim
  <2>2. \A i \in 2..(Len(audit) + 1) : log[i] \in AuditEntry
    BY <1>1, <1>2, ElementOfSeq
  <2>3. /\ audit' \in Seq(AuditEntry) /\ Len(audit') = Len(audit)
        /\ \A i \in 1..Len(audit) : audit'[i] = log[i + 1]
    BY <1>1, <1>5, <2>1, <2>2, SubSeqProperties
  <2>4. /\ Len(audit') = Len(audit) + 1 - 1
        /\ \A i \in 1..(Len(audit') - 1) : audit'[i] = audit[i + 1]
    BY <1>1, <1>2, <2>3
  <2>. QED BY <1>1, <1>2, <1>5, <2>3, <2>4
<1>. QED BY <1>1, <1>4, <1>5

(* A step that ends one call and records it keeps the log ordered: the call *)
(* ends after every call that ended before.                                 *)
LEMMA RecordKeepsLog ==
  ASSUME Types, Calls, LogOrdered, Ended \in Nat,
         NEW m, m \notin Must, Must' = Must \cup {m},
         history'[m].ended = Ended + 1,
         \A n \in Must : history'[n].ended = history[n].ended,
         NEW new \in AuditEntry, new.call = m, audit' = Trim(Append(audit, new))
  PROVE  LogOrdered'
<1> DEFINE old(n) == history[n].ended
           end(n) == history'[n].ended
           last == Len(audit')
<1>1. /\ audit \in Seq(AuditEntry) /\ Len(audit) <= AuditCap
      /\ DOMAIN audit = 1..Len(audit) /\ Len(audit) \in Nat /\ AuditCap \in Nat
  BY BoundsAssumption DEF Types, LogOrdered
<1>2. /\ audit' \in Seq(AuditEntry) /\ last <= AuditCap /\ last >= 1 /\ audit'[last] = new
  BY <1>1, RecordEffect
<1>3. PICK k \in {0, 1} : /\ last = Len(audit) + 1 - k
                          /\ k = 1 => Len(audit) = AuditCap
                          /\ \A i \in 1..(last - 1) : audit'[i] = audit[i + k]
  BY <1>1, RecordEffect
<1>4. DOMAIN audit' = 1..last /\ last \in Nat
  BY <1>2
<1>0. last = Len(audit) + 1 - k
  BY <1>3
<1>5. /\ \A i \in DOMAIN audit : audit[i].call \in Must
      /\ \A i, j \in DOMAIN audit : i < j => old(audit[i].call) < old(audit[j].call)
      /\ \A n \in Must : n \notin Logged =>
           Len(audit) = AuditCap /\ \A i \in DOMAIN audit : old(n) < old(audit[i].call)
  BY DEF LogOrdered, Logged
<1>6. \A n \in Must : end(n) = old(n) /\ old(n) \in Nat /\ old(n) <= Ended
  BY CallFields DEF Must, Calls
<1>7. end(m) = Ended + 1
  OBVIOUS
<1> HIDE DEF old, end, last
<1>8. ASSUME NEW i \in 1..last, i # last
      PROVE  /\ i + k \in DOMAIN audit /\ audit'[i] = audit[i + k]
             /\ audit'[i].call \in Must /\ end(audit'[i].call) = old(audit[i + k].call)
             /\ end(audit'[i].call) < end(m)
  <2>1. i \in 1..(last - 1) /\ i + k \in 1..Len(audit)
    BY <1>0, <1>1, <1>4, <1>8
  <2>2. i + k \in DOMAIN audit /\ audit'[i] = audit[i + k] /\ audit[i + k].call \in Must
    BY <1>1, <1>3, <1>5, <2>1
  <2>3. end(audit[i + k].call) = old(audit[i + k].call) /\ old(audit[i + k].call) \in Nat
        /\ old(audit[i + k].call) <= Ended
    BY <1>6, <2>2
  <2>. QED BY <1>7, <2>2, <2>3
<1>9. audit'[last].call = m
  BY <1>2
<1>10. Logged' \subseteq Must' /\ m \in Logged'
  <2>1. \A i \in 1..last : audit'[i].call \in Must'
    BY <1>8, <1>9
  <2>2. last \in 1..last
    BY <1>2, <1>4
  <2>. QED BY <1>4, <1>9, <2>1, <2>2 DEF Logged
<1>11. ASSUME NEW i \in DOMAIN audit', NEW j \in DOMAIN audit', i < j
       PROVE  end(audit'[i].call) < end(audit'[j].call)
  <2>1. i \in 1..last /\ j \in 1..last /\ i # last
    BY <1>4, <1>11
  <2>2. CASE j = last
    BY <1>8, <1>9, <2>1, <2>2
  <2>3. CASE j # last
    <3>1. i + k \in DOMAIN audit /\ j + k \in DOMAIN audit /\ i + k < j + k
      BY <1>8, <1>11, <2>1, <2>3
    <3>2. old(audit[i + k].call) < old(audit[j + k].call)
      BY <1>5, <3>1
    <3>3. end(audit'[i].call) = old(audit[i + k].call) /\ end(audit'[j].call) = old(audit[j + k].call)
      BY <1>8, <2>1, <2>3
    <3>. QED BY <3>2, <3>3
  <2>. QED BY <2>2, <2>3
<1>12. ASSUME NEW n \in Must', n \notin Logged'
       PROVE  last = AuditCap /\ \A i \in DOMAIN audit' : end(n) < end(audit'[i].call)
  <2>1. n \in Must
    BY <1>10, <1>12
  <2>2. end(n) = old(n) /\ old(n) \in Nat /\ old(n) <= Ended
    BY <1>6, <2>1
  <2>3. end(n) < end(m)
    BY <1>7, <2>2
  <2>4. Len(audit) = AuditCap /\ \A i \in 1..last : i # last => old(n) < old(audit[i + k].call)
    <3>1. CASE n \notin Logged
      BY <1>5, <1>8, <2>1, <3>1
    <3>2. CASE n \in Logged
      <4>1. PICK j \in DOMAIN audit : audit[j].call = n
        BY <3>2 DEF Logged
      <4>2. j \in 1..k
        <5>1. CASE j > k
          <6>0. j \in 1..Len(audit)
            BY <1>1
          <6>1. j - k \in 1..last /\ j - k # last /\ (j - k) + k = j
            BY <1>0, <1>1, <1>4, <5>1, <6>0
          <6>2. audit'[j - k].call = n
            BY <1>8, <4>1, <6>1
          <6>. QED BY <1>4, <1>12, <6>1, <6>2 DEF Logged
        <5>. QED BY <1>1, <5>1
      <4>3. k = 1 /\ j = 1
        BY <4>2
      <4>4. \A i \in 1..last : i # last => j < i + k
        BY <1>4, <4>3
      <4>5. \A i \in 1..last : i # last => old(audit[j].call) < old(audit[i + k].call)
        BY <1>5, <1>8, <4>4
      <4>. QED BY <1>3, <4>1, <4>3, <4>5
    <3>. QED BY <3>1, <3>2
  <2>5. last = AuditCap
    BY <1>1, <1>2, <1>3, <1>4, <2>4
  <2>6. ASSUME NEW i \in 1..last PROVE end(n) < end(audit'[i].call)
    <3>1. CASE i = last
      BY <1>9, <2>3, <3>1
    <3>2. CASE i # last
      BY <1>8, <2>2, <2>4, <3>2
    <3>. QED BY <3>1, <3>2
  <2>. QED BY <1>4, <2>5, <2>6
<1> HIDE DEF Must, Logged
<1>. QED BY <1>2, <1>10, <1>11, <1>12 DEF LogOrdered, end, last

-----------------------------------------------------------------------------
(* The handlers. *)

(* What a handler at work refers to. *)
LEMMA AtWork ==
  ASSUME Types, Handlers, NEW c \in Clients, call[c] # Idle
  PROVE  /\ call[c] \in Sending \cup Resolving
         /\ call[c].n \in DOMAIN history /\ history[call[c].n].status = "open"
         /\ call[c].pc = "resolving" => history[call[c].n].op = "resolve"
         /\ call[c].pc # "resolving" => history[call[c].n].op \in Writes
         /\ call[c].pc = "ok" => history[call[c].n].net = "taken"
         /\ \A b \in Clients : b # c /\ call[b] # Idle => call[b].n # call[c].n
<1>1. call[c] \in {Idle} \cup Sending \cup Resolving
  BY DEF Types
<1>. QED BY <1>1 DEF Handlers

(* A step of one handler leaves the others alone. *)
LEMMA StepKeepsHandlers ==
  ASSUME Types, Handlers, NEW c \in Clients, DOMAIN history \subseteq DOMAIN history',
         \A b \in Clients : b # c => call'[b] = call[b],
         \A b \in Clients : b # c /\ call[b] # Idle =>
           LET n == call[b].n
           IN /\ history'[n].status = history[n].status /\ history'[n].op = history[n].op
              /\ history[n].net = "taken" => history'[n].net = "taken",
         call'[c] # Idle =>
           LET n == call'[c].n
           IN /\ n \in DOMAIN history' /\ history'[n].status = "open"
              /\ IF call'[c].pc = "resolving" THEN history'[n].op = "resolve"
                 ELSE history'[n].op \in Writes
              /\ call'[c].pc = "ok" => history'[n].net = "taken"
              /\ \A b \in Clients : b # c /\ call[b] # Idle => call[b].n # n
  PROVE  Handlers'
<1>1. ASSUME NEW b \in Clients, call'[b] # Idle
      PROVE  LET n == call'[b].n
             IN /\ n \in DOMAIN history' /\ history'[n].status = "open"
                /\ IF call'[b].pc = "resolving" THEN history'[n].op = "resolve"
                   ELSE history'[n].op \in Writes
                /\ call'[b].pc = "ok" => history'[n].net = "taken"
  <2>1. CASE b = c
    BY <1>1, <2>1
  <2>2. CASE b # c
    <3>1. call'[b] = call[b] /\ call[b] # Idle
      BY <1>1, <2>2
    <3>2. /\ call[b].n \in DOMAIN history /\ history[call[b].n].status = "open"
          /\ call[b].pc = "resolving" => history[call[b].n].op = "resolve"
          /\ call[b].pc # "resolving" => history[call[b].n].op \in Writes
          /\ call[b].pc = "ok" => history[call[b].n].net = "taken"
      BY <3>1, AtWork
    <3>. QED BY <2>2, <3>1, <3>2
  <2>. QED BY <2>1, <2>2
<1>2. ASSUME NEW a \in Clients, NEW b \in Clients,
             call'[a] # Idle, call'[b] # Idle, call'[a].n = call'[b].n
      PROVE  a = b
  <2>1. CASE a # c /\ b # c
    BY <1>2, <2>1 DEF Handlers
  <2>2. CASE a = c \/ b = c
    BY <1>2, <2>2
  <2>. QED BY <2>1, <2>2
<1>3. Idle' = Idle
  BY DEF Idle
<1>. QED BY <1>1, <1>2, <1>3 DEF Handlers

(* A request that is sent goes to a server, through a backend there is. *)
LEMMA SentRequest ==
  ASSUME Types, NEW req \in Requests, req.op \in Writes, Served(req)
  PROVE  /\ req.server \in Servers /\ Target(req) \in Servers
         /\ Backend(req) \in {"redfish", "ipmi"}
<1>1. req \in [op : Writes, method : {"GET", "POST"}, token : {AuthToken, NoToken},
               server : Servers \cup {NoServer}, system : Servers \cup {NoServer},
               hasTarget : BOOLEAN, via : Vias]
  <2>1. req \in Request
    BY RequestsAssumption
  <2>2. req \notin [op : {"resolve"}, method : {"GET", "POST"}, token : {AuthToken, NoToken},
                    servers : SUBSET Servers]
    BY DEF Writes
  <2>. QED BY <2>1, <2>2 DEF Request
<1>2. req.server \in Servers \cup {NoServer} /\ req.system \in Servers \cup {NoServer}
  BY <1>1
<1>3. req.server \in Servers
  BY <1>2 DEF Served, WellFormed
<1>4. Backend(req) \in backends
  BY DEF Served
<1>5. backends \subseteq {"redfish", "ipmi"}
  BY DeploymentsAssumption DEF Types
<1>. QED BY <1>2, <1>3, <1>4, <1>5, ServersAssumption DEF Target

(* A resolve request names servers. *)
LEMMA ResolveRequest ==
  ASSUME NEW req \in Requests, req.op = "resolve"
  PROVE  req.servers \in SUBSET Servers
<1>1. req \in [op : {"resolve"}, method : {"GET", "POST"}, token : {AuthToken, NoToken},
               servers : SUBSET Servers]
  <2>1. req \in Request
    BY RequestsAssumption
  <2>2. req \notin [op : Writes, method : {"GET", "POST"}, token : {AuthToken, NoToken},
                    server : Servers \cup {NoServer}, system : Servers \cup {NoServer},
                    hasTarget : BOOLEAN, via : Vias]
    BY DEF Writes
  <2>. QED BY <2>1, <2>2 DEF Request
<1>. QED BY <1>1

(* A new call is added to the history and changes no other. *)
LEMMA NewCall ==
  ASSUME Types, NEW h \in CallHistory, history' = Append(history, h), h.began = Ended,
         \/ h.status = "open" /\ h.ended = 0
         \/ h.status = "refused" /\ h.ended = Ended + 1,
         IF h.op \in Writes THEN h.target \in Servers /\ h.net = "wire" ELSE h.net = "none"
  PROVE  /\ history' \in Seq(CallHistory) /\ HistoryStep
         /\ Len(history) + 1 \in DOMAIN history' /\ Len(history) + 1 \notin DOMAIN history
         /\ history'[Len(history) + 1] = h
         /\ \A n \in DOMAIN history : history'[n] = history[n]
         /\ \A n \in DOMAIN history' : n \notin DOMAIN history => history'[n] = h
<1>1. history \in Seq(CallHistory) /\ Len(history) \in Nat /\ DOMAIN history = 1..Len(history)
  BY DEF Types
<1>2. /\ history' \in Seq(CallHistory) /\ Len(history') = Len(history) + 1
      /\ history'[Len(history) + 1] = h
      /\ \A n \in 1..Len(history) : history'[n] = history[n]
  BY <1>1, AppendProperties
<1>3. DOMAIN history' = 1..(Len(history) + 1)
  BY <1>2
<1>4. \A n \in DOMAIN history' : n \notin DOMAIN history => n = Len(history) + 1
  BY <1>1, <1>3
<1>5. /\ DOMAIN history \subseteq DOMAIN history'
      /\ Len(history) + 1 \in DOMAIN history' /\ Len(history) + 1 \notin DOMAIN history
  BY <1>1, <1>3
<1>6. \A n \in DOMAIN history : CallStep(n)
  BY <1>1, <1>2 DEF CallStep
<1>7. \A n \in DOMAIN history' : n \notin DOMAIN history => CallStarts(n)
  BY <1>2, <1>4 DEF CallStarts
<1>. QED BY <1>1, <1>2, <1>4, <1>5, <1>6, <1>7 DEF HistoryStep

(* One call changes and no other. *)
LEMMA ChangedCall ==
  ASSUME Types, NEW n \in DOMAIN history, NEW h \in CallHistory,
         history' = [history EXCEPT ![n] = h]
  PROVE  /\ history' \in Seq(CallHistory) /\ DOMAIN history' = DOMAIN history
         /\ Len(history') = Len(history) /\ history'[n] = h
         /\ \A m \in DOMAIN history : m # n => history'[m] = history[m]
         /\ CallStep(n) => HistoryStep
<1>1. history \in Seq(CallHistory) /\ n \in 1..Len(history)
  BY DEF Types
<1>2. /\ history' \in Seq(CallHistory) /\ Len(history') = Len(history)
      /\ \A m \in 1..Len(history) : history'[m] = IF m = n THEN h ELSE history[m]
  BY <1>1, ExceptSeq
<1>3. DOMAIN history' = DOMAIN history /\ DOMAIN history = 1..Len(history)
  BY <1>1, <1>2
<1>4. \A m \in DOMAIN history : m # n => history'[m] = history[m]
  BY <1>2, <1>3
<1>5. \A m \in DOMAIN history : m # n => CallStep(m)
  BY <1>4 DEF CallStep
<1>. QED BY <1>2, <1>3, <1>4, <1>5 DEF HistoryStep

-----------------------------------------------------------------------------
(* One lemma per action. *)

(* A new call that is not a recorded one keeps the calls, what was taken    *)
(* and the log as the invariant wants them.                                 *)
LEMMA NewCallKeepsBooks ==
  ASSUME Types, Types', Calls, TakenCovered, LogOrdered,
         NEW h, history' = Append(history, h), h \in CallHistory, h.began = Ended,
         \/ h.status = "open" /\ h.ended = 0
         \/ h.status = "refused" /\ h.ended = Ended + 1,
         IF h.op \in Writes THEN h.target \in Servers /\ h.net = "wire" ELSE h.net = "none",
         hw' = hw, audit' = audit
  PROVE  Calls' /\ TakenCovered' /\ LogOrdered'
<1>1. /\ HistoryStep
      /\ \A n \in DOMAIN history : history'[n] = history[n]
      /\ \A n \in DOMAIN history' : n \notin DOMAIN history => history'[n] = h
  BY NewCall
<1>2. Calls'
  BY <1>1, StepKeepsCalls
<1>3. TakenCovered'
  BY <1>1, StepKeepsTaken
<1>4. \A n \in DOMAIN history' : MustBeLogged(n)' => n \in DOMAIN history /\ MustBeLogged(n)
  BY <1>1 DEF MustBeLogged
<1>5. LogOrdered'
  BY <1>1, <1>4, StepKeepsLog
<1>. QED BY <1>2, <1>3, <1>5

(* Refuse preserves the invariant. *)
LEMMA RefusePreserves ==
  ASSUME IInv, NEW c \in Clients, NEW req \in Requests, Refuse(c, req)
  PROVE  IInv'
<1> DEFINE h == [Call("none", NoServer, "none") EXCEPT !.status = "refused", !.ended = Ended + 1]
<1>1. Types /\ Handlers /\ Calls /\ TakenCovered /\ PreviewsOfOneSignal /\ LogOrdered
  BY DEF IInv
<1>2. Ended \in Nat
  BY <1>1, EndedIsNumber
<1>3. /\ h.op = "none" /\ h.target = NoServer /\ h.status = "refused" /\ h.net = "none"
      /\ h.began = Ended /\ h.ended = Ended + 1
  BY DEF Call
<1>4. h \in CallHistory
  <2>1. Call("none", NoServer, "none") \in CallHistory
    BY <1>2 DEF Call, CallHistory
  <2> DEFINE a == [Call("none", NoServer, "none") EXCEPT !.status = "refused"]
  <2>2. a \in CallHistory
    BY <2>1 DEF CallHistory
  <2>3. h = [a EXCEPT !.ended = Ended + 1]
    BY <2>1 DEF CallHistory
  <2>4. Ended + 1 \in Nat
    BY <1>2
  <2> HIDE DEF a, h
  <2>. QED BY <2>2, <2>3, <2>4 DEF CallHistory
<1>5. /\ history' = Append(history, h) /\ call' = call /\ hw' = hw /\ audit' = audit
      /\ UNCHANGED <<backends, seq, grid, latest, previews>>
  BY DEF Refuse, stress
<1> HIDE DEF h
<1>6. h.op \notin Writes
  BY <1>3 DEF Writes
<1>7. /\ history' \in Seq(CallHistory) /\ HistoryStep
      /\ \A n \in DOMAIN history : history'[n] = history[n]
  BY <1>1, <1>3, <1>4, <1>5, <1>6, NewCall
<1>8. Types'
  BY <1>1, <1>5, <1>7 DEF Types, Idle, Sending, Resolving, CallHistory, AuditEntry
<1>9. Calls' /\ TakenCovered' /\ LogOrdered'
  BY <1>1, <1>3, <1>4, <1>5, <1>6, <1>8, NewCallKeepsBooks
<1>10. Handlers'
  <2>1. DOMAIN history \subseteq DOMAIN history'
    BY <1>7 DEF HistoryStep
  <2>2. \A b \in Clients : call[b] # Idle =>
          /\ call[b].n \in DOMAIN history /\ history'[call[b].n] = history[call[b].n]
    BY <1>1, <1>7, AtWork
  <2>. QED BY <1>1, <1>5, <2>1, <2>2 DEF Handlers, Idle
<1>11. PreviewsOfOneSignal'
  BY <1>1, <1>5 DEF PreviewsOfOneSignal
<1>. QED BY <1>8, <1>9, <1>10, <1>11 DEF IInv

(* Send preserves the invariant. *)
LEMMA SendPreserves ==
  ASSUME IInv, NEW c \in Clients, NEW req \in Requests, Send(c, req)
  PROVE  IInv'
<1> DEFINE h == Call(req.op, Target(req), "wire")
           n == Len(history) + 1
           x == [pc |-> "sending", n |-> n, backend |-> Backend(req), server |-> req.server]
<1>1. Types /\ Handlers /\ Calls /\ TakenCovered /\ PreviewsOfOneSignal /\ LogOrdered
  BY DEF IInv
<1>2. Ended \in Nat
  BY <1>1, EndedIsNumber
<1>3. /\ req.op \in Writes /\ req.server \in Servers /\ Target(req) \in Servers
      /\ Backend(req) \in {"redfish", "ipmi"}
  BY <1>1, SentRequest DEF Send
<1>4. /\ h.op = req.op /\ h.target = Target(req) /\ h.status = "open" /\ h.net = "wire"
      /\ h.began = Ended /\ h.ended = 0
  BY DEF Call
<1>5. h \in CallHistory
  BY <1>2, <1>3 DEF Call, CallHistory
<1>6. n \in Nat
  BY <1>1 DEF Types
<1>7. x \in Sending /\ x.pc = "sending" /\ x.n = n
  BY <1>3, <1>6 DEF Sending
<1>8. /\ history' = Append(history, h) /\ call' = [call EXCEPT ![c] = x]
      /\ hw' = hw /\ audit' = audit
      /\ UNCHANGED <<backends, seq, grid, latest, previews>>
  BY DEF Send, stress
<1> HIDE DEF h, x
<1>9. /\ history' \in Seq(CallHistory) /\ HistoryStep
      /\ n \in DOMAIN history' /\ n \notin DOMAIN history /\ history'[n] = h
      /\ \A m \in DOMAIN history : history'[m] = history[m]
  BY <1>1, <1>3, <1>4, <1>5, <1>8, NewCall
<1>10. /\ call' \in [Clients -> {Idle} \cup Sending \cup Resolving]
       /\ call'[c] = x /\ \A b \in Clients : b # c => call'[b] = call[b]
  BY <1>1, <1>7, <1>8 DEF Types
<1>11. Types'
  BY <1>1, <1>8, <1>9, <1>10 DEF Types, Idle, Sending, Resolving, CallHistory, AuditEntry
<1>12. Calls' /\ TakenCovered' /\ LogOrdered'
  BY <1>1, <1>3, <1>4, <1>5, <1>8, <1>11, NewCallKeepsBooks
<1> HIDE DEF n
<1>13. Handlers'
  <2>1. DOMAIN history \subseteq DOMAIN history'
    BY <1>9 DEF HistoryStep
  <2>2. \A b \in Clients : call[b] # Idle =>
          /\ call[b].n \in DOMAIN history /\ history'[call[b].n] = history[call[b].n]
          /\ call[b].n # n
    BY <1>1, <1>9, AtWork
  <2>3. /\ history'[n].status = "open" /\ history'[n].op \in Writes
        /\ call'[c].n = n /\ call'[c].pc = "sending"
    BY <1>3, <1>4, <1>7, <1>9, <1>10
  <2>. QED BY <1>1, <1>9, <1>10, <2>1, <2>2, <2>3, StepKeepsHandlers
<1>14. PreviewsOfOneSignal'
  BY <1>1, <1>8 DEF PreviewsOfOneSignal
<1>. QED BY <1>11, <1>12, <1>13, <1>14 DEF IInv

(* Preview preserves the invariant. *)
LEMMA PreviewPreserves ==
  ASSUME IInv, NEW c \in Clients, NEW req \in Requests, Preview(c, req)
  PROVE  IInv'
<1> DEFINE h == Call("resolve", NoServer, "none")
           n == Len(history) + 1
           x == [pc |-> "resolving", n |-> n, servers |-> req.servers, signal |-> latest]
<1>1. Types /\ Handlers /\ Calls /\ TakenCovered /\ PreviewsOfOneSignal /\ LogOrdered
  BY DEF IInv
<1>2. Ended \in Nat
  BY <1>1, EndedIsNumber
<1>3. req.servers \in SUBSET Servers /\ latest \in Level
  BY <1>1, ResolveRequest DEF Preview, Types
<1>4. /\ h.op = "resolve" /\ h.status = "open" /\ h.net = "none"
      /\ h.began = Ended /\ h.ended = 0
  BY DEF Call
<1>5. h \in CallHistory
  BY <1>2 DEF Call, CallHistory
<1>6. n \in Nat
  BY <1>1 DEF Types
<1>7. x \in Resolving /\ x.pc = "resolving" /\ x.n = n
  BY <1>3, <1>6 DEF Resolving
<1>8. /\ history' = Append(history, h) /\ call' = [call EXCEPT ![c] = x]
      /\ hw' = hw /\ audit' = audit
      /\ UNCHANGED <<backends, seq, grid, latest, previews>>
  BY DEF Preview, stress
<1> HIDE DEF h, x
<1>15. h.op \notin Writes
  BY <1>4 DEF Writes
<1>9. /\ history' \in Seq(CallHistory) /\ HistoryStep
      /\ n \in DOMAIN history' /\ n \notin DOMAIN history /\ history'[n] = h
      /\ \A m \in DOMAIN history : history'[m] = history[m]
  BY <1>1, <1>4, <1>5, <1>8, <1>15, NewCall
<1>10. /\ call' \in [Clients -> {Idle} \cup Sending \cup Resolving]
       /\ call'[c] = x /\ \A b \in Clients : b # c => call'[b] = call[b]
  BY <1>1, <1>7, <1>8 DEF Types
<1>11. Types'
  BY <1>1, <1>8, <1>9, <1>10 DEF Types, Idle, Sending, Resolving, CallHistory, AuditEntry
<1>12. Calls' /\ TakenCovered' /\ LogOrdered'
  BY <1>1, <1>4, <1>5, <1>8, <1>11, <1>15, NewCallKeepsBooks
<1> HIDE DEF n
<1>13. Handlers'
  <2>1. DOMAIN history \subseteq DOMAIN history'
    BY <1>9 DEF HistoryStep
  <2>2. \A b \in Clients : call[b] # Idle =>
          /\ call[b].n \in DOMAIN history /\ history'[call[b].n] = history[call[b].n]
          /\ call[b].n # n
    BY <1>1, <1>9, AtWork
  <2>3. /\ history'[n].status = "open" /\ history'[n].op = "resolve"
        /\ call'[c].n = n /\ call'[c].pc = "resolving"
    BY <1>4, <1>7, <1>9, <1>10
  <2>. QED BY <1>1, <1>9, <1>10, <2>1, <2>2, <2>3, StepKeepsHandlers
<1>14. PreviewsOfOneSignal'
  BY <1>1, <1>8 DEF PreviewsOfOneSignal
<1>. QED BY <1>11, <1>12, <1>13, <1>14 DEF IInv

(* BmcApplies preserves the invariant: the request it takes has no success  *)
(* reported yet, so what it replaces is covered.                            *)
LEMMA BmcAppliesPreserves ==
  ASSUME IInv, NEW n \in DOMAIN history, BmcApplies(n)
  PROVE  IInv'
<1> DEFINE h == [history[n] EXCEPT !.net = "taken"]
           t == history[n].target
           o == history[n].op
<1>1. Types /\ Handlers /\ Calls /\ TakenCovered /\ PreviewsOfOneSignal /\ LogOrdered
  BY DEF IInv
<1>2. history[n] \in CallHistory /\ history[n].net = "wire"
  BY <1>1 DEF Types, BmcApplies
<1>3. /\ h \in CallHistory /\ h.op = o /\ h.target = t /\ h.status = history[n].status
      /\ h.net = "taken" /\ h.began = history[n].began /\ h.ended = history[n].ended
  BY <1>2 DEF CallHistory
<1>4. history' = [history EXCEPT ![n] = h] /\ hw' = [hw EXCEPT ![t][o] = n]
  BY DEF BmcApplies
<1>5. UNCHANGED <<backends, call, audit, seq, grid, latest, previews>>
  BY DEF BmcApplies, stress
<1>6. o \in Writes /\ t \in Servers /\ history[n].status # "ok"
  BY <1>1, <1>2 DEF Calls, Succeeded
<1> HIDE DEF h
<1>7. /\ history' \in Seq(CallHistory) /\ DOMAIN history' = DOMAIN history
      /\ Len(history') = Len(history) /\ history'[n] = h
      /\ \A m \in DOMAIN history : m # n => history'[m] = history[m]
      /\ CallStep(n) => HistoryStep
  BY <1>1, <1>3, <1>4, ChangedCall
<1>8. HistoryStep
  BY <1>2, <1>3, <1>7 DEF CallStep
<1>9. n \in 1..Len(history) /\ Len(history) \in Nat /\ DOMAIN history = 1..Len(history)
  BY <1>1 DEF Types
<1>10. /\ hw' \in [Servers -> [Writes -> Nat]] /\ hw'[t][o] = n
       /\ \A s \in Servers, op \in Writes : (s = t /\ op = o) \/ hw'[s][op] = hw[s][op]
  <2>1. hw \in [Servers -> [Writes -> Nat]]
    BY <1>1 DEF Types
  <2>2. n \in Nat
    BY <1>9
  <2>3. hw' = [hw EXCEPT ![t] = [hw[t] EXCEPT ![o] = n]]
    BY <1>4
  <2>4. [hw[t] EXCEPT ![o] = n] \in [Writes -> Nat]
    BY <1>6, <2>1, <2>2
  <2> HIDE DEF t, o
  <2>. QED BY <1>6, <2>1, <2>3, <2>4
<1>11. Types'
  BY <1>1, <1>5, <1>7, <1>10 DEF Types, Idle, Sending, Resolving, CallHistory, AuditEntry
<1>12. Calls'
  BY <1>1, <1>8, <1>11, StepKeepsCalls
<1>13. LogOrdered'
  <2>1. \A m \in DOMAIN history' : MustBeLogged(m)' => m \in DOMAIN history /\ MustBeLogged(m)
    BY <1>3, <1>7 DEF MustBeLogged
  <2>. QED BY <1>1, <1>5, <1>8, <2>1, StepKeepsLog
<1>14. Handlers'
  <2>1. \A m \in DOMAIN history :
          /\ history'[m].status = history[m].status /\ history'[m].op = history[m].op
          /\ history[m].net = "taken" => history'[m].net = "taken"
    BY <1>3, <1>7
  <2>. QED BY <1>1, <1>5, <1>7, <2>1 DEF Handlers, Idle
<1>15. TakenCovered'
  <2>1. \A s \in Servers, op \in Writes : hw'[s][op] \in 0..Len(history')
    <3>1. \A s \in Servers, op \in Writes : hw[s][op] \in 0..Len(history)
      BY <1>1 DEF TakenCovered
    <3>2. n \in 0..Len(history)
      BY <1>9
    <3>. QED BY <1>7, <1>10, <3>1, <3>2
  <2>2. ASSUME NEW k \in DOMAIN history', history'[k].net = "taken"
        PROVE  LET m == hw'[history'[k].target][history'[k].op]
               IN /\ m # 0
                  /\ history'[m].status = "ok" => m = k \/ history'[m].ended > history'[k].began
    <3>1. CASE history'[k].target = t /\ history'[k].op = o
      BY <1>3, <1>6, <1>7, <1>9, <1>10, <3>1
    <3>2. CASE ~(history'[k].target = t /\ history'[k].op = o)
      <4> DEFINE m == hw[history[k].target][history[k].op]
      <4>1. k # n /\ k \in DOMAIN history /\ history'[k] = history[k]
        BY <1>3, <1>7, <3>2
      <4>2. m # 0 /\ (history[m].status = "ok" => m = k \/ history[m].ended > history[k].began)
        BY <1>1, <2>2, <4>1 DEF TakenCovered, Succeeded
      <4>3. history[k].target \in Servers /\ history[k].op \in Writes
        BY <1>1, <2>2, <4>1 DEF Calls
      <4>4. m = hw'[history'[k].target][history'[k].op]
        BY <1>10, <3>2, <4>1, <4>3
      <4>5. m \in DOMAIN history
        <5>1. m \in 0..Len(history)
          BY <1>1, <4>3 DEF TakenCovered
        <5> HIDE DEF m
        <5>. QED BY <1>9, <4>2, <5>1
      <4> HIDE DEF m
      <4>6. history'[m].status = history[m].status /\ history'[m].ended = history[m].ended
        BY <1>3, <1>7, <4>5
      <4>. QED BY <4>1, <4>2, <4>4, <4>6
    <3>. QED BY <3>1, <3>2
  <2>. QED BY <2>1, <2>2 DEF TakenCovered, Succeeded
<1>16. PreviewsOfOneSignal'
  BY <1>1, <1>5 DEF PreviewsOfOneSignal
<1>. QED BY <1>11, <1>12, <1>13, <1>14, <1>15, <1>16 DEF IInv

(* Steps that leave the calls and the BMCs alone. *)
LEMMA BooksUnchanged ==
  ASSUME Calls, TakenCovered, LogOrdered, UNCHANGED <<hw, books>>
  PROVE  Calls' /\ TakenCovered' /\ LogOrdered'
<1>1. history' = history /\ audit' = audit /\ hw' = hw
  BY DEF books
<1>2. Ended' = Ended
  BY <1>1 DEF Ended
<1>3. Must' = Must /\ Logged' = Logged
  BY <1>1 DEF Must, Logged, MustBeLogged
<1>4. Calls'
  BY <1>1, <1>2 DEF Calls, Succeeded
<1>5. TakenCovered'
  BY <1>1 DEF TakenCovered, Succeeded
<1>6. LogOrdered'
  BY <1>1, <1>3 DEF LogOrdered
<1>. QED BY <1>4, <1>5, <1>6

(* CallSucceeds, RedfishFails and IpmiFails preserve the invariant. *)
LEMMA ReturnPreserves ==
  ASSUME IInv, NEW c \in Clients,
         CallSucceeds(c) \/ RedfishFails(c) \/ IpmiFails(c)
  PROVE  IInv'
<1>1. Types /\ Handlers /\ Calls /\ TakenCovered /\ PreviewsOfOneSignal /\ LogOrdered
  BY DEF IInv
<1>2. /\ call[c].pc = "sending"
      /\ UNCHANGED <<hw, books>> /\ UNCHANGED <<backends, grid, latest, previews>>
      /\ history' = history /\ audit' = audit /\ seq' = seq
  BY DEF CallSucceeds, RedfishFails, IpmiFails, Fails, stress, books
<1>3. PICK pc \in {"ok", "failed"} : /\ call' = [call EXCEPT ![c].pc = pc]
                                     /\ pc = "ok" => history[call[c].n].net = "taken"
  BY DEF CallSucceeds, RedfishFails, IpmiFails, Fails
<1> DEFINE x == [call[c] EXCEPT !.pc = pc]
<1>4. call[c] # Idle
  BY <1>2 DEF Idle
<1>5. call[c] \in Sending
  <2>1. call[c] \in Sending \cup Resolving
    BY <1>1, <1>4, AtWork
  <2>. QED BY <1>2, <2>1 DEF Resolving
<1>6. x \in Sending /\ x.pc = pc /\ x.n = call[c].n
  BY <1>5 DEF Sending
<1>7. call' = [call EXCEPT ![c] = x]
  BY <1>3
<1> HIDE DEF x
<1>8. /\ call' \in [Clients -> {Idle} \cup Sending \cup Resolving]
      /\ call'[c] = x /\ \A b \in Clients : b # c => call'[b] = call[b]
  BY <1>1, <1>6, <1>7 DEF Types
<1>9. Types'
  BY <1>1, <1>2, <1>8 DEF Types, Idle, Sending, Resolving, CallHistory, AuditEntry
<1>10. Calls' /\ TakenCovered' /\ LogOrdered'
  BY <1>1, <1>2, BooksUnchanged
<1>11. Handlers'
  <2>1. /\ call[c].n \in DOMAIN history /\ history[call[c].n].status = "open"
        /\ history[call[c].n].op \in Writes
        /\ \A b \in Clients : b # c /\ call[b] # Idle => call[b].n # call[c].n
    BY <1>1, <1>2, <1>4, AtWork
  <2>. QED BY <1>1, <1>2, <1>3, <1>6, <1>8, <2>1, StepKeepsHandlers
<1>12. PreviewsOfOneSignal'
  BY <1>1, <1>2 DEF PreviewsOfOneSignal
<1>. QED BY <1>9, <1>10, <1>11, <1>12 DEF IInv

(* What a handler that answers does to its call and to the others. *)
LEMMA CallEnds ==
  ASSUME Types, Types', Handlers, Calls, TakenCovered,
         NEW c \in Clients, call[c] # Idle, NEW n, n = call[c].n,
         NEW status \in {"ok", "failed"},
         history[n].op \in Writes /\ status = "ok" => history[n].net = "taken",
         NEW h, h \in CallHistory, h.status = status, h.ended = Ended + 1, h.op = history[n].op,
         h.target = history[n].target, h.net = history[n].net, h.began = history[n].began,
         history' = [history EXCEPT ![n] = h], call' = [call EXCEPT ![c] = Idle], hw' = hw
  PROVE  /\ HistoryStep /\ Handlers' /\ Calls' /\ TakenCovered'
         /\ DOMAIN history' = DOMAIN history /\ n \in DOMAIN history
         /\ history'[n].op = history[n].op /\ history'[n].status = status
         /\ history'[n].ended = Ended + 1 /\ history[n].status = "open"
         /\ \A m \in DOMAIN history : m # n => history'[m] = history[m]
<1>1. /\ n \in DOMAIN history /\ history[n].status = "open"
      /\ \A b \in Clients : b # c /\ call[b] # Idle =>
           call[b].n # n /\ call[b].n \in DOMAIN history
  BY AtWork
<1>4. /\ DOMAIN history' = DOMAIN history /\ history'[n] = h
      /\ \A m \in DOMAIN history : m # n => history'[m] = history[m]
      /\ CallStep(n) => HistoryStep
  BY <1>1, ChangedCall
<1>5. HistoryStep
  BY <1>1, <1>4 DEF CallStep
<1>6. Calls'
  BY <1>5, StepKeepsCalls
<1>7. TakenCovered'
  BY <1>4, <1>5, StepKeepsTaken
<1>8. Handlers'
  <2>1. call'[c] = Idle /\ \A b \in Clients : b # c => call'[b] = call[b]
    BY DEF Types
  <2>2. \A b \in Clients : b # c /\ call[b] # Idle => history'[call[b].n] = history[call[b].n]
    BY <1>1, <1>4
  <2>. QED BY <1>4, <2>1, <2>2, StepKeepsHandlers
<1>. QED BY <1>1, <1>4, <1>5, <1>6, <1>7, <1>8

(* The types after a handler that answers. *)
LEMMA CallEndsTypes ==
  ASSUME Types, Handlers, NEW c \in Clients, call[c] # Idle, NEW n, n = call[c].n,
         NEW h \in CallHistory,
         history' = [history EXCEPT ![n] = h], call' = [call EXCEPT ![c] = Idle],
         hw' = hw, audit' \in Seq(AuditEntry), seq' \in Nat,
         UNCHANGED <<backends, grid, latest>>
  PROVE  Types'
<1>1. n \in DOMAIN history
  BY AtWork
<1>4. history' \in Seq(CallHistory)
  BY <1>1, ChangedCall
<1>5. call' \in [Clients -> {Idle} \cup Sending \cup Resolving]
  BY DEF Types
<1>. QED BY <1>4, <1>5 DEF Types, Idle, Sending, Resolving, CallHistory, AuditEntry

(* Answer preserves the invariant. *)
LEMMA AnswerPreserves ==
  ASSUME IInv, NEW c \in Clients, Answer(c)
  PROVE  IInv'
<1>0. PICK n : n = call[c].n
  OBVIOUS
<1> DEFINE pc == call[c].pc
           h == [history[n] EXCEPT !.status = pc, !.ended = Ended + 1]
           new == [id |-> seq', call |-> n, server |-> call[c].server]
<1>1. Types /\ Handlers /\ Calls /\ TakenCovered /\ PreviewsOfOneSignal /\ LogOrdered
  BY DEF IInv
<1>2. pc \in {"ok", "failed"} /\ call' = [call EXCEPT ![c] = Idle] /\ hw' = hw
      /\ UNCHANGED <<backends, grid, latest, previews>>
  BY DEF Answer, stress
<1>3. call[c] # Idle
  BY <1>2 DEF Idle
<1>4. /\ n \in DOMAIN history /\ history[n].op \in Writes /\ history[n].status = "open"
      /\ pc = "ok" => history[n].net = "taken"
  BY <1>0, <1>1, <1>2, <1>3, AtWork
<1>5. call[c] \in Sending
  <2>1. call[c] \in Sending \cup Resolving
    BY <1>1, <1>3, AtWork
  <2>. QED BY <1>2, <2>1 DEF Resolving
<1>6. n \in Nat /\ call[c].server \in Servers
  BY <1>0, <1>5 DEF Sending
<1>7. history' = [history EXCEPT ![n] = h]
  BY <1>0 DEF Answer
<1>8. audit \in Seq(AuditEntry) /\ seq \in Nat /\ Len(audit) <= AuditCap
  BY <1>1 DEF Types, LogOrdered
<1>9. /\ Recorded(history[n].op, pc) => seq' = seq + 1 /\ audit' = Trim(Append(audit, new))
      /\ ~Recorded(history[n].op, pc) => UNCHANGED <<audit, seq>>
  BY <1>0 DEF Answer
<1>10. seq' \in Nat
  BY <1>8, <1>9
<1>11. new \in AuditEntry /\ new.call = n
  BY <1>6, <1>10 DEF AuditEntry
<1>17. /\ h \in CallHistory /\ h.status = pc /\ h.ended = Ended + 1 /\ h.op = history[n].op
       /\ h.target = history[n].target /\ h.net = history[n].net /\ h.began = history[n].began
  <2>1. history[n] \in CallHistory /\ Ended + 1 \in Nat /\ pc \in {"ok", "failed", "refused"}
    BY <1>1, <1>2, <1>4, EndedIsNumber DEF Types
  <2> DEFINE a == [history[n] EXCEPT !.status = pc]
  <2>2. /\ a \in CallHistory /\ a.status = pc /\ a.op = history[n].op
        /\ a.target = history[n].target /\ a.net = history[n].net /\ a.began = history[n].began
    BY <2>1 DEF CallHistory
  <2>3. h = [a EXCEPT !.ended = Ended + 1]
    BY <2>1 DEF CallHistory
  <2> HIDE DEF a, h
  <2>4. /\ h \in CallHistory /\ h.ended = Ended + 1 /\ h.status = a.status
        /\ h.op = a.op /\ h.target = a.target /\ h.net = a.net /\ h.began = a.began
    BY <2>1, <2>2, <2>3 DEF CallHistory
  <2>. QED BY <2>2, <2>4
<1> HIDE DEF h, new, pc
<1>12. audit' \in Seq(AuditEntry)
  BY <1>8, <1>9, <1>11, RecordEffect
<1>13. Types'
  BY <1>1, <1>2, <1>3, <1>7, <1>10, <1>12, <1>17, CallEndsTypes, <1>0
<1>14. /\ HistoryStep /\ Handlers' /\ Calls' /\ TakenCovered'
       /\ DOMAIN history' = DOMAIN history
       /\ history'[n].op = history[n].op /\ history'[n].status = pc
       /\ history'[n].ended = Ended + 1
       /\ \A m \in DOMAIN history : m # n => history'[m] = history[m]
  BY <1>1, <1>2, <1>3, <1>4, <1>7, <1>13, <1>17, CallEnds, <1>0
<1>15. LogOrdered'
  <2>1. CASE Recorded(history[n].op, pc)
    <3>1. n \notin Must
      BY <1>4 DEF Must, MustBeLogged
    <3>2. MustBeLogged(n)'
      BY <1>2, <1>4, <1>14, <2>1 DEF MustBeLogged, Recorded
    <3>3. \A m \in DOMAIN history : m # n => (MustBeLogged(m)' <=> MustBeLogged(m))
      BY <1>14 DEF MustBeLogged
    <3>4. Must' = Must \cup {n}
      BY <1>4, <1>14, <3>2, <3>3 DEF Must
    <3>5. \A m \in Must : history'[m].ended = history[m].ended
      BY <1>14, <3>1 DEF Must
    <3>6. Ended \in Nat
      BY <1>1, EndedIsNumber
    <3>. QED BY <1>1, <1>9, <1>11, <1>14, <2>1, <3>1, <3>4, <3>5, <3>6, RecordKeepsLog
  <2>2. CASE ~Recorded(history[n].op, pc)
    <3>1. ~MustBeLogged(n)'
      BY <1>2, <1>14, <2>2 DEF MustBeLogged, Recorded
    <3>2. \A m \in DOMAIN history' : MustBeLogged(m)' => m \in DOMAIN history /\ MustBeLogged(m)
      BY <1>14, <3>1 DEF MustBeLogged
    <3>. QED BY <1>1, <1>9, <1>14, <2>2, <3>2, StepKeepsLog
  <2>. QED BY <2>1, <2>2
<1>16. PreviewsOfOneSignal'
  BY <1>1, <1>2 DEF PreviewsOfOneSignal
<1>. QED BY <1>13, <1>14, <1>15, <1>16 DEF IInv

(* PreviewAnswer preserves the invariant. *)
LEMMA PreviewAnswerPreserves ==
  ASSUME IInv, NEW c \in Clients, PreviewAnswer(c)
  PROVE  IInv'
<1> DEFINE n == call[c].n
           h == [history[n] EXCEPT !.status = "ok", !.ended = Ended + 1]
           p == [signal |-> call[c].signal,
                 actions |-> [s \in call[c].servers |-> Resolve(s, SignalFor(c))]]
<1>1. Types /\ Handlers /\ Calls /\ TakenCovered /\ PreviewsOfOneSignal /\ LogOrdered
  BY DEF IInv
<1>2. /\ call[c].pc = "resolving" /\ call' = [call EXCEPT ![c] = Idle] /\ hw' = hw
      /\ audit' = audit /\ seq' = seq /\ UNCHANGED <<backends, grid, latest>>
      /\ previews' = previews \cup {p}
  BY DEF PreviewAnswer, stress
<1>3. call[c] # Idle
  BY <1>2 DEF Idle
<1>4. n \in DOMAIN history /\ history[n].op = "resolve"
  BY <1>1, <1>2, <1>3, AtWork
<1>5. history' = [history EXCEPT ![n] = h]
  BY DEF PreviewAnswer
<1>6. PreviewsOfOneSignal'
  <2>1. call[c] \in Resolving
    <3>1. call[c] \in Sending \cup Resolving
      BY <1>1, <1>3, AtWork
    <3>. QED BY <1>2, <3>1 DEF Sending
  <2>2. call[c].signal \in Level
    BY <2>1 DEF Resolving
  <2>3. p.signal = call[c].signal /\ \A s \in DOMAIN p.actions : p.actions[s] = Resolve(s, p.signal)
    BY DEF SignalFor
  <2> HIDE DEF p
  <2>4. \A q \in previews' :
          q.signal \in Level /\ \A s \in DOMAIN q.actions : q.actions[s] = Resolve(s, q.signal)
    BY <1>1, <1>2, <2>2, <2>3 DEF PreviewsOfOneSignal
  <2>. QED BY <2>4 DEF PreviewsOfOneSignal, Resolve, Level
<1>12. /\ h \in CallHistory /\ h.status = "ok" /\ h.ended = Ended + 1 /\ h.op = history[n].op
       /\ h.target = history[n].target /\ h.net = history[n].net /\ h.began = history[n].began
  <2>1. history[n] \in CallHistory /\ Ended + 1 \in Nat
    BY <1>1, <1>4, EndedIsNumber DEF Types
  <2> DEFINE a == [history[n] EXCEPT !.status = "ok"]
  <2>2. /\ a \in CallHistory /\ a.status = "ok" /\ a.op = history[n].op
        /\ a.target = history[n].target /\ a.net = history[n].net /\ a.began = history[n].began
    BY <2>1 DEF CallHistory
  <2>3. h = [a EXCEPT !.ended = Ended + 1]
    BY <2>1 DEF CallHistory
  <2> HIDE DEF a, h
  <2>4. /\ h \in CallHistory /\ h.ended = Ended + 1 /\ h.status = a.status
        /\ h.op = a.op /\ h.target = a.target /\ h.net = a.net /\ h.began = a.began
    BY <2>1, <2>2, <2>3 DEF CallHistory
  <2>. QED BY <2>2, <2>4
<1> HIDE DEF n, h, p
<1>7. audit' \in Seq(AuditEntry) /\ seq' \in Nat
  BY <1>1, <1>2 DEF Types
<1>8. Types'
  BY <1>1, <1>2, <1>3, <1>5, <1>7, CallEndsTypes, <1>12 DEF n
<1>9. history[n].op \notin Writes
  BY <1>4 DEF Writes
<1>10. /\ HistoryStep /\ Handlers' /\ Calls' /\ TakenCovered'
       /\ DOMAIN history' = DOMAIN history /\ history'[n].op = history[n].op
       /\ \A m \in DOMAIN history : m # n => history'[m] = history[m]
  BY <1>1, <1>2, <1>3, <1>5, <1>8, <1>9, CallEnds, <1>12 DEF n
<1>11. LogOrdered'
  <2>1. \A m \in DOMAIN history' : MustBeLogged(m)' => m \in DOMAIN history /\ MustBeLogged(m)
    BY <1>9, <1>10 DEF MustBeLogged
  <2>. QED BY <1>1, <1>2, <1>10, <2>1, StepKeepsLog
<1>. QED BY <1>6, <1>8, <1>10, <1>11 DEF IInv

(* Exit preserves the invariant: calls that die are no successes, and are   *)
(* not logged.                                                              *)
LEMMA ExitPreserves ==
  ASSUME IInv, Exit
  PROVE  IInv'
<1>1. Types /\ Handlers /\ Calls /\ TakenCovered /\ PreviewsOfOneSignal /\ LogOrdered
  BY DEF IInv
<1>2. /\ call' = [c \in Clients |-> Idle]
      /\ UNCHANGED <<backends, hw, audit, seq, grid, latest, previews>>
  BY DEF Exit, stress
<1>3. /\ history \in Seq(CallHistory) /\ Len(history) \in Nat /\ DOMAIN history = 1..Len(history)
      /\ \A n \in DOMAIN history : history[n] \in CallHistory
  BY <1>1 DEF Types
<1>4. /\ DOMAIN history' = DOMAIN history
      /\ \A n \in DOMAIN history : history'[n] =
           IF history[n].status = "open" THEN [history[n] EXCEPT !.status = "dead"] ELSE history[n]
  BY DEF Exit
<1>5. ASSUME NEW n \in DOMAIN history
      PROVE  /\ history'[n] \in CallHistory
             /\ history'[n].op = history[n].op /\ history'[n].target = history[n].target
             /\ history'[n].net = history[n].net /\ history'[n].began = history[n].began
             /\ history'[n].ended = history[n].ended
             /\ history'[n].status = IF history[n].status = "open" THEN "dead" ELSE history[n].status
  <2> DEFINE h == [history[n] EXCEPT !.status = "dead"]
  <2>1. history[n] \in CallHistory
    BY <1>3
  <2>2. /\ h \in CallHistory /\ h.status = "dead" /\ h.op = history[n].op
        /\ h.target = history[n].target /\ h.net = history[n].net
        /\ h.began = history[n].began /\ h.ended = history[n].ended
    BY <2>1 DEF CallHistory
  <2>3. history'[n] = IF history[n].status = "open" THEN h ELSE history[n]
    BY <1>4
  <2> HIDE DEF h
  <2>. QED BY <2>1, <2>2, <2>3
<1>6. history' \in Seq(CallHistory)
  <2>1. history' = [n \in 1..Len(history) |-> history'[n]]
    BY <1>3 DEF Exit
  <2>2. \A n \in 1..Len(history) : history'[n] \in CallHistory
    BY <1>3, <1>5
  <2>. QED BY <1>3, <2>1, <2>2, IsASeq
<1>7. HistoryStep
  BY <1>4, <1>5 DEF HistoryStep, CallStep
<1>8. Types'
  BY <1>1, <1>2, <1>6 DEF Types, Idle, Sending, Resolving, CallHistory, AuditEntry
<1>9. Calls'
  BY <1>1, <1>7, <1>8, StepKeepsCalls
<1>10. TakenCovered'
  BY <1>1, <1>2, <1>5, <1>7, <1>8, StepKeepsTaken
<1>11. LogOrdered'
  <2>1. \A n \in DOMAIN history' : MustBeLogged(n)' => n \in DOMAIN history /\ MustBeLogged(n)
    BY <1>4, <1>5 DEF MustBeLogged
  <2>. QED BY <1>1, <1>2, <1>7, <2>1, StepKeepsLog
<1>12. Handlers'
  BY <1>2 DEF Handlers, Idle
<1>13. PreviewsOfOneSignal'
  BY <1>1, <1>2 DEF PreviewsOfOneSignal
<1>. QED BY <1>8, <1>9, <1>10, <1>11, <1>12, <1>13 DEF IInv

(* Steps of the grid, the monitor and the signal, and stuttering. *)
LEMMA QuietPreserves ==
  ASSUME IInv, UNCHANGED <<backends, call, hw, books, previews>>,
         grid' \in Level, latest' \in Level
  PROVE  IInv'
<1>1. Types /\ Handlers /\ Calls /\ TakenCovered /\ PreviewsOfOneSignal /\ LogOrdered
  BY DEF IInv
<1>2. history' = history /\ audit' = audit /\ seq' = seq /\ call' = call /\ hw' = hw
      /\ backends' = backends /\ previews' = previews
  BY DEF books
<1>3. Calls' /\ TakenCovered' /\ LogOrdered'
  BY <1>1, BooksUnchanged
<1>4. Types'
  BY <1>1, <1>2 DEF Types, Idle, Sending, Resolving, CallHistory, AuditEntry
<1>5. Handlers'
  BY <1>1, <1>2 DEF Handlers, Idle
<1>6. PreviewsOfOneSignal'
  BY <1>1, <1>2 DEF PreviewsOfOneSignal
<1>. QED BY <1>3, <1>4, <1>5, <1>6 DEF IInv

(* The invariant holds when the server starts. *)
LEMMA InitEstablishes == Init => IInv
<1> SUFFICES ASSUME Init PROVE IInv
  OBVIOUS
<1>1. Types
  <2>1. "none" \in Level
    BY LevelOrder
  <2>. QED BY <2>1 DEF Init, Types
<1>2. DOMAIN history = {} /\ DOMAIN audit = {} /\ Len(history) = 0 /\ Len(audit) = 0
  BY DEF Init
<1>3. Handlers
  BY DEF Init, Handlers
<1>4. Calls
  BY <1>2 DEF Calls
<1>5. TakenCovered
  BY <1>2 DEF Init, TakenCovered
<1>6. PreviewsOfOneSignal
  BY DEF Init, PreviewsOfOneSignal
<1>7. LogOrdered
  BY <1>2, BoundsAssumption DEF LogOrdered, Logged, Must
<1>. QED BY <1>1, <1>3, <1>4, <1>5, <1>6, <1>7 DEF IInv

-----------------------------------------------------------------------------
(* The invariant is inductive: whatever handlers, BMCs, the grid and the    *)
(* shutdown do, in whatever order, every step keeps it.                     *)
THEOREM InvariantHolds == Spec => []IInv
<1>1. ASSUME IInv, [Next]_vars
      PROVE  IInv'
  <2>0. grid \in Level /\ latest \in Level
    BY <1>1 DEF IInv, Types
  <2>1. CASE \E c \in Clients : CallSucceeds(c) \/ RedfishFails(c) \/ IpmiFails(c)
    BY <1>1, <2>1, ReturnPreserves
  <2>2. CASE \E c \in Clients : Answer(c)
    BY <1>1, <2>2, AnswerPreserves
  <2>3. CASE \E c \in Clients : PreviewAnswer(c)
    BY <1>1, <2>3, PreviewAnswerPreserves
  <2>4. CASE \E c \in Clients, req \in Requests : Refuse(c, req)
    BY <1>1, <2>4, RefusePreserves
  <2>5. CASE \E c \in Clients, req \in Requests : Send(c, req)
    BY <1>1, <2>5, SendPreserves
  <2>6. CASE \E c \in Clients, req \in Requests : Preview(c, req)
    BY <1>1, <2>6, PreviewPreserves
  <2>7. CASE \E n \in DOMAIN history : BmcApplies(n)
    BY <1>1, <2>7, BmcAppliesPreserves
  <2>8. CASE \E level \in Level : GridMoves(level)
    BY <1>1, <2>0, <2>8, QuietPreserves DEF GridMoves
  <2>9. CASE PollOnce
    BY <1>1, <2>0, <2>9, QuietPreserves DEF PollOnce
  <2>10. CASE Signal
    BY <1>1, <2>0, <2>10, QuietPreserves DEF Signal
  <2>11. CASE UNCHANGED vars
    BY <1>1, <2>0, <2>11, QuietPreserves DEF vars, stress
  <2>12. CASE PollFails
    BY <2>11, <2>12 DEF PollFails
  <2>13. CASE ShutdownReturns \/ ShutdownExpires
    BY <1>1, <2>13, ExitPreserves DEF ShutdownReturns, ShutdownExpires
  <2>. QED BY <1>1, <2>1, <2>2, <2>3, <2>4, <2>5, <2>6, <2>7, <2>8, <2>9, <2>10, <2>11,
              <2>12, <2>13 DEF Next, Handler
<1>. QED BY <1>1, InitEstablishes, PTL DEF Spec

(* Every change answered 200 is in the audit log of the hardware API, or    *)
(* the log is full of calls answered later; entries are in the order of the *)
(* answers.                                                                 *)
THEOREM ReportedChangesStayLogged == Spec => []ReportedChangesLogged
<1>1. IInv => ReportedChangesLogged
  BY OrderedLogAgrees DEF IInv
<1>. QED BY <1>1, InvariantHolds, PTL

(* What a BMC holds is never older than the last success a handler          *)
(* reported, with any number of handlers, late and lost requests and a      *)
(* shutdown at any time.                                                    *)
THEOREM SuccessesHold == Spec => []LastSuccessHolds
<1>1. IInv => LastSuccessHolds
  <2> SUFFICES ASSUME Calls, TakenCovered PROVE LastSuccessHolds
    BY DEF IInv
  <2>1. ASSUME NEW n \in DOMAIN history, history[n].op \in Writes, Succeeded(n)
        PROVE  LET m == hw[history[n].target][history[n].op]
               IN /\ m # 0
                  /\ Succeeded(m) => m = n \/ history[m].ended > history[n].began
    <3>1. history[n].net = "taken"
      BY <2>1 DEF Calls
    <3>. QED BY <3>1 DEF TakenCovered
  <2>. QED BY <2>1 DEF LastSuccessHolds
<1>. QED BY <1>1, InvariantHolds, PTL

(* A preview made with a worse signal lets no server draw more, for every   *)
(* nameplate, also those whose caps round to 0.                             *)
THEOREM WorseSignalsDrawLess == Spec => []WorseSignalDrawsLess
<1>1. IInv => WorseSignalDrawsLess
  BY PreviewsOrdered DEF IInv
<1>. QED BY <1>1, InvariantHolds, PTL

=============================================================================
