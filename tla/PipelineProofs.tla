--------------------------- MODULE PipelineProofs ---------------------------
(***************************************************************************)
(* Proofs, for any number of collectors and workers and any buffer sizes,  *)
(* of the safety properties of the ingestion pipeline in module Pipeline.  *)
(***************************************************************************)
EXTENDS Pipeline, FunctionTheorems, SequenceTheorems, FiniteSetTheorems, TLAPS

(* The three phases of a shutdown, and what each of them has waited for.    *)
Phases ==
  /\ closed <=> run \in {"workers", "returned"}
  /\ sinkClosed <=> run = "returned"
  /\ run = "init" => /\ \A s \in Sources : source[s] = "off"
                     /\ \A w \in Workers : worker[w] = "off"
  /\ NoSendAfterClose
  /\ NoWriteAfterSinkClose

(* What a goroutine holds where it is: a sender has a point to send, a      *)
(* flush has points to flush, a worker at its select has room for one more. *)
Holdings ==
  /\ \A s \in Sources : source[s] = "send" => outbox[s] # <<>>
  /\ \A s \in Sources : source[s] = "stopped" => outbox[s] = <<>>
  /\ \A w \in Workers : worker[w] \in {"write", "count", "put"} => batch[w] # <<>>
  /\ \A w \in Workers : worker[w] = "select" => Len(batch[w]) < BatchSize
  /\ \A w \in Workers : worker[w] \in {"off", "stopped"} => batch[w] = <<>>

(* The parts of TypeOK that go together. *)
ControlType ==
  /\ run \in {"init", "serving", "sources", "workers", "returned"}
  /\ {stopCalled, ctxDone, closed, sinkClosed} \subseteq BOOLEAN
SourceType ==
  /\ source \in [Sources -> {"off", "select", "send", "count", "stopped"}]
  /\ polled \in [Sources -> 0..MaxPoints]
  /\ outbox \in [Sources -> Seq(Points)]
  /\ dropped \subseteq Points
BusType == ingest \in Seq(Points) /\ Len(ingest) <= IngestBuffer
WorkerType ==
  /\ worker \in [Workers -> {"off", "select", "write", "count", "put", "stopped"}]
  /\ exiting \in [Workers -> BOOLEAN]
  /\ batch \in [Workers -> Seq(Points)]
  /\ \A w \in Workers : Len(batch[w]) <= BatchSize
  /\ stored \subseteq Points /\ acked \subseteq Points
DeadType ==
  /\ dead \in Seq(Points) /\ Len(dead) <= DeadCap
  /\ replayed \in Seq(Points)
  /\ evicted \subseteq Points
RegType == reg \in [ingested : Nat, written : Nat, batches : Nat, writeErrors : Nat,
                    deadLetters : Nat, pollErrors : Nat]

(* The inductive invariant. *)
IInv ==
  /\ ControlType /\ SourceType /\ BusType /\ WorkerType /\ DeadType /\ RegType
  /\ Phases
  /\ Holdings

(* The elements of a sequence of points are points. *)
LEMMA ElemsArePoints ==
  ASSUME NEW q \in Seq(Points)
  PROVE  Elems(q) \subseteq Points
  BY DEF Elems

-----------------------------------------------------------------------------
(* The invariant holds before Run starts anything.                          *)
LEMMA InitIInv == Init => IInv
<1> SUFFICES ASSUME Init PROVE IInv
  OBVIOUS
<1> USE DEF Init, DL!Init
<1>1. ControlType /\ BusType
  <2>1. ControlType
    BY DEF ControlType
  <2>2. BusType
    BY ConfigAssumption DEF BusType
  <2>. QED BY <2>1, <2>2
<1>2. SourceType
  BY BoundAssumption DEF SourceType
<1>3. WorkerType
  BY ConfigAssumption DEF WorkerType
<1>4. DeadType /\ RegType
  BY ConfigAssumption DEF DeadType, RegType
<1>5. Phases
  BY DEF Phases, NoSendAfterClose, NoWriteAfterSinkClose
<1>6. Holdings
  BY DEF Holdings
<1>. QED BY <1>1, <1>2, <1>3, <1>4, <1>5, <1>6 DEF IInv

(* Run and Stop. *)
LEMMA RunStepIInv ==
  ASSUME IInv, RunStep \/ Stop \/ Cancel
  PROVE  IInv'
<1> USE DEF IInv
<1>0. ControlType /\ SourceType /\ BusType /\ WorkerType /\ DeadType /\ RegType
  OBVIOUS
<1>1. UNCHANGED <<polled, outbox, dropped, ingest, exiting, batch, stored, acked, deadVars, reg>>
  BY DEF RunStep, Start, RunSeesDone, CloseBus, RunReturns, Stop, Cancel, srcVars, bus, workVars
<1>2. BusType' /\ DeadType' /\ RegType'
  BY <1>0, <1>1 DEF BusType, DeadType, RegType, deadVars
<1>3. CASE Start
  <2>1. ControlType'
    BY <1>0, <1>3 DEF ControlType, Start, bus
  <2>2. SourceType' /\ WorkerType'
    BY <1>0, <1>1, <1>3 DEF SourceType, WorkerType, Start
  <2>3. Phases'
    BY <1>3 DEF Phases, Start, bus, NoSendAfterClose, NoWriteAfterSinkClose
  <2>4. Holdings'
    BY <1>1, <1>3, ConfigAssumption DEF Phases, Holdings, Start
  <2>. QED BY <1>2, <2>1, <2>2, <2>3, <2>4
<1>4. CASE Stop \/ Cancel \/ RunSeesDone \/ CloseBus \/ RunReturns
  <2>1. UNCHANGED <<source, worker>>
    BY <1>4 DEF Stop, Cancel, RunSeesDone, CloseBus, RunReturns, srcVars, workVars
  <2>2. SourceType' /\ WorkerType' /\ Holdings'
    BY <1>0, <1>1, <2>1 DEF SourceType, WorkerType, Holdings
  <2>3. ControlType'
    BY <1>0, <1>4 DEF ControlType, Stop, Cancel, RunSeesDone, CloseBus, RunReturns, bus
  <2>4. Phases'
    <3>1. CASE Stop \/ Cancel
      BY <2>1, <3>1 DEF Phases, Stop, Cancel, bus, NoSendAfterClose, NoWriteAfterSinkClose
    <3>2. CASE RunSeesDone
      BY <2>1, <3>2 DEF Phases, RunSeesDone, bus, NoSendAfterClose, NoWriteAfterSinkClose
    <3>3. CASE CloseBus
      BY <2>1, <3>3 DEF Phases, CloseBus, NoSendAfterClose, NoWriteAfterSinkClose
    <3>4. CASE RunReturns
      BY <2>1, <3>4 DEF Phases, RunReturns, bus, NoSendAfterClose, NoWriteAfterSinkClose
    <3>. QED BY <1>4, <3>1, <3>2, <3>3, <3>4
  <2>. QED BY <1>2, <2>2, <2>3, <2>4
<1>. QED BY <1>3, <1>4 DEF RunStep

(* A source that is neither off nor stopped moves to another such place, or *)
(* stops: the phases of the shutdown are not disturbed.                     *)
LEMMA SourcePhases ==
  ASSUME IInv, NEW s \in Sources, source[s] \notin {"off", "stopped"},
         NEW next, source' = [source EXCEPT ![s] = next],
         UNCHANGED <<run, closed, sinkClosed, worker>>
  PROVE  Phases'
<1>1. ~closed /\ run # "init"
  BY DEF IInv, Phases, NoSendAfterClose
<1>. QED BY <1>1 DEF IInv, Phases, NoSendAfterClose, NoWriteAfterSinkClose

(* The same for a worker. *)
LEMMA WorkerPhases ==
  ASSUME IInv, NEW w \in Workers, worker[w] \notin {"off", "stopped"},
         NEW next, worker' = [worker EXCEPT ![w] = next],
         UNCHANGED <<run, closed, sinkClosed, source>>
  PROVE  Phases'
<1>1. ~sinkClosed /\ run # "init"
  BY DEF IInv, Phases, NoWriteAfterSinkClose
<1>. QED BY <1>1 DEF IInv, Phases, NoSendAfterClose, NoWriteAfterSinkClose

(* The collectors. *)
LEMMA SourceStepIInv ==
  ASSUME IInv, NEW s \in Sources, SourceStep(s)
  PROVE  IInv'
<1> USE DEF IInv
<1>0. ControlType /\ SourceType /\ BusType /\ WorkerType /\ DeadType /\ RegType
  OBVIOUS
<1>1. UNCHANGED <<ctl, closed, workVars, deadVars>>
  BY DEF SourceStep, PollFails, Poll, Send, Count, SourceStops, bus
<1>2. ControlType' /\ WorkerType' /\ DeadType'
  BY <1>0, <1>1 DEF ControlType, WorkerType, DeadType, ctl, workVars, deadVars
<1>3. UNCHANGED <<run, closed, sinkClosed, worker, batch>>
  BY <1>1 DEF ctl, workVars
<1>4. CASE PollFails(s)
  <2>1. UNCHANGED <<srcVars, bus>>
    BY <1>4 DEF PollFails
  <2>2. SourceType' /\ BusType'
    BY <1>0, <2>1 DEF SourceType, BusType, srcVars, bus
  <2>3. RegType'
    BY <1>0, <1>4 DEF PollFails, RegType
  <2>4. Phases' /\ Holdings'
    BY <1>3, <2>1 DEF Phases, Holdings, srcVars, NoSendAfterClose, NoWriteAfterSinkClose
  <2>. QED BY <1>2, <2>2, <2>3, <2>4
<1>5. CASE Poll(s)
  <2> DEFINE pts(n) == [i \in 1..n |-> <<s, polled[s] + i>>]
  <2>1. PICK n \in 0..MaxPoll :
          /\ polled[s] + n <= MaxPoints
          /\ polled' = [polled EXCEPT ![s] = polled[s] + n]
          /\ outbox' = [outbox EXCEPT ![s] = pts(n)]
          /\ source' = [source EXCEPT ![s] = IF n = 0 THEN "select" ELSE "send"]
    BY <1>5 DEF Poll
  <2>2. n \in Nat /\ polled[s] \in Nat
    BY <1>0, BoundAssumption DEF SourceType
  <2>3. \A i \in 1..n : <<s, polled[s] + i>> \in Points
    BY <2>1, <2>2, BoundAssumption DEF Points
  <2>4. pts(n) \in Seq(Points) /\ (n # 0 => pts(n) # <<>>)
    <3>1. pts(n) \in [1..n -> Points]
      BY <2>3
    <3>2. pts(n) \in Seq(Points)
      BY <2>2, <3>1, SeqDef
    <3>3. n # 0 => 1 \in DOMAIN pts(n)
      BY <2>2
    <3>. QED BY <3>2, <3>3
  <2> HIDE DEF pts
  <2>5. SourceType'
    <3>1. polled' \in [Sources -> 0..MaxPoints]
      BY <1>0, <2>1, <2>2, BoundAssumption DEF SourceType
    <3>2. outbox' \in [Sources -> Seq(Points)]
      BY <1>0, <2>1, <2>4 DEF SourceType
    <3>3. dropped' \subseteq Points
      BY <1>0, <1>5 DEF Poll, SourceType
    <3>. QED BY <1>0, <2>1, <3>1, <3>2, <3>3 DEF SourceType
  <2>6. BusType' /\ RegType'
    BY <1>0, <1>5 DEF Poll, BusType, RegType, bus
  <2>7. Phases'
    BY <1>3, <1>5, <2>1, SourcePhases DEF Poll
  <2>8. Holdings'
    BY <1>0, <1>3, <2>1, <2>4 DEF Holdings, SourceType
  <2>. QED BY <1>2, <2>5, <2>6, <2>7, <2>8
<1>6. CASE Send(s)
  <2>1. outbox[s] \in Seq(Points) /\ outbox[s] # <<>>
    BY <1>0, <1>6 DEF Send, SourceType, Holdings
  <2>2. Head(outbox[s]) \in Points /\ Tail(outbox[s]) \in Seq(Points)
    BY <2>1, HeadTailProperties
  <2>3. SourceType'
    BY <1>0, <1>6, <2>2 DEF Send, SourceType
  <2>4. BusType'
    BY <1>0, <1>6, <2>2, ConfigAssumption, AppendProperties DEF Send, BusType
  <2>5. RegType'
    BY <1>0, <1>6 DEF Send, RegType
  <2>6. Phases'
    BY <1>3, <1>6, SourcePhases DEF Send
  <2>7. Holdings'
    BY <1>0, <1>3, <1>6 DEF Send, Holdings, SourceType
  <2>. QED BY <1>2, <2>3, <2>4, <2>5, <2>6, <2>7
<1>7. CASE Count(s)
  <2>1. SourceType' /\ BusType'
    BY <1>0, <1>7 DEF Count, SourceType, BusType, bus
  <2>2. RegType'
    BY <1>0, <1>7 DEF Count, RegType
  <2>3. Phases'
    BY <1>3, <1>7, SourcePhases DEF Count
  <2>4. Holdings'
    BY <1>0, <1>3, <1>7 DEF Count, Holdings, SourceType
  <2>. QED BY <1>2, <2>1, <2>2, <2>3, <2>4
<1>8. CASE SourceStops(s)
  <2>1. Elems(outbox[s]) \subseteq Points
    BY <1>0, ElemsArePoints DEF SourceType
  <2>2. SourceType'
    BY <1>0, <1>8, <2>1 DEF SourceStops, SourceType
  <2>3. BusType' /\ RegType'
    BY <1>0, <1>8 DEF SourceStops, BusType, RegType, bus
  <2>4. Phases'
    BY <1>3, <1>8, SourcePhases DEF SourceStops
  <2>5. Holdings'
    BY <1>0, <1>3, <1>8 DEF SourceStops, Holdings, SourceType
  <2>. QED BY <1>2, <2>2, <2>3, <2>4, <2>5
<1>. QED BY <1>4, <1>5, <1>6, <1>7, <1>8 DEF SourceStep

(* The workers. *)
LEMMA WorkerStepIInv ==
  ASSUME IInv, NEW w \in Workers, WorkerStep(w)
  PROVE  IInv'
<1> USE DEF IInv
<1>0. ControlType /\ SourceType /\ BusType /\ WorkerType /\ DeadType /\ RegType
  OBVIOUS
<1>1. UNCHANGED <<ctl, srcVars, closed>>
  BY DEF WorkerStep, Flush, Receive, TimerFires, WorkerLeaves, WriteSucceeds, CountWrite, WriteFails,
         PutDead, bus
<1>2. ControlType' /\ SourceType'
  BY <1>0, <1>1 DEF ControlType, SourceType, ctl, srcVars
<1>3. UNCHANGED <<run, closed, sinkClosed, source, outbox>>
  BY <1>1 DEF ctl, srcVars
<1>4. batch[w] \in Seq(Points) /\ Len(batch[w]) \in Nat /\ Len(batch[w]) <= BatchSize
  BY <1>0 DEF WorkerType
<1>5. CASE Receive(w)
  <2>1. Head(ingest) \in Points /\ Tail(ingest) \in Seq(Points) /\ Len(Tail(ingest)) <= IngestBuffer
    BY <1>0, <1>5, HeadTailProperties, ConfigAssumption DEF Receive, BusType
  <2>2. PICK b : b = Append(batch[w], Head(ingest))
    OBVIOUS
  <2>3. b \in Seq(Points) /\ Len(b) = Len(batch[w]) + 1 /\ b # <<>>
    BY <1>4, <2>1, <2>2, AppendProperties
  <2>4. /\ batch' = [batch EXCEPT ![w] = b]
        /\ worker' = [worker EXCEPT ![w] = IF Len(b) >= BatchSize THEN "write" ELSE "select"]
    BY <1>0, <1>5, <2>2 DEF Receive, WorkerType
  <2>5. Len(b) <= BatchSize
    BY <1>4, <1>5, <2>3, ConfigAssumption DEF Receive, Holdings
  <2>6. WorkerType'
    BY <1>0, <1>5, <2>3, <2>4, <2>5 DEF Receive, WorkerType
  <2>7. BusType' /\ DeadType' /\ RegType'
    BY <1>0, <1>5, <2>1 DEF Receive, BusType, DeadType, RegType, deadVars
  <2>8. Phases'
    BY <1>3, <1>5, <2>4, WorkerPhases DEF Receive
  <2>9. Holdings'
    BY <1>0, <1>3, <2>3, <2>4, ConfigAssumption DEF Holdings, WorkerType
  <2>. QED BY <1>2, <2>6, <2>7, <2>8, <2>9
<1>6. CASE TimerFires(w) \/ WorkerLeaves(w)
  <2>1. BusType' /\ DeadType' /\ RegType'
    BY <1>0, <1>6 DEF TimerFires, WorkerLeaves, BusType, DeadType, RegType, bus, deadVars
  <2>2. WorkerType'
    BY <1>0, <1>6 DEF TimerFires, WorkerLeaves, WorkerType
  <2>3. Phases'
    BY <1>3, <1>6, WorkerPhases DEF TimerFires, WorkerLeaves
  <2>4. Holdings'
    BY <1>0, <1>3, <1>6 DEF TimerFires, WorkerLeaves, Holdings, WorkerType
  <2>. QED BY <1>2, <2>1, <2>2, <2>3, <2>4
<1>7. AfterFlush(w) \in {"select", "stopped"}
  BY DEF AfterFlush
<1>8. CASE WriteSucceeds(w)
  <2>1. Elems(batch[w]) \subseteq Points
    BY <1>4, ElemsArePoints
  <2>2. BusType' /\ DeadType' /\ RegType'
    BY <1>0, <1>8 DEF WriteSucceeds, BusType, DeadType, RegType, bus, deadVars
  <2>3. WorkerType'
    BY <1>0, <1>8, <2>1 DEF WriteSucceeds, WorkerType
  <2>4. Phases'
    BY <1>3, <1>8, WorkerPhases DEF WriteSucceeds
  <2>5. Holdings'
    BY <1>0, <1>3, <1>8 DEF WriteSucceeds, Holdings, WorkerType
  <2>. QED BY <1>2, <2>2, <2>3, <2>4, <2>5
<1>11. CASE CountWrite(w)
  <2>1. Elems(batch[w]) \subseteq Points
    BY <1>4, ElemsArePoints
  <2>2. BusType' /\ DeadType'
    BY <1>0, <1>11 DEF CountWrite, BusType, DeadType, bus, deadVars
  <2>3. RegType'
    <3>1. reg.batches + 1 \in Nat /\ reg.written + Len(batch[w]) \in Nat
      BY <1>0, <1>4 DEF RegType
    <3>2. reg' = [reg EXCEPT !.batches = reg.batches + 1, !.written = reg.written + Len(batch[w])]
      BY <1>0, <1>11 DEF CountWrite, RegType
    <3>. QED BY <1>0, <3>1, <3>2 DEF RegType
  <2>4. WorkerType'
    BY <1>0, <1>7, <1>11, <2>1, ConfigAssumption DEF CountWrite, WorkerType
  <2>5. Phases'
    BY <1>3, <1>11, WorkerPhases DEF CountWrite
  <2>6. Holdings'
    BY <1>0, <1>3, <1>7, <1>11, ConfigAssumption DEF CountWrite, Holdings, WorkerType
  <2>. QED BY <1>2, <2>2, <2>3, <2>4, <2>5, <2>6
<1>9. CASE WriteFails(w)
  <2>1. PICK k \in 0..(Len(batch[w]) - 1) : stored' = stored \cup Elems(SubSeq(batch[w], 1, k))
    BY <1>9 DEF WriteFails
  <2>2. SubSeq(batch[w], 1, k) \in Seq(Points)
    BY <1>4, <2>1
  <2>3. stored' \subseteq Points
    BY <1>0, <2>1, <2>2, ElemsArePoints DEF WorkerType
  <2>4. BusType' /\ DeadType'
    BY <1>0, <1>9 DEF WriteFails, BusType, DeadType, bus, deadVars
  <2>5. RegType'
    BY <1>0, <1>9 DEF WriteFails, RegType
  <2>6. WorkerType'
    BY <1>0, <1>9, <2>3 DEF WriteFails, WorkerType
  <2>7. Phases'
    BY <1>3, <1>9, WorkerPhases DEF WriteFails
  <2>8. Holdings'
    BY <1>0, <1>3, <1>9 DEF WriteFails, Holdings, WorkerType
  <2>. QED BY <1>2, <2>4, <2>5, <2>6, <2>7, <2>8
<1>10. CASE PutDead(w)
  <2>1. batch[w] # <<>>
    BY <1>10 DEF PutDead, Holdings
  <2>2. /\ Head(batch[w]) \in Points /\ Tail(batch[w]) \in Seq(Points)
        /\ Len(Tail(batch[w])) = Len(batch[w]) - 1
    BY <1>4, <2>1, HeadTailProperties
  <2>3. DeadType'
    <3>1. DL!Put(Head(batch[w]))
      BY <1>10 DEF PutDead
    <3>2. CASE Len(dead) >= DeadCap
      <4>1. dead # <<>>
        BY <1>0, <3>2, ConfigAssumption DEF DeadType
      <4>2. /\ Head(dead) \in Points /\ Tail(dead) \in Seq(Points)
            /\ Len(Tail(dead)) = Len(dead) - 1
        BY <1>0, <4>1, HeadTailProperties DEF DeadType
      <4>3. /\ Append(Tail(dead), Head(batch[w])) \in Seq(Points)
            /\ Len(Append(Tail(dead), Head(batch[w]))) <= DeadCap
        BY <1>0, <2>2, <4>2, AppendProperties, ConfigAssumption DEF DeadType
      <4>. QED BY <1>0, <3>1, <3>2, <4>2, <4>3 DEF DeadType, DL!Put
    <3>3. CASE ~(Len(dead) >= DeadCap)
      <4>1. /\ Append(dead, Head(batch[w])) \in Seq(Points)
            /\ Len(Append(dead, Head(batch[w]))) <= DeadCap
        BY <1>0, <2>2, <3>3, AppendProperties, ConfigAssumption DEF DeadType
      <4>. QED BY <1>0, <3>1, <3>3, <4>1 DEF DeadType, DL!Put
    <3>. QED BY <3>2, <3>3
  <2>4. BusType'
    BY <1>0, <1>10 DEF PutDead, BusType, bus
  <2>5. RegType'
    BY <1>0, <1>10 DEF PutDead, RegType
  <2>6. WorkerType'
    BY <1>0, <1>4, <1>7, <1>10, <2>2, ConfigAssumption DEF PutDead, WorkerType
  <2>7. Phases'
    BY <1>3, <1>10, WorkerPhases DEF PutDead
  <2>8. Holdings'
    <3>1. /\ Len(batch[w]) = 1 => Tail(batch[w]) = <<>>
          /\ Len(batch[w]) # 1 => Tail(batch[w]) # <<>>
      <4> DEFINE t == Tail(batch[w])
      <4>1. t \in Seq(Points) /\ Len(t) = Len(batch[w]) - 1
        BY <2>2
      <4> HIDE DEF t
      <4>2. t = <<>> <=> Len(t) = 0
        BY <4>1, EmptySeq
      <4>3. t = <<>> <=> Len(batch[w]) = 1
        BY <1>4, <4>1, <4>2
      <4>. QED BY <4>3 DEF t
    <3>. QED BY <1>0, <1>3, <1>7, <1>10, <3>1, ConfigAssumption DEF PutDead, Holdings, WorkerType
  <2>. QED BY <1>2, <2>3, <2>4, <2>5, <2>6, <2>7, <2>8
<1>. QED BY <1>5, <1>6, <1>8, <1>9, <1>10, <1>11 DEF WorkerStep, Flush

(* The replay goroutine. *)
LEMMA ReplayIInv ==
  ASSUME IInv, Replay
  PROVE  IInv'
<1> USE DEF IInv
<1>1. DeadType'
  BY ConcatProperties, ConfigAssumption DEF Replay, DL!Take, DeadType
<1>2. ControlType' /\ SourceType' /\ BusType' /\ WorkerType' /\ RegType'
  BY DEF Replay, ControlType, SourceType, BusType, WorkerType, RegType, ctl, srcVars, bus, workVars
<1>3. Phases' /\ Holdings'
  BY DEF Replay, Phases, Holdings, NoSendAfterClose, NoWriteAfterSinkClose, ctl, srcVars, bus,
         workVars
<1>. QED BY <1>1, <1>2, <1>3

(* Every step preserves the invariant. *)
LEMMA NextIInv == IInv /\ [Next]_vars => IInv'
<1> SUFFICES ASSUME IInv, [Next]_vars PROVE IInv'
  OBVIOUS
<1>1. CASE UNCHANGED vars
  <2> USE <1>1 DEF IInv, vars, ctl, srcVars, bus, workVars, deadVars
  <2>1. ControlType' /\ SourceType' /\ BusType' /\ WorkerType' /\ DeadType' /\ RegType'
    BY DEF ControlType, SourceType, BusType, WorkerType, DeadType, RegType
  <2>2. Phases' /\ Holdings'
    BY DEF Phases, Holdings, NoSendAfterClose, NoWriteAfterSinkClose
  <2>. QED BY <2>1, <2>2
<1>2. CASE RunStep \/ Stop \/ Cancel
  BY <1>2, RunStepIInv
<1>3. CASE Replay
  BY <1>3, ReplayIInv
<1>4. ASSUME NEW s \in Sources, SourceStep(s) PROVE IInv'
  BY <1>4, SourceStepIInv
<1>5. ASSUME NEW w \in Workers, WorkerStep(w) PROVE IInv'
  BY <1>5, WorkerStepIInv
<1>. QED BY <1>1, <1>2, <1>3, <1>4, <1>5 DEF Next

-----------------------------------------------------------------------------
(* The inductive invariant holds in every reachable state. *)
THEOREM InvariantHolds == Spec => []IInv
<1>1. Init => IInv
  BY InitIInv
<1>2. IInv /\ [Next]_vars => IInv'
  BY NextIInv
<1>. QED BY <1>1, <1>2, PTL DEF Spec

(* Every variable keeps its type; the ingest channel, the batches and the   *)
(* dead-letter sink stay within IngestBuffer, BatchSize and their capacity. *)
THEOREM TypeCorrect == Spec => []TypeOK
<1>1. IInv => TypeOK
  BY DEF IInv, TypeOK, ControlType, SourceType, BusType, WorkerType, DeadType, RegType
<1>. QED BY <1>1, InvariantHolds, PTL

(* Run never closes the ingest channel while a collector could still send   *)
(* on it, so no send ever panics, nor the sink while a worker could write.  *)
THEOREM ClosesAreSafe == Spec => []ClosedAfterUse
<1>1. IInv => ClosedAfterUse
  BY DEF IInv, Phases, ClosedAfterUse
<1>. QED BY <1>1, InvariantHolds, PTL

(* No collector or worker goroutine returns with points in its hands.       *)
THEOREM NothingLeftBehind == Spec => []StoppedHoldNothing
<1>1. IInv => StoppedHoldNothing
  BY DEF IInv, Holdings, StoppedHoldNothing
<1>. QED BY <1>1, InvariantHolds, PTL

-----------------------------------------------------------------------------
(* What becomes of the points: how sequences of points hold them.           *)

(* A sequence without repetitions holds as many points as it is long.       *)
LEMMA ElemsCount ==
  ASSUME NEW q \in Seq(Points), IsInjective(q)
  PROVE  IsFiniteSet(Elems(q)) /\ Cardinality(Elems(q)) = Len(q)
<1> DEFINE n == Len(q)
           T == Elems(q)
<1>1. n \in Nat /\ DOMAIN q = 1..n
  OBVIOUS
<1>2. /\ q \in [1..n -> T]
      /\ \A i, j \in 1..n : q[i] = q[j] => i = j
      /\ \A p \in T : \E i \in 1..n : q[i] = p
  BY <1>1 DEF Elems, IsInjective
<1>3. IsFiniteSet(1..n) /\ Cardinality(1..n) = n
  <2>1. /\ IsFiniteSet(1..n)
        /\ Cardinality(1..n) = IF 1 > n THEN 0 ELSE n - 1 + 1
    BY <1>1, FS_Interval
  <2> HIDE DEF n
  <2>. QED BY <1>1, <2>1
<1> HIDE DEF n, T
<1>4. q \in Bijection(1..n, T)
  BY <1>2, Fun_IsBij
<1>5. ExistsBijection(1..n, T)
  BY <1>4 DEF ExistsBijection
<1>6. IsFiniteSet(T) /\ Cardinality(T) = Cardinality(1..n)
  BY <1>3, <1>5, FS_Bijection
<1>. QED BY <1>3, <1>6 DEF n, T

(* A point appended that was not there. *)
LEMMA AppendElems ==
  ASSUME NEW q \in Seq(Points), NEW p \in Points, IsInjective(q), p \notin Elems(q)
  PROVE  /\ Append(q, p) \in Seq(Points) /\ IsInjective(Append(q, p))
         /\ Elems(Append(q, p)) = Elems(q) \cup {p}
<1> DEFINE r == Append(q, p)
           n == Len(q)
<1>1. /\ r \in Seq(Points) /\ Len(r) = n + 1 /\ r[n + 1] = p /\ n \in Nat
      /\ \A i \in 1..n : r[i] = q[i]
  BY AppendProperties
<1>2. DOMAIN q = 1..n
  OBVIOUS
<1> HIDE DEF r, n
<1>3. DOMAIN r = 1..(n + 1)
  BY <1>1
<1>4. \A i \in DOMAIN r : i \in DOMAIN q \/ i = n + 1
  BY <1>1, <1>2, <1>3
<1>5. \A i \in DOMAIN q : i \in DOMAIN r /\ r[i] = q[i] /\ q[i] \in Elems(q)
  BY <1>1, <1>2, <1>3 DEF Elems
<1>6. n + 1 \in DOMAIN r
  BY <1>1, <1>3
<1>7. Elems(r) = Elems(q) \cup {p}
  BY <1>1, <1>4, <1>5, <1>6 DEF Elems
<1>8. IsInjective(r)
  BY <1>1, <1>4, <1>5 DEF IsInjective
<1>. QED BY <1>1, <1>7, <1>8 DEF r

(* The first point taken off. *)
LEMMA TailElems ==
  ASSUME NEW q \in Seq(Points), q # <<>>, IsInjective(q)
  PROVE  /\ Head(q) \in Points /\ Head(q) \in Elems(q)
         /\ Tail(q) \in Seq(Points) /\ IsInjective(Tail(q)) /\ Len(Tail(q)) = Len(q) - 1
         /\ Elems(Tail(q)) = Elems(q) \ {Head(q)}
<1> DEFINE r == Tail(q)
           n == Len(q)
<1>1. /\ r \in Seq(Points) /\ Len(r) = n - 1 /\ Head(q) \in Points
      /\ \A i \in 1..Len(r) : r[i] = q[i + 1]
  BY HeadTailProperties
<1>2. DOMAIN q = 1..n /\ n \in Nat /\ n >= 1 /\ Head(q) = q[1]
  BY EmptySeq
<1> HIDE DEF r, n
<1>3. DOMAIN r = 1..(n - 1)
  BY <1>1, <1>2
<1>4. ASSUME NEW i \in DOMAIN r
      PROVE  i + 1 \in DOMAIN q /\ r[i] = q[i + 1] /\ i + 1 # 1
  BY <1>1, <1>2, <1>3
<1>5. ASSUME NEW i \in DOMAIN q, i # 1
      PROVE  i - 1 \in DOMAIN r /\ r[i - 1] = q[i]
  <2>1. i - 1 \in 1..(n - 1) /\ (i - 1) + 1 = i
    BY <1>2, <1>5
  <2>. QED BY <1>3, <1>4, <2>1
<1>6. 1 \in DOMAIN q /\ \A i \in DOMAIN q : q[i] = q[1] => i = 1
  BY <1>2 DEF IsInjective
<1>7. Head(q) \in Elems(q)
  BY <1>2, <1>6 DEF Elems
<1>8. Elems(r) = Elems(q) \ {Head(q)}
  BY <1>2, <1>4, <1>5, <1>6 DEF Elems
<1>9. IsInjective(r)
  <2>1. ASSUME NEW i \in DOMAIN r, NEW j \in DOMAIN r, r[i] = r[j] PROVE i = j
    <3>1. i + 1 = j + 1
      BY <1>4, <2>1 DEF IsInjective
    <3>. QED BY <1>3, <3>1
  <2>. QED BY <2>1 DEF IsInjective
<1>. QED BY <1>1, <1>7, <1>8, <1>9 DEF r, n

(* Two sequences that share no point put together. *)
LEMMA ConcatElems ==
  ASSUME NEW q \in Seq(Points), NEW r \in Seq(Points), IsInjective(q), IsInjective(r),
         Elems(q) \cap Elems(r) = {}
  PROVE  /\ q \o r \in Seq(Points) /\ IsInjective(q \o r) /\ Len(q \o r) = Len(q) + Len(r)
         /\ Elems(q \o r) = Elems(q) \cup Elems(r)
<1> DEFINE c == q \o r
           m == Len(q)
           n == Len(r)
<1>1. /\ c \in Seq(Points) /\ Len(c) = m + n
      /\ \A i \in 1..(m + n) : c[i] = IF i <= m THEN q[i] ELSE r[i - m]
  BY ConcatProperties
<1>2. m \in Nat /\ n \in Nat /\ DOMAIN q = 1..m /\ DOMAIN r = 1..n
  OBVIOUS
<1> HIDE DEF c, m, n
<1>3. DOMAIN c = 1..(m + n)
  BY <1>1
<1>4. ASSUME NEW i \in DOMAIN c, i <= m
      PROVE  i \in DOMAIN q /\ c[i] = q[i] /\ c[i] \in Elems(q)
  <2>1. i \in DOMAIN q /\ c[i] = q[i]
    BY <1>1, <1>2, <1>3, <1>4
  <2>. QED BY <2>1 DEF Elems
<1>5. ASSUME NEW i \in DOMAIN c, ~(i <= m)
      PROVE  i - m \in DOMAIN r /\ c[i] = r[i - m] /\ c[i] \in Elems(r)
  <2>1. i - m \in DOMAIN r
    BY <1>2, <1>3, <1>5
  <2>2. c[i] = r[i - m]
    BY <1>1, <1>3, <1>5
  <2>. QED BY <2>1, <2>2 DEF Elems
<1>6. ASSUME NEW i \in DOMAIN q PROVE i \in DOMAIN c /\ c[i] = q[i]
  <2>1. i \in DOMAIN c /\ i <= m
    BY <1>2, <1>3
  <2>. QED BY <1>4, <2>1
<1>7. ASSUME NEW i \in DOMAIN r PROVE i + m \in DOMAIN c /\ c[i + m] = r[i]
  <2>1. i + m \in DOMAIN c /\ ~(i + m <= m) /\ (i + m) - m = i
    BY <1>2, <1>3
  <2>2. c[i + m] = r[(i + m) - m]
    BY <1>5, <2>1
  <2>. QED BY <2>1, <2>2
<1>8. Elems(c) = Elems(q) \cup Elems(r)
  <2>1. \A i \in DOMAIN c : c[i] \in Elems(q) \cup Elems(r)
    BY <1>4, <1>5
  <2>2. Elems(q) \subseteq Elems(c)
    BY <1>6 DEF Elems
  <2>3. Elems(r) \subseteq Elems(c)
    BY <1>7 DEF Elems
  <2>4. Elems(c) \subseteq Elems(q) \cup Elems(r)
    <3>1. \A x \in Elems(c) : \E i \in DOMAIN c : x = c[i]
      BY DEF Elems
    <3>. QED BY <2>1, <3>1
  <2>. QED BY <2>2, <2>3, <2>4
<1>9. IsInjective(c)
  <2>1. ASSUME NEW i \in DOMAIN c, NEW j \in DOMAIN c, c[i] = c[j] PROVE i = j
    <3>1. CASE i <= m /\ j <= m
      BY <1>4, <2>1, <3>1 DEF IsInjective
    <3>2. CASE ~(i <= m) /\ ~(j <= m)
      <4>1. i - m = j - m
        BY <1>5, <2>1, <3>2 DEF IsInjective
      <4>. QED BY <1>2, <1>3, <4>1
    <3>3. CASE (i <= m /\ ~(j <= m)) \/ (~(i <= m) /\ j <= m)
      BY <1>4, <1>5, <2>1, <3>3
    <3>. QED BY <3>1, <3>2, <3>3
  <2>. QED BY <2>1 DEF IsInjective
<1>. QED BY <1>1, <1>8, <1>9 DEF c, m, n

-----------------------------------------------------------------------------
(* The places points can be in, as a function. *)
AtSource(s) == <<"source", s>>
AtWorker(w) == <<"worker", w>>
AtStore(x) == <<"store", x>>
Where == [a \in Place |-> Held(a)]
All(F) == UNION {F[a] : a \in Place}
Disjoint(F) == \A a, b \in Place : a # b => F[a] \cap F[b] = {}
NoRepeats ==
  /\ \A s \in Sources : IsInjective(outbox[s])
  /\ \A w \in Workers : IsInjective(batch[w])
  /\ IsInjective(ingest) /\ IsInjective(dead) /\ IsInjective(replayed)

(* There are these places, and no two of them are the same. *)
LEMMA Places ==
  /\ \A s \in Sources : AtSource(s) \in Place
  /\ \A w \in Workers : AtWorker(w) \in Place
  /\ \A x \in Stores : AtStore(x) \in Place
  /\ \A s, u : AtSource(s) = AtSource(u) => s = u
  /\ \A w, v : AtWorker(w) = AtWorker(v) => w = v
  /\ \A x, y : AtStore(x) = AtStore(y) => x = y
  /\ \A s, w : AtSource(s) # AtWorker(w) /\ AtSource(s) # AtStore(w) /\ AtWorker(s) # AtStore(w)
  /\ \A a \in Place : \/ \E s \in Sources : a = AtSource(s)
                      \/ \E w \in Workers : a = AtWorker(w)
                      \/ \E x \in Stores : a = AtStore(x)
  BY DEF Place, AtSource, AtWorker, AtStore

(* What each of them holds, before and after a step. *)
LEMMA Contents ==
  /\ \A s \in Sources : Where[AtSource(s)] = Elems(outbox[s])
  /\ \A w \in Workers : Where[AtWorker(w)] = Elems(batch[w])
  /\ Where[AtStore("bus")] = Elems(ingest)
  /\ Where[AtStore("dead")] = Elems(dead)
  /\ Where[AtStore("replayed")] = Elems(replayed)
  /\ Where[AtStore("evicted")] = evicted
  /\ Where[AtStore("acked")] = acked
  /\ Where[AtStore("dropped")] = dropped
<1>1. \A a \in Place : Where[a] = Held(a)
  BY DEF Where
<1>2. /\ \A s : Held(AtSource(s)) = Elems(outbox[s])
      /\ \A w : Held(AtWorker(w)) = Elems(batch[w])
      /\ \A x : Held(AtStore(x)) = InStore[x]
  BY DEF Held, AtSource, AtWorker, AtStore
<1>3. /\ InStore["bus"] = Elems(ingest) /\ InStore["dead"] = Elems(dead)
      /\ InStore["replayed"] = Elems(replayed) /\ InStore["evicted"] = evicted
      /\ InStore["acked"] = acked /\ InStore["dropped"] = dropped
  BY DEF InStore
<1>. QED BY <1>1, <1>2, <1>3, Places DEF Stores

(* The same, after a step. *)
LEMMA ContentsAfter ==
  /\ \A s \in Sources : Where'[AtSource(s)] = Elems(outbox'[s])
  /\ \A w \in Workers : Where'[AtWorker(w)] = Elems(batch'[w])
  /\ Where'[AtStore("bus")] = Elems(ingest')
  /\ Where'[AtStore("dead")] = Elems(dead')
  /\ Where'[AtStore("replayed")] = Elems(replayed')
  /\ Where'[AtStore("evicted")] = evicted'
  /\ Where'[AtStore("acked")] = acked'
  /\ Where'[AtStore("dropped")] = dropped'
<1>1. \A a \in Place : Where'[a] = Held(a)'
  BY DEF Where, Place, Stores
<1>2. /\ \A s : Held(AtSource(s))' = Elems(outbox'[s])
      /\ \A w : Held(AtWorker(w))' = Elems(batch'[w])
      /\ \A x : Held(AtStore(x))' = InStore'[x]
  BY DEF Held, AtSource, AtWorker, AtStore, Elems
<1>3. /\ InStore'["bus"] = Elems(ingest') /\ InStore'["dead"] = Elems(dead')
      /\ InStore'["replayed"] = Elems(replayed') /\ InStore'["evicted"] = evicted'
      /\ InStore'["acked"] = acked' /\ InStore'["dropped"] = dropped'
  BY DEF InStore, Elems
<1>. QED BY <1>1, <1>2, <1>3, Places DEF Stores

(* EveryPointOnce in these terms. *)
LEMMA OnceByPlace ==
  EveryPointOnce <=> All(Where) = Polled /\ Disjoint(Where) /\ NoRepeats
<1>1. \A a \in Place : Where[a] = Held(a)
  BY DEF Where
<1>2. {Where[a] : a \in Place} = {Held(a) : a \in Place}
  BY <1>1
<1>. QED BY <1>1, <1>2 DEF EveryPointOnce, All, Disjoint, NoRepeats

(* And after a step. *)
LEMMA OnceByPlaceAfter ==
  EveryPointOnce' <=> All(Where') = Polled' /\ Disjoint(Where') /\ NoRepeats'
<1>1. \A a \in Place : Where'[a] = Held(a)'
  BY DEF Where, Place, Stores
<1>2. {Where'[a] : a \in Place} = {Held(a)' : a \in Place}
  BY <1>1
<1>. QED BY <1>1, <1>2 DEF EveryPointOnce, All, Disjoint, NoRepeats, Place, Stores

(* From F to G, the points P move from one place to another. *)
Moved(F, G, from, to, P) ==
  /\ from \in Place /\ to \in Place /\ from # to
  /\ P \subseteq F[from] /\ G[from] = F[from] \ P /\ G[to] = F[to] \cup P
  /\ \A a \in Place : a # from /\ a # to => G[a] = F[a]

(* Points that move from one place to another leave every point in one.     *)
LEMMA Transfer ==
  ASSUME NEW F, NEW G, NEW from, NEW to, NEW P, Moved(F, G, from, to, P), Disjoint(F)
  PROVE  Disjoint(G) /\ All(G) = All(F)
<1> USE DEF Moved
<1>1. ASSUME NEW a \in Place, NEW b \in Place, a # b, NEW x \in G[a], x \in G[b]
      PROVE  FALSE
  <2>1. CASE a = to
    <3>1. CASE b = from
      BY <1>1, <2>1, <3>1 DEF Disjoint
    <3>2. CASE b # from
      BY <1>1, <2>1, <3>2 DEF Disjoint
    <3>. QED BY <3>1, <3>2
  <2>2. CASE b = to
    <3>1. CASE a = from
      BY <1>1, <2>2, <3>1 DEF Disjoint
    <3>2. CASE a # from
      BY <1>1, <2>2, <3>2 DEF Disjoint
    <3>. QED BY <3>1, <3>2
  <2>3. CASE a # to /\ b # to
    <3>1. x \in F[a] /\ x \in F[b]
      BY <1>1, <2>3
    <3>. QED BY <1>1, <3>1 DEF Disjoint
  <2>. QED BY <2>1, <2>2, <2>3
<1>2. Disjoint(G)
  BY <1>1 DEF Disjoint
<1>3. ASSUME NEW a \in Place, NEW x \in F[a] PROVE \E b \in Place : x \in G[b]
  BY <1>3
<1>4. ASSUME NEW a \in Place, NEW x \in G[a] PROVE \E b \in Place : x \in F[b]
  BY <1>4
<1>. QED BY <1>2, <1>3, <1>4 DEF All

(* New points in one place. *)
LEMMA Arrival ==
  ASSUME NEW F, NEW G, NEW to \in Place, NEW P, P \cap All(F) = {}, Disjoint(F),
         G[to] = F[to] \cup P, \A a \in Place : a # to => G[a] = F[a]
  PROVE  Disjoint(G) /\ All(G) = All(F) \cup P
<1>1. \A a \in Place : F[a] \cap P = {}
  BY DEF All
<1>2. Disjoint(G)
  BY <1>1 DEF Disjoint
<1>3. ASSUME NEW a \in Place, NEW x \in F[a] PROVE \E b \in Place : x \in G[b]
  BY <1>3
<1>4. ASSUME NEW a \in Place, NEW x \in G[a] PROVE x \in P \/ \E b \in Place : x \in F[b]
  BY <1>4
<1>. QED BY <1>2, <1>3, <1>4 DEF All

-----------------------------------------------------------------------------
(* A collector between two polls has nothing left to send. *)
Resting == \A s \in Sources : source[s] \in {"off", "select", "stopped"} => outbox[s] = <<>>

(* Steps that move no point. *)
LEMMA QuietOnce ==
  ASSUME EveryPointOnce,
         UNCHANGED <<polled, outbox, dropped, ingest, batch, acked, dead, replayed, evicted>>
  PROVE  EveryPointOnce'
<1>1. \A a \in Place : Where'[a] = Where[a]
  BY Places, Contents, ContentsAfter DEF Stores
<1>2. {Where'[a] : a \in Place} = {Where[a] : a \in Place}
  BY <1>1
<1>3. All(Where') = All(Where) /\ (Disjoint(Where) => Disjoint(Where'))
  BY <1>1, <1>2 DEF All, Disjoint
<1>4. Polled' = Polled
  BY DEF Polled
<1>5. NoRepeats => NoRepeats'
  BY DEF NoRepeats
<1>. QED BY <1>3, <1>4, <1>5, OnceByPlace, OnceByPlaceAfter

(* A poll brings in points that were nowhere before. *)
LEMMA PollOnce ==
  ASSUME IInv, Resting, EveryPointOnce, NEW s \in Sources, Poll(s)
  PROVE  EveryPointOnce'
<1> DEFINE pts(n) == [i \in 1..n |-> <<s, polled[s] + i>>]
<1>1. PICK n \in 0..MaxPoll :
        /\ polled[s] + n <= MaxPoints
        /\ polled' = [polled EXCEPT ![s] = polled[s] + n]
        /\ outbox' = [outbox EXCEPT ![s] = pts(n)]
  BY DEF Poll
<1>2. /\ UNCHANGED <<dropped, ingest, batch, acked, dead, replayed, evicted>>
      /\ source[s] = "select"
  BY DEF Poll, bus, workVars, deadVars
<1>3. /\ polled \in [Sources -> 0..MaxPoints] /\ outbox \in [Sources -> Seq(Points)]
      /\ n \in Nat /\ polled[s] \in Nat /\ MaxPoints \in Nat
  BY BoundAssumption DEF IInv, SourceType
<1>4. outbox[s] = <<>> /\ Elems(outbox[s]) = {}
  BY <1>2 DEF Resting, Elems
<1> DEFINE P == {<<s, k>> : k \in (polled[s] + 1)..(polled[s] + n)}
<1>5. Elems(pts(n)) = P /\ IsInjective(pts(n))
  <2>1. DOMAIN pts(n) = 1..n /\ \A i \in 1..n : pts(n)[i] = <<s, polled[s] + i>>
    OBVIOUS
  <2> HIDE DEF pts
  <2>2. \A i \in 1..n : pts(n)[i] \in P
    <3>1. \A i \in 1..n : polled[s] + i \in (polled[s] + 1)..(polled[s] + n)
      BY <1>3
    <3>. QED BY <2>1, <3>1
  <2>3. ASSUME NEW k \in (polled[s] + 1)..(polled[s] + n)
        PROVE  \E i \in 1..n : pts(n)[i] = <<s, k>>
    <3>1. k - polled[s] \in 1..n /\ polled[s] + (k - polled[s]) = k
      BY <1>3
    <3>. QED BY <2>1, <3>1
  <2>4. Elems(pts(n)) = P
    BY <2>1, <2>2, <2>3 DEF Elems
  <2>5. ASSUME NEW i \in 1..n, NEW j \in 1..n, pts(n)[i] = pts(n)[j] PROVE i = j
    <3>1. polled[s] + i = polled[s] + j
      BY <2>1, <2>5
    <3>. QED BY <1>3, <3>1
  <2>. QED BY <2>1, <2>4, <2>5 DEF IsInjective
<1>6. Polled' = Polled \cup P /\ Polled \cap P = {}
  <2>1. \A u \in Sources : polled'[u] = IF u = s THEN polled[s] + n ELSE polled[u]
    BY <1>1, <1>3
  <2>2. ASSUME NEW u \in Sources, NEW k \in 1..MaxPoints
        PROVE  <<u, k>> \in Polled' <=> <<u, k>> \in Polled \/ <<u, k>> \in P
    <3>1. <<u, k>> \in Polled <=> k <= polled[u]
      BY DEF Polled, Points
    <3>2. <<u, k>> \in Polled' <=> k <= polled'[u]
      BY DEF Polled, Points
    <3>3. <<u, k>> \in P <=> u = s /\ k \in (polled[s] + 1)..(polled[s] + n)
      OBVIOUS
    <3> HIDE DEF P
    <3>. QED BY <1>3, <2>1, <3>1, <3>2, <3>3
  <2>3. P \subseteq Points
    BY <1>1, <1>3 DEF Points
  <2>4. Polled \subseteq Points /\ Polled' \subseteq Points
    BY DEF Polled, Points
  <2>5. Polled \cap P = {}
    BY <1>3 DEF Polled
  <2> HIDE DEF P
  <2>6. \A p \in Points : \E u \in Sources, k \in 1..MaxPoints : p = <<u, k>>
    BY DEF Points
  <2>7. \A p \in Points : p \in Polled' <=> p \in Polled \/ p \in P
    BY <2>2, <2>6
  <2>. QED BY <2>3, <2>4, <2>5, <2>7
<1> HIDE DEF P, pts
<1>7. /\ Where'[AtSource(s)] = Where[AtSource(s)] \cup P
      /\ \A a \in Place : a # AtSource(s) => Where'[a] = Where[a]
  <2>1. Where'[AtSource(s)] = Where[AtSource(s)] \cup P
    BY <1>1, <1>3, <1>4, <1>5, Contents, ContentsAfter
  <2>2. \A u \in Sources : u # s => outbox'[u] = outbox[u]
    BY <1>1, <1>3
  <2>. QED BY <1>2, <2>1, <2>2, Places, Contents, ContentsAfter DEF Stores
<1>8. Disjoint(Where') /\ All(Where') = Polled'
  <2>1. Disjoint(Where) /\ All(Where) = Polled
    BY OnceByPlace
  <2>2. AtSource(s) \in Place
    BY Places
  <2>3. P \cap All(Where) = {}
    BY <1>6, <2>1
  <2>4. Disjoint(Where') /\ All(Where') = All(Where) \cup P
    <3>1. PICK F : F = Where
      OBVIOUS
    <3>2. PICK G : G = Where'
      OBVIOUS
    <3>3. PICK Q, to : Q = P /\ to = AtSource(s)
      OBVIOUS
    <3>4. Q \cap All(F) = {} /\ Disjoint(F) /\ to \in Place
      BY <2>1, <2>2, <2>3, <3>1, <3>3
    <3>5. G[to] = F[to] \cup Q /\ \A a \in Place : a # to => G[a] = F[a]
      BY <1>7, <3>1, <3>2, <3>3
    <3>6. Disjoint(G) /\ All(G) = All(F) \cup Q
      BY <3>4, <3>5, Arrival
    <3>. QED BY <3>1, <3>2, <3>3, <3>6
  <2>. QED BY <1>6, <2>1, <2>4
<1>9. NoRepeats'
  BY <1>1, <1>2, <1>3, <1>5, OnceByPlace DEF NoRepeats
<1>. QED BY <1>8, <1>9, OnceByPlaceAfter

(* A step that moves points from one place to another. *)
LEMMA Moves ==
  ASSUME EveryPointOnce, NEW from \in Place, NEW to \in Place, from # to,
         NEW P, P \subseteq Where[from],
         Where'[from] = Where[from] \ P, Where'[to] = Where[to] \cup P,
         \A a \in Place : a # from /\ a # to => Where'[a] = Where[a],
         polled' = polled, NoRepeats'
  PROVE  EveryPointOnce'
<1>1. Disjoint(Where) /\ All(Where) = Polled
  BY OnceByPlace
<1>2. PICK F : F = Where
  OBVIOUS
<1>3. PICK G : G = Where'
  OBVIOUS
<1>4. Disjoint(F) /\ Moved(F, G, from, to, P)
  BY <1>1, <1>2, <1>3 DEF Moved
<1>5. Disjoint(G) /\ All(G) = All(F)
  BY <1>4, Transfer
<1>6. Polled' = Polled
  BY DEF Polled
<1>7. Disjoint(Where') /\ All(Where') = Polled'
  BY <1>1, <1>2, <1>3, <1>5, <1>6
<1>. QED BY <1>7, OnceByPlaceAfter

(* A point sent goes from its collector to the bus. *)
LEMMA SendOnce ==
  ASSUME IInv, EveryPointOnce, NEW s \in Sources, Send(s)
  PROVE  EveryPointOnce'
<1>1. /\ UNCHANGED <<polled, dropped, batch, acked, dead, replayed, evicted>>
      /\ ingest' = Append(ingest, Head(outbox[s]))
      /\ outbox' = [outbox EXCEPT ![s] = Tail(outbox[s])]
      /\ source[s] = "send"
  BY DEF Send, workVars, deadVars
<1>2. /\ outbox \in [Sources -> Seq(Points)] /\ ingest \in Seq(Points)
      /\ outbox[s] \in Seq(Points) /\ outbox[s] # <<>>
  BY <1>1 DEF IInv, SourceType, BusType, Holdings
<1>3. NoRepeats /\ Disjoint(Where)
  BY OnceByPlace
<1>4. PICK p : p = Head(outbox[s])
  OBVIOUS
<1>5. /\ p \in Points /\ p \in Elems(outbox[s]) /\ IsInjective(Tail(outbox[s]))
      /\ Elems(Tail(outbox[s])) = Elems(outbox[s]) \ {p}
  BY <1>2, <1>3, <1>4, TailElems DEF NoRepeats
<1>6. p \notin Elems(ingest)
  BY <1>3, <1>5, Places, Contents DEF Disjoint, Stores
<1>7. Elems(ingest') = Elems(ingest) \cup {p} /\ IsInjective(ingest')
  BY <1>1, <1>2, <1>3, <1>4, <1>5, <1>6, AppendElems DEF NoRepeats
<1>8. /\ outbox'[s] = Tail(outbox[s])
      /\ \A u \in Sources : u # s => outbox'[u] = outbox[u]
  BY <1>1, <1>2
<1>9. NoRepeats'
  BY <1>1, <1>3, <1>5, <1>7, <1>8 DEF NoRepeats
<1>10. PICK from, to, P : from = AtSource(s) /\ to = AtStore("bus") /\ P = {p}
  OBVIOUS
<1>11. from \in Place /\ to \in Place /\ from # to
  BY <1>10, Places DEF Stores
<1>12. /\ P \subseteq Where[from] /\ Where'[from] = Where[from] \ P
       /\ Where'[to] = Where[to] \cup P
  BY <1>5, <1>7, <1>8, <1>10, Contents, ContentsAfter
<1>13. \A a \in Place : a # from /\ a # to => Where'[a] = Where[a]
  BY <1>1, <1>8, <1>10, Places, Contents, ContentsAfter DEF Stores
<1>. QED BY <1>1, <1>9, <1>11, <1>12, <1>13, Moves

(* A collector that stops drops the points it had not sent. *)
LEMMA SourceStopsOnce ==
  ASSUME IInv, EveryPointOnce, NEW s \in Sources, SourceStops(s)
  PROVE  EveryPointOnce'
<1>1. /\ UNCHANGED <<polled, ingest, batch, acked, dead, replayed, evicted>>
      /\ dropped' = dropped \cup Elems(outbox[s])
      /\ outbox' = [outbox EXCEPT ![s] = <<>>]
  BY DEF SourceStops, bus, workVars, deadVars
<1>2. outbox \in [Sources -> Seq(Points)]
  BY DEF IInv, SourceType
<1>3. Elems(<<>>) = {} /\ IsInjective(<<>>)
  BY DEF Elems, IsInjective
<1>4. outbox'[s] = <<>> /\ \A u \in Sources : u # s => outbox'[u] = outbox[u]
  BY <1>1, <1>2
<1>5. NoRepeats'
  BY <1>1, <1>3, <1>4, OnceByPlace DEF NoRepeats
<1>6. PICK from, to, P : from = AtSource(s) /\ to = AtStore("dropped") /\ P = Elems(outbox[s])
  OBVIOUS
<1>7. from \in Place /\ to \in Place /\ from # to
  BY <1>6, Places DEF Stores
<1>8. /\ P \subseteq Where[from] /\ Where'[from] = Where[from] \ P
      /\ Where'[to] = Where[to] \cup P
  BY <1>1, <1>3, <1>4, <1>6, Contents, ContentsAfter
<1>9. \A a \in Place : a # from /\ a # to => Where'[a] = Where[a]
  BY <1>1, <1>4, <1>6, Places, Contents, ContentsAfter DEF Stores
<1>. QED BY <1>1, <1>5, <1>7, <1>8, <1>9, Moves

(* A point received goes from the bus to the worker's batch. *)
LEMMA ReceiveOnce ==
  ASSUME IInv, EveryPointOnce, NEW w \in Workers, Receive(w)
  PROVE  EveryPointOnce'
<1>1. /\ UNCHANGED <<polled, outbox, dropped, acked, dead, replayed, evicted>>
      /\ ingest # <<>> /\ ingest' = Tail(ingest)
      /\ batch' = [batch EXCEPT ![w] = Append(batch[w], Head(ingest))]
  BY DEF Receive, srcVars, deadVars
<1>2. batch \in [Workers -> Seq(Points)] /\ batch[w] \in Seq(Points) /\ ingest \in Seq(Points)
  BY DEF IInv, WorkerType, BusType
<1>3. NoRepeats /\ Disjoint(Where)
  BY OnceByPlace
<1>4. PICK p : p = Head(ingest)
  OBVIOUS
<1>5. /\ p \in Points /\ p \in Elems(ingest) /\ IsInjective(ingest')
      /\ Elems(ingest') = Elems(ingest) \ {p}
  BY <1>1, <1>2, <1>3, <1>4, TailElems DEF NoRepeats
<1>6. p \notin Elems(batch[w])
  BY <1>3, <1>5, Places, Contents DEF Disjoint, Stores
<1>7. /\ Elems(Append(batch[w], p)) = Elems(batch[w]) \cup {p}
      /\ IsInjective(Append(batch[w], p))
  BY <1>2, <1>3, <1>5, <1>6, AppendElems DEF NoRepeats
<1>8. /\ batch'[w] = Append(batch[w], p)
      /\ \A v \in Workers : v # w => batch'[v] = batch[v]
  BY <1>1, <1>2, <1>4
<1>9. NoRepeats'
  BY <1>1, <1>3, <1>5, <1>7, <1>8 DEF NoRepeats
<1>10. PICK from, to, P : from = AtStore("bus") /\ to = AtWorker(w) /\ P = {p}
  OBVIOUS
<1>11. from \in Place /\ to \in Place /\ from # to
  BY <1>10, Places DEF Stores
<1>12. /\ P \subseteq Where[from] /\ Where'[from] = Where[from] \ P
       /\ Where'[to] = Where[to] \cup P
  BY <1>5, <1>7, <1>8, <1>10, Contents, ContentsAfter
<1>13. \A a \in Place : a # from /\ a # to => Where'[a] = Where[a]
  BY <1>1, <1>8, <1>10, Places, Contents, ContentsAfter DEF Stores
<1>. QED BY <1>1, <1>9, <1>11, <1>12, <1>13, Moves

(* A batch written and counted goes to the acknowledged points, all of it. *)
LEMMA CountWriteOnce ==
  ASSUME IInv, EveryPointOnce, NEW w \in Workers, CountWrite(w)
  PROVE  EveryPointOnce'
<1>1. /\ UNCHANGED <<polled, outbox, dropped, ingest, dead, replayed, evicted>>
      /\ acked' = acked \cup Elems(batch[w])
      /\ batch' = [batch EXCEPT ![w] = <<>>]
  BY DEF CountWrite, srcVars, bus, deadVars
<1>2. batch \in [Workers -> Seq(Points)]
  BY DEF IInv, WorkerType
<1>3. Elems(<<>>) = {} /\ IsInjective(<<>>)
  BY DEF Elems, IsInjective
<1>4. batch'[w] = <<>> /\ \A v \in Workers : v # w => batch'[v] = batch[v]
  BY <1>1, <1>2
<1>5. NoRepeats'
  BY <1>1, <1>3, <1>4, OnceByPlace DEF NoRepeats
<1>6. PICK from, to, P : from = AtWorker(w) /\ to = AtStore("acked") /\ P = Elems(batch[w])
  OBVIOUS
<1>7. from \in Place /\ to \in Place /\ from # to
  BY <1>6, Places DEF Stores
<1>8. /\ P \subseteq Where[from] /\ Where'[from] = Where[from] \ P
      /\ Where'[to] = Where[to] \cup P
  BY <1>1, <1>3, <1>4, <1>6, Contents, ContentsAfter
<1>9. \A a \in Place : a # from /\ a # to => Where'[a] = Where[a]
  BY <1>1, <1>4, <1>6, Places, Contents, ContentsAfter DEF Stores
<1>. QED BY <1>1, <1>5, <1>7, <1>8, <1>9, Moves

(* A dead letter put goes from the batch to the sink; a full sink forgets   *)
(* its oldest letter to make room.                                          *)
LEMMA PutDeadOnce ==
  ASSUME IInv, EveryPointOnce, NEW w \in Workers, PutDead(w)
  PROVE  EveryPointOnce'
<1>1. /\ UNCHANGED <<polled, outbox, dropped, ingest, acked, replayed>>
      /\ DL!Put(Head(batch[w]))
      /\ batch' = [batch EXCEPT ![w] = Tail(batch[w])]
      /\ worker[w] = "put"
  BY DEF PutDead, srcVars, bus, DL!Put
<1>2. /\ batch \in [Workers -> Seq(Points)] /\ batch[w] \in Seq(Points) /\ batch[w] # <<>>
      /\ dead \in Seq(Points)
  BY <1>1 DEF IInv, WorkerType, DeadType, Holdings
<1>3. NoRepeats /\ Disjoint(Where)
  BY OnceByPlace
<1>4. PICK p : p = Head(batch[w])
  OBVIOUS
<1>5. /\ p \in Points /\ p \in Elems(batch[w]) /\ IsInjective(Tail(batch[w]))
      /\ Elems(Tail(batch[w])) = Elems(batch[w]) \ {p}
  BY <1>2, <1>3, <1>4, TailElems DEF NoRepeats
<1>6. p \notin Elems(dead)
  BY <1>3, <1>5, Places, Contents DEF Disjoint, Stores
<1>7. /\ batch'[w] = Tail(batch[w])
      /\ \A v \in Workers : v # w => batch'[v] = batch[v]
  BY <1>1, <1>2
<1>8. PICK from, to, P : from = AtWorker(w) /\ to = AtStore("dead") /\ P = {p}
  OBVIOUS
<1>9. from \in Place /\ to \in Place /\ from # to
  BY <1>8, Places DEF Stores
<1>10. P \subseteq Where[from] /\ Where'[from] = Where[from] \ P
  BY <1>5, <1>7, <1>8, Contents, ContentsAfter
<1>11. CASE ~(Len(dead) >= DeadCap)
  <2>1. dead' = Append(dead, p) /\ evicted' = evicted
    BY <1>1, <1>4, <1>11 DEF DL!Put
  <2>2. Elems(dead') = Elems(dead) \cup {p} /\ IsInjective(dead')
    BY <1>2, <1>3, <1>5, <1>6, <2>1, AppendElems DEF NoRepeats
  <2>3. NoRepeats'
    BY <1>1, <1>3, <1>5, <1>7, <2>2 DEF NoRepeats
  <2>4. Where'[to] = Where[to] \cup P
    BY <1>8, <2>2, Contents, ContentsAfter
  <2>5. \A a \in Place : a # from /\ a # to => Where'[a] = Where[a]
    BY <1>1, <1>7, <1>8, <2>1, Places, Contents, ContentsAfter DEF Stores
  <2>. QED BY <1>1, <1>9, <1>10, <2>3, <2>4, <2>5, Moves
<1>12. CASE Len(dead) >= DeadCap
  <2>1. PICK h : h = Head(dead)
    OBVIOUS
  <2>2. dead' = Append(Tail(dead), p) /\ evicted' = evicted \cup {h}
    BY <1>1, <1>4, <1>12, <2>1 DEF DL!Put
  <2>3. dead # <<>>
    BY <1>2, <1>12, ConfigAssumption
  <2>4. /\ h \in Elems(dead) /\ Tail(dead) \in Seq(Points) /\ IsInjective(Tail(dead))
        /\ Elems(Tail(dead)) = Elems(dead) \ {h}
    BY <1>2, <1>3, <2>1, <2>3, TailElems DEF NoRepeats
  <2>5. p \notin Elems(Tail(dead)) /\ p # h
    BY <1>6, <2>4
  <2>6. Elems(dead') = (Elems(dead) \ {h}) \cup {p} /\ IsInjective(dead')
    BY <1>5, <2>2, <2>4, <2>5, AppendElems
  <2>7. NoRepeats'
    BY <1>1, <1>3, <1>5, <1>7, <2>6 DEF NoRepeats
  <2>8. PICK gone, Q : gone = AtStore("evicted") /\ Q = {h}
    OBVIOUS
  <2>9. gone \in Place /\ gone # from /\ gone # to
    BY <1>8, <2>8, Places DEF Stores
  <2>10. PICK F : F = Where
    OBVIOUS
  <2>11. PICK G : G = Where'
    OBVIOUS
  <2>12. PICK H : H = [a \in Place |-> IF a = to THEN F[a] \ Q
                                       ELSE IF a = gone THEN F[a] \cup Q ELSE F[a]]
    OBVIOUS
  <2>13. H[to] = F[to] \ Q /\ H[gone] = F[gone] \cup Q
    BY <1>9, <2>9, <2>12
  <2>14. \A a \in Place : a # to /\ a # gone => H[a] = F[a]
    BY <2>12
  <2>15. Q \subseteq F[to]
    BY <1>8, <2>4, <2>8, <2>10, Contents
  <2>16. Moved(F, H, to, gone, Q)
    BY <1>9, <2>9, <2>13, <2>14, <2>15 DEF Moved
  <2>17. Disjoint(F) /\ All(F) = Polled
    BY <2>10, OnceByPlace
  <2>18. Disjoint(H) /\ All(H) = Polled
    <3>1. Disjoint(H) /\ All(H) = All(F)
      BY <2>16, <2>17, Transfer
    <3>. QED BY <2>17, <3>1
  <2>19. G[to] = H[to] \cup P /\ G[gone] = H[gone]
    <3>1. G[to] = Elems(dead') /\ F[to] = Elems(dead)
      BY <1>8, <2>10, <2>11, Contents, ContentsAfter
    <3>2. G[gone] = evicted' /\ F[gone] = evicted
      BY <2>8, <2>10, <2>11, Contents, ContentsAfter
    <3>. QED BY <1>8, <2>2, <2>6, <2>8, <2>13, <3>1, <3>2
  <2>20. P \subseteq H[from] /\ G[from] = H[from] \ P
    BY <1>9, <1>10, <2>9, <2>10, <2>11, <2>14
  <2>21. \A a \in Place : a # from /\ a # to => G[a] = H[a]
    <3>1. \A a \in Place : a # from /\ a # to /\ a # gone => G[a] = F[a]
      BY <1>1, <1>7, <1>8, <2>8, <2>10, <2>11, Places, Contents, ContentsAfter DEF Stores
    <3>. QED BY <2>14, <2>19, <3>1
  <2>22. Moved(H, G, from, to, P)
    BY <1>9, <2>19, <2>20, <2>21 DEF Moved
  <2>23. Disjoint(G) /\ All(G) = All(H)
    BY <2>18, <2>22, Transfer
  <2>24. Polled' = Polled
    BY <1>1 DEF Polled
  <2>25. Disjoint(Where') /\ All(Where') = Polled'
    BY <2>11, <2>18, <2>23, <2>24
  <2>. QED BY <2>7, <2>25, OnceByPlaceAfter
<1>. QED BY <1>11, <1>12

(* A replay takes the whole sink. *)
LEMMA ReplayOnce ==
  ASSUME IInv, EveryPointOnce, Replay
  PROVE  EveryPointOnce'
<1>1. /\ UNCHANGED <<polled, outbox, dropped, ingest, batch, acked, evicted>>
      /\ replayed' = replayed \o dead /\ dead' = <<>>
  BY DEF Replay, DL!Take, srcVars, bus, workVars
<1>2. dead \in Seq(Points) /\ replayed \in Seq(Points)
  BY DEF IInv, DeadType
<1>3. NoRepeats /\ Disjoint(Where)
  BY OnceByPlace
<1>4. Elems(replayed) \cap Elems(dead) = {}
  BY <1>3, Places, Contents DEF Disjoint, Stores
<1>5. Elems(replayed') = Elems(replayed) \cup Elems(dead) /\ IsInjective(replayed')
  BY <1>1, <1>2, <1>3, <1>4, ConcatElems DEF NoRepeats
<1>6. Elems(dead') = {} /\ IsInjective(dead')
  BY <1>1 DEF Elems, IsInjective
<1>7. NoRepeats'
  BY <1>1, <1>3, <1>5, <1>6 DEF NoRepeats
<1>8. PICK from, to, P : from = AtStore("dead") /\ to = AtStore("replayed") /\ P = Elems(dead)
  OBVIOUS
<1>9. from \in Place /\ to \in Place /\ from # to
  BY <1>8, Places DEF Stores
<1>10. /\ P \subseteq Where[from] /\ Where'[from] = Where[from] \ P
       /\ Where'[to] = Where[to] \cup P
  BY <1>5, <1>6, <1>8, Contents, ContentsAfter
<1>11. \A a \in Place : a # from /\ a # to => Where'[a] = Where[a]
  BY <1>1, <1>8, Places, Contents, ContentsAfter DEF Stores
<1>. QED BY <1>1, <1>7, <1>9, <1>10, <1>11, Moves

(* Before Run starts there are no points anywhere. *)
LEMMA InitOnce == Init => EveryPointOnce /\ Resting
<1> SUFFICES ASSUME Init PROVE EveryPointOnce /\ Resting
  OBVIOUS
<1>1. /\ outbox = [s \in Sources |-> <<>>] /\ batch = [w \in Workers |-> <<>>]
      /\ polled = [s \in Sources |-> 0]
      /\ ingest = <<>> /\ dead = <<>> /\ replayed = <<>>
      /\ evicted = {} /\ acked = {} /\ dropped = {}
  BY DEF Init, DL!Init
<1>2. Elems(<<>>) = {} /\ IsInjective(<<>>)
  BY DEF Elems, IsInjective
<1>3. \A a \in Place : Where[a] = {}
  BY <1>1, <1>2, Places, Contents DEF Stores
<1>4. Disjoint(Where) /\ All(Where) = {}
  BY <1>3 DEF Disjoint, All
<1>5. Polled = {}
  BY <1>1 DEF Polled, Points
<1>6. NoRepeats
  BY <1>1, <1>2 DEF NoRepeats
<1>7. Resting
  BY <1>1 DEF Resting
<1>. QED BY <1>4, <1>5, <1>6, <1>7, OnceByPlace

(* Every step keeps each point in one place. *)
LEMMA NextOnce ==
  ASSUME IInv, Resting, EveryPointOnce, [Next]_vars
  PROVE  EveryPointOnce'
<1>1. CASE UNCHANGED vars
  BY <1>1, QuietOnce DEF vars, srcVars, bus, workVars, deadVars
<1>2. CASE RunStep \/ Stop \/ Cancel
  BY <1>2, QuietOnce DEF RunStep, Start, RunSeesDone, CloseBus, RunReturns, Stop, Cancel, srcVars,
                        bus, workVars, deadVars
<1>3. CASE Replay
  BY <1>3, ReplayOnce
<1>4. ASSUME NEW s \in Sources, SourceStep(s) PROVE EveryPointOnce'
  <2>1. CASE PollFails(s) \/ Count(s)
    BY <2>1, QuietOnce DEF PollFails, Count, srcVars, bus, workVars, deadVars
  <2>. QED BY <1>4, <2>1, PollOnce, SendOnce, SourceStopsOnce DEF SourceStep
<1>5. ASSUME NEW w \in Workers, WorkerStep(w) PROVE EveryPointOnce'
  <2>1. CASE TimerFires(w) \/ WorkerLeaves(w) \/ WriteSucceeds(w) \/ WriteFails(w)
    BY <2>1, QuietOnce DEF TimerFires, WorkerLeaves, WriteSucceeds, WriteFails, srcVars, bus, workVars, deadVars
  <2>. QED BY <1>5, <2>1, ReceiveOnce, CountWriteOnce, PutDeadOnce DEF WorkerStep, Flush
<1>. QED BY <1>1, <1>2, <1>3, <1>4, <1>5 DEF Next

(* Every step leaves resting collectors empty. *)
LEMMA NextResting ==
  ASSUME IInv, Resting, [Next]_vars
  PROVE  Resting'
<1>0. source \in [Sources -> {"off", "select", "send", "count", "stopped"}]
      /\ outbox \in [Sources -> Seq(Points)]
  BY DEF IInv, SourceType
<1>1. CASE UNCHANGED <<source, outbox>>
  BY <1>1 DEF Resting
<1>2. CASE Start
  BY <1>2 DEF Start, Resting, IInv, Phases
<1>3. ASSUME NEW s \in Sources, SourceStep(s) PROVE Resting'
  <2>1. CASE PollFails(s)
    BY <1>1, <2>1 DEF PollFails, srcVars
  <2>2. CASE Poll(s)
    <3>1. PICK n \in 0..MaxPoll :
            /\ outbox' = [outbox EXCEPT ![s] = [i \in 1..n |-> <<s, polled[s] + i>>]]
            /\ source' = [source EXCEPT ![s] = IF n = 0 THEN "select" ELSE "send"]
      BY <2>2 DEF Poll
    <3>2. n = 0 => [i \in 1..n |-> <<s, polled[s] + i>>] = <<>>
      OBVIOUS
    <3>. QED BY <1>0, <3>1, <3>2 DEF Resting
  <2>3. CASE Send(s)
    BY <1>0, <2>3 DEF Send, Resting
  <2>4. CASE Count(s)
    BY <1>0, <2>4 DEF Count, Resting
  <2>5. CASE SourceStops(s)
    BY <1>0, <2>5 DEF SourceStops, Resting
  <2>. QED BY <1>3, <2>1, <2>2, <2>3, <2>4, <2>5 DEF SourceStep
<1>4. CASE RunSeesDone \/ CloseBus \/ RunReturns \/ Stop \/ Cancel \/ Replay \/ UNCHANGED vars
  BY <1>1, <1>4 DEF RunSeesDone, CloseBus, RunReturns, Stop, Cancel, Replay, vars, srcVars
<1>5. ASSUME NEW w \in Workers, WorkerStep(w) PROVE Resting'
  BY <1>1, <1>5 DEF WorkerStep, Flush, Receive, TimerFires, WorkerLeaves, WriteSucceeds, CountWrite, WriteFails,
                    PutDead, srcVars
<1>. QED BY <1>2, <1>3, <1>4, <1>5 DEF Next, RunStep

(* Every point a collector polled is in exactly one place at every moment,  *)
(* so none is lost without a trace, and none that the store acknowledged is *)
(* ever batched, dead-lettered or acknowledged again.                       *)
THEOREM EveryPointStaysOnce == Spec => []EveryPointOnce
<1>1. Init => IInv /\ Resting /\ EveryPointOnce
  BY InitIInv, InitOnce
<1>2. IInv /\ Resting /\ EveryPointOnce /\ [Next]_vars => (IInv /\ Resting /\ EveryPointOnce)'
  BY NextIInv, NextResting, NextOnce
<1>. QED BY <1>1, <1>2, PTL DEF Spec

-----------------------------------------------------------------------------
(* The counters.  A collector that has sent a point and not counted it yet: *)
Counting == {s \in Sources : source[s] = "count"}

(* The balance of the counters, also when Run has returned: then what is    *)
(* counted as on its way was left in the channel.                           *)
Balance ==
  /\ reg.written = Cardinality(acked)
  /\ reg.deadLetters = Len(dead) + Len(replayed) + Cardinality(evicted)
  /\ reg.ingested + Cardinality(Counting) =
       reg.written + reg.deadLetters + Cardinality(OnTheWay)

(* All the sets that are counted are finite. *)
LEMMA AllFinite ==
  ASSUME IInv
  PROVE  /\ IsFiniteSet(Counting) /\ Cardinality(Counting) \in Nat
         /\ OnTheWay \subseteq Points /\ IsFiniteSet(OnTheWay) /\ Cardinality(OnTheWay) \in Nat
         /\ IsFiniteSet(acked) /\ Cardinality(acked) \in Nat
         /\ IsFiniteSet(evicted) /\ Cardinality(evicted) \in Nat
<1>1. IsFiniteSet(1..MaxPoints)
  BY FS_Interval, BoundAssumption
<1>2. IsFiniteSet(Points)
  BY <1>1, FS_Product, ProcessAssumption DEF Points
<1>3. acked \subseteq Points /\ evicted \subseteq Points
  BY DEF IInv, WorkerType, DeadType
<1>4. OnTheWay \subseteq Points
  <2>1. Elems(ingest) \subseteq Points
    BY ElemsArePoints DEF IInv, BusType
  <2>2. \A w \in Workers : Elems(batch[w]) \subseteq Points
    BY ElemsArePoints DEF IInv, WorkerType
  <2>. QED BY <2>1, <2>2 DEF OnTheWay
<1>5. IsFiniteSet(OnTheWay) /\ IsFiniteSet(acked) /\ IsFiniteSet(evicted)
  BY <1>2, <1>3, <1>4, FS_Subset
<1>6. IsFiniteSet(Counting)
  <2>1. Counting \subseteq Sources
    BY DEF Counting
  <2>. QED BY <2>1, FS_Subset, ProcessAssumption
<1>. QED BY <1>4, <1>5, <1>6, FS_CardinalityType

(* The counters are numbers. *)
LEMMA CountersAreNumbers ==
  ASSUME IInv
  PROVE  /\ reg.ingested \in Nat /\ reg.written \in Nat /\ reg.deadLetters \in Nat
         /\ Len(dead) \in Nat /\ Len(replayed) \in Nat
  BY DEF IInv, RegType, DeadType

(* Steps that count nothing and move no point that is counted. *)
LEMMA QuietBalance ==
  ASSUME Balance, Counting' = Counting,
         reg'.ingested = reg.ingested, reg'.written = reg.written,
         reg'.deadLetters = reg.deadLetters,
         UNCHANGED <<ingest, batch, acked, dead, replayed, evicted>>
  PROVE  Balance'
<1>1. OnTheWay' = OnTheWay
  BY DEF OnTheWay
<1>2. {s \in Sources : source[s] = "count"}' = {s \in Sources : source[s] = "count"}
  BY DEF Counting
<1>. QED BY <1>1, <1>2 DEF Balance, Counting

(* A point sent joins those on their way, its collector those that have yet *)
(* to count.                                                                *)
LEMMA SendBalance ==
  ASSUME IInv, EveryPointOnce, Balance, NEW s \in Sources, Send(s)
  PROVE  Balance'
<1>1. /\ UNCHANGED <<batch, acked, dead, replayed, evicted, reg>>
      /\ ingest' = Append(ingest, Head(outbox[s]))
      /\ source[s] = "send" /\ source' = [source EXCEPT ![s] = "count"]
  BY DEF Send, workVars, deadVars
<1>2. /\ source \in [Sources -> {"off", "select", "send", "count", "stopped"}]
      /\ ingest \in Seq(Points) /\ outbox[s] \in Seq(Points) /\ outbox[s] # <<>>
  BY <1>1 DEF IInv, SourceType, BusType, Holdings
<1>3. NoRepeats /\ Disjoint(Where)
  BY OnceByPlace
<1>4. PICK p : p = Head(outbox[s])
  OBVIOUS
<1>5. p \in Points /\ p \in Elems(outbox[s])
  BY <1>2, <1>3, <1>4, TailElems DEF NoRepeats
<1>6. p \notin Elems(ingest) /\ \A w \in Workers : p \notin Elems(batch[w])
  BY <1>3, <1>5, Places, Contents DEF Disjoint, Stores
<1>7. Elems(ingest') = Elems(ingest) \cup {p}
  BY <1>1, <1>2, <1>3, <1>4, <1>5, <1>6, AppendElems DEF NoRepeats
<1>8. OnTheWay' = OnTheWay \cup {p} /\ p \notin OnTheWay
  BY <1>1, <1>6, <1>7 DEF OnTheWay
<1>9. Counting' = Counting \cup {s} /\ s \notin Counting
  BY <1>1, <1>2 DEF Counting
<1>10. Cardinality(OnTheWay') = Cardinality(OnTheWay) + 1
  BY <1>8, AllFinite, FS_AddElement
<1>11. Cardinality(Counting') = Cardinality(Counting) + 1
  BY <1>9, AllFinite, FS_AddElement
<1>12. reg.ingested + Cardinality(Counting) =
         reg.written + reg.deadLetters + Cardinality(OnTheWay)
  BY DEF Balance, Counting
<1>13. reg.ingested + Cardinality(Counting') =
         reg.written + reg.deadLetters + Cardinality(OnTheWay')
  <2>1. /\ Cardinality(Counting) \in Nat /\ Cardinality(OnTheWay) \in Nat
        /\ reg.ingested \in Nat /\ reg.written \in Nat /\ reg.deadLetters \in Nat
    BY AllFinite, CountersAreNumbers
  <2>. QED BY <1>10, <1>11, <1>12, <2>1
<1>. QED BY <1>1, <1>13 DEF Balance, Counting

(* A point counted. *)
LEMMA CountBalance ==
  ASSUME IInv, Balance, NEW s \in Sources, Count(s)
  PROVE  Balance'
<1>1. /\ UNCHANGED <<ingest, batch, acked, dead, replayed, evicted>>
      /\ source[s] = "count"
      /\ source' = [source EXCEPT ![s] = IF outbox[s] = <<>> THEN "select" ELSE "send"]
  BY DEF Count, bus, workVars, deadVars
<1>2. /\ source \in [Sources -> {"off", "select", "send", "count", "stopped"}]
      /\ reg'.ingested = reg.ingested + 1 /\ reg'.written = reg.written
      /\ reg'.deadLetters = reg.deadLetters
  BY DEF Count, IInv, SourceType, RegType
<1>3. Counting' = Counting \ {s} /\ s \in Counting
  BY <1>1, <1>2 DEF Counting
<1>4. Cardinality(Counting') = Cardinality(Counting) - 1
  BY <1>3, AllFinite, FS_RemoveElement
<1>5. OnTheWay' = OnTheWay
  BY <1>1 DEF OnTheWay
<1>6. reg.ingested + Cardinality(Counting) =
        reg.written + reg.deadLetters + Cardinality(OnTheWay)
  BY DEF Balance, Counting
<1>7. (reg.ingested + 1) + Cardinality(Counting') =
        reg.written + reg.deadLetters + Cardinality(OnTheWay)
  <2>1. /\ Cardinality(Counting) \in Nat /\ Cardinality(OnTheWay) \in Nat
        /\ reg.ingested \in Nat /\ reg.written \in Nat /\ reg.deadLetters \in Nat
    BY AllFinite, CountersAreNumbers
  <2>. QED BY <1>4, <1>6, <2>1
<1>. QED BY <1>1, <1>2, <1>5, <1>7 DEF Balance, Counting

(* A point received is still on its way. *)
LEMMA ReceiveBalance ==
  ASSUME IInv, EveryPointOnce, Balance, NEW w \in Workers, Receive(w)
  PROVE  Balance'
<1>1. /\ UNCHANGED <<source, acked, dead, replayed, evicted, reg>>
      /\ ingest # <<>> /\ ingest' = Tail(ingest)
      /\ batch' = [batch EXCEPT ![w] = Append(batch[w], Head(ingest))]
  BY DEF Receive, srcVars, deadVars
<1>2. batch \in [Workers -> Seq(Points)] /\ batch[w] \in Seq(Points) /\ ingest \in Seq(Points)
  BY DEF IInv, WorkerType, BusType
<1>3. NoRepeats /\ Disjoint(Where)
  BY OnceByPlace
<1>4. PICK p : p = Head(ingest)
  OBVIOUS
<1>5. p \in Points /\ p \in Elems(ingest) /\ Elems(ingest') = Elems(ingest) \ {p}
  BY <1>1, <1>2, <1>3, <1>4, TailElems DEF NoRepeats
<1>6. p \notin Elems(batch[w])
  BY <1>3, <1>5, Places, Contents DEF Disjoint, Stores
<1>7. Elems(batch'[w]) = Elems(batch[w]) \cup {p}
  BY <1>1, <1>2, <1>3, <1>4, <1>5, <1>6, AppendElems DEF NoRepeats
<1>8. \A v \in Workers : v # w => batch'[v] = batch[v]
  BY <1>1, <1>2
<1>9. OnTheWay' = OnTheWay
  <2>1. ASSUME NEW x PROVE x \in OnTheWay' <=> x \in OnTheWay
    BY <1>5, <1>7, <1>8 DEF OnTheWay
  <2>. QED BY <2>1
<1>. QED BY <1>1, <1>9 DEF Balance, Counting

(* Points that leave a batch for a store are no longer on their way. *)
LEMMA LeaveBatch ==
  ASSUME EveryPointOnce, NEW w \in Workers, NEW P, P \subseteq Elems(batch[w]),
         Elems(batch'[w]) = Elems(batch[w]) \ P,
         \A v \in Workers : v # w => batch'[v] = batch[v], ingest' = ingest
  PROVE  OnTheWay' = OnTheWay \ P /\ P \subseteq OnTheWay
<1>0. Disjoint(Where)
  BY OnceByPlace
<1>1. Elems(batch[w]) \cap Elems(ingest) = {}
  <2>1. AtWorker(w) \in Place /\ AtStore("bus") \in Place /\ AtWorker(w) # AtStore("bus")
    BY Places DEF Stores
  <2>2. Where[AtWorker(w)] \cap Where[AtStore("bus")] = {}
    BY <1>0, <2>1 DEF Disjoint
  <2>. QED BY <2>2, Contents
<1>2. \A v \in Workers : v # w => Elems(batch[w]) \cap Elems(batch[v]) = {}
  BY <1>0, Places, Contents DEF Disjoint
<1>3. ASSUME NEW x PROVE x \in OnTheWay' <=> x \in OnTheWay /\ x \notin P
  BY <1>1, <1>2 DEF OnTheWay
<1>4. P \subseteq OnTheWay
  BY DEF OnTheWay
<1>. QED BY <1>3, <1>4

(* A batch written: as many points acknowledged as no longer on their way. *)
LEMMA CountWriteBalance ==
  ASSUME IInv, EveryPointOnce, Balance, NEW w \in Workers, CountWrite(w)
  PROVE  Balance'
<1>1. /\ UNCHANGED <<source, ingest, dead, replayed, evicted>>
      /\ acked' = acked \cup Elems(batch[w])
      /\ batch' = [batch EXCEPT ![w] = <<>>]
  BY DEF CountWrite, srcVars, bus, deadVars
<1>2. /\ batch \in [Workers -> Seq(Points)] /\ batch[w] \in Seq(Points)
      /\ Len(batch[w]) \in Nat
  BY DEF IInv, WorkerType
<1>3. /\ reg'.ingested = reg.ingested /\ reg'.written = reg.written + Len(batch[w])
      /\ reg'.deadLetters = reg.deadLetters
  <2>1. /\ reg \in [ingested : Nat, written : Nat, batches : Nat, writeErrors : Nat,
                     deadLetters : Nat, pollErrors : Nat]
        /\ reg' = [reg EXCEPT !.batches = @ + 1, !.written = @ + Len(batch[w])]
    BY DEF CountWrite, IInv, RegType
  <2>. QED BY <2>1
<1>4. PICK P, k : P = Elems(batch[w]) /\ k = Len(batch[w])
  OBVIOUS
<1>5. IsFiniteSet(P) /\ Cardinality(P) = k /\ k \in Nat
  BY <1>2, <1>4, ElemsCount, OnceByPlace DEF NoRepeats
<1>6. P \cap acked = {}
  <2>1. AtWorker(w) \in Place /\ AtStore("acked") \in Place /\ AtWorker(w) # AtStore("acked")
    BY Places DEF Stores
  <2>2. Disjoint(Where)
    BY OnceByPlace
  <2>3. Where[AtWorker(w)] \cap Where[AtStore("acked")] = {}
    BY <2>1, <2>2 DEF Disjoint
  <2>. QED BY <1>4, <2>3, Contents
<1>7. Elems(batch'[w]) = Elems(batch[w]) \ P /\ \A v \in Workers : v # w => batch'[v] = batch[v]
  <2>1. Elems(<<>>) = {}
    BY DEF Elems
  <2>. QED BY <1>1, <1>2, <1>4, <2>1
<1>8. OnTheWay' = OnTheWay \ P /\ P \subseteq OnTheWay
  BY <1>1, <1>4, <1>7, LeaveBatch
<1>9. Cardinality(acked') = Cardinality(acked) + k
  <2>1. Cardinality(acked \cup P) = Cardinality(acked) + Cardinality(P) - Cardinality(acked \cap P)
    BY <1>5, AllFinite, FS_Union
  <2>2. acked \cap P = {} /\ acked' = acked \cup P
    BY <1>1, <1>4, <1>6
  <2>3. Cardinality(acked') = Cardinality(acked) + k - 0
    BY <1>5, <2>1, <2>2, FS_EmptySet
  <2>. QED BY <1>5, <2>3, AllFinite
<1>10. Cardinality(OnTheWay') = Cardinality(OnTheWay) - k
  <2>1. Cardinality(OnTheWay \ P) = Cardinality(OnTheWay) - Cardinality(OnTheWay \cap P)
    BY AllFinite, FS_Difference
  <2>2. OnTheWay \cap P = P
    BY <1>8
  <2>. QED BY <1>5, <1>8, <2>1, <2>2
<1>11. PICK c : c = Cardinality(Counting) /\ c = Cardinality(Counting')
  BY <1>1 DEF Counting
<1>12. /\ reg.ingested + c = reg.written + reg.deadLetters + Cardinality(OnTheWay)
       /\ reg.written = Cardinality(acked)
  BY <1>11 DEF Balance, Counting
<1>13. /\ reg.ingested + c = (reg.written + k) + reg.deadLetters + Cardinality(OnTheWay')
       /\ reg.written + k = Cardinality(acked')
  <2>1. /\ c \in Nat /\ Cardinality(OnTheWay) \in Nat /\ Cardinality(acked) \in Nat
        /\ reg.ingested \in Nat /\ reg.written \in Nat /\ reg.deadLetters \in Nat
    BY <1>11, AllFinite, CountersAreNumbers
  <2>. QED BY <1>5, <1>9, <1>10, <1>12, <2>1
<1>14. reg'.ingested + c = reg'.written + reg'.deadLetters + Cardinality(OnTheWay')
  BY <1>3, <1>4, <1>13
<1>. QED BY <1>1, <1>3, <1>4, <1>11, <1>13, <1>14 DEF Balance, Counting

(* A letter put: one more dead letter, one point less on its way. *)
LEMMA PutDeadBalance ==
  ASSUME IInv, EveryPointOnce, Balance, NEW w \in Workers, PutDead(w)
  PROVE  Balance'
<1>1. /\ UNCHANGED <<source, ingest, acked, replayed>>
      /\ DL!Put(Head(batch[w]))
      /\ batch' = [batch EXCEPT ![w] = Tail(batch[w])]
      /\ worker[w] = "put"
  BY DEF PutDead, srcVars, bus, DL!Put
<1>2. /\ batch \in [Workers -> Seq(Points)] /\ batch[w] \in Seq(Points) /\ batch[w] # <<>>
      /\ dead \in Seq(Points) /\ Len(dead) \in Nat /\ Len(dead) <= DeadCap
  BY <1>1 DEF IInv, WorkerType, DeadType, Holdings
<1>3. /\ reg'.ingested = reg.ingested /\ reg'.written = reg.written
      /\ reg'.deadLetters = reg.deadLetters + 1
  BY DEF PutDead, IInv, RegType
<1>4. NoRepeats /\ Disjoint(Where)
  BY OnceByPlace
<1>5. PICK p : p = Head(batch[w])
  OBVIOUS
<1>6. p \in Points /\ p \in Elems(batch[w]) /\ Elems(batch'[w]) = Elems(batch[w]) \ {p}
  BY <1>1, <1>2, <1>4, <1>5, TailElems DEF NoRepeats
<1>7. \A v \in Workers : v # w => batch'[v] = batch[v]
  BY <1>1, <1>2
<1>8. OnTheWay' = OnTheWay \ {p} /\ p \in OnTheWay
  <2>1. PICK P : P = {p}
    OBVIOUS
  <2>2. P \subseteq Elems(batch[w]) /\ Elems(batch'[w]) = Elems(batch[w]) \ P
    BY <1>6, <2>1
  <2>3. OnTheWay' = OnTheWay \ P /\ P \subseteq OnTheWay
    BY <1>1, <1>7, <2>2, LeaveBatch
  <2>. QED BY <2>1, <2>3
<1>9. Cardinality(OnTheWay') = Cardinality(OnTheWay) - 1
  BY <1>8, AllFinite, FS_RemoveElement
<1>10. Len(dead') + Len(replayed') + Cardinality(evicted') =
         (Len(dead) + Len(replayed) + Cardinality(evicted)) + 1
  <2>0. Len(replayed) \in Nat /\ Cardinality(evicted) \in Nat /\ replayed' = replayed
    BY <1>1, AllFinite, CountersAreNumbers
  <2>1. CASE ~(Len(dead) >= DeadCap)
    <3>1. dead' = Append(dead, p) /\ evicted' = evicted
      BY <1>1, <1>5, <2>1 DEF DL!Put
    <3>2. Len(dead') = Len(dead) + 1
      BY <1>2, <1>6, <3>1, AppendProperties
    <3>. QED BY <1>2, <2>0, <3>1, <3>2
  <2>2. CASE Len(dead) >= DeadCap
    <3>1. PICK h : h = Head(dead)
      OBVIOUS
    <3>2. dead' = Append(Tail(dead), p) /\ evicted' = evicted \cup {h}
      BY <1>1, <1>5, <2>2, <3>1 DEF DL!Put
    <3>3. dead # <<>>
      BY <1>2, <2>2, ConfigAssumption
    <3>4. h \in Elems(dead) /\ Tail(dead) \in Seq(Points) /\ Len(Tail(dead)) = Len(dead) - 1
      BY <1>2, <1>4, <3>1, <3>3, TailElems DEF NoRepeats
    <3>5. Len(dead') = Len(dead)
      <4>1. Len(dead') = Len(Tail(dead)) + 1
        BY <1>6, <3>2, <3>4, AppendProperties
      <4>. QED BY <1>2, <3>4, <4>1
    <3>6. h \notin evicted
      BY <1>4, <3>4, Places, Contents DEF Disjoint, Stores
    <3>7. Cardinality(evicted') = Cardinality(evicted) + 1
      BY <3>2, <3>6, AllFinite, FS_AddElement
    <3>. QED BY <1>2, <2>0, <3>5, <3>7
  <2>. QED BY <2>1, <2>2
<1>11. PICK c : c = Cardinality(Counting) /\ c = Cardinality(Counting')
  BY <1>1 DEF Counting
<1>12. /\ reg.ingested + c = reg.written + reg.deadLetters + Cardinality(OnTheWay)
       /\ reg.deadLetters = Len(dead) + Len(replayed) + Cardinality(evicted)
       /\ reg.written = Cardinality(acked)
  BY <1>11 DEF Balance, Counting
<1>13. reg.ingested + c = reg.written + (reg.deadLetters + 1) + Cardinality(OnTheWay')
  <2>1. /\ c \in Nat /\ Cardinality(OnTheWay) \in Nat
        /\ reg.ingested \in Nat /\ reg.written \in Nat /\ reg.deadLetters \in Nat
    BY <1>11, AllFinite, CountersAreNumbers
  <2>2. reg.ingested + c = reg.written + reg.deadLetters + Cardinality(OnTheWay)
    BY <1>12
  <2>. QED BY <1>9, <2>1, <2>2
<1>14. /\ reg'.ingested + c = reg'.written + reg'.deadLetters + Cardinality(OnTheWay')
       /\ reg'.deadLetters = Len(dead') + Len(replayed') + Cardinality(evicted')
       /\ reg'.written = Cardinality(acked')
  BY <1>1, <1>3, <1>10, <1>12, <1>13
<1>. QED BY <1>11, <1>14 DEF Balance, Counting

(* A replay moves letters, and counts none. *)
LEMMA ReplayBalance ==
  ASSUME IInv, Balance, Replay
  PROVE  Balance'
<1>1. /\ UNCHANGED <<source, ingest, batch, acked, evicted, reg>>
      /\ replayed' = replayed \o dead /\ dead' = <<>>
  BY DEF Replay, DL!Take, srcVars, bus, workVars
<1>2. dead \in Seq(Points) /\ replayed \in Seq(Points)
  BY DEF IInv, DeadType
<1>3. Len(replayed') = Len(replayed) + Len(dead) /\ Len(dead') = 0
  BY <1>1, <1>2, ConcatProperties
<1>4. Len(dead') + Len(replayed') + Cardinality(evicted) =
        Len(dead) + Len(replayed) + Cardinality(evicted)
  BY <1>3, AllFinite, CountersAreNumbers
<1>5. OnTheWay' = OnTheWay
  BY <1>1 DEF OnTheWay
<1>. QED BY <1>1, <1>4, <1>5 DEF Balance, Counting

(* Before Run starts nothing is counted. *)
LEMMA InitBalance == Init => Balance
<1> SUFFICES ASSUME Init PROVE Balance
  OBVIOUS
<1>1. /\ batch = [w \in Workers |-> <<>>] /\ ingest = <<>> /\ dead = <<>> /\ replayed = <<>>
      /\ evicted = {} /\ acked = {} /\ source = [s \in Sources |-> "off"]
      /\ reg.ingested = 0 /\ reg.written = 0 /\ reg.deadLetters = 0
  BY DEF Init, DL!Init
<1>2. Elems(<<>>) = {}
  BY DEF Elems
<1>3. OnTheWay = {} /\ Counting = {}
  BY <1>1, <1>2 DEF OnTheWay, Counting
<1>4. Cardinality(OnTheWay) = 0 /\ Cardinality(Counting) = 0 /\ Cardinality(acked) = 0
      /\ Cardinality(evicted) = 0 /\ Len(dead) = 0 /\ Len(replayed) = 0
  BY <1>1, <1>3, FS_EmptySet
<1>. QED BY <1>1, <1>4 DEF Balance, Counting

(* Every step keeps the balance. *)
LEMMA NextBalance ==
  ASSUME IInv, EveryPointOnce, Balance, [Next]_vars
  PROVE  Balance'
<1>0. source \in [Sources -> {"off", "select", "send", "count", "stopped"}]
  BY DEF IInv, SourceType
<1>1. CASE UNCHANGED vars
  <2>1. UNCHANGED <<source, ingest, batch, acked, dead, replayed, evicted, reg>>
    BY <1>1 DEF vars, srcVars, bus, workVars, deadVars
  <2>2. Counting' = Counting
    BY <2>1 DEF Counting
  <2>. QED BY <2>1, <2>2, QuietBalance
<1>2. CASE RunStep \/ Stop \/ Cancel
  <2>1. UNCHANGED <<ingest, batch, acked, dead, replayed, evicted, reg>>
    BY <1>2 DEF RunStep, Start, RunSeesDone, CloseBus, RunReturns, Stop, Cancel, srcVars, bus,
                workVars, deadVars
  <2>2. Counting' = Counting
    BY <1>2 DEF RunStep, Start, RunSeesDone, CloseBus, RunReturns, Stop, Cancel, srcVars, Counting,
                IInv, Phases
  <2>. QED BY <2>1, <2>2, QuietBalance
<1>3. CASE Replay
  BY <1>3, ReplayBalance
<1>4. ASSUME NEW s \in Sources, SourceStep(s) PROVE Balance'
  <2>1. CASE PollFails(s) \/ Poll(s) \/ SourceStops(s)
    <3>1. UNCHANGED <<ingest, batch, acked, dead, replayed, evicted>>
      BY <2>1 DEF PollFails, Poll, SourceStops, srcVars, bus, workVars, deadVars
    <3>2. /\ reg'.ingested = reg.ingested /\ reg'.written = reg.written
          /\ reg'.deadLetters = reg.deadLetters
      BY <2>1 DEF PollFails, Poll, SourceStops, IInv, RegType
    <3>3. Counting' = Counting
      BY <1>0, <2>1 DEF PollFails, Poll, SourceStops, srcVars, Counting
    <3>. QED BY <3>1, <3>2, <3>3, QuietBalance
  <2>. QED BY <1>4, <2>1, SendBalance, CountBalance DEF SourceStep
<1>5. ASSUME NEW w \in Workers, WorkerStep(w) PROVE Balance'
  <2>1. CASE TimerFires(w) \/ WorkerLeaves(w) \/ WriteSucceeds(w) \/ WriteFails(w)
    <3>1. UNCHANGED <<source, ingest, batch, acked, dead, replayed, evicted>>
      BY <2>1 DEF TimerFires, WorkerLeaves, WriteSucceeds, WriteFails, srcVars, bus, workVars, deadVars
    <3>2. /\ reg'.ingested = reg.ingested /\ reg'.written = reg.written
          /\ reg'.deadLetters = reg.deadLetters
      BY <2>1 DEF TimerFires, WorkerLeaves, WriteSucceeds, WriteFails, IInv, RegType
    <3>3. Counting' = Counting
      BY <3>1 DEF Counting
    <3>. QED BY <3>1, <3>2, <3>3, QuietBalance
  <2>. QED BY <1>5, <2>1, ReceiveBalance, CountWriteBalance, PutDeadBalance DEF WorkerStep, Flush
<1>. QED BY <1>1, <1>2, <1>3, <1>4, <1>5 DEF Next

(* The registry's counters agree with what became of the points at every    *)
(* step: until Run returns, what is ingested, or sent and about to be       *)
(* counted, is written, dead-lettered, on the bus or in a worker's batch.   *)
THEOREM CountersStayBalanced == Spec => []CountersBalance
<1> DEFINE Inv == IInv /\ Resting /\ EveryPointOnce /\ Balance
<1>1. Init => Inv
  BY InitIInv, InitOnce, InitBalance
<1>2. Inv /\ [Next]_vars => Inv'
  BY NextIInv, NextResting, NextOnce, NextBalance
<1>3. Balance => CountersBalance
  BY DEF Balance, CountersBalance, Counting
<1>. QED BY <1>1, <1>2, <1>3, PTL DEF Spec

-----------------------------------------------------------------------------
(* When Run has returned, every goroutine is gone and holds nothing.  Each  *)
(* point that was ever polled is written, dead-lettered, given up by its    *)
(* source, or was left in the channel, and the registry accounts for the    *)
(* latter: ingested exceeds written and dead-lettered by just that many.    *)
SettledAtReturn ==
  run = "returned" =>
    /\ Polled = acked \cup evicted \cup dropped \cup Elems(dead) \cup Elems(replayed) \cup Elems(ingest)
    /\ reg.ingested = reg.written + reg.deadLetters + Len(ingest)

(* Points left on the bus at return are the only ones nobody accounts for.  *)
THEOREM ReturnSettlesPoints == Spec => []SettledAtReturn
<1> DEFINE Inv == IInv /\ Resting /\ EveryPointOnce /\ Balance
<1>1. Inv => SettledAtReturn
  <2> SUFFICES ASSUME Inv, run = "returned"
               PROVE  /\ Polled = acked \cup evicted \cup dropped \cup Elems(dead)
                                  \cup Elems(replayed) \cup Elems(ingest)
                      /\ reg.ingested = reg.written + reg.deadLetters + Len(ingest)
    BY DEF SettledAtReturn
  <2>1. /\ \A s \in Sources : source[s] = "stopped" /\ outbox[s] = <<>>
        /\ \A w \in Workers : worker[w] = "stopped" /\ batch[w] = <<>>
    BY DEF IInv, Phases, Holdings, NoSendAfterClose, NoWriteAfterSinkClose
  <2>2. Elems(<<>>) = {}
    BY DEF Elems
  <2>3. /\ \A s \in Sources : Where[AtSource(s)] = {}
        /\ \A w \in Workers : Where[AtWorker(w)] = {}
    BY <2>1, <2>2, Contents
  <2>4. All(Where) = UNION {Where[AtStore(x)] : x \in Stores}
    BY <2>3, Places DEF All
  <2>5. All(Where) = acked \cup evicted \cup dropped \cup Elems(dead) \cup Elems(replayed) \cup Elems(ingest)
    BY <2>4, Contents DEF Stores
  <2>6. All(Where) = Polled
    BY OnceByPlace
  <2>7. OnTheWay = Elems(ingest)
    BY <2>1, <2>2 DEF OnTheWay
  <2>8. Cardinality(Elems(ingest)) = Len(ingest) /\ Len(ingest) \in Nat
    BY ElemsCount DEF IInv, BusType, EveryPointOnce
  <2>9. {s \in Sources : source[s] = "count"} = {}
    BY <2>1
  <2>10. Cardinality({s \in Sources : source[s] = "count"}) = 0
    BY <2>9, FS_EmptySet
  <2>11. reg.ingested \in Nat
    BY DEF IInv, RegType
  <2>12. reg.ingested + 0 = reg.written + reg.deadLetters + Len(ingest)
    BY <2>7, <2>8, <2>10 DEF Balance, Counting
  <2>. QED BY <2>5, <2>6, <2>11, <2>12
<1>2. Init => Inv
  BY InitIInv, InitOnce, InitBalance
<1>3. Inv /\ [Next]_vars => Inv'
  BY NextIInv, NextResting, NextOnce, NextBalance
<1>. QED BY <1>1, <1>2, <1>3, PTL DEF Spec

(* The pipeline and its replay goroutine use the dead-letter sink as the    *)
(* queue it is: every step of theirs is a Put of a point, a Take of the     *)
(* whole backlog, or leaves it alone.  DeadLetterProofs shows that the sink *)
(* as it is implemented takes such steps and no others.                     *)
THEOREM PipelineUsesQueue == Spec => DL!Spec
<1>1. Init => DL!Init
  BY DEF Init
<1>2. IInv /\ [Next]_vars => [DL!Next]_<<dead, replayed, evicted>>
  <2> SUFFICES ASSUME IInv, [Next]_vars PROVE [DL!Next]_<<dead, replayed, evicted>>
    OBVIOUS
  <2>1. ASSUME NEW w \in Workers, PutDead(w) PROVE DL!Next
    <3>1. batch[w] \in Seq(Points) /\ batch[w] # <<>>
      BY <2>1 DEF IInv, WorkerType, Holdings, PutDead
    <3>2. Head(batch[w]) \in Points
      BY <3>1
    <3>. QED BY <2>1, <3>2 DEF PutDead, DL!Next
  <2>2. CASE Replay
    BY <2>2 DEF Replay, DL!Next
  <2>3. ASSUME NEW s \in Sources, SourceStep(s) PROVE UNCHANGED deadVars
    BY <2>3 DEF SourceStep, PollFails, Poll, Send, Count, SourceStops
  <2>4. ASSUME NEW w \in Workers, WorkerStep(w), ~PutDead(w) PROVE UNCHANGED deadVars
    BY <2>4 DEF WorkerStep, Flush, Receive, TimerFires, WorkerLeaves, WriteSucceeds, CountWrite, WriteFails
  <2>5. CASE RunStep \/ Stop \/ Cancel \/ UNCHANGED vars
    <3>1. UNCHANGED deadVars
      BY <2>5 DEF RunStep, Start, RunSeesDone, CloseBus, RunReturns, Stop, Cancel, vars
    <3>. QED BY <3>1 DEF deadVars
  <2>. QED BY <2>1, <2>2, <2>3, <2>4, <2>5 DEF Next, deadVars
<1>. QED BY <1>1, <1>2, InvariantHolds, PTL DEF Spec, DL!Spec

=============================================================================
