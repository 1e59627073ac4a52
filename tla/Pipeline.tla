------------------------------ MODULE Pipeline ------------------------------
(***************************************************************************)
(* The telemetry ingestion pipeline of go-telemetry: one goroutine per     *)
(* collector polls points onto a bounded channel (the ingest bus), worker  *)
(* goroutines batch them and flush the batches to the sink, points of a    *)
(* failed batch go to the dead-letter sink, and Run starts and stops it    *)
(* all.                                                                    *)
(*                                                                         *)
(* A point is <<source, n>>: the n-th point that source ever polled.       *)
(***************************************************************************)
EXTENDS Naturals, Sequences, FiniteSets, Functions

CONSTANTS
  Sources,       \* Config.Collectors
  Workers,       \* the Config.Workers worker goroutines
  IngestBuffer,  \* Config.IngestBuffer
  BatchSize,     \* Config.BatchSize
  DeadCap,       \* capacity of the dead-letter sink
  MaxPoints,     \* bound of the model: points polled per source
  MaxTotal,      \* bound of the model: points polled by all sources
  MaxPoll,       \* bound of the model: points returned by one poll
  MaxPollErrors  \* bound of the model: polls that fail

ASSUME ProcessAssumption ==
  /\ Sources \cap Workers = {}
  /\ IsFiniteSet(Sources) /\ IsFiniteSet(Workers)
ASSUME ConfigAssumption ==
  /\ IngestBuffer \in Nat \ {0}
  /\ BatchSize \in Nat \ {0}
  /\ DeadCap \in Nat \ {0}
ASSUME BoundAssumption ==
  /\ MaxPoints \in Nat /\ MaxTotal \in Nat
  /\ MaxPoll \in Nat /\ MaxPollErrors \in Nat

Points == Sources \X (1..MaxPoints)

VARIABLES
  run,         \* Run: "init", "serving", "sources", "workers", "returned"
  stopCalled,  \* Stop has been called
  ctxDone,     \* the context Run derived is cancelled
  source,      \* per source: "off", "select", "send", "count", "stopped"
  polled,      \* per source: points polled so far (Registry.IncSource)
  outbox,      \* per source: points of the current poll not sent yet
  ingest,      \* the channel
  closed,      \* close(p.ingest) has happened
  worker,      \* per worker: "off", "select", "write", "count", "put", "stopped"
  exiting,     \* per worker: return after the current flush
  batch,       \* per worker: its batch, or what is left of a failed one
  reg,         \* metrics.Registry counters
  stored,      \* points the time-series store has taken (external)
  acked,       \* history: points of WriteBatch calls counted as successful
  sinkClosed,  \* Sink.Close has been called
  dead,        \* the dead-letter sink's items
  replayed,    \* history: dead letters handed to the replay goroutine
  evicted,     \* history: dead letters forgotten at capacity
  dropped      \* history: points a source gave up on at cancellation

ctl == <<run, stopCalled, ctxDone, sinkClosed>>
srcVars == <<source, polled, outbox, dropped>>
bus == <<ingest, closed>>
workVars == <<worker, exiting, batch, stored, acked>>
deadVars == <<dead, replayed, evicted>>
vars == <<ctl, srcVars, bus, workVars, deadVars, reg>>

DL == INSTANCE DeadLetterQueue
        WITH Letters <- Points, Cap <- DeadCap, items <- dead, taken <- replayed

Elems(s) == {s[i] : i \in DOMAIN s}
Polled == {p \in Points : p[2] <= polled[p[1]]}

Init ==
  /\ run = "init" /\ stopCalled = FALSE /\ ctxDone = FALSE /\ sinkClosed = FALSE
  /\ source = [s \in Sources |-> "off"]
  /\ polled = [s \in Sources |-> 0]
  /\ outbox = [s \in Sources |-> <<>>]
  /\ dropped = {}
  /\ ingest = <<>> /\ closed = FALSE
  /\ worker = [w \in Workers |-> "off"]
  /\ exiting = [w \in Workers |-> FALSE]
  /\ batch = [w \in Workers |-> <<>>]
  /\ stored = {} /\ acked = {}
  /\ DL!Init
  /\ reg = [ingested |-> 0, written |-> 0, batches |-> 0, writeErrors |-> 0,
            deadLetters |-> 0, pollErrors |-> 0]

-----------------------------------------------------------------------------
(* Run and Stop.                                                            *)
Start ==
  /\ run = "init"
  /\ run' = "serving"
  /\ source' = [s \in Sources |-> "select"]
  /\ worker' = [w \in Workers |-> "select"]
  /\ UNCHANGED <<stopCalled, ctxDone, sinkClosed, polled, outbox, dropped, bus,
                 exiting, batch, stored, acked, deadVars, reg>>

(* Stop cancels the context Run made; before Run made one it does nothing.  *)
Stop ==
  /\ ~stopCalled
  /\ stopCalled' = TRUE
  /\ ctxDone' = (ctxDone \/ run # "init")
  /\ UNCHANGED <<run, sinkClosed, srcVars, bus, workVars, deadVars, reg>>

(* The caller's own context (SIGINT, SIGTERM) ends once Run is serving.     *)
Cancel ==
  /\ run # "init"
  /\ ~ctxDone
  /\ ctxDone' = TRUE
  /\ UNCHANGED <<run, stopCalled, sinkClosed, srcVars, bus, workVars, deadVars, reg>>

RunSeesDone ==
  /\ run = "serving"
  /\ ctxDone
  /\ run' = "sources"
  /\ UNCHANGED <<stopCalled, ctxDone, sinkClosed, srcVars, bus, workVars, deadVars, reg>>

\* Mutant: the channel is closed without waiting for the sources.
CloseBus_Early ==
  /\ run = "sources"
  /\ closed' = TRUE
  /\ run' = "workers"
  /\ UNCHANGED <<stopCalled, ctxDone, sinkClosed, srcVars, ingest, workVars, deadVars, reg>>

CloseBus ==
  /\ run = "sources"
  /\ \A s \in Sources : source[s] = "stopped"
  /\ closed' = TRUE
  /\ run' = "workers"
  /\ UNCHANGED <<stopCalled, ctxDone, sinkClosed, srcVars, ingest, workVars, deadVars, reg>>

RunReturns ==
  /\ run = "workers"
  /\ \A w \in Workers : worker[w] = "stopped"
  /\ sinkClosed' = TRUE
  /\ run' = "returned"
  /\ UNCHANGED <<stopCalled, ctxDone, srcVars, bus, workVars, deadVars, reg>>

-----------------------------------------------------------------------------
(* source: the points of a good poll are sent one by one; each send blocks  *)
(* while the bus is full, unless the context is done.                       *)
PollFails(s) ==
  /\ source[s] = "select"
  /\ reg.pollErrors < MaxPollErrors
  /\ reg' = [reg EXCEPT !.pollErrors = @ + 1]
  /\ UNCHANGED <<ctl, srcVars, bus, workVars, deadVars>>

Poll(s) ==
  /\ source[s] = "select"
  /\ \E n \in 0..MaxPoll :
       /\ polled[s] + n <= MaxPoints /\ Cardinality(Polled) + n <= MaxTotal
       /\ polled' = [polled EXCEPT ![s] = @ + n]
       /\ outbox' = [outbox EXCEPT ![s] = [i \in 1..n |-> <<s, polled[s] + i>>]]
       /\ source' = [source EXCEPT ![s] = IF n = 0 THEN "select" ELSE "send"]
  /\ UNCHANGED <<ctl, dropped, bus, workVars, deadVars, reg>>

\* Mutant: the send does not look at the capacity of the channel.
Send_Unbounded(s) ==
  /\ source[s] = "send"
  /\ ingest' = Append(ingest, Head(outbox[s]))
  /\ outbox' = [outbox EXCEPT ![s] = Tail(@)]
  /\ source' = [source EXCEPT ![s] = "count"]
  /\ UNCHANGED <<ctl, polled, dropped, closed, workVars, deadVars, reg>>

Send(s) ==
  /\ source[s] = "send"
  /\ Len(ingest) < IngestBuffer
  /\ ingest' = Append(ingest, Head(outbox[s]))
  /\ outbox' = [outbox EXCEPT ![s] = Tail(@)]
  /\ source' = [source EXCEPT ![s] = "count"]
  /\ UNCHANGED <<ctl, polled, dropped, closed, workVars, deadVars, reg>>

\* Mutant: only the last point of a poll is counted.
Count_OncePerPoll(s) ==
  /\ source[s] = "count"
  /\ reg' = [reg EXCEPT !.ingested = IF outbox[s] = <<>> THEN @ + 1 ELSE @]
  /\ source' = [source EXCEPT ![s] = IF outbox[s] = <<>> THEN "select" ELSE "send"]
  /\ UNCHANGED <<ctl, polled, outbox, dropped, bus, workVars, deadVars>>

(* IncIngested comes after the send: a worker may have the point by then.   *)
Count(s) ==
  /\ source[s] = "count"
  /\ reg' = [reg EXCEPT !.ingested = @ + 1]
  /\ source' = [source EXCEPT ![s] = IF outbox[s] = <<>> THEN "select" ELSE "send"]
  /\ UNCHANGED <<ctl, polled, outbox, dropped, bus, workVars, deadVars>>

\* Mutant: the send that blocks does not look at the context.
SourceStops_NotInSend(s) ==
  /\ source[s] = "select"
  /\ ctxDone
  /\ dropped' = dropped \cup Elems(outbox[s])
  /\ outbox' = [outbox EXCEPT ![s] = <<>>]
  /\ source' = [source EXCEPT ![s] = "stopped"]
  /\ UNCHANGED <<ctl, polled, bus, workVars, deadVars, reg>>

(* Both selects of source return on ctx.Done, giving up the unsent points.  *)
SourceStops(s) ==
  /\ source[s] \in {"select", "send"}
  /\ ctxDone
  /\ dropped' = dropped \cup Elems(outbox[s])
  /\ outbox' = [outbox EXCEPT ![s] = <<>>]
  /\ source' = [source EXCEPT ![s] = "stopped"]
  /\ UNCHANGED <<ctl, polled, bus, workVars, deadVars, reg>>

-----------------------------------------------------------------------------
(* worker: the select of its loop.                                          *)
Receive(w) ==
  /\ worker[w] = "select"
  /\ ingest # <<>>
  /\ ingest' = Tail(ingest)
  /\ batch' = [batch EXCEPT ![w] = Append(@, Head(ingest))]
  /\ worker' = [worker EXCEPT ![w] = IF Len(batch'[w]) >= BatchSize THEN "write" ELSE @]
  /\ UNCHANGED <<ctl, srcVars, closed, exiting, stored, acked, deadVars, reg>>

\* Mutant: a partial batch waits until it is full.
TimerFires_Never(w) ==
  /\ worker[w] = "select"
  /\ Len(batch[w]) >= BatchSize
  /\ worker' = [worker EXCEPT ![w] = "write"]
  /\ UNCHANGED <<ctl, srcVars, bus, exiting, batch, stored, acked, deadVars, reg>>

(* The batch timer; with nothing batched, flush is a no-op.                 *)
TimerFires(w) ==
  /\ worker[w] = "select"
  /\ batch[w] # <<>>
  /\ worker' = [worker EXCEPT ![w] = "write"]
  /\ UNCHANGED <<ctl, srcVars, bus, exiting, batch, stored, acked, deadVars, reg>>

\* Mutant: a worker leaves on cancellation without flushing.
WorkerLeaves_NoFlush(w) ==
  /\ worker[w] = "select"
  /\ ctxDone \/ (closed /\ ingest = <<>>)
  /\ exiting' = [exiting EXCEPT ![w] = TRUE]
  /\ worker' = [worker EXCEPT ![w] = "stopped"]
  /\ UNCHANGED <<ctl, srcVars, bus, batch, stored, acked, deadVars, reg>>

(* A closed and empty channel, or a done context: flush, then return.  The  *)
(* context is not asked whether the channel still holds points.             *)
WorkerLeaves(w) ==
  /\ worker[w] = "select"
  /\ ctxDone \/ (closed /\ ingest = <<>>)
  /\ exiting' = [exiting EXCEPT ![w] = TRUE]
  /\ worker' = [worker EXCEPT ![w] = IF batch[w] = <<>> THEN "stopped" ELSE "write"]
  /\ UNCHANGED <<ctl, srcVars, bus, batch, stored, acked, deadVars, reg>>

AfterFlush(w) == IF exiting[w] THEN "stopped" ELSE "select"

(* flush: WriteBatch returns nil.                                           *)
WriteSucceeds(w) ==
  /\ worker[w] = "write"
  /\ stored' = stored \cup Elems(batch[w])
  /\ worker' = [worker EXCEPT ![w] = "count"]
  /\ UNCHANGED <<ctl, srcVars, bus, exiting, batch, acked, deadVars, reg>>

\* Mutant: the batch is not emptied after a successful write.
CountWrite_KeepsBatch(w) ==
  /\ worker[w] = "count"
  /\ acked' = acked \cup Elems(batch[w])
  /\ reg' = [reg EXCEPT !.batches = @ + 1, !.written = @ + Len(batch[w])]
  /\ worker' = [worker EXCEPT ![w] = AfterFlush(w)]
  /\ UNCHANGED <<ctl, srcVars, bus, exiting, batch, stored, deadVars>>

(* IncBatches and IncWritten come after WriteBatch: the store has the       *)
(* points before the registry counts them.  Then the worker empties its     *)
(* batch.                                                                   *)
CountWrite(w) ==
  /\ worker[w] = "count"
  /\ acked' = acked \cup Elems(batch[w])
  /\ reg' = [reg EXCEPT !.batches = @ + 1, !.written = @ + Len(batch[w])]
  /\ batch' = [batch EXCEPT ![w] = <<>>]
  /\ worker' = [worker EXCEPT ![w] = AfterFlush(w)]
  /\ UNCHANGED <<ctl, srcVars, bus, exiting, stored, deadVars>>

(* flush: WriteBatch fails, and the connection may have carried any proper  *)
(* prefix of the lines before it did.                                       *)
WriteFails(w) ==
  /\ worker[w] = "write"
  /\ \E k \in 0..(Len(batch[w]) - 1) : stored' = stored \cup Elems(SubSeq(batch[w], 1, k))
  /\ reg' = [reg EXCEPT !.writeErrors = @ + 1]
  /\ worker' = [worker EXCEPT ![w] = "put"]
  /\ UNCHANGED <<ctl, srcVars, bus, exiting, batch, acked, deadVars>>

(* DeadLetters.Put for one point of the failed batch.                       *)
PutDead(w) ==
  /\ worker[w] = "put"
  /\ DL!Put(Head(batch[w]))
  /\ reg' = [reg EXCEPT !.deadLetters = @ + 1]
  /\ batch' = [batch EXCEPT ![w] = Tail(@)]
  /\ worker' = [worker EXCEPT ![w] = IF Len(batch[w]) = 1 THEN AfterFlush(w) ELSE "put"]
  /\ UNCHANGED <<ctl, srcVars, bus, exiting, stored, acked>>

(* replayDeadLetters, at the level of what the sink promises.               *)
Replay ==
  /\ DL!Take
  /\ UNCHANGED <<ctl, srcVars, bus, workVars, reg>>

-----------------------------------------------------------------------------
RunStep == Start \/ RunSeesDone \/ CloseBus \/ RunReturns
SourceStep(s) == PollFails(s) \/ Poll(s) \/ Send(s) \/ Count(s) \/ SourceStops(s)
Flush(w) == WriteSucceeds(w) \/ CountWrite(w) \/ WriteFails(w) \/ PutDead(w)
WorkerStep(w) == Receive(w) \/ TimerFires(w) \/ WorkerLeaves(w) \/ Flush(w)

Next ==
  \/ RunStep \/ Stop \/ Cancel \/ Replay
  \/ \E s \in Sources : SourceStep(s)
  \/ \E w \in Workers : WorkerStep(w)

Spec == Init /\ [][Next]_vars

(* Goroutines that can run do run; WriteBatch returns (it dials with a      *)
(* timeout and sets a deadline); a select whose ctx.Done case stays ready   *)
(* picks it sooner or later, because select chooses among ready cases at    *)
(* random; a partial batch is flushed by its timer.                         *)
Fairness ==
  /\ WF_vars(RunStep)
  /\ \A s \in Sources : WF_vars(Send(s)) /\ WF_vars(Count(s)) /\ SF_vars(SourceStops(s))
  /\ \A w \in Workers : /\ WF_vars(Receive(w)) /\ WF_vars(TimerFires(w)) /\ WF_vars(Flush(w))
                        /\ SF_vars(WorkerLeaves(w))
FairSpec == Spec /\ Fairness

-----------------------------------------------------------------------------
(* The shape of every variable, and the bounds the code gives its buffers:  *)
(* the channel, a batch and the dead-letter sink never outgrow them.        *)
TypeOK ==
  /\ run \in {"init", "serving", "sources", "workers", "returned"}
  /\ {stopCalled, ctxDone, closed, sinkClosed} \subseteq BOOLEAN
  /\ source \in [Sources -> {"off", "select", "send", "count", "stopped"}]
  /\ polled \in [Sources -> 0..MaxPoints]
  /\ outbox \in [Sources -> Seq(Points)]
  /\ ingest \in Seq(Points) /\ Len(ingest) <= IngestBuffer
  /\ worker \in [Workers -> {"off", "select", "write", "count", "put", "stopped"}]
  /\ exiting \in [Workers -> BOOLEAN]
  /\ batch \in [Workers -> Seq(Points)]
  /\ \A w \in Workers : Len(batch[w]) <= BatchSize
  /\ stored \subseteq Points /\ acked \subseteq Points
  /\ dropped \subseteq Points /\ evicted \subseteq Points
  /\ dead \in Seq(Points) /\ Len(dead) <= DeadCap
  /\ replayed \in Seq(Points)
  /\ reg \in [ingested : Nat, written : Nat, batches : Nat, writeErrors : Nat,
              deadLetters : Nat, pollErrors : Nat]

(* A send on a closed channel panics the process: Run may close the bus     *)
(* only when no source can ever send again.                                 *)
NoSendAfterClose == closed => \A s \in Sources : source[s] = "stopped"

(* WriteBatch on a closed QuestDB writer would dial a connection nobody     *)
(* closes: the sink is closed only when no worker can flush again.          *)
NoWriteAfterSinkClose == sinkClosed => \A w \in Workers : worker[w] = "stopped"

(* Run's shutdown order (pipeline.go:92-96): bus and sink are closed only    *)
(* after the last goroutine that could use them has returned.               *)
ClosedAfterUse == NoSendAfterClose /\ NoWriteAfterSinkClose

(* A goroutine that has stopped holds no points: a leaving worker flushes   *)
(* its batch first, a leaving source gives up what it had not sent.         *)
StoppedHoldNothing ==
  /\ \A w \in Workers : worker[w] = "stopped" => batch[w] = <<>>
  /\ \A s \in Sources : source[s] = "stopped" => outbox[s] = <<>>

(* Where points are. *)
Stores == {"bus", "dead", "replayed", "evicted", "acked", "dropped"}
Place == ({"source"} \X Sources) \cup ({"worker"} \X Workers) \cup ({"store"} \X Stores)
InStore == [bus |-> Elems(ingest), dead |-> Elems(dead), replayed |-> Elems(replayed),
            evicted |-> evicted, acked |-> acked, dropped |-> dropped]
Held(a) ==
  CASE a[1] = "source" -> Elems(outbox[a[2]])
    [] a[1] = "worker" -> Elems(batch[a[2]])
    [] a[1] = "store"  -> InStore[a[2]]

(* Conservation: every polled point is in exactly one place, and there      *)
(* once: with its source, on the bus, in one batch, written, dead-lettered  *)
(* (queued, replayed or evicted) or given up by its source at cancellation. *)
EveryPointOnce ==
  /\ UNION {Held(a) : a \in Place} = Polled
  /\ \A a, b \in Place : a # b => Held(a) \cap Held(b) = {}
  /\ \A s \in Sources : IsInjective(outbox[s])
  /\ \A w \in Workers : IsInjective(batch[w])
  /\ IsInjective(ingest) /\ IsInjective(dead) /\ IsInjective(replayed)

(* The registry's counters agree with what became of the points at every    *)
(* step the goroutines take (metrics.go; a Snapshot taken across several    *)
(* steps may mix their values).  Until Run returns, a point counted as      *)
(* ingested, or sent and about to be, is counted as written or              *)
(* dead-lettered, waits on the bus, or is in the hands of a live worker.    *)
OnTheWay == Elems(ingest) \cup UNION {Elems(batch[w]) : w \in Workers}
CountersBalance ==
  /\ reg.written = Cardinality(acked)
  /\ reg.deadLetters = Len(dead) + Len(replayed) + Cardinality(evicted)
  /\ run # "returned" =>
       reg.ingested + Cardinality({s \in Sources : source[s] = "count"}) =
         reg.written + reg.deadLetters + Cardinality(OnTheWay)

(* What the pipeline's own test asks of a sink that never fails             *)
(* (pipeline_test.go:53-57, "points lost"), and the comments of Run promise *)
(* (pipeline.go:77-78, "drains the bus"; :94, "they drain remaining         *)
(* points"): when Run has returned, the sink was given every ingested point.*)
DeliversAllPoints ==
  run = "returned" /\ reg.writeErrors = 0 => Cardinality(stored) = reg.ingested

(* A cancelled pipeline returns from Run, whatever sources and workers were *)
(* doing, and also with the bus full.                                       *)
ShutdownCompletes == ctxDone ~> run = "returned"

(* While the pipeline serves, a point on the bus is eventually written or   *)
(* dead-lettered, partial batches included.                                 *)
PointsSettle ==
  \A p \in Points :
    p \in Elems(ingest) ~>
      (p \in acked \cup evicted \cup Elems(dead) \cup Elems(replayed) \/ ctxDone)

=============================================================================
