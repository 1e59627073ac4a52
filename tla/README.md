# A TLA+ verification of TPT Datacenter

TPT Datacenter controls a facility's cooling and power. Rust code at the edge
closes the control loop on each rack; Go services ingest telemetry, store it,
hold the facility's topology, take manual overrides, manage servers and route
control intents; a learned policy proposes setpoints; a dashboard shows it all.

This directory holds TLA+ models of the parts whose correctness depends on the
order of steps, on failures between them and on limits being reached; the TLC
configurations that check small instances of them; and TLAPS proofs of the most
important properties for every value of the parameters.

`PROJECT.json` lists the components, the runs, the mutants that show what each
property is sensitive to, the lines every definition translates (`map`), the
hazards of the code and the theorems.

## 1. Inventory

| Component | Code | State | Operations | What makes it correct |
|---|---|---|---|---|
| Edge supervisor | `rust-edge/src/control/supervisor.rs` | cycle, consecutive_errors, latched_safe | run_once, reset, run | latches exactly after N failed reads in a row; while latched only the safe state is written; unhealthy cycles cool; faults are acted on |
| Safety enforcer | `rust-edge/src/control/safety.rs` | none | enforce, clamp | no agent drives hardware outside its bounds; a breach becomes a safe state |
| Agents, PID | `rust-edge/src/control/{agents,pid}.rs` | PID integral, last timestamp | decide, update | outlets are shed and never restored; output inside its bounds |
| HAL | `rust-edge/src/hal/**` | simulated racks; routing tables | read, read_all, command | commands reach the device they name; errors are errors |
| Firmware updater | `rust-edge/src/firmware.rs` | policy (pinned keys); the flash behind `apply` | permits, verify_update, prepare, apply | nothing is applied that the pinned key did not sign |
| Control store | `api/internal/control`, `api/cmd/control` | actuator state per device, audit log | Seed, Override, Reset, LatchSafe, reads | latched devices stay cooled; values in the envelope; the log explains the state |
| Orchestrator | `api/internal/orchestration`, `api/cmd/orchestrator` | audit log; the sink's state | Submit, Audit | envelope, two-person rule, one audit entry per call |
| Telemetry pipeline | `go-telemetry/internal/pipeline`, `metrics`, `writer`, `cmd` | ingest channel, batches, counters | Run, Stop, source, worker, flush | no point lost or duplicated silently; shutdown completes; nothing sent or written after close |
| Dead-letter sink | `go-telemetry/internal/metrics/deadletter.go` | bounded queue | Put, Drain | a FIFO that evicts its oldest; Drain wakes up |
| Collectors, point codec | `go-telemetry/internal/{collector,point}` | connections | Poll, encode, decode | a poll returns what the device holds; round trips |
| QuestDB storage | `go-telemetry/internal/questdb`, `cmd/api` | tables | schema, rollups, retention, timeseries and latest queries | every minute is rolled up whole; raw data ages out; a query answers what is stored in the window asked for |
| Topology | `go-telemetry/internal/topology`, `cmd/topology` | nodes, edges indexed both ways | load, discover, upsert, export, query | both indexes agree; chains are what is reachable; exports are consistent |
| Hardware API | `api/internal/hardware`, `api/cmd/hardware` | audit log, grid signal | power, boot, power cap, throttle preview | every change reported as done is audited and holds; throttling follows the signal; shutdown completes |
| AI brain | `ai-brain/src` | network weights; guard state | infer, train, guard | the guard's envelope |
| Dashboard | `dashboard` | none | static pages, proxy | presentation only |

How they interact. Collectors feed the pipeline, which feeds the time-series
store; the dashboard and the AI brain read it. The AI brain and operators send
intents to the orchestrator, which hands them to a `HalCommandSink`: the
in-memory `SimSink` today, edge supervisors in a deployment. Operators also use
the control store. A supervisor reads and commands its device through the HAL,
which others may use at the same time. Dead letters flow from the pipeline's
workers through the dead-letter sink to the replay goroutine of `cmd/main.go`.

What is hard. A control cycle is a sequence of awaits that can each fail or
hang; the pipeline's shutdown is a dance of two wait groups, a context, a close
and two selects; the dead-letter sink combines a condition variable with a
context; a Submit delivers first and audits afterwards without a lock across
the two, and so do the hardware handlers, whose BMC calls can take effect after
they were given up; the audit logs are bounded; values arrive as JSON of any type.
A maintenance pass is a list of statements that stops at the first failure and is
repeated over overlapping windows; the topology graph is exported under two
separate read locks while clients change it; the Modbus collector keeps a byte
stream across failed reads.

## 2. Modules

| Module | Models | Used by |
|---|---|---|
| `Supervisor` | supervisor, enforcer, agents, one device behind the HAL | `MCSupervisor`, `SupervisorProofs` |
| `DeadLetterQueue` | what the dead-letter sink promises (abstract) | `Pipeline` (instance `DL`), `DeadLetterSink` (refinement `Queue`) |
| `DeadLetterSink` | the sink as implemented: mutex, Cond, waiter goroutine | `MCDeadLetterSink`, `DeadLetterProofs` |
| `Pipeline` | sources, ingest channel, workers, flush, Run/Stop; composed with the abstract dead-letter queue | `MCPipeline`, `PipelineProofs` |
| `Orchestrator` | concurrent Submit calls, sink, audit log | `MCOrchestrator`, `OrchestratorProofs` |
| `ControlStore` | override store and its audit log | `MCControlStore`, `ControlStoreProofs` |
| `Hardware` | hardware API: handlers, BMC calls, audit log, grid-stress monitor, throttle preview, shutdown | `MCHardware`, `HardwareProofs` |
| `Topology` | the graph under its RWMutex, startup, upserts, export, dependency queries | `MCTopology`, `TopologyProofs` |
| `Storage` | cmd/api: schema, maintenance loop, time-series queries; QuestDB's tables as an external part | `MCStorage`, `StorageProofs` |
| `Modbus` | the Modbus TCP collector and the bytes of its connection; the gateway as an external part | `MCModbus` |

The `MC*` modules add symmetry sets, request sets and, for the
dead-letter sink, the statement its violation run checks. Definitions whose name has
a suffix after an underscore (`Finish_Late`) are faulty variants, each next to
the definition it replaces in a mutant.

### Supervisor

`run_once` becomes: `BeginLatched`, `ReadFails` or `ReadSucceeds` (up to the
point where the commands to write are known), `WriteCommand` once per
`hal.command(..).await`, then `Finish` (the latch decision of the comms-loss
branch and `finish()`). `Reset` takes `&mut self`, so it runs only between
cycles. `PlantMoves`, `LinkMoves` and `RestoreOutlet` are the environment:
physics, the network, and an operator on the same HAL; they can come between any
two steps. A HAL call succeeds, fails, or is never answered; no backend sets a
timeout, so the last case blocks the cycle for as long as the link is silent.

Readings, demands and settings are integers. `Demands` stands for the output of
the PID loop, which the code clamps to 0..100. A device exposes one of the channel
sets in `Exposures`; the other channels are absent from its snapshot. The cycle counter is only ever used modulo
`heartbeat_every`, so that is what the model keeps. The default thresholds
(45 °C, 5 °C, 198..264 V, 80 A, SoC 20/80) are the code's.

### DeadLetterSink, DeadLetterQueue

Each critical section of the mutex is one step. `DrainCheck` takes the backlog
or spawns the waiter, `DrainFn` hands one letter to `fn` outside the lock,
`DrainWoken` and `DrainCancelled` are the two cases of the select, `WaiterWaits`
and `WaiterDone` are the spawned goroutine. `Signal` wakes the waiter only if it
has reached `cond.Wait`. Letters are numbered in the order they are put, and there are
finitely many: Drain looks at its context only in the select it reaches with an empty
queue (`deadletter.go:63-82`), so a stream of Puts that never lets the queue run empty
would also keep a cancelled Drain from returning. `CancelReturns` does not cover it.

### Pipeline

A point is `<<source, n>>`, the n-th point its source polled. `Start`,
`RunSeesDone`, `CloseBus` and `RunReturns` are the lines of `Run`; `Poll`,
`PollFails`, `Send`, `Count` and `SourceStops` are `source`; `Receive`,
`TimerFires` and `WorkerLeaves` are the select of `worker`; `WriteSucceeds`,
`CountWrite`, `WriteFails` and `PutDead` are `flush`. A failed write may have stored
any proper prefix of its batch. The counters of one line group are one step
(`IncBatches` with `IncWritten`; `Put`'s counter with the `Put`), and a scrape,
which loads them one by one, is not modelled. `Poll` is one step: a collector that
never returns from it is outside the model. Nor is a pipeline without a
dead-letter sink (`pipeline.go:180`): `cmd/main.go` always passes one. `Replay` is the replay goroutine at the level of
`DeadLetterQueue`, which `DeadLetterProofs` shows the real sink implements.
`stored` (what the database has), `acked`, `replayed`, `evicted` and `dropped`
are history: they let the properties say where a point went.

### Orchestrator

The policy decision is local to the call and is one step with what follows it:
`Reject` (with its audit entry) or `Route`. `Delivered` is `SimSink.Apply`;
`DeliveryFails` is the error a sink that forwards over a link may return, before
or after the device took the command. `Answer` records and returns. A value has a
type and a number; text that scans to NaN is one of them. `history` remembers which
requests asked for it (`isNaN`), so that the envelope can be stated for the others.

### ControlStore

Every operation holds the store's mutex throughout and is one step. `Seed` runs
before the server answers anything. Values of any JSON type are converted the way
`toFloat` and `toBool` do: what is not a number becomes 0, what is not true
becomes false.

### Hardware

`Refuse` is every early return of a handler and of the authentication in front of
it; `Send` is a handler up to its BMC call, `CallSucceeds`, `RedfishFails` and
`IpmiFails` what the call returns, `Answer` the audit entry and the response.
`BmcApplies` is the BMC, on its own time: before the answer, or long after the
handler gave up. What a BMC holds is the number of the call that last set it.
`Preview` reads the grid signal and `PreviewAnswer` resolves the servers with it;
`PollOnce` and `PollFails` are the monitor's tick. `Signal`, `ShutdownReturns` and
`ShutdownExpires` are `main` after the context is done. Which backends exist is
chosen in `Init` among `Deployments`. `main` produces two: ipmitool always, Redfish
when its URL is set, both with the static grid source, which never moves
(`main.go:54`). `NewManager` also takes other sources and no ipmitool client, and the
handlers check for its absence (`server.go:171`): a Redfish-only deployment with a
grid source that moves (`LiveGrid`) stands for those. Any 2xx answer means that the
BMC took the request, 202 Accepted included. Nameplate percentages are rounded down
to watts.

### Topology

Every method of `Graph` holds the lock throughout and is one step, except `Spec`,
which takes the read lock for the nodes (`SpecNodes`) and again for the edges
(`SpecEdges`). `LoadNodes` and `LoadEdge` are `Load`, edge by edge, ending the
process at one whose end is missing; `Discover` is the enrichment from the device
registry; `HandleUpsert` posts a node or an edge. A node is its kind, labels are
left out. An edge is filed in `out` and `in` in the order it came, duplicates
included, as the code does. `Bfs` is the code's nested loop as a recursive function
of the loop's state (`Walk`: what was seen, the answer so far, the queue, and `todo`,
the edges still to look at of the node taken last); `Turn` is one turn of either
loop. `PredByKind` is the loop over a node's incoming edges. The queries are
operators over the state, checked in every state against balls of growing radius
(`Ball`) instead of a walk. Ids are assumed to be finitely many, as in any process.

### Storage

The model follows one series. A row holds a timestamp and the readings it stands
for, so "avg, min, max, count" of a rollup row is the set of readings they were
computed from and a `FILL(NULL)` row has none. A statement is a record;
`MaintenancePlan` and `Schema` are the lists the code builds, and the columns of
each table and those a rollup reads are kept, because QuestDB refuses a statement
that reads a column which is not there (`Accepts`). `ExecSucceeds`, `ExecRefused`
and `ExecLost` are one call of `Exec` inside `ExecMany`: done, refused, or failed
on the way with the statement executed or not. `Start` and `Serve` are `main`
up to the listening server, `RunMaintenance` the ticker, `Stop` the end of the
process at any point; the one-shot `-maintenance` mode is left out. `Store` is the ILP writer, which sends late and more than
once. QuestDB's own semantics (`Insert`, `Sampled`, `Effect`) are external, taken
from how the statements use them.

Handlers only read, so they are operators. `HandleTimeseries` parses its bounds
as `parseTimeArg` does: the unit of a number is guessed from its size. `K` stands
for the 1000 between units, so the code's limits 1e12, 1e15 and 1e18 are powers of
`K`, and model time starts after 2001, when 1e9 s had passed; before it a
number in milliseconds would be read as seconds.

### Modbus

`stream` holds the bytes received and not read yet. One call of `readRegisters` is
one step, by what the gateway does: `GatewayAnswers`, `GatewayRejects` (an
exception), `GatewaySilent` (until the deadline), `WriteFails`, `DialFails`. The
code's ten-byte header, byte count at offset 9 and function at offset 8, are
applied to the bytes as they come; a short read drops the connection, a wrong
function keeps it. An error of `SetDeadline` itself (`modbus.go:110-112`) is left out. `block` and `out` are the loop of `Poll`.

## 3. Runs

| Run | Checks | Shows |
|---|---|---|
| `supervisor` | nine properties, safety and liveness | every branch of `run_once` with both sides of each threshold; reads and commands that fail or hang at any step; reset; also on a device that exposes nothing but its current |
| `pipeline` | five invariants, `ShutdownCompletes`, `PointsSettle` | points are conserved, counters balance until Run returns, nothing after close; shutdown always completes; while it serves, points on the bus settle |
| `pipeline_drain` | `DeliversAllPoints`, violated | a point left in the channel when Run returns |
| `dead_letters` | an invariant, the refinement, two liveness properties | the sink is the abstract queue; cancellation returns |
| `dead_letters_stuck` | `AvailableItemUnblocks`, violated | a lost wake-up |
| `orchestrator` | four invariants | envelope, audit, order and two-person rule under concurrency |
| `hardware` | three invariants, three liveness properties | overlapping handlers, late and hanging BMC calls, a moving signal, shutdown at any moment |
| `control_store` | three invariants | latch, envelope and audit log under any sequence of requests |
| `topology` | three invariants, an action property | indexes agree, chains are exactly what is reachable, without repetition, and only grow, exports dangle only at edges added meanwhile |
| `storage` | three invariants | at least one whole rollup row per minute despite lost calls and restarts; raw queries exact in every time format; gaps are not values |
| `storage_retention` | `RawIsAgedOut`, violated | without any failure, expired raw partitions are never dropped |
| `modbus_framing` | `PollsReadRegisters`, violated | a poll returns something other than the registers |

Bounds, and why they are enough:

- Supervisor: values just inside and outside each threshold stand for all
  others, because the code only compares; two errors to latch is the smallest
  count that tells "consecutive" from "any"; one reset shows a latch, a recovery
  and a second latch; a heartbeat every second cycle tells counted cycles from
  uncounted ones. The envelope is narrower than 0..100 on both sides, so a
  safe state written unclamped is distinguishable from a clamped command.
- Pipeline: two sources competing for a one-slot channel, two workers, batches
  of two, polls of up to two points, a dead-letter sink of one. Two points in all
  (`MaxTotal`), from one source or one from each: they fill the channel while a
  source is blocked, fill a batch, or make two partial ones that need the timer, and
  overflow the dead letters. The theorems of section 4 cover every bound. The drain
  run needs one of each.
- DeadLetterSink: five letters into a sink of two reach eviction with a backlog
  in Drain's hand and another queued.
- Orchestrator: two clients, three calls and an audit log of two: the log
  overflows while calls overlap. Fourteen requests: values below, inside, above
  the envelope and NaN, as numbers and text, booleans, words and null, every
  command and an unknown one.
- Hardware: two clients and an audit log of two; every backend choice, a request that
  names another system, and one request for each refusal. Three calls overlap,
  supersede each other and overflow the log; in the deployment whose signal moves
  there are two (`MaxCalls`), enough for previews under different signals.
- ControlStore: two devices, three audited operations, a log of two.
- Topology: three elements with up to three edges give cycles, self-loops,
  paths, branches and duplicates; one exporting client, since exports do not
  see each other; spec files with a loop and with a dangling edge.
- Storage: a day of four units and minutes of two, a pass every unit, so windows
  are unaligned half of the time and three passes see a minute whole: two
  failures are the most that may be lost, and the run has two. Two readings make a
  whole minute, a split one or a gap. Readings come up to five units late, one
  more than a day. Ten units of time let minutes leave the last window that saw
  them. Time ends before raw data expires, so the retention guard of
  `QueriesAnswerStored` never excludes anything, and no window has both bounds left
  out. `readings_1h` stays empty (section 5), so `RollupAnswersAreReadings` speaks of
  minutes. The retention run has time for a partition to expire and no failures.
- Modbus: the two blocks of ten registers `cmd/main.go` configures; six polls.

Fairness. `Supervisor::run` loops forever, so a cycle that can take a step takes
it (`WF(RunOnce)`); a silent HAL call cannot. Go runs every runnable goroutine
(weak fairness of Drain, Waiter, Run, sources' sends and workers' steps).
`select` chooses among ready cases at random, so a `ctx.Done` that stays ready is
chosen eventually even when other cases keep becoming ready (strong fairness of
`SourceStops` and `WorkerLeaves`). A batch write returns: the writer dials with a
timeout and sets a deadline. Handlers of the hardware API run, its Redfish client
gives up after 15 s and `Shutdown` after 10 s; its grid source does not fail at
every tick for ever. ipmitool has no timeout and none is assumed. Nothing is assumed of polls, puts, cancellation, the
plant, the link or operators.

Deadlock checking is off where the modelled system may stop: after Run returns,
after Drain returns or waits for a letter nobody puts, after a topology
process refused its spec file, when the storage model's time ends, after the hardware API's
process ends, and when clients have made
their bounded number of calls.

## 4. Proofs

All theorems hold for every value of the constants that satisfies the named
assumptions of the module (limits are percentages in order, capacities positive,
and so on).

`SupervisorProofs`. The inductive invariant is `TypeOK`, `LatchCountsErrors`,
`LatchedWritesOnlySafe` and `Envelope`, strengthened by `PendingOK` (every
command still to be written is a writable one: valve and fan in the envelope or
fully open, outlets only off) and `CoolingOwed` (in an unhealthy cycle, valve and
fan are open already, or a command opening them is still pending, or a command
was lost). The strengthening is needed because a command's effect on the device
is decided steps before it happens: what the actuators will be depends on what is
pending. Lemmas follow the data flow: what the agents may request
(`AgentRequestable`), what the clamp makes of it (`ClampAllWritable`), what the
enforcer lets through (`EnforceWritable`). `OutletStaysOff` is the action
property `NeverAutoRestores`, from the same invariant.

`PipelineProofs`. The invariant is the typed parts plus `Phases` (which program
points sources and workers can be at in each phase of Run, and which flags are
set then) and `Holdings` (who may hold points where). From it follow
`ClosedAfterUse` and `StoppedHoldNothing`, for any
number of sources and workers and any capacities. Conservation is the second
layer. `EveryPointOnce` treats every outbox, batch and store as a place; the
lemmas on `Moved` say once and for all that moving some points from one place to
another, or adding points nobody had, keeps the places disjoint and their union
right, and each action is then shown to be such a move. It is inductive together
with `Resting`: a collector between two polls has nothing left to send, or the
next poll would overwrite it. `CountersBalance` is the third layer: it follows from
`Balance`, the same equation without its restriction to the time before Run returns,
which is what the steps keep; the points on the way are counted with cardinalities of finite sets, which is where the
assumption comes in that sources and workers are finitely many. `ReturnSettlesPoints`
joins the three layers at shutdown: once Run has returned, the points left in the
channel are the only ones that are neither written, dead-lettered nor given up by
their source, and the registry's counters differ by exactly their number.
`PipelineUsesQueue` is the composition: the pipeline's specification implies that of
`DeadLetterQueue`, the interface the real sink is shown to implement below.

`DeadLetterProofs`. `SinkImplementsQueue` is the refinement: under
`taken <- handled \o inHand`, `Put` is the queue's Put, taking the backlog is its
Take and every other step stutters. The invariant needed is that letters are in
hand exactly while Drain is calling `fn`. `LettersStayAccounted` looks at the line
of letters that were handled, are in hand or queued: every step but `Put` leaves
the line alone, and a `Put` into a full sink takes out of its middle exactly the
letter that becomes evicted.

`OrchestratorProofs`. The invariant follows a value from the policy check to the
device. `CallsLawful` says that every call past the check carries a value its
originator may write (NaN only if NaN was asked for), `SinkLawful` that the sink holds
only such values, whoever wrote last; the envelope and the two-person rule are read
off the second.
`LaterSubmitWins` speaks of audit entries, which are written after delivery and
without a lock across the two, so `AcceptedCovered` states it already for calls
that are delivered and not yet recorded. `References` keeps calls, entries and
ids apart; with it the log is gapless and ids are distinct.

`HardwareProofs`. `TakenCovered` is `LastSuccessHolds` stated for every request a
BMC took, reported or not: a request can be overwritten between the BMC's step
and the handler's answer. `LogOrdered` says that entries are in the order their
calls ended and that whatever is missing is older than everything in a full log;
`OrderedLogAgrees` reads `ReportedChangesLogged` off it. The invariant says more than
the property, namely which failed changes are recorded (`MustBeLogged`), because that
is how the code decides. `PreviewsOfOneSignal` says that a preview
resolved every server with the signal it shows, which makes draws comparable
across previews for every nameplate.

`ControlStoreProofs`. `TypeOK`, `LatchedIsCooled` and `AuditExplainsState` are
inductive together with the well-formedness of the entries. The last is
preserved by an operation on the device the new entry is about, by operations on
other devices, and by dropping the oldest entry when the log is full.

`StorageProofs`. `Jobs` says where a list of statements can be: the second
statement of a pass reads a column `readings_1m` does not have, is always
refused, and ends the pass, so the partition drops never run and the raw table
keeps every reading (`Contents`); `QueriesAnswerStored` therefore holds without
its bound on retention. The heart of `MinutesRolledUpWhole` is `NotOverdue`: a
minute that is not rolled up whole yet has its next chance (`Due`) no later than
one interval, plus one for each failure so far, after the first moment a pass
could see it whole. A lost call or a restart pushes `Due` by at most an interval
and counts as a failure, so the budget moves along; when a pass runs on time its
window contains the minute, and later passes only add rows. `RawQueriesExact` has
the one hypothesis beyond the constants' types, `NanosFit`: that the times of the
instance fit int64 nanoseconds, as the code's do until 2262. The unit guessed by
`parseTimeArg` is then right for every accepted form of a bound (`ParseForms`).

`TopologyProofs`. The invariant `Inv` joins the types, `Mirrored` (the two indexes
hold the same edges, each filed under its own ends, between nodes there are),
`ExportOK` (what an export in progress has read: its edges that were in the graph
when it read the nodes have both ends among those nodes) and an empty graph before
`Load`. `Mirrored` alone is not enough for exports: that their nodes cover the
edges there were at that moment has to be carried over every later upsert, which
works because nodes are never removed. `IndexesMirrored` and
`ExportsDangleOnlyLate` follow for every spec file, registry and request.

`QueriesAgreeWithGraph` needs nothing more of the graph than `Inv`; what it takes is
the correctness of the loops. The library's induction theorems cannot be applied
by the provers here, so the module states induction over sets of numbers (`Smallest`,
from the well-foundedness of the naturals, and `Induction`). From it follows that a
function given by its first value and its steps exists (`Iteration`, for `PredByKind`
and `Ball`), and that a loop written as a recursive function of its state is well
defined whether or not it ends from every state (`LoopDefined`, for `Bfs`). The
invariant of the walk is `Search`, stated for any relation: `L` lists the nodes found,
without repetition (`Distinct`), the first `n` of them taken from the queue; every
neighbour of a taken node is in `L` or still to be looked at (`Covered`); every node
but the first is a neighbour of a taken one before it (`Reached`); and if a node
later in `L` is a neighbour of `L[m]`, an earlier one is a neighbour of some `L[k]`
with `k <= m` (`InOrder`). The last part is what makes the walk breadth-first
(`ChainsBreadthFirst`). `WalkOK` ties the code's variables to it (`seen` is what was found, `queue`
is its untaken suffix); `TakingKeeps` and `LookingKeeps` are the turns of the two
loops. Every turn takes a node, of which there are finitely many, or an edge from
`todo`, so the loop ends (`LoopEnds`), and a search that is over has found exactly
the last ball, no node before a nearer one (`SearchEnds`). `ChainsStayReported` adds
that no step removes an edge (`EdgesStay`) and that balls grow with the edges
(`BallsWiden`).

Every safety invariant and every action property the passing runs check is proved,
and so is the refinement. Only model-checked are the liveness properties, since the
prover has no rules for fairness and ENABLED here; the four violated properties of
section 5 have counterexamples.

## 5. Where the code and its documentation disagree

Four disagreements are runs with a counterexample (see `findings`): the points `Run`
leaves on the bus, the lost wake-up of `Drain`, the maintenance pass that never reaches its partition drops,
and the Modbus header that is a byte too long. Others met while modelling, not kept
as runs:

- `safety.rs:30` says that above the current ceiling load is shed; `enforce`
  returns full cooling for a temperature trip before it looks at the current, so a
  rack that is too hot and over its ceiling at once keeps its outlet on.
  `ElectricalFaultIsShed` is about racks that are not too hot.
- `audit.go:12-14` says boot and power-cap actions are recorded and not silently
  dropped; their handlers return 502 before recording, also when the BMC takes the
  request after the call was given up. `ReportedChangesLogged` therefore asks for
  entries of changes answered 200 only.
- `retention.go:12,46` and `go-telemetry/README.md:107` call a pass idempotent;
  the rollup tables have no DEDUP, so every pass over the same minutes adds rows
  again; `BucketsRolledUpWhole` asks for at least one whole row and does not see
  partial or repeated ones. A reading stored more than a day late may miss its rollup.
- `retention.go:15` makes gaps explicit with NULL; a rollup query over one fails as
  a whole (500), because `toFloat` refuses nil.
- `go-telemetry/README.md:102-103` says a `devices` registry tracks fleet presence;
  nothing calls `UpsertDevice`, so `/api/devices` and topology discovery see none.
- `latestFrom` leaves device, sensor and metric of its answer empty.
- `graph.go:168-169` says powers chains are found breadth-first and returned in
  topological order. They are breadth-first (`ChainsBreadthFirst`), and that is a
  different order: with b -> a, c -> a and b -> c the chain of a may list b before or
  after c. `QueriesMatchGraph` says nothing of the order. `Load` accepts empty ids and kinds that `UpsertNode` refuses. An export
  made while an edge and its node are added may be one that `Load` rejects.
- `supervisor.rs:31` says HAL failures count towards the latch; command errors
  are dropped (lines 138, 158, 184, 190), only read errors count. For the same reason
  `UnhealthyCycleCools` is about cycles that lost no command.
- `control/mod.rs:9-10` promises the safe state on comms loss; a HAL call that is
  never answered blocks the cycle, because nothing sets a timeout.
- `pid.rs:47` says `reset` is used after a fault trip; nothing calls it.
- `pipeline.go:78` says Stop may be called from another goroutine; before Run
  has set `p.cancel` it does nothing.
- `docs/api-reference.md:64-66` asks a second acknowledgement for extreme fan
  setpoints; `orchestrator.go:190` compares them with the valve's limits, which
  differs only under a policy `main` does not configure.
- `ipmi.go:44-46` lets the caller fall back to Redfish when ipmitool is missing;
  `handlePower` does not. ipmitool acts on the configured host whatever server the
  request names, and the audit entry names the requested one.
- `docs/api-reference.md:60` says a Submit is clamped, audited, forwarded; the
  code forwards and then audits. The orchestrator's `AuditIsComplete` speaks of entries
  and not of this order.
- `docs/architecture.md:65` says every actuator path is clamped; the
  orchestrator lets a textual NaN through, the control store does not.
  `SinkInEnvelope` is about requests for other values.
- `state.go:291-292` and `docs/api-reference.md:27` say the audit log is returned
  newest first; it is returned oldest first. `state.go:115` calls it append-only;
  entries beyond 1000 drop the oldest.

## 6. Not modelled, and the plan

Left out for good: model inference and training (numerical), the dashboard
(presentation), generated bindings, HTTP plumbing and CORS, the
physics of the simulated rack beyond "it moves".

The rest of the query API: ad-hoc SQL is whatever the client sends. Redfish,
ipmitool and line-protocol text are conversions without state.

Next, in this order:

1. `Firmware`: pinned keys, signature check, prepare and apply, with a flash
   writer that fails.
2. The AI brain's guarded policy; the point codec against a reference definition.
