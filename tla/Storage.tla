------------------------------ MODULE Storage ------------------------------
(***************************************************************************)
(* The QuestDB side of the telemetry service: cmd/api applies the schema,  *)
(* runs the retention and downsampling plan on a ticker and serves the     *)
(* query API (internal/questdb).  QuestDB itself is external: a table is a *)
(* bag of rows, DEDUP UPSERT replaces the row with the same key, SAMPLE BY *)
(* cuts a window into buckets and DROP PARTITION removes whole partitions. *)
(* The model follows one series (device, sensor, metric).  A row holds its *)
(* timestamp and the readings it stands for: a raw row its own, a rollup   *)
(* row the ones avg/min/max/count were computed from, a FILL(NULL) row     *)
(* none.  Time is counted in one small unit; Day, Hour and Minute are in   *)
(* that unit.                                                              *)
(***************************************************************************)
EXTENDS Integers, Sequences, FiniteSets, FiniteSetsExt

CONSTANTS Day, Hour, Minute, Month, \* lengths in time units
          Interval,                 \* -maintain-every
          RawKeep, RollupKeep,      \* -raw-retention, -rollup-retention
          Configs,                  \* the -token/-addr/-insecure-no-auth flags tried
          MaxClock, MaxReadings, MaxLate, MaxFailures \* bounds of the instance

ASSUME StorageAssumption ==
  /\ {Day, Hour, Minute, Month, Interval, RawKeep, RollupKeep} \subseteq Nat \ {0}
  /\ {MaxClock, MaxReadings, MaxLate, MaxFailures} \subseteq Nat

VARIABLES clock,    \* the time, as time.Now() and QuestDB's now() give it
          config,   \* the flags the process is started with
          phase,    \* "exited", "apply", "serving" or "refused"
          rows,     \* created tables, each a bag of rows
          job,      \* statements of the running ExecMany still to execute
          nextPass, \* when the maintenance ticker fires next
          written,  \* history: when each reading was first stored
          failures  \* calls and processes lost so far

vars == <<clock, config, phase, rows, job, nextPass, written, failures>>

Floor(t, width) == t - (t % width)

\* f with x added to its domain, unless it is there already.
AddNew(f, x, value) ==
  [y \in DOMAIN f \cup {x} |-> IF y \in DOMAIN f THEN f[y] ELSE value]

(***************************************************************************)
(* Statements.                                                             *)
(***************************************************************************)
Keys == {"ts", "device", "sensor", "metric"}

Columns == [readings    |-> Keys \cup {"value", "unit"},
            readings_1m |-> Keys \cup {"avg", "min", "max", "count"},
            readings_1h |-> Keys \cup {"avg", "min", "max", "count"},
            devices     |-> {"device", "kind", "first_seen", "last_seen"}]

\* Mutant: the raw table is created without DEDUP UPSERT KEYS.
Deduped_None == {}

Deduped == {"readings"}

Partition == [readings |-> Day, readings_1m |-> Month]

Create(table) == [op |-> "create", table |-> table]

Schema == <<Create("readings"), Create("readings_1m"), Create("readings_1h"),
            Create("devices")>>

\* The window is [now - from, now - to); the SELECT list reads `value`.
DownsampleStmt(rollup, src, dst, from, to) ==
  [op |-> "rollup", table |-> dst, rollup |-> rollup, src |-> src,
   reads |-> Keys \cup {"value"}, from |-> from, to |-> to]

RetentionDropStmt(table, keep) == [op |-> "drop", table |-> table, keep |-> keep]

\* Mutant: the window reaches back one minute instead of one day.
MaintenancePlan_LastDayOnly ==
  <<DownsampleStmt(Minute, "readings", "readings_1m", Day + Minute, Day),
    DownsampleStmt(Hour, "readings_1m", "readings_1h", 3 * Day, Day),
    RetentionDropStmt("readings", RawKeep),
    RetentionDropStmt("readings_1m", RollupKeep)>>

MaintenancePlan ==
  <<DownsampleStmt(Minute, "readings", "readings_1m", 2 * Day, Day),
    DownsampleStmt(Hour, "readings_1m", "readings_1h", 3 * Day, Day),
    RetentionDropStmt("readings", RawKeep),
    RetentionDropStmt("readings_1m", RollupKeep)>>

(***************************************************************************)
(* QuestDB's execution of a statement (external).  Copies of a row are     *)
(* counted as one or several: MaxCopies.                                   *)
(***************************************************************************)
MaxCopies == 2

Insert(table, new) ==
  LET old == IF table \in Deduped
             THEN {r \in DOMAIN rows[table] : \A n \in new : n.ts # r.ts}
             ELSE DOMAIN rows[table]
  IN  [rows EXCEPT ![table] =
         [r \in old \cup new |->
            IF r \notin old THEN 1
            ELSE IF r \in new THEN Min({@[r] + 1, MaxCopies}) ELSE @[r]]]

\* SAMPLE BY: one row per bucket from the first reading of the window to the
\* last, FILL(NULL) giving the buckets without a reading.
Sampled(s) ==
  LET window  == {r \in DOMAIN rows[s.src] :
                    clock - s.from <= r.ts /\ r.ts < clock - s.to}
      buckets == {Floor(r.ts, s.rollup) : r \in window}
      filled  == IF buckets = {} THEN {}
                 ELSE {b \in Min(buckets) .. Max(buckets) : b % s.rollup = 0}
  IN  {[ts |-> b,
        of |-> UNION {r.of : r \in {w \in window : Floor(w.ts, s.rollup) = b}}]
         : b \in filled}

Accepts(s) ==
  CASE s.op = "create" -> TRUE
    [] s.op = "rollup" -> /\ {s.src, s.table} \subseteq DOMAIN rows
                          /\ s.reads \subseteq Columns[s.src]
    [] s.op = "drop"   -> s.table \in DOMAIN rows

Effect(s) ==
  CASE s.op = "create" -> AddNew(rows, s.table, <<>>)
    [] s.op = "rollup" -> Insert(s.table, Sampled(s))
    [] s.op = "drop"   ->
         LET width == Partition[s.table]
             kept  == {r \in DOMAIN rows[s.table] :
                         Floor(r.ts, width) + width > clock - s.keep}
         IN  [rows EXCEPT ![s.table] = [r \in kept |-> @[r]]]

(***************************************************************************)
(* cmd/api: start, apply the schema, serve and maintain.                   *)
(***************************************************************************)
Init ==
  /\ clock = 0 /\ nextPass = 0 /\ failures = 0
  /\ config \in Configs
  /\ phase = "exited"
  /\ rows = <<>> /\ written = <<>>
  /\ job = <<>>

\* main with -apply-schema and -maintain-every; also the restart of a process
\* that ended.
Start ==
  /\ phase = "exited"
  /\ phase' = "apply" /\ job' = Schema
  /\ UNCHANGED <<clock, config, rows, nextPass, written, failures>>

\* Exec of the next statement succeeds.
ExecSucceeds ==
  /\ job # <<>> /\ Accepts(Head(job))
  /\ rows' = Effect(Head(job))
  /\ job' = Tail(job)
  /\ UNCHANGED <<clock, config, phase, nextPass, written, failures>>

\* ExecMany returns the first error: log.Fatalf while applying the schema, a
\* log line in the maintenance loop.
ExecManyReturnsError ==
  /\ job' = <<>>
  /\ phase' = IF phase = "apply" THEN "exited" ELSE phase

\* QuestDB refuses the statement.
ExecRefused ==
  /\ job # <<>> /\ ~Accepts(Head(job))
  /\ ExecManyReturnsError
  /\ UNCHANGED <<clock, config, rows, nextPass, written, failures>>

\* The call fails on the way (timeout, broken connection, undecodable answer):
\* QuestDB has executed the statement or not.
ExecLost ==
  /\ job # <<>> /\ Accepts(Head(job)) /\ failures < MaxFailures
  /\ rows' \in {rows, Effect(Head(job))}
  /\ ExecManyReturnsError
  /\ failures' = failures + 1
  /\ UNCHANGED <<clock, config, nextPass, written>>

RequireAuthOrLoopback(c) == c.token # "" \/ c.insecure \/ c.loopback

\* The ticker is made, then the flags are checked and the API is served.
Serve ==
  /\ phase = "apply" /\ job = <<>>
  /\ phase' = IF RequireAuthOrLoopback(config) THEN "serving" ELSE "refused"
  /\ nextPass' = clock + Interval
  /\ UNCHANGED <<clock, config, rows, job, written, failures>>

\* The ticker fires: RunMaintenance.
RunMaintenance ==
  /\ phase = "serving" /\ job = <<>> /\ nextPass <= clock
  /\ job' = MaintenancePlan
  /\ nextPass' = nextPass + Interval
  /\ UNCHANGED <<clock, config, phase, rows, written, failures>>

\* SIGTERM or a crash, at any point.
Stop ==
  /\ phase \in {"apply", "serving"} /\ failures < MaxFailures
  /\ phase' = "exited" /\ job' = <<>>
  /\ failures' = failures + 1
  /\ UNCHANGED <<clock, config, rows, nextPass, written>>

\* The ILP line of one point, as the telemetry service's writer sends it: with
\* the point's own time (now, if it has none), late after a backlog, and again
\* when a batch is replayed.  A batch that fails before the line stores nothing.
Store(ts) ==
  /\ "readings" \in DOMAIN rows
  /\ \/ ts \in DOMAIN written
     \/ /\ Cardinality(DOMAIN written) < MaxReadings
        /\ ts \in 0 .. clock /\ ts >= clock - MaxLate
  /\ rows' = Insert("readings", {[ts |-> ts, of |-> {ts}]})
  /\ written' = AddNew(written, ts, clock)
  /\ UNCHANGED <<clock, config, phase, job, nextPass, failures>>

\* A pass takes less than a time unit, and a process that ended is restarted
\* within it.
Tick ==
  /\ phase = "serving" /\ job = <<>> /\ clock < nextPass /\ clock < MaxClock
  /\ clock' = clock + 1
  /\ UNCHANGED <<config, phase, rows, job, nextPass, written, failures>>

Next ==
  \/ Start \/ ExecSucceeds \/ ExecRefused \/ ExecLost
  \/ Serve \/ RunMaintenance \/ Stop \/ Tick
  \/ \E ts \in 0 .. MaxClock : Store(ts)

Spec == Init /\ [][Next]_vars

(***************************************************************************)
(* The query API.  Times are compared as nanoseconds; K stands for the     *)
(* 1000 between two units, so 1e12, 1e15 and 1e18 are K^4, K^5 and K^6 and *)
(* an int64 reaches to 9.22 K^6.                                           *)
(***************************************************************************)
K == 10

Int64(n) == LET half == 9223372 IN ((n + half) % (2 * half)) - half

\* Seconds since 1970 of a model time: after 2001, when 1e9 seconds had passed.
Seconds(t) == K^3 + t

Nanos(t) == Seconds(t) * K^3

\* A query parameter: omitted, an RFC3339 time, a number, or neither.
Omitted == [form |-> "omitted"]
Rfc3339(t) == [form |-> "rfc3339", at |-> t]
Number(n) == [form |-> "number", n |-> n]
Malformed == [form |-> "malformed"]

ParseTimeArg(arg) ==
  IF arg.form = "rfc3339" THEN Nanos(arg.at)
  ELSE CASE arg.n < K^4 -> Int64(arg.n * K^3)
         [] K^4 <= arg.n /\ arg.n < K^5 -> Int64(arg.n * K^2)
         [] K^5 <= arg.n /\ arg.n < K^6 -> Int64(arg.n * K)
         [] K^6 <= arg.n -> arg.n

ParseWindow(from, to) ==
  [from |-> IF from = Omitted THEN Nanos(clock - Day) ELSE ParseTimeArg(from),
   to   |-> IF to = Omitted THEN Nanos(clock) ELSE ParseTimeArg(to)]

Auth(token) == config.token = "" \/ token = config.token

Answer(status, points) == [status |-> status, points |-> points]

\* Mutant: a NULL cell is taken for zero.
ToFloatFails_NullIsZero(row) == FALSE

\* A row whose cell is NULL is no float: seriesFrom fails as a whole.
ToFloatFails(row) == row.of = {}

SeriesFrom(result) ==
  IF \E r \in DOMAIN result : ToFloatFails(r) THEN Answer(500, <<>>)
  ELSE Answer(200, result)

TimeseriesTable(rollup) ==
  CASE rollup = "1m" -> "readings_1m"
    [] rollup = "1h" -> "readings_1h"
    [] rollup \notin {"1m", "1h"} -> "readings"

HandleTimeseries(token, from, to, rollup) ==
  IF ~Auth(token) THEN Answer(401, <<>>)
  ELSE IF Malformed \in {from, to} THEN Answer(400, <<>>)
  ELSE LET window == ParseWindow(from, to)
           table  == TimeseriesTable(rollup)
       IN  IF table \notin DOMAIN rows THEN Answer(400, <<>>)
           ELSE LET found == {r \in DOMAIN rows[table] :
                                 window.from <= Nanos(r.ts) /\ Nanos(r.ts) < window.to}
                IN  SeriesFrom([r \in found |-> rows[table][r]])

\* LATEST ON ts gives the newest row of the series; none is "no data".
LatestFrom(result) ==
  IF result = {} THEN Answer(500, <<>>)
  ELSE SeriesFrom([r \in {s \in result : \A o \in result : o.ts <= s.ts} |-> 1])

HandleLatest(token) ==
  IF ~Auth(token) THEN Answer(401, <<>>)
  ELSE IF "readings" \notin DOMAIN rows THEN Answer(400, <<>>)
  ELSE LatestFrom(DOMAIN rows["readings"])

(***************************************************************************)
(* Properties.                                                             *)
(***************************************************************************)
\* Readings of a bucket that were stored within a day.
Timely(bucket) ==
  {t \in DOMAIN written : Floor(t, Minute) = bucket /\ written[t] <= t + Day}

\* Every minute ends up in at least one rollup row that has all its readings
\* that were stored within a day (partial and repeated rows are not excluded;
\* MaintenancePlan's overlapping windows, retention.go:50):
\* although a pass cuts the minutes at both ends of its window, a later pass
\* sees them whole, as long as fewer passes are lost to failed calls and
\* restarts than fit between the minute's first and last whole window.
BucketsRolledUpWhole ==
  \A bucket \in {Floor(t, Minute) : t \in DOMAIN written} :
    /\ phase = "serving" /\ job = <<>>
    /\ bucket + 2 * Day < clock
    /\ failures < (Day - Minute + 1) \div Interval
    /\ Timely(bucket) # {}
    => \E r \in DOMAIN rows["readings_1m"] :
         r.ts = bucket /\ Timely(bucket) \subseteq r.of

\* The forms in which a client may write a time: RFC3339, s, ms, us, ns.
Forms(t) == {Rfc3339(t)} \cup {Number(Seconds(t) * K^i) : i \in 0 .. 3}

\* What /api/timeseries should answer for the window [from, to): every reading
\* stored so far, once, whatever was sent twice.
Asked(from, to) ==
  [r \in {[ts |-> t, of |-> {t}] : t \in {w \in DOMAIN written : from <= w /\ w < to}} |-> 1]

\* While raw data is within retention, /api/timeseries on the raw table answers
\* exactly the readings stored in the window asked for, each once, in whichever
\* unit either bound is written and with either left out (server.go:145-234);
\* /api/latest answers the newest of them (server.go:120-143).
QueriesAnswerStored ==
  phase = "serving" /\ clock < RawKeep
  => /\ \A f, t \in DOMAIN written \cup {clock + 1} :
          /\ \A from \in Forms(f), to \in Forms(t) :
               HandleTimeseries(config.token, from, to, "") = Answer(200, Asked(f, t))
          /\ \A to \in Forms(t) :
               HandleTimeseries(config.token, Omitted, to, "")
                 = Answer(200, Asked(clock - Day, t))
          /\ \A from \in Forms(f) :
               HandleTimeseries(config.token, from, Omitted, "")
                 = Answer(200, Asked(f, clock))
     /\ written # <<>> =>
          HandleLatest(config.token)
            = Answer(200, Asked(Max(DOMAIN written), Max(DOMAIN written) + 1))

\* A minute without readings is never answered as a value: each point of a
\* rollup series stands for readings that were stored and lie in its bucket
\* (retention.go:14-15, FILL(NULL) "leaves gaps explicit"; toFloat refuses NULL).
RollupAnswersAreReadings ==
  \A rollup \in {"1m", "1h"} :
    LET answer == HandleTimeseries(config.token, Rfc3339(0), Rfc3339(MaxClock), rollup)
    IN  \A r \in DOMAIN answer.points :
          /\ r.of # {} /\ r.of \subseteq DOMAIN written
          /\ \A t \in r.of : r.ts <= t /\ t < r.ts + (IF rollup = "1m" THEN Minute ELSE Hour)

\* Without failures a partition of raw readings is gone once a pass has run
\* after it became entirely older than the retention window: "rollups first
\* ..., then ALTER TABLE ... DROP PARTITION to age out raw data"
\* (go-telemetry/README.md:107-109, retention.go:40-43).
RawIsAgedOut ==
  phase = "serving" /\ job = <<>> /\ failures = 0
  => \A r \in DOMAIN rows["readings"] :
       clock < Floor(r.ts, Day) + Day + RawKeep + Interval

=============================================================================
