---------------------------- MODULE StorageProofs ----------------------------
(***************************************************************************)
(* Proofs, for any lengths of day, hour, minute and retention, any ticker  *)
(* interval and any number of readings and failures, of what module        *)
(* Storage says of the stored rows and of the answers of the query API.    *)
(***************************************************************************)
EXTENDS Storage, WellFoundedInduction, TLAPS

Tables == {"readings", "readings_1m", "readings_1h", "devices"}

(* The rows of the raw table when each reading of W is stored once.         *)
Raw(W) == {[ts |-> t, of |-> {t}] : t \in W}

(* The shape of the variables. *)
Types ==
  /\ clock \in 0 .. MaxClock /\ nextPass \in Nat /\ failures \in Nat
  /\ phase \in {"exited", "apply", "serving", "refused"}
  /\ DOMAIN rows \subseteq Tables /\ rows = [x \in DOMAIN rows |-> rows[x]]
  /\ DOMAIN written \subseteq 0 .. MaxClock /\ written \in [DOMAIN written -> Nat]

(* Where ExecMany can be.  The second statement of a pass is always refused *)
(* (readings_1m has no column value), so a pass never gets any further.     *)
Jobs ==
  /\ phase = "apply" =>
       \/ job = Schema
       \/ job = Tail(Schema) /\ {"readings"} \subseteq DOMAIN rows
       \/ job = Tail(Tail(Schema)) /\ {"readings", "readings_1m"} \subseteq DOMAIN rows
       \/ job = <<Create("devices")>> /\ Tables \ {"devices"} \subseteq DOMAIN rows
       \/ job = <<>> /\ Tables \subseteq DOMAIN rows
  /\ phase = "serving" =>
       /\ Tables \subseteq DOMAIN rows
       /\ job \in {<<>>, MaintenancePlan, Tail(MaintenancePlan)}
  /\ phase \in {"exited", "refused"} => job = <<>>

(* What the tables hold: every reading once, rollup rows that stand for     *)
(* readings of their own minute, and nothing in the hourly table.           *)
Contents ==
  /\ "readings" \notin DOMAIN rows => DOMAIN written = {}
  /\ "readings" \in DOMAIN rows => rows["readings"] = [r \in Raw(DOMAIN written) |-> 1]
  /\ "readings_1m" \in DOMAIN rows =>
       \A r \in DOMAIN rows["readings_1m"] :
         /\ r.of \subseteq DOMAIN written
         /\ \A t \in r.of : r.ts = Floor(t, Minute)
  /\ "readings_1h" \in DOMAIN rows => DOMAIN rows["readings_1h"] = {}

(* The ticker fires at nextPass, at most an interval from now. *)
Ticker ==
  /\ clock <= nextPass /\ nextPass <= clock + Interval
  /\ phase = "serving" /\ job # <<>> => nextPass = clock + Interval

(* When the rollup of the next pass runs, at the latest: now when a pass    *)
(* has begun, at the next tick of a serving process, an interval from now   *)
(* when the process has yet to come up.                                     *)
Due ==
  IF phase # "serving" THEN clock + Interval
  ELSE IF job = MaintenancePlan THEN clock ELSE nextPass

Whole(bucket) ==
  /\ "readings_1m" \in DOMAIN rows
  /\ \E r \in DOMAIN rows["readings_1m"] : r.ts = bucket /\ Timely(bucket) \subseteq r.of

(* A minute that is not rolled up whole yet is not overdue: every failure   *)
(* puts its rollup off by an interval at most.                              *)
NotOverdue ==
  \A bucket \in Nat :
    /\ Timely(bucket) # {} /\ ~Whole(bucket)
    /\ Interval * (failures + 1) <= Day - Minute + 1
    => Due <= (bucket + Day + Minute - 1) + Interval * (failures + 1)

(* The inductive invariant. *)
IInv == Types /\ Jobs /\ Contents /\ Ticker /\ NotOverdue

-----------------------------------------------------------------------------
(* Numbers. *)

(* The constants are positive numbers. *)
LEMMA Constants ==
  /\ Day \in Nat \ {0} /\ Minute \in Nat \ {0} /\ Hour \in Nat \ {0} /\ Interval \in Nat \ {0}
  /\ MaxClock \in Nat /\ MaxReadings \in Nat /\ MaxLate \in Nat /\ MaxFailures \in Nat
  BY StorageAssumption

(* A set of natural numbers that is not empty has a least one. *)
LEMMA Least ==
  ASSUME NEW S \in SUBSET Nat, S # {}
  PROVE  Min(S) \in S /\ \A y \in S : Min(S) <= y
<1> DEFINE R == {ss \in Nat \X Nat : ss[1] < ss[2]}
<1>1. IsWellFoundedOn(R, Nat)
  BY NatLessThanWellFounded, Zenon DEF OpToRel
<1>2. \A x, y \in Nat : y < x => <<y, x>> \in R
  OBVIOUS
<1> HIDE DEF R
<1>3. PICK x \in S : \A y \in S : ~ (<<y, x>> \in R)
  BY <1>1, WFMin
<1>4. ASSUME NEW y \in S PROVE x <= y
  <2>1. ~(y < x)
    BY <1>2, <1>3
  <2>. QED BY <2>1
<1>. QED BY <1>4 DEF Min

(* And a greatest one, when it is bounded. *)
LEMMA Greatest ==
  ASSUME NEW n \in Nat, NEW S \in SUBSET (0 .. n), S # {}
  PROVE  Max(S) \in S /\ \A y \in S : y <= Max(S)
<1> DEFINE T == {n - y : y \in S}
<1>1. T \in SUBSET Nat /\ T # {}
  <2>1. \A y \in S : n - y \in Nat
    OBVIOUS
  <2>. QED BY <2>1
<1>2. PICK m : m = Min(T)
  OBVIOUS
<1>3. m \in T /\ \A d \in T : m <= d
  BY <1>1, <1>2, Least
<1>4. PICK x \in S : m = n - x
  BY <1>3
<1>5. ASSUME NEW y \in S PROVE x >= y
  <2>1. n - y \in T
    OBVIOUS
  <2> HIDE DEF T
  <2>2. n - x <= n - y
    BY <1>3, <1>4, <2>1
  <2>. QED BY <2>2
<1>6. Max(S) \in S /\ \A y \in S : Max(S) >= y
  BY <1>5 DEF Max
<1>. QED BY <1>6

(* Floor cuts time into buckets of the given width. *)
LEMMA FloorBucket ==
  ASSUME NEW t \in Nat, NEW width \in Nat \ {0}
  PROVE  /\ Floor(t, width) \in Nat /\ Floor(t, width) <= t /\ t < Floor(t, width) + width
         /\ Floor(t, width) % width = 0
<1>1. Floor(t, width) \in Nat /\ Floor(t, width) <= t /\ t < Floor(t, width) + width
  BY DEF Floor
<1>2. t = width * (t \div width) + (t % width) /\ t \div width \in Int /\ t % width \in 0 .. (width - 1)
  OBVIOUS
<1>3. Floor(t, width) = width * (t \div width)
  BY <1>2 DEF Floor
<1>4. \A q \in Int : (width * q) % width = 0
  OBVIOUS
<1>. QED BY <1>1, <1>2, <1>3, <1>4

-----------------------------------------------------------------------------
(* Statements. *)

(* The schema and the plan, statement by statement. *)
LEMMA Lists ==
  /\ Schema # <<>> /\ Head(Schema) = Create("readings")
  /\ Tail(Schema) # <<>> /\ Head(Tail(Schema)) = Create("readings_1m")
  /\ Tail(Tail(Schema)) # <<>> /\ Head(Tail(Tail(Schema))) = Create("readings_1h")
  /\ Tail(Tail(Tail(Schema))) = <<Create("devices")>>
  /\ MaintenancePlan # <<>>
  /\ Head(MaintenancePlan) = DownsampleStmt(Minute, "readings", "readings_1m", 2 * Day, Day)
  /\ Tail(MaintenancePlan) # <<>> /\ Tail(MaintenancePlan) # MaintenancePlan
  /\ Head(Tail(MaintenancePlan)) = DownsampleStmt(Hour, "readings_1m", "readings_1h", 3 * Day, Day)
<1> DEFINE c(x) == Create(x)
<1>1. Schema = <<c("readings"), c("readings_1m"), c("readings_1h"), c("devices")>>
  BY DEF Schema
<1> HIDE DEF c
<1>2. /\ Tail(Schema) = <<c("readings_1m"), c("readings_1h"), c("devices")>>
      /\ Tail(Tail(Schema)) = <<c("readings_1h"), c("devices")>>
      /\ Tail(Tail(Tail(Schema))) = <<c("devices")>>
  BY <1>1
<1>3. PICK d1, d2, d3, d4 :
        /\ MaintenancePlan = <<d1, d2, d3, d4>>
        /\ d1 = DownsampleStmt(Minute, "readings", "readings_1m", 2 * Day, Day)
        /\ d2 = DownsampleStmt(Hour, "readings_1m", "readings_1h", 3 * Day, Day)
  BY DEF MaintenancePlan
<1>4. Tail(MaintenancePlan) = <<d2, d3, d4>>
  BY <1>3
<1>5. Len(MaintenancePlan) = 4 /\ Len(Tail(MaintenancePlan)) = 3
  BY <1>3, <1>4
<1>6. MaintenancePlan # <<>> /\ Tail(MaintenancePlan) # <<>> /\ Tail(MaintenancePlan) # MaintenancePlan
  BY <1>3, <1>4, <1>5
<1>7. Head(MaintenancePlan) = d1 /\ Head(Tail(MaintenancePlan)) = d2
  BY <1>3, <1>4
<1>8. /\ Schema # <<>> /\ Head(Schema) = c("readings")
      /\ Tail(Schema) # <<>> /\ Head(Tail(Schema)) = c("readings_1m")
      /\ Tail(Tail(Schema)) # <<>> /\ Head(Tail(Tail(Schema))) = c("readings_1h")
  BY <1>1, <1>2
<1>. QED BY <1>2, <1>3, <1>6, <1>7, <1>8 DEF c

(* CREATE TABLE IF NOT EXISTS is never refused, adds an empty table and     *)
(* leaves the others alone.                                                 *)
LEMMA CreateEffect ==
  ASSUME NEW table
  PROVE  /\ Accepts(Create(table))
         /\ DOMAIN Effect(Create(table)) = DOMAIN rows \cup {table}
         /\ Effect(Create(table)) =
              [x \in DOMAIN rows \cup {table} |-> IF x \in DOMAIN rows THEN rows[x] ELSE <<>>]
<1>1. Create(table).op = "create" /\ Create(table).table = table
  BY DEF Create
<1>2. Effect(Create(table)) = AddNew(rows, table, <<>>)
  BY <1>1 DEF Effect
<1>3. Accepts(Create(table))
  BY <1>1 DEF Accepts
<1>. QED BY <1>2, <1>3 DEF AddNew

(* The first rollup of a pass is accepted once the tables are there; the    *)
(* second one never is.                                                     *)
LEMMA PassAccepted ==
  /\ Tables \subseteq DOMAIN rows => Accepts(Head(MaintenancePlan))
  /\ ~Accepts(Head(Tail(MaintenancePlan)))
<1>1. PICK d1 : d1 = Head(MaintenancePlan)
  OBVIOUS
<1>2. PICK d2 : d2 = Head(Tail(MaintenancePlan))
  OBVIOUS
<1>3. /\ d1.op = "rollup" /\ d1.src = "readings" /\ d1.table = "readings_1m"
      /\ d1.reads = Keys \cup {"value"}
  BY <1>1, Lists DEF DownsampleStmt
<1>4. /\ d2.op = "rollup" /\ d2.src = "readings_1m" /\ d2.reads = Keys \cup {"value"}
  BY <1>2, Lists DEF DownsampleStmt
<1>5. /\ Columns["readings"] = Keys \cup {"value", "unit"}
      /\ Columns["readings_1m"] = Keys \cup {"avg", "min", "max", "count"}
  BY DEF Columns
<1>6. "value" \notin Keys \cup {"avg", "min", "max", "count"}
  BY DEF Keys
<1>7. ~Accepts(d2)
  <2>1. ~(d2.reads \subseteq Columns[d2.src])
    BY <1>4, <1>5, <1>6
  <2>. QED BY <1>4, <2>1 DEF Accepts
<1>8. Tables \subseteq DOMAIN rows => Accepts(d1)
  <2>1. d1.reads \subseteq Columns[d1.src]
    BY <1>3, <1>5
  <2>. QED BY <1>3, <2>1 DEF Accepts, Tables
<1>. QED BY <1>1, <1>2, <1>7, <1>8
(* What the first rollup of a pass does to the tables: it adds its rows to  *)
(* the minute table, which has no DEDUP keys, and touches no other.         *)
LEMMA RollupEffect ==
  ASSUME Types, Tables \subseteq DOMAIN rows, NEW d, d = Head(MaintenancePlan)
  PROVE  /\ DOMAIN Effect(d) = DOMAIN rows
         /\ Effect(d) = [x \in DOMAIN rows |-> Effect(d)[x]]
         /\ \A x \in DOMAIN rows : x # "readings_1m" => Effect(d)[x] = rows[x]
         /\ DOMAIN Effect(d)["readings_1m"] = DOMAIN rows["readings_1m"] \cup Sampled(d)
<1>1. d.op = "rollup" /\ d.table = "readings_1m"
  BY Lists DEF DownsampleStmt
<1>2. PICK new : new = Sampled(d)
  OBVIOUS
<1>3. Effect(d) = Insert("readings_1m", new)
  BY <1>1, <1>2 DEF Effect
<1>4. "readings_1m" \notin Deduped /\ "readings_1m" \in DOMAIN rows
  BY DEF Deduped, Tables
<1>5. PICK T : /\ Effect(d) = [rows EXCEPT !["readings_1m"] = T]
               /\ DOMAIN T = DOMAIN rows["readings_1m"] \cup new
  BY <1>3, <1>4 DEF Insert
<1>6. /\ DOMAIN Effect(d) = DOMAIN rows /\ Effect(d)["readings_1m"] = T
      /\ \A x \in DOMAIN rows : x # "readings_1m" => Effect(d)[x] = rows[x]
      /\ Effect(d) = [x \in DOMAIN rows |-> Effect(d)[x]]
  BY <1>4, <1>5 DEF Types
<1>. QED BY <1>2, <1>5, <1>6

(* The rows a minute rollup computes stand for stored readings of their     *)
(* minute, and a minute that lies in the window entirely gets a row with    *)
(* all its readings.                                                        *)
LEMMA SampledRows ==
  ASSUME Types, Contents, Tables \subseteq DOMAIN rows, NEW d, d = Head(MaintenancePlan)
  PROVE  /\ \A r \in Sampled(d) : /\ r.of \subseteq DOMAIN written
                                 /\ \A t \in r.of : r.ts = Floor(t, Minute)
         /\ \A bucket \in Nat :
              /\ Timely(bucket) # {}
              /\ clock - 2 * Day <= bucket /\ bucket + Minute <= clock - Day
              => \E r \in Sampled(d) : r.ts = bucket /\ Timely(bucket) \subseteq r.of
<1>1. d.src = "readings" /\ d.rollup = Minute /\ d.from = 2 * Day /\ d.to = Day
  BY Lists DEF DownsampleStmt
<1>2. DOMAIN rows["readings"] = Raw(DOMAIN written)
  BY DEF Contents, Tables
<1>3. /\ clock \in Nat /\ DOMAIN written \subseteq 0 .. MaxClock /\ MaxClock \in Nat
      /\ Day \in Nat /\ Minute \in Nat \ {0}
  BY Constants DEF Types
<1> DEFINE window == {r \in DOMAIN rows[d.src] :
                        clock - d.from <= r.ts /\ r.ts < clock - d.to}
           buckets == {Floor(r.ts, d.rollup) : r \in window}
           filled == IF buckets = {} THEN {}
                     ELSE {b \in Min(buckets) .. Max(buckets) : b % d.rollup = 0}
           of(b) == UNION {r.of : r \in {w \in window : Floor(w.ts, d.rollup) = b}}
<1>4. window = {r \in Raw(DOMAIN written) : clock - 2 * Day <= r.ts /\ r.ts < clock - Day}
  BY <1>1, <1>2
<1>5. Sampled(d) = {[ts |-> b, of |-> of(b)] : b \in filled}
  BY DEF Sampled
<1> HIDE DEF window
<1>6. /\ buckets = {Floor(r.ts, Minute) : r \in window}
      /\ \A b : of(b) = UNION {r.of : r \in {w \in window : Floor(w.ts, Minute) = b}}
  BY <1>1
<1> HIDE DEF buckets, of
<1>7. \A b : b \in filled <=> buckets # {} /\ b \in Min(buckets) .. Max(buckets) /\ b % Minute = 0
  BY <1>1
<1> HIDE DEF filled
<1>8. \A w \in window : w.ts \in DOMAIN written /\ w.of = {w.ts}
  BY <1>4 DEF Raw
<1>9. ASSUME NEW r \in Sampled(d)
      PROVE  r.of \subseteq DOMAIN written /\ \A t \in r.of : r.ts = Floor(t, Minute)
  <2>1. PICK b \in filled : r = [ts |-> b, of |-> of(b)]
    BY <1>5
  <2>2. r.ts = b /\ r.of = UNION {w.of : w \in {v \in window : Floor(v.ts, Minute) = b}}
    BY <1>6, <2>1
  <2>3. ASSUME NEW t \in r.of PROVE t \in DOMAIN written /\ r.ts = Floor(t, Minute)
    <3>1. PICK w \in window : Floor(w.ts, Minute) = b /\ t \in w.of
      BY <2>2
    <3>. QED BY <1>8, <2>2, <3>1
  <2>. QED BY <2>3
<1>10. ASSUME NEW bucket \in Nat, Timely(bucket) # {},
              clock - 2 * Day <= bucket, bucket + Minute <= clock - Day
       PROVE  \E r \in Sampled(d) : r.ts = bucket /\ Timely(bucket) \subseteq r.of
  <2>1. \A t \in Timely(bucket) : t \in DOMAIN written /\ Floor(t, Minute) = bucket
    BY DEF Timely
  <2>2. ASSUME NEW t \in Timely(bucket)
        PROVE  [ts |-> t, of |-> {t}] \in window
    <3>1. t \in DOMAIN written /\ t \in Nat /\ Floor(t, Minute) = bucket
      BY <1>3, <2>1
    <3>2. bucket <= t /\ t < bucket + Minute
      BY <1>3, <3>1, FloorBucket
    <3>3. clock - 2 * Day <= t /\ t < clock - Day
      BY <1>3, <1>10, <3>1, <3>2
    <3>4. [ts |-> t, of |-> {t}] \in Raw(DOMAIN written)
      BY <3>1 DEF Raw
    <3>. QED BY <1>4, <3>3, <3>4
  <2>3. PICK t0 : t0 \in Timely(bucket)
    BY <1>10
  <2>4. t0 \in Nat /\ Floor(t0, Minute) = bucket
    BY <1>3, <2>1, <2>3
  <2>5. bucket \in buckets
    <3>1. PICK w \in window : w = [ts |-> t0, of |-> {t0}]
      BY <2>2, <2>3
    <3>2. Floor(w.ts, Minute) = bucket
      BY <2>4, <3>1
    <3>. QED BY <1>6, <3>2
  <2>6. buckets \in SUBSET (0 .. MaxClock)
    <3>1. ASSUME NEW w \in window PROVE Floor(w.ts, Minute) \in 0 .. MaxClock
      <4>1. w.ts \in Nat /\ w.ts <= MaxClock
        BY <1>3, <1>8
      <4>2. Floor(w.ts, Minute) \in Nat /\ Floor(w.ts, Minute) <= w.ts
        BY <1>3, <4>1, FloorBucket
      <4>. QED BY <1>3, <4>1, <4>2
    <3>. QED BY <1>6, <3>1
  <2>7. Min(buckets) \in buckets /\ Min(buckets) <= bucket
    BY <1>3, <2>5, <2>6, Least
  <2>8. Max(buckets) \in buckets /\ bucket <= Max(buckets)
    BY <1>3, <2>5, <2>6, Greatest
  <2>9. bucket \in Min(buckets) .. Max(buckets)
    BY <1>3, <2>6, <2>7, <2>8
  <2>10. bucket % Minute = 0
    BY <1>3, <2>4, FloorBucket
  <2>11. bucket \in filled
    BY <1>7, <2>5, <2>9, <2>10
  <2>12. PICK r : r = [ts |-> bucket, of |-> of(bucket)]
    OBVIOUS
  <2>13. r \in Sampled(d)
    BY <1>5, <2>11, <2>12
  <2>14. r.ts = bucket
         /\ r.of = UNION {w.of : w \in {v \in window : Floor(v.ts, Minute) = bucket}}
    BY <1>6, <2>12
  <2>15. ASSUME NEW t \in Timely(bucket) PROVE t \in r.of
    <3>1. PICK w \in window : w = [ts |-> t, of |-> {t}]
      BY <2>2
    <3>2. Floor(w.ts, Minute) = bucket /\ t \in w.of
      BY <2>1, <3>1
    <3>. QED BY <2>14, <3>2
  <2>. QED BY <2>13, <2>14, <2>15
<1>. QED BY <1>9, <1>10

-----------------------------------------------------------------------------
(* No reading is added and no rollup row is lost. *)
Grows ==
  /\ written' = written
  /\ "readings_1m" \in DOMAIN rows =>
       /\ "readings_1m" \in DOMAIN rows'
       /\ DOMAIN rows["readings_1m"] \subseteq DOMAIN rows'["readings_1m"]

(* Then a minute rolled up whole stays so. *)
LEMMA StaysWhole ==
  ASSUME Grows, NEW bucket
  PROVE  Timely(bucket)' = Timely(bucket) /\ (Whole(bucket) => Whole(bucket)')
<1>1. Timely(bucket)' = Timely(bucket)
  BY DEF Grows, Timely
<1>. QED BY <1>1 DEF Grows, Whole

(* A failure may put the next rollup off by an interval, nothing else does. *)
LEMMA Patience ==
  ASSUME Types, NotOverdue, Grows, Due \in Int, Due' \in Int,
         \/ failures' = failures /\ Due' <= Due
         \/ failures' = failures + 1 /\ Due' <= Due + Interval
  PROVE  NotOverdue'
<1>1. failures \in Nat /\ Interval \in Nat /\ Day \in Nat /\ Minute \in Nat
  BY Constants DEF Types
<1>2. PICK e : e = Interval * (failures + 1)
  OBVIOUS
<1>3. e \in Int
  BY <1>1, <1>2
<1>4. PICK e1 : e1 = Interval * (failures' + 1)
  OBVIOUS
<1>5. \/ e1 = e /\ Due' <= Due
      \/ e1 = e + Interval /\ Due' <= Due + Interval
  BY <1>1, <1>2, <1>4
<1>6. ASSUME NEW bucket \in Nat, Timely(bucket)' # {}, ~Whole(bucket)', e1 <= Day - Minute + 1
      PROVE  Due' <= (bucket + Day + Minute - 1) + e1
  <2>1. Timely(bucket) # {} /\ ~Whole(bucket)
    BY <1>6, StaysWhole
  <2>2. e <= Day - Minute + 1
    BY <1>1, <1>3, <1>5, <1>6
  <2>3. Due <= (bucket + Day + Minute - 1) + e
    BY <1>2, <2>1, <2>2 DEF NotOverdue
  <2>. QED BY <1>1, <1>3, <1>5, <2>3
<1>7. \A bucket \in Nat :
        /\ Timely(bucket)' # {} /\ ~Whole(bucket)'
        /\ Interval * (failures' + 1) <= Day - Minute + 1
        => Due' <= (bucket + Day + Minute - 1) + Interval * (failures' + 1)
  BY <1>4, <1>6
<1>. QED BY <1>7 DEF NotOverdue

(* A statement that is executed, or not, in a running ExecMany. *)
LEMMA ExecEffect ==
  ASSUME IInv, job # <<>>, Accepts(Head(job)), rows' \in {rows, Effect(Head(job))},
         written' = written
  PROVE  /\ DOMAIN rows \subseteq DOMAIN rows' /\ DOMAIN rows' \subseteq Tables
         /\ rows' = [x \in DOMAIN rows' |-> rows'[x]]
         /\ Contents' /\ Grows
<1> USE DEF IInv
<1>0. /\ DOMAIN rows \subseteq Tables /\ rows = [x \in DOMAIN rows |-> rows[x]]
  BY DEF Types
<1>1. CASE rows' = rows
  BY <1>0, <1>1 DEF Contents, Grows
<1>2. ASSUME NEW table \in Tables, Head(job) = Create(table), rows' = Effect(Head(job))
      PROVE  /\ DOMAIN rows \subseteq DOMAIN rows' /\ DOMAIN rows' \subseteq Tables
             /\ rows' = [x \in DOMAIN rows' |-> rows'[x]]
             /\ Contents' /\ Grows
  <2>1. /\ DOMAIN rows' = DOMAIN rows \cup {table}
        /\ rows' = [x \in DOMAIN rows \cup {table} |-> IF x \in DOMAIN rows THEN rows[x] ELSE <<>>]
    BY <1>2, CreateEffect
  <2>2. /\ \A x \in DOMAIN rows : rows'[x] = rows[x]
        /\ \A x \in DOMAIN rows' : x \notin DOMAIN rows => rows'[x] = <<>>
    BY <2>1
  <2>3. rows' = [x \in DOMAIN rows' |-> rows'[x]]
    BY <2>1
  <2>4. DOMAIN <<>> = {} /\ <<>> = [r \in {} |-> 1]
    OBVIOUS
  <2>5. Raw({}) = {}
    BY DEF Raw
  <2>6. "readings" \notin DOMAIN rows' => DOMAIN written = {}
    BY <2>1 DEF Contents
  <2>7. "readings" \in DOMAIN rows' => rows'["readings"] = [r \in Raw(DOMAIN written) |-> 1]
    <3>1. CASE "readings" \in DOMAIN rows
      BY <2>2, <3>1 DEF Contents
    <3>2. CASE "readings" \notin DOMAIN rows
      BY <2>2, <2>4, <2>5, <3>2 DEF Contents
    <3>. QED BY <3>1, <3>2
  <2>8. "readings_1m" \in DOMAIN rows' =>
          \A r \in DOMAIN rows'["readings_1m"] :
            r.of \subseteq DOMAIN written /\ \A t \in r.of : r.ts = Floor(t, Minute)
    <3>1. CASE "readings_1m" \in DOMAIN rows
      BY <2>2, <3>1 DEF Contents
    <3>2. CASE "readings_1m" \notin DOMAIN rows
      BY <2>2, <2>4, <3>2
    <3>. QED BY <3>1, <3>2
  <2>9. "readings_1h" \in DOMAIN rows' => DOMAIN rows'["readings_1h"] = {}
    BY <2>2, <2>4 DEF Contents
  <2>10. Contents'
    BY <2>6, <2>7, <2>8, <2>9 DEF Contents
  <2>11. Grows
    BY <2>1, <2>2 DEF Grows
  <2>. QED BY <1>0, <2>1, <2>3, <2>10, <2>11
<1>3. ASSUME Tables \subseteq DOMAIN rows, job = MaintenancePlan, rows' = Effect(Head(job))
      PROVE  /\ DOMAIN rows \subseteq DOMAIN rows' /\ DOMAIN rows' \subseteq Tables
             /\ rows' = [x \in DOMAIN rows' |-> rows'[x]]
             /\ Contents' /\ Grows
  <2>1. PICK d : d = Head(MaintenancePlan) /\ rows' = Effect(d)
    BY <1>3
  <2>2. /\ DOMAIN rows' = DOMAIN rows
        /\ rows' = [x \in DOMAIN rows' |-> rows'[x]]
        /\ \A x \in DOMAIN rows : x # "readings_1m" => rows'[x] = rows[x]
        /\ DOMAIN rows'["readings_1m"] = DOMAIN rows["readings_1m"] \cup Sampled(d)
    BY <1>3, <2>1, RollupEffect
  <2>3. \A r \in Sampled(d) : r.of \subseteq DOMAIN written /\ \A t \in r.of : r.ts = Floor(t, Minute)
    BY <1>3, <2>1, SampledRows
  <2>4. \A r \in DOMAIN rows'["readings_1m"] :
          r.of \subseteq DOMAIN written /\ \A t \in r.of : r.ts = Floor(t, Minute)
    BY <1>3, <2>2, <2>3 DEF Contents, Tables
  <2>5. rows'["readings"] = rows["readings"] /\ rows'["readings_1h"] = rows["readings_1h"]
    BY <1>3, <2>2 DEF Tables
  <2>6. Contents'
    BY <1>3, <2>2, <2>4, <2>5 DEF Contents, Tables
  <2>7. Grows
    BY <2>2 DEF Grows
  <2>. QED BY <1>0, <2>2, <2>6, <2>7
<1>4. phase \in {"apply", "serving"}
  BY DEF Types, Jobs
<1>5. CASE phase = "apply"
  <2>1. PICK table \in Tables : Head(job) = Create(table)
    <3>1. Head(<<Create("devices")>>) = Create("devices")
      OBVIOUS
    <3>. QED BY <1>5, <3>1, Lists DEF Jobs, Tables
  <2>. QED BY <1>1, <1>2, <2>1
<1>6. CASE phase = "serving"
  <2>1. Tables \subseteq DOMAIN rows /\ job = MaintenancePlan
    BY <1>6, PassAccepted DEF Jobs
  <2>. QED BY <1>1, <1>3, <2>1
<1>. QED BY <1>4, <1>5, <1>6

(* The next rollup is due at some time between now and an interval from now. *)
LEMMA DueSoon ==
  ASSUME Types, Ticker
  PROVE  Due \in Int /\ clock <= Due /\ Due <= clock + Interval
<1>1. clock \in Nat /\ nextPass \in Nat /\ Interval \in Nat
  BY Constants DEF Types
<1>. QED BY <1>1 DEF Ticker, Due

(* The same, after a step. *)
LEMMA DueSoonAfter ==
  ASSUME Types', Ticker'
  PROVE  Due' \in Int /\ clock' <= Due' /\ Due' <= clock' + Interval
<1>1. clock' \in Nat /\ nextPass' \in Nat /\ Interval \in Nat
  BY Constants DEF Types
<1>2. clock' <= nextPass' /\ nextPass' <= clock' + Interval
  BY DEF Ticker
<1>3. PICK d, c, n : d = Due' /\ c = clock' /\ n = nextPass'
  OBVIOUS
<1>4. d = c + Interval \/ d = c \/ d = n
  BY <1>3 DEF Due
<1>5. c \in Nat /\ n \in Nat /\ Interval \in Nat
  BY <1>1, <1>3
<1>6. c <= n /\ n <= c + Interval
  BY <1>2, <1>3
<1>7. d \in Int /\ c <= d /\ d <= c + Interval
  BY <1>4, <1>5, <1>6
<1>. QED BY <1>3, <1>7

(* The process starts, serves, is stopped, and time passes. *)
LEMMA ProcessIInv ==
  ASSUME IInv, Start \/ Serve \/ RunMaintenance \/ Stop \/ Tick
  PROVE  IInv'
<1> USE DEF IInv
<1>0. /\ clock \in Nat /\ clock <= MaxClock /\ nextPass \in Nat /\ failures \in Nat
      /\ MaxClock \in Nat /\ Interval \in Nat \ {0}
      /\ clock <= nextPass /\ nextPass <= clock + Interval
  BY Constants DEF Types, Ticker
<1>1. rows' = rows /\ written' = written
  BY DEF Start, Serve, RunMaintenance, Stop, Tick
<1>2. Contents' /\ Grows
  BY <1>1 DEF Contents, Grows
<1>3. Types'
  <2>1. clock' \in 0 .. MaxClock /\ nextPass' \in Nat /\ failures' \in Nat
    BY <1>0 DEF Start, Serve, RunMaintenance, Stop, Tick
  <2>2. phase' \in {"exited", "apply", "serving", "refused"}
    BY DEF Start, Serve, RunMaintenance, Stop, Tick, Types
  <2>. QED BY <1>1, <2>1, <2>2 DEF Types
<1>4. Jobs'
  <2>1. CASE Start
    BY <1>1, <2>1 DEF Start, Jobs
  <2>2. CASE Serve
    BY <1>1, <2>2, Lists DEF Serve, Jobs
  <2>3. CASE RunMaintenance
    BY <1>1, <2>3 DEF RunMaintenance, Jobs
  <2>4. CASE Stop
    BY <1>1, <2>4 DEF Stop, Jobs
  <2>5. CASE Tick
    BY <1>1, <2>5 DEF Tick, Jobs
  <2>. QED BY <2>1, <2>2, <2>3, <2>4, <2>5
<1>5. Ticker'
  BY <1>0 DEF Start, Serve, RunMaintenance, Stop, Tick, Ticker
<1>6. Due \in Int /\ clock <= Due /\ Due' \in Int
  BY <1>3, <1>5, DueSoon, DueSoonAfter
<1>7. \/ failures' = failures /\ Due' <= Due
      \/ failures' = failures + 1 /\ Due' <= Due + Interval
  <2>1. CASE Start
    BY <1>0, <2>1 DEF Start, Due
  <2>2. CASE Serve
    BY <1>0, <2>2, Lists DEF Serve, Due
  <2>3. CASE RunMaintenance
    BY <1>0, <2>3, Lists DEF RunMaintenance, Due
  <2>4. CASE Stop
    <3>1. Due' = clock + Interval /\ failures' = failures + 1
      BY <2>4 DEF Stop, Due
    <3>. QED BY <1>0, <1>6, <3>1
  <2>5. CASE Tick
    BY <1>0, <2>5, Lists DEF Tick, Due
  <2>. QED BY <2>1, <2>2, <2>3, <2>4, <2>5
<1>8. NotOverdue'
  BY <1>2, <1>6, <1>7, Patience
<1>. QED BY <1>2, <1>3, <1>4, <1>5, <1>8

(* A statement is refused, or lost on the way. *)
LEMMA ExecFailsIInv ==
  ASSUME IInv, ExecRefused \/ ExecLost
  PROVE  IInv'
<1> USE DEF IInv
<1>0. /\ clock \in Nat /\ nextPass \in Nat /\ failures \in Nat /\ Interval \in Nat \ {0}
      /\ clock <= nextPass /\ nextPass <= clock + Interval
  BY Constants DEF Types, Ticker
<1>1. /\ written' = written /\ clock' = clock /\ nextPass' = nextPass
      /\ job # <<>> /\ job' = <<>> /\ phase' = IF phase = "apply" THEN "exited" ELSE phase
  BY DEF ExecRefused, ExecLost, ExecManyReturnsError
<1>2. /\ DOMAIN rows \subseteq DOMAIN rows' /\ DOMAIN rows' \subseteq Tables
      /\ rows' = [x \in DOMAIN rows' |-> rows'[x]]
      /\ Contents' /\ Grows
  <2>1. CASE ExecRefused
    <3>1. rows' = rows
      BY <2>1 DEF ExecRefused
    <3>2. Contents' /\ Grows
      BY <1>1, <3>1 DEF Contents, Grows
    <3>. QED BY <3>1, <3>2 DEF Types
  <2>2. CASE ExecLost
    BY <1>1, <2>2, ExecEffect DEF ExecLost
  <2>. QED BY <2>1, <2>2
<1>3. failures' \in Nat /\ (failures' = failures \/ failures' = failures + 1)
  BY <1>0 DEF ExecRefused, ExecLost
<1>4. Types'
  BY <1>1, <1>2, <1>3 DEF Types
<1>5. Jobs'
  BY <1>1, <1>2 DEF Jobs, Types
<1>6. Ticker'
  BY <1>0, <1>1 DEF Ticker
<1>7. Due \in Int /\ Due' \in Int
  BY <1>4, <1>6, DueSoon, DueSoonAfter
<1>8. phase \in {"apply", "serving"}
  BY <1>1 DEF Types, Jobs
<1>9. \/ failures' = failures /\ Due' <= Due
      \/ failures' = failures + 1 /\ Due' <= Due + Interval
  <2>1. CASE phase = "apply"
    <3>1. Due' = Due
      BY <1>1, <2>1 DEF Due
    <3>. QED BY <1>0, <1>3, <1>7, <3>1
  <2>2. CASE phase = "serving"
    <3>1. Due' = nextPass /\ nextPass = clock + Interval
      BY <1>1, <2>2, Lists DEF Due, Ticker
    <3>2. CASE ExecLost
      <4>1. failures' = failures + 1
        BY <3>2 DEF ExecLost
      <4>. QED BY <1>0, <3>1, <4>1, DueSoon
    <3>3. CASE ExecRefused
      <4>1. job # MaintenancePlan /\ failures' = failures
        BY <2>2, <3>3, PassAccepted DEF ExecRefused, Jobs
      <4>2. Due = nextPass
        BY <2>2, <4>1 DEF Due
      <4>. QED BY <1>0, <3>1, <4>1, <4>2
    <3>. QED BY <3>2, <3>3
  <2>. QED BY <1>8, <2>1, <2>2
<1>10. NotOverdue'
  BY <1>2, <1>7, <1>9, Patience
<1>. QED BY <1>2, <1>4, <1>5, <1>6, <1>10

(* A statement is executed. *)
LEMMA ExecSucceedsIInv ==
  ASSUME IInv, ExecSucceeds
  PROVE  IInv'
<1> USE DEF IInv
<1>0. /\ clock \in Nat /\ nextPass \in Nat /\ failures \in Nat /\ Interval \in Nat \ {0}
      /\ Day \in Nat /\ Minute \in Nat
  BY Constants DEF Types
<1>1. /\ UNCHANGED <<clock, config, phase, nextPass, written, failures>>
      /\ job # <<>> /\ Accepts(Head(job)) /\ rows' = Effect(Head(job)) /\ job' = Tail(job)
  BY DEF ExecSucceeds
<1>2. /\ DOMAIN rows \subseteq DOMAIN rows' /\ DOMAIN rows' \subseteq Tables
      /\ rows' = [x \in DOMAIN rows' |-> rows'[x]]
      /\ Contents' /\ Grows
  BY <1>1, ExecEffect
<1>3. Types'
  BY <1>1, <1>2 DEF Types
<1>4. Jobs' /\ Ticker'
  <2>1. CASE phase = "apply"
    <3>1. ASSUME NEW table, Head(job) = Create(table) PROVE table \in DOMAIN rows'
      BY <1>1, <3>1, CreateEffect
    <3>2. Tail(<<Create("devices")>>) = <<>> /\ Head(<<Create("devices")>>) = Create("devices")
      OBVIOUS
    <3>3. CASE job = Schema
      <4>1. "readings" \in DOMAIN rows'
        BY <3>1, <3>3, Lists
      <4>. QED BY <1>1, <2>1, <3>3, <4>1 DEF Jobs, Ticker
    <3>4. CASE job = Tail(Schema) /\ {"readings"} \subseteq DOMAIN rows
      <4>1. "readings_1m" \in DOMAIN rows'
        BY <3>1, <3>4, Lists
      <4>. QED BY <1>1, <1>2, <2>1, <3>4, <4>1 DEF Jobs, Ticker
    <3>5. CASE job = Tail(Tail(Schema)) /\ {"readings", "readings_1m"} \subseteq DOMAIN rows
      <4>1. "readings_1h" \in DOMAIN rows' /\ job' = <<Create("devices")>>
        BY <1>1, <3>1, <3>5, Lists
      <4>. QED BY <1>1, <1>2, <2>1, <3>5, <4>1 DEF Jobs, Ticker, Tables
    <3>6. CASE job = <<Create("devices")>> /\ Tables \ {"devices"} \subseteq DOMAIN rows
      <4>1. "devices" \in DOMAIN rows' /\ job' = <<>>
        BY <1>1, <3>1, <3>2, <3>6
      <4>. QED BY <1>1, <1>2, <2>1, <3>6, <4>1 DEF Jobs, Ticker, Tables
    <3>. QED BY <1>1, <2>1, <3>3, <3>4, <3>5, <3>6 DEF Jobs
  <2>2. CASE phase = "serving"
    <3>1. job = MaintenancePlan /\ Tables \subseteq DOMAIN rows
      BY <1>1, <2>2, PassAccepted DEF Jobs
    <3>. QED BY <1>1, <1>2, <2>2, <3>1 DEF Jobs, Ticker
  <2>. QED BY <1>1, <2>1, <2>2 DEF Jobs, Types
<1>5. Due \in Int /\ Due' \in Int /\ Due' <= clock + Interval
  BY <1>1, <1>3, <1>4, DueSoon, DueSoonAfter
<1>6. NotOverdue'
  <2>1. CASE phase = "apply"
    <3>1. Due' = Due
      BY <1>1, <2>1 DEF Due
    <3>2. failures' = failures /\ Due' <= Due
      BY <1>1, <1>5, <3>1
    <3>. QED BY <1>2, <1>5, <3>2, Patience
  <2>2. CASE phase = "serving"
    <3>1. job = MaintenancePlan /\ Tables \subseteq DOMAIN rows /\ Due = clock
      BY <1>1, <2>2, PassAccepted DEF Jobs, Due
    <3>2. PICK e : e = Interval * (failures + 1)
      OBVIOUS
    <3>3. e \in Int /\ Interval <= e
      <4>1. PICK m \in Nat : m = Interval * failures /\ e = m + Interval
        BY <1>0, <3>2
      <4>. QED BY <1>0, <4>1
    <3>4. ASSUME NEW bucket \in Nat, Timely(bucket)' # {}, ~Whole(bucket)', e <= Day - Minute + 1
          PROVE  Due' <= (bucket + Day + Minute - 1) + e
      <4>1. Timely(bucket)' = Timely(bucket) /\ ~Whole(bucket) /\ Timely(bucket) # {}
        BY <1>2, <3>4, StaysWhole
      <4>2. CASE clock < bucket + Day + Minute
        BY <1>0, <1>5, <3>3, <4>2
      <4>3. CASE ~(clock < bucket + Day + Minute)
        <5>1. clock <= (bucket + Day + Minute - 1) + e
          BY <3>1, <3>2, <3>4, <4>1 DEF NotOverdue
        <5>2. clock - 2 * Day <= bucket /\ bucket + Minute <= clock - Day
          BY <1>0, <3>3, <3>4, <4>3, <5>1
        <5>3. PICK d : d = Head(MaintenancePlan)
          OBVIOUS
        <5>4. PICK r \in Sampled(d) : r.ts = bucket /\ Timely(bucket) \subseteq r.of
          BY <3>1, <4>1, <5>2, <5>3, SampledRows
        <5>5. DOMAIN rows' = DOMAIN rows /\ r \in DOMAIN rows'["readings_1m"]
          BY <1>1, <3>1, <5>3, RollupEffect
        <5>6. Whole(bucket)'
          BY <3>1, <4>1, <5>4, <5>5 DEF Whole, Tables
        <5>. QED BY <3>4, <5>6
      <4>. QED BY <4>2, <4>3
    <3>5. \A bucket \in Nat :
            /\ Timely(bucket)' # {} /\ ~Whole(bucket)'
            /\ Interval * (failures' + 1) <= Day - Minute + 1
            => Due' <= (bucket + Day + Minute - 1) + Interval * (failures' + 1)
      BY <1>1, <3>2, <3>4
    <3>. QED BY <3>5 DEF NotOverdue
  <2>. QED BY <1>1, <2>1, <2>2 DEF Jobs, Types
<1>. QED BY <1>2, <1>3, <1>4, <1>6

(* A reading is stored, in time, late or again. *)
LEMMA StoreIInv ==
  ASSUME IInv, NEW ts \in 0 .. MaxClock, Store(ts)
  PROVE  IInv'
<1> USE DEF IInv
<1>0. /\ clock \in Nat /\ nextPass \in Nat /\ failures \in Nat /\ Interval \in Nat \ {0}
      /\ Day \in Nat /\ Minute \in Nat \ {0} /\ MaxClock \in Nat
  BY Constants DEF Types
<1>1. /\ UNCHANGED <<clock, config, phase, job, nextPass, failures>>
      /\ "readings" \in DOMAIN rows
      /\ rows' = Insert("readings", {[ts |-> ts, of |-> {ts}]})
      /\ written' = AddNew(written, ts, clock)
  BY DEF Store
<1>2. /\ DOMAIN written' = DOMAIN written \cup {ts}
      /\ \A t \in DOMAIN written : written'[t] = written[t]
      /\ ts \notin DOMAIN written => written'[ts] = clock
  BY <1>1 DEF AddNew
<1>3. PICK new : new = [ts |-> ts, of |-> {ts}]
  OBVIOUS
<1>4. PICK old : old = {r \in Raw(DOMAIN written) : ts # r.ts}
  OBVIOUS
<1>5. rows["readings"] = [r \in Raw(DOMAIN written) |-> 1]
  BY <1>1 DEF Contents
<1>6. new.ts = ts /\ new \notin old
  BY <1>3, <1>4
<1>7. old \cup {new} = Raw(DOMAIN written')
  <2>1. Raw(DOMAIN written') = Raw(DOMAIN written) \cup {new}
    BY <1>2, <1>3 DEF Raw
  <2>2. \A r \in Raw(DOMAIN written) : r.ts = ts => r = new
    BY <1>3 DEF Raw
  <2>. QED BY <1>4, <2>1, <2>2
<1>8. PICK T : /\ rows' = [rows EXCEPT !["readings"] = T]
               /\ T = [r \in old \cup {new} |-> 1]
  <2>1. {r \in DOMAIN rows["readings"] : \A n \in {new} : n.ts # r.ts} = old
    BY <1>4, <1>5, <1>6
  <2>2. "readings" \in Deduped
    BY DEF Deduped
  <2>3. rows' = [rows EXCEPT !["readings"] =
                   [r \in old \cup {new} |->
                      IF r \notin old THEN 1
                      ELSE IF r \in {new} THEN Min({rows["readings"][r] + 1, MaxCopies})
                      ELSE rows["readings"][r]]]
    BY <1>1, <1>3, <2>1, <2>2 DEF Insert
  <2>4. \A r \in old : r \notin {new} /\ rows["readings"][r] = 1
    BY <1>4, <1>5, <1>6
  <2>5. [r \in old \cup {new} |->
           IF r \notin old THEN 1
           ELSE IF r \in {new} THEN Min({rows["readings"][r] + 1, MaxCopies})
           ELSE rows["readings"][r]] = [r \in old \cup {new} |-> 1]
    BY <2>4
  <2>. QED BY <2>3, <2>5
<1>9. /\ DOMAIN rows' = DOMAIN rows /\ rows' = [x \in DOMAIN rows' |-> rows'[x]]
      /\ rows'["readings"] = T
      /\ \A x \in DOMAIN rows : x # "readings" => rows'[x] = rows[x]
  BY <1>1, <1>8 DEF Types
<1>10. Types'
  <2>1. DOMAIN written' \subseteq 0 .. MaxClock /\ written' \in [DOMAIN written' -> Nat]
    BY <1>0, <1>1, <1>2 DEF Types, AddNew
  <2>. QED BY <1>1, <1>9, <2>1 DEF Types
<1>11. Jobs' /\ Ticker'
  BY <1>1, <1>9 DEF Jobs, Ticker
<1>12. Contents'
  <2>1. rows'["readings"] = [r \in Raw(DOMAIN written') |-> 1]
    BY <1>7, <1>8, <1>9
  <2>2. "readings_1m" \in DOMAIN rows' =>
          \A r \in DOMAIN rows'["readings_1m"] :
            r.of \subseteq DOMAIN written' /\ \A t \in r.of : r.ts = Floor(t, Minute)
    BY <1>2, <1>9 DEF Contents
  <2>3. "readings_1h" \in DOMAIN rows' => DOMAIN rows'["readings_1h"] = {}
    BY <1>9 DEF Contents
  <2>. QED BY <1>1, <1>9, <2>1, <2>2, <2>3 DEF Contents
<1>13. Due' = Due /\ Due \in Int /\ Due <= clock + Interval
  <2>1. Due' = Due
    BY <1>1 DEF Due
  <2>. QED BY <2>1, DueSoon
<1>14. PICK e : e = Interval * (failures + 1)
  OBVIOUS
<1>15. e \in Int /\ Interval <= e
  <2>1. PICK m \in Nat : m = Interval * failures /\ e = m + Interval
    BY <1>0, <1>14
  <2>. QED BY <1>0, <2>1
<1>16. ASSUME NEW bucket \in Nat, Timely(bucket)' # {}, ~Whole(bucket)', e <= Day - Minute + 1
       PROVE  Due <= (bucket + Day + Minute - 1) + e
  <2>1. CASE Timely(bucket)' = Timely(bucket)
    <3>1. ~Whole(bucket)
      BY <1>9, <1>16, <2>1 DEF Whole
    <3>. QED BY <1>14, <1>16, <2>1, <3>1 DEF NotOverdue
  <2>2. CASE Timely(bucket)' # Timely(bucket)
    <3>1. \A t \in DOMAIN written : t \in Timely(bucket)' <=> t \in Timely(bucket)
      BY <1>2 DEF Timely
    <3>2. Timely(bucket)' \subseteq DOMAIN written \cup {ts} /\ Timely(bucket) \subseteq DOMAIN written
      BY <1>2 DEF Timely
    <3>3. ts \notin DOMAIN written /\ ts \in Timely(bucket)'
      BY <2>2, <3>1, <3>2
    <3>4. Floor(ts, Minute) = bucket /\ clock <= ts + Day
      BY <1>2, <3>3 DEF Timely
    <3>5. ts < bucket + Minute
      BY <1>0, <3>4, FloorBucket
    <3>. QED BY <1>0, <1>13, <1>15, <3>4, <3>5
  <2>. QED BY <2>1, <2>2
<1>17. NotOverdue'
  <2>1. \A bucket \in Nat :
          /\ Timely(bucket)' # {} /\ ~Whole(bucket)'
          /\ Interval * (failures' + 1) <= Day - Minute + 1
          => Due' <= (bucket + Day + Minute - 1) + Interval * (failures' + 1)
    BY <1>1, <1>13, <1>14, <1>16
  <2>. QED BY <2>1 DEF NotOverdue
<1>. QED BY <1>10, <1>11, <1>12, <1>17

-----------------------------------------------------------------------------
(* Before the process starts there are no tables and no readings. *)
LEMMA InitIInv == Init => IInv
<1> SUFFICES ASSUME Init PROVE IInv
  OBVIOUS
<1> USE DEF Init
<1>1. DOMAIN rows = {} /\ DOMAIN written = {} /\ rows = [x \in DOMAIN rows |-> rows[x]]
  OBVIOUS
<1>2. Types
  BY <1>1, Constants DEF Types
<1>3. Jobs /\ Contents
  BY <1>1 DEF Jobs, Contents
<1>4. Ticker
  BY Constants DEF Ticker
<1>5. NotOverdue
  BY <1>1 DEF NotOverdue, Timely
<1>. QED BY <1>2, <1>3, <1>4, <1>5 DEF IInv

(* Every step preserves the invariant. *)
LEMMA NextIInv == IInv /\ [Next]_vars => IInv'
<1> SUFFICES ASSUME IInv, [Next]_vars PROVE IInv'
  OBVIOUS
<1>1. CASE UNCHANGED vars
  <2> USE <1>1 DEF vars
  <2>1. Types' /\ Jobs' /\ Contents' /\ Ticker'
    BY DEF IInv, Types, Jobs, Contents, Ticker
  <2>2. Grows /\ Due' = Due /\ failures' = failures
    BY DEF Grows, Due
  <2>3. Due \in Int
    BY DueSoon DEF IInv
  <2>4. NotOverdue'
    <3>1. Due' \in Int /\ Due' <= Due
      BY <2>2, <2>3
    <3>. QED BY <2>2, <2>3, <3>1, Patience DEF IInv
  <2>. QED BY <2>1, <2>4 DEF IInv
<1>2. CASE Start \/ Serve \/ RunMaintenance \/ Stop \/ Tick
  BY <1>2, ProcessIInv
<1>3. CASE ExecSucceeds
  BY <1>3, ExecSucceedsIInv
<1>4. CASE ExecRefused \/ ExecLost
  BY <1>4, ExecFailsIInv
<1>5. ASSUME NEW ts \in 0 .. MaxClock, Store(ts) PROVE IInv'
  BY <1>5, StoreIInv
<1>. QED BY <1>1, <1>2, <1>3, <1>4, <1>5 DEF Next

(* The inductive invariant holds in every reachable state. *)
THEOREM InvariantHolds == Spec => []IInv
<1>1. Init => IInv
  BY InitIInv
<1>2. IInv /\ [Next]_vars => IInv'
  BY NextIInv
<1>. QED BY <1>1, <1>2, PTL DEF Spec

(* Every minute is rolled up whole in the end, whatever the lengths of day, *)
(* minute and ticker interval, although each pass cuts the minutes at both  *)
(* ends of its window: each failure costs a minute one pass at most.        *)
THEOREM MinutesRolledUpWhole == Spec => []BucketsRolledUpWhole
<1>1. ASSUME IInv PROVE BucketsRolledUpWhole
  <2> SUFFICES ASSUME NEW b \in {Floor(t, Minute) : t \in DOMAIN written},
                      phase = "serving", job = <<>>, b + 2 * Day < clock,
                      failures < (Day - Minute + 1) \div Interval, Timely(b) # {}
               PROVE  \E r \in DOMAIN rows["readings_1m"] : r.ts = b /\ Timely(b) \subseteq r.of
    BY DEF BucketsRolledUpWhole
  <2>1. /\ clock \in Nat /\ nextPass \in Nat /\ failures \in Nat /\ Interval \in Nat \ {0}
        /\ Day \in Nat /\ Minute \in Nat \ {0} /\ clock <= nextPass
    BY <1>1, Constants DEF IInv, Types, Ticker
  <2>2. b \in Nat
    <3>1. \A t \in DOMAIN written : t \in Nat
      BY <1>1, Constants DEF IInv, Types
    <3>. QED BY <2>1, <3>1, FloorBucket
  <2>3. Interval * (failures + 1) <= Day - Minute + 1
    <3>1. PICK x \in Int : x = Day - Minute + 1
      BY <2>1
    <3>2. PICK q \in Int : q = x \div Interval /\ Interval * q <= x
      BY <2>1
    <3>3. failures + 1 <= q
      BY <2>1, <3>1, <3>2
    <3>4. Interval * (failures + 1) <= Interval * q
      BY <2>1, <3>3
    <3>. QED BY <2>1, <3>1, <3>2, <3>4
  <2>4. Due = nextPass
    BY Lists DEF Due
  <2>5. Whole(b)
    <3>1. SUFFICES ASSUME ~Whole(b) PROVE FALSE
      OBVIOUS
    <3>2. PICK e \in Int : e = Interval * (failures + 1)
      BY <2>1
    <3>3. nextPass <= (b + Day + Minute - 1) + e
      BY <1>1, <2>2, <2>3, <2>4, <3>1, <3>2 DEF IInv, NotOverdue
    <3>. QED BY <2>1, <2>2, <2>3, <3>2, <3>3
  <2>. QED BY <2>5 DEF Whole
<1>. QED BY <1>1, InvariantHolds, PTL

-----------------------------------------------------------------------------
(* Answers. *)

(* The token the server was given is accepted. *)
LEMMA OwnToken == Auth(config.token)
  BY DEF Auth

(* What a series answers, when it does. *)
LEMMA SeriesAnswer ==
  ASSUME NEW result
  PROVE  /\ (\A r \in DOMAIN result : r.of # {}) => SeriesFrom(result) = Answer(200, result)
         /\ (\E r \in DOMAIN result : r.of = {}) => SeriesFrom(result) = Answer(500, <<>>)
  BY DEF SeriesFrom, ToFloatFails

(* A minute without readings is never answered as a value: the points of a  *)
(* rollup series stand for readings that were stored, each in its bucket,   *)
(* whatever passes were lost and whatever FILL(NULL) put into the tables.   *)
THEOREM RollupAnswersHold == Spec => []RollupAnswersAreReadings
<1>1. ASSUME IInv PROVE RollupAnswersAreReadings
  <2>1. ASSUME NEW rollup \in {"1m", "1h"}, NEW answer,
               answer = HandleTimeseries(config.token, Rfc3339(0), Rfc3339(MaxClock), rollup),
               NEW r \in DOMAIN answer.points
        PROVE  /\ r.of # {} /\ r.of \subseteq DOMAIN written
               /\ \A t \in r.of : r.ts <= t /\ t < r.ts + (IF rollup = "1m" THEN Minute ELSE Hour)
    <3>1. PICK table : /\ table = TimeseriesTable(rollup)
                       /\ table = IF rollup = "1m" THEN "readings_1m" ELSE "readings_1h"
      BY <2>1, SMT DEF TimeseriesTable
    <3>2. PICK w : w = ParseWindow(Rfc3339(0), Rfc3339(MaxClock))
      OBVIOUS
    <3>3. PICK found : found = {x \in DOMAIN rows[table] : w.from <= Nanos(x.ts) /\ Nanos(x.ts) < w.to}
      OBVIOUS
    <3>4. Malformed \notin {Rfc3339(0), Rfc3339(MaxClock)}
      <4>1. Malformed.form = "malformed" /\ \A x : Rfc3339(x).form = "rfc3339"
        BY DEF Malformed, Rfc3339
      <4>. QED BY <4>1
    <3>5. answer = IF table \notin DOMAIN rows THEN Answer(400, <<>>)
                   ELSE SeriesFrom([x \in found |-> rows[table][x]])
      BY <2>1, <3>1, <3>2, <3>3, <3>4, OwnToken DEF HandleTimeseries
    <3>6. \A s, pts : Answer(s, pts).points = pts
      BY DEF Answer
    <3>7. DOMAIN <<>> = {}
      OBVIOUS
    <3>8. table \in DOMAIN rows /\ answer = SeriesFrom([x \in found |-> rows[table][x]])
      BY <2>1, <3>5, <3>6, <3>7
    <3>9. PICK result : result = [x \in found |-> rows[table][x]]
      OBVIOUS
    <3>10. answer = Answer(200, result) /\ \A x \in DOMAIN result : x.of # {}
      <4>1. answer = SeriesFrom(result)
        BY <3>8, <3>9
      <4>2. answer # Answer(500, <<>>)
        BY <2>1, <3>6, <3>7
      <4>. QED BY <4>1, <4>2, SeriesAnswer
    <3>11. r \in found /\ r.of # {}
      BY <2>1, <3>6, <3>9, <3>10
    <3>12. r \in DOMAIN rows[table]
      BY <3>3, <3>11
    <3>13. CASE rollup = "1h"
      BY <1>1, <3>1, <3>8, <3>12, <3>13 DEF IInv, Contents
    <3>14. CASE rollup = "1m"
      <4>1. r.of \subseteq DOMAIN written /\ \A t \in r.of : r.ts = Floor(t, Minute)
        BY <1>1, <3>1, <3>8, <3>12, <3>14 DEF IInv, Contents
      <4>2. ASSUME NEW t \in r.of PROVE r.ts <= t /\ t < r.ts + Minute
        <5>1. t \in Nat /\ Minute \in Nat \ {0}
          BY <1>1, <4>1, Constants DEF IInv, Types
        <5>. QED BY <4>1, <5>1, FloorBucket
      <4>. QED BY <3>11, <3>14, <4>1, <4>2
    <3>. QED BY <3>13, <3>14
  <2>. QED BY <2>1 DEF RollupAnswersAreReadings
<1>. QED BY <1>1, InvariantHolds, PTL

(* The times of the instance can be told in int64 nanoseconds. *)
NanosFit == Int64(Nanos(MaxClock + 1)) = Nanos(MaxClock + 1)

(* The powers of K, and the seconds that int64 nanoseconds reach to. *)
LEMMA NanosReach ==
  ASSUME NanosFit
  PROVE  /\ K^0 = 1 /\ K^1 = 10 /\ K^2 = 100 /\ K^3 = 1000 /\ K^4 = 10000 /\ K^5 = 100000
         /\ K^6 = 1000000
         /\ \A n \in Nat : n <= 9223371 => Int64(n) = n
         /\ MaxClock + 1 <= 8223
<1>1. /\ K^0 = 1 /\ K^1 = 10 /\ K^2 = 100 /\ K^3 = 1000 /\ K^4 = 10000 /\ K^5 = 100000
      /\ K^6 = 1000000
  BY SMT DEF K
<1>2. \A n \in Nat : n <= 9223371 => Int64(n) = n
  BY SMT DEF Int64
<1>3. \A n \in Int : Int64(n) <= 9223371
  BY SMT DEF Int64
<1>4. Nanos(MaxClock + 1) = (1000 + (MaxClock + 1)) * 1000
  BY <1>1, SMT DEF Nanos, Seconds
<1>5. Nanos(MaxClock + 1) <= 9223371
  BY <1>3, <1>4, Constants, SMT DEF NanosFit
<1>. QED BY <1>1, <1>2, <1>4, <1>5, Constants, SMT

(* A time is understood in each of the forms a client may write it in. *)
LEMMA ParseForms ==
  ASSUME NanosFit, NEW t \in 0 .. (MaxClock + 1), NEW arg \in Forms(t)
  PROVE  ParseTimeArg(arg) = (1000 + t) * 1000 /\ arg # Omitted /\ arg # Malformed
<1>1. t \in Nat /\ t <= 8223
  BY NanosReach, Constants, SMT
<1>2. Nanos(t) = (1000 + t) * 1000 /\ Seconds(t) = 1000 + t
  BY NanosReach, SMT DEF Nanos, Seconds
<1>3. CASE arg = Rfc3339(t)
  <2>1. arg.form = "rfc3339" /\ arg.at = t
    BY <1>3, SMT DEF Rfc3339
  <2>2. arg # Omitted /\ arg # Malformed
    BY <2>1, SMT DEF Omitted, Malformed
  <2>. QED BY <1>2, <2>1, <2>2, SMT DEF ParseTimeArg
<1>4. CASE arg \in {Number(Seconds(t) * K^i) : i \in 0 .. 3}
  <2>1. PICK n : /\ arg = Number(n)
                 /\ n \in {(1000 + t) * 1, (1000 + t) * 10, (1000 + t) * 100, (1000 + t) * 1000}
    <3>1. PICK i \in 0 .. 3 : arg = Number(Seconds(t) * K^i)
      BY <1>4, SMT
    <3>2. i = 0 \/ i = 1 \/ i = 2 \/ i = 3
      BY <3>1, SMT
    <3>3. K^i \in {1, 10, 100, 1000}
      BY <3>2, NanosReach, SMT
    <3>. QED BY <1>2, <3>1, <3>3, SMT
  <2>2. arg.form = "number" /\ arg.n = n
    BY <2>1, SMT DEF Number
  <2>3. arg # Omitted /\ arg # Malformed
    BY <2>2, SMT DEF Omitted, Malformed
  <2>4. n \in Nat /\ K^4 = 10000 /\ K^5 = 100000 /\ K^6 = 1000000
        /\ n * K^3 = n * 1000 /\ n * K^2 = n * 100 /\ n * K = n * 10
    BY <1>1, <2>1, NanosReach, SMT DEF K
  <2>5. CASE n = (1000 + t) * 1
    <3>1. n < 10000 /\ n * 1000 \in Nat /\ n * 1000 <= 9223371 /\ n * 1000 = (1000 + t) * 1000 /\ n \in Nat
      BY <1>1, <2>5, SMT
    <3>2. ParseTimeArg(arg) = Int64(n * 1000)
      BY <2>2, <2>4, <3>1, SMT DEF ParseTimeArg
    <3>. QED BY <2>3, <3>1, <3>2, NanosReach, SMT
  <2>6. CASE n = (1000 + t) * 10
    <3>1. /\ 10000 <= n /\ n < 100000 /\ n * 100 \in Nat /\ n * 100 <= 9223371 /\ n * 100 = (1000 + t) * 1000
          /\ n \in Nat
      BY <1>1, <2>6, SMT
    <3>2. ParseTimeArg(arg) = Int64(n * 100)
      BY <2>2, <2>4, <3>1, SMT DEF ParseTimeArg
    <3>. QED BY <2>3, <3>1, <3>2, NanosReach, SMT
  <2>7. CASE n = (1000 + t) * 100
    <3>1. /\ 100000 <= n /\ n < 1000000 /\ n * 10 \in Nat /\ n * 10 <= 9223371 /\ n * 10 = (1000 + t) * 1000
          /\ n \in Nat
      BY <1>1, <2>7, SMT
    <3>2. ParseTimeArg(arg) = Int64(n * 10)
      BY <2>2, <2>4, <3>1, SMT DEF ParseTimeArg
    <3>. QED BY <2>3, <3>1, <3>2, NanosReach, SMT
  <2>8. CASE n = (1000 + t) * 1000
    <3>1. 1000000 <= n /\ n \in Nat
      BY <1>1, <2>8, SMT
    <3>2. ParseTimeArg(arg) = n
      BY <2>2, <2>4, <3>1, SMT DEF ParseTimeArg
    <3>. QED BY <2>3, <2>8, <3>2, SMT
  <2>. QED BY <2>1, <2>5, <2>6, <2>7, <2>8, SMT
<1>. QED BY <1>3, <1>4, SMT DEF Forms

(* The window of a query that writes its bounds, or leaves one out. *)
LEMMA Windows ==
  ASSUME NanosFit, NEW from, NEW to, NEW w, w = ParseWindow(from, to)
  PROVE  /\ from # Omitted => w.from = ParseTimeArg(from)
         /\ from = Omitted => w.from = (1000 + (clock - Day)) * 1000
         /\ to # Omitted => w.to = ParseTimeArg(to)
         /\ to = Omitted => w.to = (1000 + clock) * 1000
<1>1. Nanos(clock - Day) = (1000 + (clock - Day)) * 1000 /\ Nanos(clock) = (1000 + clock) * 1000
  BY NanosReach, SMT DEF Nanos, Seconds
<1>2. /\ w.from = IF from = Omitted THEN Nanos(clock - Day) ELSE ParseTimeArg(from)
      /\ w.to = IF to = Omitted THEN Nanos(clock) ELSE ParseTimeArg(to)
  BY SMT DEF ParseWindow
<1>. QED BY <1>1, <1>2, SMT

(* The parameters from and to of a query mean the window [f, t). *)
Mean(from, to, f, t) ==
  /\ f \in Int /\ t \in Int /\ from # Malformed /\ to # Malformed
  /\ ParseWindow(from, to).from = (1000 + f) * 1000
  /\ ParseWindow(from, to).to = (1000 + t) * 1000

(* The raw query with these parameters answers the readings of [f, t). *)
Exact(from, to, f, t) ==
  HandleTimeseries(config.token, from, to, "") = Answer(200, Asked(f, t))

(* A raw query whose bounds are understood answers the readings of its      *)
(* window, each once.                                                       *)
LEMMA RawSeries ==
  ASSUME IInv, NanosFit, phase = "serving", NEW from, NEW to, NEW f, NEW t, Mean(from, to, f, t)
  PROVE  Exact(from, to, f, t)
<1>0. PICK w : w = ParseWindow(from, to)
  OBVIOUS
<1>14. /\ f \in Int /\ t \in Int /\ from # Malformed /\ to # Malformed
      /\ w.from = (1000 + f) * 1000 /\ w.to = (1000 + t) * 1000
  BY <1>0, SMT DEF Mean
<1>1. "readings" \in DOMAIN rows
  BY DEF IInv, Jobs, Tables
<1>2. rows["readings"] = [r \in Raw(DOMAIN written) |-> 1]
  BY <1>1 DEF IInv, Contents
<1>3. TimeseriesTable("") = "readings"
  BY SMT DEF TimeseriesTable
<1>4. PICK found : found = {r \in DOMAIN rows["readings"] : w.from <= Nanos(r.ts) /\ Nanos(r.ts) < w.to}
  OBVIOUS
<1>5. Malformed \notin {from, to}
  BY <1>14, SMT
<1>6. HandleTimeseries(config.token, from, to, "") = SeriesFrom([r \in found |-> rows["readings"][r]])
  BY <1>0, <1>1, <1>3, <1>4, <1>5, OwnToken DEF HandleTimeseries
<1>7. PICK asked : asked = {[ts |-> x, of |-> {x}] : x \in {y \in DOMAIN written : f <= y /\ y < t}}
  OBVIOUS
<1>8. found = asked
  <2>1. \A x \in DOMAIN written : x \in Nat
    BY Constants DEF IInv, Types
  <2>2. ASSUME NEW x \in DOMAIN written
        PROVE  w.from <= Nanos(x) /\ Nanos(x) < w.to <=> f <= x /\ x < t
    <3>1. Nanos(x) = (1000 + x) * 1000
      BY NanosReach, SMT DEF Nanos, Seconds
    <3>. QED BY <1>14, <2>1, <3>1, SMT
  <2>3. \A r \in Raw(DOMAIN written) :
          r.ts \in DOMAIN written /\ r = [ts |-> r.ts, of |-> {r.ts}]
    BY DEF Raw
  <2>4. DOMAIN rows["readings"] = Raw(DOMAIN written)
    BY <1>2
  <2>5. ASSUME NEW r \in found PROVE r \in asked
    BY <1>4, <1>7, <2>2, <2>3, <2>4, <2>5
  <2>6. ASSUME NEW r \in asked PROVE r \in found
    <3>1. PICK x \in DOMAIN written : f <= x /\ x < t /\ r = [ts |-> x, of |-> {x}]
      BY <1>7
    <3>2. [ts |-> x, of |-> {x}] \in Raw(DOMAIN written)
      BY DEF Raw
    <3>3. r \in Raw(DOMAIN written) /\ r.ts = x
      BY <3>1, <3>2
    <3>. QED BY <1>4, <2>2, <2>4, <3>1, <3>3
  <2>. QED BY <2>5, <2>6
<1>9. [r \in found |-> rows["readings"][r]] = [r \in asked |-> 1]
  <2>1. \A r \in found : rows["readings"][r] = 1
    BY <1>2, <1>4
  <2>. QED BY <1>8, <2>1
<1>10. PICK result : result = [r \in asked |-> 1]
  OBVIOUS
<1>11. \A r \in DOMAIN result : r.of # {}
  BY <1>7, <1>10
<1>12. SeriesFrom(result) = Answer(200, result)
  BY <1>11, SeriesAnswer
<1>13. Asked(f, t) = result
  BY <1>7, <1>10 DEF Asked
<1>. QED BY <1>6, <1>9, <1>10, <1>12, <1>13 DEF Exact

(* The newest reading is the one /api/latest answers. *)
LEMMA LatestReading ==
  ASSUME IInv, phase = "serving", DOMAIN written # {}
  PROVE  HandleLatest(config.token) =
           Answer(200, Asked(Max(DOMAIN written), Max(DOMAIN written) + 1))
<1>1. "readings" \in DOMAIN rows
  BY DEF IInv, Jobs, Tables
<1>2. DOMAIN rows["readings"] = Raw(DOMAIN written)
  BY <1>1 DEF IInv, Contents
<1>3. PICK m : m = Max(DOMAIN written)
  OBVIOUS
<1>4. DOMAIN written \in SUBSET (0 .. MaxClock) /\ MaxClock \in Nat
  BY Constants DEF IInv, Types
<1>5. m \in DOMAIN written /\ \A y \in DOMAIN written : y <= m
  BY <1>3, <1>4, Greatest
<1>6. PICK new : new = [ts |-> m, of |-> {m}]
  OBVIOUS
<1>7. PICK newest : newest = {s \in Raw(DOMAIN written) : \A o \in Raw(DOMAIN written) : o.ts <= s.ts}
  OBVIOUS
<1>8. Raw(DOMAIN written) # {} /\ new \in Raw(DOMAIN written)
  BY <1>5, <1>6 DEF Raw
<1>9. newest = {new}
  <2>1. \A s \in Raw(DOMAIN written) : s.ts \in DOMAIN written /\ s = [ts |-> s.ts, of |-> {s.ts}]
    BY DEF Raw
  <2>2. new.ts = m
    BY <1>6
  <2>3. new \in newest
    BY <1>5, <1>7, <1>8, <2>1, <2>2
  <2>4. ASSUME NEW s \in newest PROVE s = new
    <3>1. s \in Raw(DOMAIN written) /\ m <= s.ts
      BY <1>7, <1>8, <2>2
    <3>2. s.ts \in DOMAIN written /\ s.ts <= m /\ s = [ts |-> s.ts, of |-> {s.ts}]
      BY <1>5, <2>1, <3>1
    <3>3. s.ts \in Nat /\ m \in Nat
      BY <1>4, <1>5, <3>2
    <3>4. s.ts = m
      BY <3>1, <3>2, <3>3
    <3>. QED BY <1>6, <3>2, <3>4
  <2>. QED BY <2>3, <2>4
<1>10. PICK result : result = [r \in newest |-> 1]
  OBVIOUS
<1>11. HandleLatest(config.token) = SeriesFrom(result)
  <2>1. HandleLatest(config.token) = LatestFrom(Raw(DOMAIN written))
    BY <1>1, <1>2, OwnToken DEF HandleLatest
  <2>. QED BY <1>7, <1>8, <1>10, <2>1 DEF LatestFrom
<1>12. \A r \in DOMAIN result : r.of # {}
  BY <1>6, <1>9, <1>10
<1>13. SeriesFrom(result) = Answer(200, result)
  BY <1>12, SeriesAnswer
<1>14. Asked(m, m + 1) = result
  <2>1. {y \in DOMAIN written : m <= y /\ y < m + 1} = {m}
    <3>1. \A y \in DOMAIN written : y \in Nat
      BY <1>4
    <3>. QED BY <1>5, <3>1
  <2>2. {[ts |-> x, of |-> {x}] : x \in {m}} = newest
    BY <1>6, <1>9
  <2>. QED BY <1>10, <2>1, <2>2 DEF Asked
<1>. QED BY <1>3, <1>11, <1>13, <1>14

(* The raw query API answers exactly what was stored, each reading once,    *)
(* whatever was sent twice or late, and in whichever of the accepted forms  *)
(* a client writes the bounds, as long as time fits int64 nanoseconds.      *)
THEOREM RawQueriesExact ==
  ASSUME NanosFit
  PROVE  Spec => []QueriesAnswerStored
<1>1. ASSUME IInv PROVE QueriesAnswerStored
  <2> SUFFICES ASSUME phase = "serving"
               PROVE  /\ \A f, t \in DOMAIN written \cup {clock + 1} :
                           /\ \A from \in Forms(f), to \in Forms(t) : Exact(from, to, f, t)
                           /\ \A to \in Forms(t) : Exact(Omitted, to, clock - Day, t)
                           /\ \A from \in Forms(f) : Exact(from, Omitted, f, clock)
                      /\ written # <<>> =>
                           HandleLatest(config.token)
                             = Answer(200, Asked(Max(DOMAIN written), Max(DOMAIN written) + 1))
    BY Zenon DEF QueriesAnswerStored, Exact
  <2>1. clock \in Int /\ clock - Day \in Int
    BY <1>1, Constants DEF IInv, Types
  <2>2. \A x \in DOMAIN written \cup {clock + 1} : x \in 0 .. (MaxClock + 1)
    BY <1>1, Constants DEF IInv, Types
  <2>3. Omitted # Malformed
    <3>1. Omitted.form = "omitted" /\ Malformed.form = "malformed"
      BY DEF Omitted, Malformed
    <3>. QED BY <3>1
  <2>4. ASSUME NEW f \in DOMAIN written \cup {clock + 1}, NEW t \in DOMAIN written \cup {clock + 1},
               NEW from \in Forms(f), NEW to \in Forms(t)
        PROVE  Exact(from, to, f, t)
    <3>1. /\ ParseTimeArg(from) = (1000 + f) * 1000 /\ from # Omitted /\ from # Malformed
          /\ ParseTimeArg(to) = (1000 + t) * 1000 /\ to # Omitted /\ to # Malformed
      BY <2>2, ParseForms
    <3>2. f \in Int /\ t \in Int
      BY <2>2, Constants
    <3>3. Mean(from, to, f, t)
      BY <3>1, <3>2, Windows, SMT DEF Mean
    <3>. QED BY <1>1, <3>3, RawSeries, Zenon
  <2>5. ASSUME NEW t \in DOMAIN written \cup {clock + 1}, NEW to \in Forms(t)
        PROVE  Exact(Omitted, to, clock - Day, t)
    <3>1. ParseTimeArg(to) = (1000 + t) * 1000 /\ to # Omitted /\ to # Malformed
      BY <2>2, ParseForms
    <3>2. PICK from, f : from = Omitted /\ f = clock - Day
      OBVIOUS
    <3>3. f \in Int /\ t \in Int
      BY <2>1, <2>2, <3>2, Constants
    <3>4. Mean(from, to, f, t)
      BY <2>3, <3>1, <3>2, <3>3, Windows, SMT DEF Mean
    <3>5. Exact(from, to, f, t)
      BY <1>1, <3>4, RawSeries, Zenon
    <3>. QED BY <3>2, <3>5
  <2>6. ASSUME NEW f \in DOMAIN written \cup {clock + 1}, NEW from \in Forms(f)
        PROVE  Exact(from, Omitted, f, clock)
    <3>1. ParseTimeArg(from) = (1000 + f) * 1000 /\ from # Omitted /\ from # Malformed
      BY <2>2, ParseForms
    <3>2. PICK to, t : to = Omitted /\ t = clock
      OBVIOUS
    <3>3. f \in Int /\ t \in Int
      BY <2>1, <2>2, <3>2, Constants
    <3>4. Mean(from, to, f, t)
      BY <2>3, <3>1, <3>2, <3>3, Windows, SMT DEF Mean
    <3>5. Exact(from, to, f, t)
      BY <1>1, <3>4, RawSeries, Zenon
    <3>. QED BY <3>2, <3>5
  <2>7. ASSUME written # <<>>
        PROVE  HandleLatest(config.token)
                 = Answer(200, Asked(Max(DOMAIN written), Max(DOMAIN written) + 1))
    <3>1. DOMAIN written # {}
      <4>1. written = [x \in DOMAIN written |-> written[x]]
        BY <1>1 DEF IInv, Types
      <4>2. SUFFICES ASSUME DOMAIN written = {} PROVE FALSE
        OBVIOUS
      <4>3. <<>> = [x \in {} |-> written[x]]
        OBVIOUS
      <4>. QED BY <2>7, <4>1, <4>2, <4>3
    <3>. QED BY <1>1, <3>1, LatestReading
  <2>. QED BY <2>4, <2>5, <2>6, <2>7, Zenon
<1>. QED BY <1>1, InvariantHolds, PTL

=============================================================================
