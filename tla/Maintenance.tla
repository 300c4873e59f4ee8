---------------------------- MODULE Maintenance ----------------------------
(***************************************************************************)
(* internal/rollup: the maintenance tick (job.go) and the hourly rollup    *)
(* (rollup.go), beside the writer that inserts into the same table         *)
(* (ingest/writer.go) and beside a second instance (-maintain-once).       *)
(*                                                                         *)
(* Each SQL statement that reads is a step and sees what is committed by   *)
(* then (READ COMMITTED); a transaction's effects appear when it commits.  *)
(* Locks are modelled where they make somebody wait: an insert holds the   *)
(* table and its leaf until it commits, CREATE, ATTACH and DROP want them  *)
(* exclusively, and the rollup holds the watermark's row.                  *)
(***************************************************************************)
EXTENDS Integers, FiniteSets

CONSTANTS
  Job,          \* the maintenance jobs: the service's and perhaps another
  Visit,        \* stop visits: service date, feed, trip and stop
  ServiceDate,  \* the service date of each visit
  ScheduledAt,  \* the hour the timetable gives each visit
  Existing,     \* dates that have a partition at the start
  Ahead,        \* visits written by then
  Live,         \* visits that are still being written
  Matched,      \* whether a row may be written matched, unmatched, or both
  HoursPerDay,  \* hours of a service day
  LastHour,     \* bound on the hours the model lives through
  MaxRows,      \* bound on the rows the model writes
  Settle, LookaheadDays, RetentionDays,
  None

DayOf(h) == h \div HoursPerDay
Hour == 0..LastHour
Date == -1..(DayOf(LastHour) + LookaheadDays)
Sentinel == -1

\* scheduled_at lies within 48 hours of the service day's start.
ASSUME MaintenanceConstants ==
  /\ IsFiniteSet(Job) /\ IsFiniteSet(Visit)
  /\ HoursPerDay \in Nat \ {0} /\ LastHour \in Nat /\ MaxRows \in Nat
  /\ Settle \in Nat /\ LookaheadDays \in Nat \ {0} /\ RetentionDays \in Nat \ {0}
  /\ ServiceDate \in [Visit -> Date]
  /\ \A v \in Visit : ScheduledAt[v] \in Hour /\
       ScheduledAt[v] - ServiceDate[v] * HoursPerDay \in 0..(2 * HoursPerDay)
  /\ Existing \subseteq Date
  /\ Ahead \subseteq Visit /\ \A v \in Ahead : ServiceDate[v] \notin Existing
  /\ Live \subseteq Visit
  /\ Matched \subseteq BOOLEAN
  /\ None \notin Hour /\ None \notin Job /\ None \notin Date

Row == [visit : Visit, ts : Hour, at : Hour \cup {None}]

VARIABLES
  now,        \* the wall clock, in hours
  default,    \* rows in observations_default
  daily,      \* rows in the daily partitions
  partitions, \* the dates that have a daily partition
  inflight,   \* the row the writer has inserted and not committed, with its leaf
  watermark,  \* rollup_state.watermark
  hourly,     \* the visits' final words counted in each hour's row
  lock,       \* the job whose transaction holds the watermark's row
  pc, today,  \* where a tick is, and the service date it began on
  dates,      \* the dates a tick has yet to ensure, or to drop
  copied, deleted,  \* a move out of the default partition, not yet committed
  from, to, final,  \* a rollup in progress
  stored,     \* history: the rows committed,
  timely,     \* history: and those of them committed before their hour had settled
  dropped     \* history: dates whose partition was dropped

tableVars  == <<default, daily, partitions>>
rollupVars == <<watermark, hourly, lock, from, to, final>>
moveVars   == <<copied, deleted>>
history    == <<stored, timely, dropped>>

vars == <<now, tableVars, inflight, rollupVars, moveVars, pc, today, dates, history>>

\* Where a job is: between ticks, in one of the steps, or inside a transaction.
Place == {"idle", "ensure", "copied", "deleted", "roll", "rolling", "selected", "drop", "checked"}

TypeOK ==
  /\ now \in Hour
  /\ default \subseteq Row /\ daily \subseteq Row /\ partitions \subseteq Date
  /\ inflight = None \/ inflight \in [row : Row, leaf : Date \cup {None}]
  /\ watermark \in Hour \cup {Sentinel}
  /\ hourly \in [Hour -> SUBSET Row]
  /\ lock \in Job \cup {None}
  /\ pc \in [Job -> Place]
  /\ today \in [Job -> Date] /\ dates \in [Job -> SUBSET Date]
  /\ copied \in [Job -> SUBSET Row] /\ deleted \in [Job -> SUBSET Row]
  /\ from \in [Job -> Hour \cup {Sentinel}] /\ to \in [Job -> Hour \cup {Sentinel}]
  /\ final \in [Job -> SUBSET Row]
  /\ stored \subseteq Row /\ timely \subseteq stored /\ dropped \subseteq Date

DateOf(r) == ServiceDate[r.visit]
Bucket(r) == IF r.at = None THEN r.ts ELSE r.at
Table == default \cup daily
On(rows, d) == {r \in rows : DateOf(r) = d}
First(s) == CHOOSE d \in s : \A e \in s : d <= e

Goto(j, from_, to_) == pc[j] = from_ /\ pc' = [pc EXCEPT ![j] = to_]
Moving(j) == pc[j] \in {"copied", "deleted"}
\* A rollup has read the table: the first one for its oldest row, all to select.
Reading(j) == pc[j] = "selected" \/ (pc[j] = "rolling" /\ watermark = Sentinel)

-----------------------------------------------------------------------------
(* The writer.                                                             *)

Leaf(r) == IF DateOf(r) \in partitions THEN DateOf(r) ELSE None

Insert(v, m) ==
  LET r == [visit |-> v, ts |-> now, at |-> IF m THEN ScheduledAt[v] ELSE None]
  IN  /\ inflight = None /\ Cardinality(stored) < MaxRows
      /\ \A q \in Table : q.visit = v => q.ts # now
      /\ inflight' = [row |-> r, leaf |-> Leaf(r)]
      /\ UNCHANGED <<now, tableVars, rollupVars, moveVars, pc, today, dates, history>>

Commit ==
  /\ inflight # None
  /\ IF inflight.leaf = None
     THEN default' = default \cup {inflight.row} /\ UNCHANGED daily
     ELSE daily' = daily \cup {inflight.row} /\ UNCHANGED default
  /\ stored' = stored \cup {inflight.row}
  /\ timely' = timely \cup {r \in {inflight.row} : now <= Bucket(r) + Settle}
  /\ inflight' = None
  /\ UNCHANGED <<now, partitions, rollupVars, moveVars, pc, today, dates, dropped>>

Rollback ==
  /\ inflight # None
  /\ inflight' = None
  /\ UNCHANGED <<now, tableVars, rollupVars, moveVars, pc, today, dates, history>>

-----------------------------------------------------------------------------
(* Step 1: EnsurePartitions.                                               *)

StartTick(j) ==
  /\ Goto(j, "idle", "ensure")
  /\ today' = [today EXCEPT ![j] = DayOf(now)]
  /\ dates' = [dates EXCEPT ![j] = ((DayOf(now) - 1)..(DayOf(now) + LookaheadDays)) \ partitions]
  /\ UNCHANGED <<now, tableVars, inflight, rollupVars, moveVars, history>>

\* CREATE TABLE ... PARTITION OF fails when the default holds rows it claims.
Create(j) ==
  LET d == First(dates[j])
  IN  /\ pc[j] = "ensure" /\ dates[j] # {}
      /\ d \notin partitions /\ On(default, d) = {}
      /\ inflight = None /\ \A i \in Job \ {j} : ~Moving(i) /\ ~Reading(i)
      /\ partitions' = partitions \cup {d}
      /\ dates' = [dates EXCEPT ![j] = @ \ {d}]
      /\ UNCHANGED <<now, default, daily, inflight, rollupVars, moveVars, pc, today, history>>

\* A date with rows in the default: they are copied,
Copy(j) ==
  LET d == First(dates[j])
  IN  /\ Goto(j, "ensure", "copied")
      /\ dates[j] # {} /\ d \notin partitions /\ On(default, d) # {}
      /\ \A i \in Job \ {j} : Moving(i) => First(dates[i]) # d
      /\ copied' = [copied EXCEPT ![j] = On(default, d)]
      /\ UNCHANGED <<now, tableVars, inflight, rollupVars, deleted, today, dates, history>>

\* deleted, as far as they are committed by then,
Delete(j) ==
  /\ Goto(j, "copied", "deleted")
  /\ deleted' = [deleted EXCEPT ![j] = On(default, First(dates[j]))]
  /\ UNCHANGED <<now, tableVars, inflight, rollupVars, copied, today, dates, history>>

\* and the copy is attached, if the default has nothing left that it claims.
Attach(j) ==
  LET d == First(dates[j])
  IN  /\ Goto(j, "deleted", "ensure")
      /\ inflight # None => inflight.leaf # None
      /\ \A i \in Job \ {j} : ~Moving(i) /\ ~Reading(i)
      /\ On(default, d) \subseteq deleted[j]
      /\ partitions' = partitions \cup {d}
      /\ default' = default \ deleted[j]
      /\ daily' = daily \cup copied[j]
      /\ dates' = [dates EXCEPT ![j] = @ \ {d}]
      /\ copied' = [copied EXCEPT ![j] = {}] /\ deleted' = [deleted EXCEPT ![j] = {}]
      /\ UNCHANGED <<now, inflight, rollupVars, today, history>>

\* Mutant: what was deleted stays deleted when the move fails.
EnsureFailsHalfway(j) ==
  /\ pc[j] \in {"ensure", "copied", "deleted"}
  /\ pc' = [pc EXCEPT ![j] = "roll"]
  /\ dates' = [dates EXCEPT ![j] = {}]
  /\ copied' = [copied EXCEPT ![j] = {}] /\ deleted' = [deleted EXCEPT ![j] = {}]
  /\ default' = default \ deleted[j]
  /\ UNCHANGED <<now, daily, partitions, inflight, rollupVars, today, history>>

\* Any statement may fail, or wait too long for its lock: the rest is left.
EnsureFails(j) ==
  /\ pc[j] \in {"ensure", "copied", "deleted"}
  /\ pc' = [pc EXCEPT ![j] = "roll"]
  /\ dates' = [dates EXCEPT ![j] = {}]
  /\ copied' = [copied EXCEPT ![j] = {}] /\ deleted' = [deleted EXCEPT ![j] = {}]
  /\ UNCHANGED <<now, tableVars, inflight, rollupVars, today, history>>

EnsureEnds(j) ==
  /\ Goto(j, "ensure", "roll")
  /\ dates[j] = {}
  /\ UNCHANGED <<now, tableVars, inflight, rollupVars, moveVars, today, dates, history>>

-----------------------------------------------------------------------------
(* Step 2: Rollup.                                                         *)

WindowStart ==
  IF watermark = Sentinel /\ Table # {} THEN First({Bucket(r) : r \in Table}) ELSE watermark

WindowEnd == now - Settle

Due == WindowEnd > WindowStart /\ (watermark = Sentinel => Table # {})

\* Mutant: the watermark is read without FOR UPDATE.
RollBeginUnlocked(j) ==
  /\ Goto(j, "roll", "rolling")
  /\ Due
  /\ lock' = j
  /\ from' = [from EXCEPT ![j] = WindowStart] /\ to' = [to EXCEPT ![j] = WindowEnd]
  /\ UNCHANGED <<now, tableVars, inflight, watermark, hourly, final, moveVars, today, dates, history>>

\* It waits for the watermark's row, reads it (and the oldest row), and the clock.
RollBegin(j) ==
  /\ Goto(j, "roll", "rolling")
  /\ lock = None /\ Due
  /\ lock' = j
  /\ from' = [from EXCEPT ![j] = WindowStart] /\ to' = [to EXCEPT ![j] = WindowEnd]
  /\ UNCHANGED <<now, tableVars, inflight, watermark, hourly, final, moveVars, today, dates, history>>

\* Mutant: one day of service dates less.
DatesOfDayBefore(f, t) == (DayOf(f) - 1)..(DayOf(t) + 1)

\* The service dates a visit of the window can have; the rows of them it reads;
DatesOf(f, t) == (DayOf(f) - 2)..(DayOf(t) + 1)

Candidates(f, t) ==
  {r \in Table : /\ DateOf(r) \in DatesOf(f, t)
                 /\ IF r.at = None THEN r.ts >= f ELSE f <= r.at /\ r.at < t}

\* and the last word of each visit among those, if its hour is in the window.
LastWords(rows) == {r \in rows : \A q \in rows : q.visit = r.visit => q.ts <= r.ts}
Finals(f, t) == {r \in LastWords(Candidates(f, t)) : f <= Bucket(r) /\ Bucket(r) < t}

Select(j) ==
  /\ Goto(j, "rolling", "selected")
  /\ final' = [final EXCEPT ![j] = Finals(from[j], to[j])]
  /\ UNCHANGED <<now, tableVars, inflight, watermark, hourly, lock, from, to, moveVars,
                 today, dates, history>>

InHour(rows, h) == {r \in rows : Bucket(r) = h}

\* The upserts replace the rows of the hours they touch.
RollCommit(j) ==
  /\ Goto(j, "selected", "drop")
  /\ hourly' = [h \in Hour |-> IF InHour(final[j], h) = {} THEN hourly[h] ELSE InHour(final[j], h)]
  /\ watermark' = to[j]
  /\ lock' = None
  /\ from' = [from EXCEPT ![j] = Sentinel] /\ to' = [to EXCEPT ![j] = Sentinel]
  /\ final' = [final EXCEPT ![j] = {}]
  /\ dates' = [dates EXCEPT ![j] = {d \in partitions : d < today[j] - RetentionDays}]
  /\ UNCHANGED <<now, tableVars, inflight, moveVars, today, history>>

NothingDue(j) ==
  /\ Goto(j, "roll", "drop")
  /\ lock = None /\ ~Due
  /\ dates' = [dates EXCEPT ![j] = {d \in partitions : d < today[j] - RetentionDays}]
  /\ UNCHANGED <<now, tableVars, inflight, rollupVars, moveVars, today, history>>

\* A failed rollup ends the tick: nothing is dropped.
RollFails(j) ==
  /\ pc[j] \in {"roll", "rolling", "selected"}
  /\ pc' = [pc EXCEPT ![j] = "idle"]
  /\ lock' = IF lock = j THEN None ELSE lock
  /\ from' = [from EXCEPT ![j] = Sentinel] /\ to' = [to EXCEPT ![j] = Sentinel]
  /\ final' = [final EXCEPT ![j] = {}] /\ today' = [today EXCEPT ![j] = 0]
  /\ UNCHANGED <<now, tableVars, inflight, watermark, hourly, moveVars, dates, history>>

-----------------------------------------------------------------------------
(* Step 3: DropPartitionsBefore.                                           *)

Pending(d) == \E r \in On(daily, d) : Bucket(r) >= watermark

Check(j) ==
  LET d == First(dates[j])
  IN  /\ Goto(j, "drop", "checked")
      /\ dates[j] # {} /\ d \in partitions /\ ~Pending(d)
      /\ UNCHANGED <<now, tableVars, inflight, rollupVars, moveVars, today, dates, history>>

Skip(j) ==
  LET d == First(dates[j])
  IN  /\ pc[j] = "drop" /\ dates[j] # {} /\ d \in partitions /\ Pending(d)
      /\ dates' = [dates EXCEPT ![j] = @ \ {d}]
      /\ UNCHANGED <<now, tableVars, inflight, rollupVars, moveVars, pc, today, history>>

Drop(j) ==
  LET d == First(dates[j])
  IN  /\ Goto(j, "checked", "drop")
      /\ inflight = None /\ \A i \in Job \ {j} : ~Moving(i) /\ ~Reading(i)
      /\ \A i \in Job \ {j} : pc[i] = "checked" => First(dates[i]) # d
      /\ d \in partitions
      /\ partitions' = partitions \ {d}
      /\ daily' = daily \ On(daily, d)
      /\ dropped' = dropped \cup {d}
      /\ dates' = [dates EXCEPT ![j] = @ \ {d}]
      /\ UNCHANGED <<now, default, inflight, rollupVars, moveVars, today, stored, timely>>

\* The tick is over, all dropped or a statement failed.
TickEnds(j) ==
  /\ pc[j] \in {"drop", "checked"}
  /\ pc' = [pc EXCEPT ![j] = "idle"]
  /\ dates' = [dates EXCEPT ![j] = {}] /\ today' = [today EXCEPT ![j] = 0]
  /\ UNCHANGED <<now, tableVars, inflight, rollupVars, moveVars, history>>

JobStep(j) ==
  \/ StartTick(j) \/ Create(j) \/ Copy(j) \/ Delete(j) \/ Attach(j) \/ EnsureFails(j) \/ EnsureEnds(j)
  \/ RollBegin(j) \/ Select(j) \/ RollCommit(j) \/ NothingDue(j) \/ RollFails(j)
  \/ Check(j) \/ Skip(j) \/ Drop(j) \/ TickEnds(j)

-----------------------------------------------------------------------------
HourPasses ==
  /\ now < LastHour
  /\ now' = now + 1
  /\ UNCHANGED <<tableVars, inflight, rollupVars, moveVars, pc, today, dates, history>>

\* A start: what was written for dates without a partition is in the default.
Init ==
  /\ now = 0
  /\ default = {[visit |-> v, ts |-> 0, at |-> ScheduledAt[v]] : v \in Ahead}
  /\ daily = {} /\ partitions = Existing
  /\ inflight = None
  /\ watermark = Sentinel /\ hourly = [h \in Hour |-> {}] /\ lock = None
  /\ pc = [j \in Job |-> "idle"] /\ today = [j \in Job |-> 0] /\ dates = [j \in Job |-> {}]
  /\ copied = [j \in Job |-> {}] /\ deleted = [j \in Job |-> {}]
  /\ from = [j \in Job |-> Sentinel] /\ to = [j \in Job |-> Sentinel] /\ final = [j \in Job |-> {}]
  /\ stored = default /\ timely = default /\ dropped = {}

Next ==
  \/ \E v \in Live, m \in Matched : Insert(v, m)
  \/ Commit \/ Rollback \/ HourPasses
  \/ \E j \in Job : JobStep(j)

Spec == Init /\ [][Next]_vars

-----------------------------------------------------------------------------
(* Properties.                                                             *)

(* A row committed before its hour had settled is counted, itself or with  *)
(* a later word of its visit, once the watermark has passed it, unless a   *)
(* later word puts the visit into an hour still to come: through moves,    *)
(* drops, failures and a second instance (job.go:197-200, rollup.go:65-71).*)
Counted(r) == \E h \in Hour : \E q \in hourly[h] : q.visit = r.visit /\ q.ts >= r.ts
ToCome(r) == \E q \in stored : q.visit = r.visit /\ q.ts > r.ts /\ Bucket(q) >= watermark

SettledCounted == \A r \in timely : Bucket(r) < watermark => Counted(r) \/ ToCome(r)

(* Two instances never take the watermark back (rollup.go:40-42).          *)
WatermarkAdvances == [][watermark' >= watermark]_watermark

(* "Each hour is rolled up once" (job.go:31-32): what was counted of an     *)
(* hour the watermark has passed is never counted anew, by this instance   *)
(* or another, whatever was written since.                                 *)
HoursFinal == [][\A h \in Hour : h < watermark => hourly'[h] = hourly[h]]_hourly

(* A committed row stays in the table until its partition is dropped:      *)
(* stranded rows are moved in one transaction (job.go:144-147).            *)
RowsKept == \A r \in stored : r \in Table \/ DateOf(r) \in dropped
=============================================================================
