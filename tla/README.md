# Verification of Transit Late Again

TLA+ models of the Go service in this repository (`cmd/transitlateagain`,
`internal/...`): it polls GTFS-realtime feeds within an account-wide quota,
matches their updates against the timetable, stores the changes in Postgres,
rolls settled hours up, and serves the current state and the history over HTTP.

## The system

| part | state it keeps | operations | talks to |
|---|---|---|---|
| `feed.Limiter` | tokens, requests used, UTC day | Wait/reserve, Exhaust, ResetsIn, Used | every poller and the timetable loader, under a mutex |
| `feed.Poller` (one goroutine per feed) | consecutive failures, what it is doing | pollOnce, classify, nextDelay, budgetPause | limiter, HTTP client, its handler |
| `gtfsrt.Decode`, `match.Matcher` | one atomic pointer to a timetable per feed | Decode; Match, Swap | called by the poller; swapped by the loader |
| `cache.Cache` | per feed the latest observations and their header timestamp | Update, Route, Stop, Stale, Newest | written by pollers, read by the API |
| `ingest.Filter` | last-written value per key, insertion order | Admit, Forget, ExpireBefore, eviction | called by pollers and the maintenance tick |
| `ingest.Pipeline`, `ingest.Writer` | channel, batch, counters | Submit, Start, Close; Run, writeBatch | pollers on one side, Postgres on the other |
| `rollup.Job` | (in Postgres) partitions, watermark, hourly tables | Tick: EnsurePartitions, Rollup, DropPartitionsBefore, filter expiry | Postgres beside the writer |
| `gtfsstatic.Loader` | (in Postgres) timetable versions, the active one | Load, activate, prune; Publish, Run | limiter, client, Postgres, `Matcher.Swap` |
| `store.Migrate` | (in Postgres) `schema_migrations`, the schema, an advisory lock | load, lock, read, apply, unlock | Postgres, before anything else runs |
| `servicetime`, `match.Schedule` | none | service days, candidates, calendars | the matcher |
| `api` | token bucket per client | handlers of now, history, trips, lines, status | reads cache, matcher and Postgres |
| `main` | the shutdown order | start, drain, close | all of them |

What is hard here: a decision made under one lock and acted on after it (the
filter and the channel), writers and maintenance running side by side in
Postgres, batches whose outcome is unknown, days that turn in the middle of
things (service days for filter and partitions, UTC days for the quota), feeds
that repeat, regress and disappear, and a shutdown whose order decides whether
accepted data survives.

What makes each part correct:

- filter: bounded; suppresses only what is really near something stored or on
  its way; never remembers a value nothing carries; admits what the table lacks.
- pipeline and writer: no send on a closed channel; nothing lost track of;
  bounded buffers; a clean shutdown has flushed; every shutdown ends; replays
  leave one row per key and feed timestamp.
- quota: never more than the budget in a UTC day; a spent budget stops every
  feed until the day turns and no longer; no feed is starved or stuck.
- maintenance: no row is lost by moving or dropping partitions; every settled
  visit is counted, and once; the watermark only moves forward.
- timetables: at most one active version per feed and it is complete; pruning
  keeps the active one; the matcher ends up with the newest active one.
- matching: an update belongs to the night it is about; the last word of a
  message wins; nothing is dropped uncounted; one timetable per poll.
- cache and API: an answer is what the feeds had said at one moment of the
  request; boards and summaries leave out nothing but by limit and window;
  histories add up.
- migrations: the schema is what the table says, in order; nobody serves on less
  than its release needs; nobody is refused for losing a race.

## Modules

| module | what it is |
|---|---|
| `ChangeFilter` | `filter.go`: the operators and the two variables of the filter |
| `IngestPipeline` | `pipeline.go`, `writer.go`, `store.Retry`, the shutdown order of `main.go`, and `decodeAndIngest`; extends `ChangeFilter` |
| `ObservationLog` | the abstract specification: what the ingest path promises of the table |
| `IngestPipelineProofs` | the theorems |
| `Quota` | `limiter.go`, `poller.go`, the outcomes of `client.go`, and the loader as a caller of the limiter |
| `QuotaProofs` | its theorems |
| `Maintenance` | `job.go` and `rollup.go`, beside the writer's inserts and a second instance |
| `MaintenanceProofs` | its theorems |
| `Migrate`, `MigrateProofs` | `store/migrate.go`: processes of several releases starting on one database; its theorems |
| `ScheduleLoader`, `ScheduleLoaderProofs` | `load.go`, `refresh.go`, `schedule.go`: a feed's versions in Postgres and in each process's matcher; its theorems |
| `ServiceDays` | `servicetime.go`, the calendars of `match/schedule.go`, `pickDate`: operators only |
| `Matching`, `MatchingProofs` | `decode.go` and `matcher.go`: one poll, update by update; extends `ServiceDays`; the theorems of both |
| `History` | `handlers_history.go`: operators on hourly rows |
| `Live` | `latest.go` and `handlers_now.go`: polls published, timetables swapped, requests served; extends `History` |
| `LiveProofs` | its theorems |
| `MCIngest`, `MCQuota`, `MCMaintenance`, `MCMigrate`, `MCLoader`, `MCMatching`, `MCLive` | instances for TLC |

The modules meet where the components do: `ChangeFilter` is the filter inside
`IngestPipeline`, which implements `ObservationLog`; `Maintenance` takes the
writer's statement as the two steps of its transaction, and the tick's expiry of
the filter is `ExpireFilter` of the pipeline; `Quota` decides when a poll, which
in the pipeline may happen at any time, may happen. `ScheduleLoader` ends in the
matcher of each process, whose `Swap` is a step of `Matching` and of `Live`;
`Matching` produces what a poll submits to the pipeline and publishes to the
cache, which the two take as any observations a feed can cause.

### How the pipeline corresponds to the code

- A key is (service date, feed, trip, stop); a value is what `entry` keeps:
  relationship (stop and trip relationship in one), matched, and the delay.
  `entry.seq` is abstracted to the relation `older`, the order of insertion.
- A poll takes the feed's current snapshot, matched against the timetable the
  matcher holds at that moment, into `todo`. Each observation is then one call
  of `Submit`, in any order, because decoding orders entities and nothing below
  depends on it. `Submit` is two steps: `Admit` (or `Suppress`), which is under
  the filter's mutex, and `Send` or `Refuse`, the `select` after it. `Refuse`
  includes the `Forget`.
- `Writer.Run`'s `select` is the three actions `Receive`, `FlushInterval` and
  `Finish`; the flush they start is a state of the writer (`flushing`, or
  `lastFlush` when Run returns after it), in which `writeBatch` and `store.Retry`
  run: `WriteSucceeds`, `WriteRetries`, `WriteFails`. `attempt` is 0 when the
  context was already dead on entry, so that `Exec` fails without being sent.
- The database fails in three ways: retryably (nothing applied, worth another
  attempt), permanently (nothing applied), or unacknowledged (the statement may
  have committed: a lost reply or `WriteTimeout`). `Faults` says which can happen.
- `main` walks through `serving`, `stopping` (the signal), `draining` (channel
  closed), `overdue` (grace expired, writer cancelled), and ends `clean` or
  `incomplete`. `Crash` kills the process at any moment, also while a batch
  commits, and starts it again with everything but the table gone.
- Publishing (with or without regressing header timestamps), swapping
  timetables, and the turn of the day are the environment.

Bounds of the pipeline: `MaxTS` header timestamps, `MaxPolls` polls per feed, `LastDay` days,
`MaxCrashes` crashes. `Counting = FALSE` switches the counters off where only
liveness matters; they are read by no guard.

### How the quota corresponds to the code

- Time runs in ticks of one token (1/rps seconds); `DayLength` ticks make a UTC
  day. `tokens`, `last`, `used` and `day` are the limiter's fields, and each of
  its critical sections is one action. `Wait` is `ReadClock` (the argument of
  `reserve` is evaluated before the lock), then `Grant` or `Refuse`, then `Send`
  when the timer has fired. `WindowAt` is `rolloverLocked`, `Refill` the bucket.
- A poller that has a response takes `Succeed` (a body, or 304), `Panic` (the
  handler panicked and `pollOnce` recovered, after `failures` was reset), `Fail`
  (every counted failure, 403 over rate included), or `OverQuota` and then
  `Exhaust`, another critical section. `Pause` is `budgetPause`: the limiter is
  asked under its lock again, so the day may have turned since the refusal.
- `window` remembers which limiter day a reservation or a refusal belongs to.
- The loader takes `ReadClock`, `Grant` or `Refuse`, `Send` and `LoadEnds`,
  whatever the answer, because `Load` returns every error to `Run`, which logs it.
- `Restart` is a new process: nothing of the limiter is stored.
- `Tick` is the clock. With `Prompt`, time passes only when no caller has
  anything to do; without it, callers may be held up between any two steps.

Bounds of the quota: `Days` days, `MaxRestarts` restarts, `MaxDoublings`
doublings of the backoff (4 in the code, 1 in the runs: more only sleeps
longer), `LoadGaps` for the loader's sleeps. `Traced` chooses which histories a
run keeps; no guard reads them.

### How the maintenance corresponds to the code

- A row has its visit, the hour of its feed timestamp (`ts`) and the hour the
  timetable gives the visit, or none (`at`); `Bucket` is `coalesce(scheduled_at,
  feed_ts)`. `default` and `daily` are the rows of the two kinds of partition.
- The writer's statement is `Insert`, which routes the row to a leaf and holds
  its locks, and `Commit` or `Rollback`. `writeBatch` is otherwise the pipeline's.
- Postgres runs READ COMMITTED: each statement that reads is a step and sees what
  is committed by then; a transaction's changes appear in its last step. Of the
  locks the model has those that exclude something: the watermark's row, and the
  exclusive locks of CREATE, ATTACH and DROP, which wait for whoever has read or
  written the table. A wait may end in the lock timeout or a deadlock's victim:
  `EnsureFails`, `RollFails`, `TickEnds`, as does every failing statement.
- A tick is `StartTick`; per missing date `Create`, or `Copy`, `Delete` and
  `Attach`; `RollBegin`, `Select` and `RollCommit`, or `NothingDue`; per old
  partition `Check` and `Drop`, or `Skip`. A failed step does what `Tick` does:
  creation that fails is followed by the rollup, a rollup that fails by nothing.
- An hourly row is the set of last words counted in it: the statistics are a
  function of those. A window's upserts replace what an hour had.
- `-1` is the sentinel of a watermark that never ran. `today` is reset between
  ticks, when nobody reads it.
- `Run`'s timer and `runTimeout` are not modelled: a tick may begin at any time
  after the one before, and may fail at any statement.

Bounds of the maintenance: `LastHour` hours, `MaxRows` rows; a service day of
two hours, so that a visit may be scheduled four hours after its day's start.

### How the migrations correspond to the code

- A migration is a version and a body; its checksum stands for the body, and
  `schema_migrations` (`applied`) holds both. `schema` is the history of what was
  committed. A release is a set of files, which `load` may refuse.
- `Migrate` is `Start`, `TakeLock`, `ReadApplied`, then per file `Refuse` or
  `Apply`, and `AllApplied` and `Unlock`. A database failure may leave the commit
  made (`ApplyFails`). After a refusal `main` exits.
- The lock belongs to the session: a killed process leaves it `Gone` until the
  server notices (`SessionEnds`), and a commit on its way may still happen.

### How the timetables correspond to the code

- A bundle stands for its content and its rows, a version for the row of
  `schedule_versions`. Two downloads are the same bundle when their hashes are.
- `Load` is `Fetch`, `Lookup`, `InsertBegins`, `InsertCommits` or
  `InsertRefused`, then `activate`'s transaction: `Deactivate` (its UPDATE, which
  may wait for another's: `Waited`), and `Activated` or `ActivationRefused`
  (second UPDATE, unique index, COMMIT); then `Prune`. `publishActive` is
  `Publish`, `Snapshot` (the REPEATABLE READ transaction), `Swap`.
- Any step may fail, time out, or die; what was sent may have been carried out
  (`Unacknowledged`). A timeout skips the publication too, because both have one
  context.

Bounds: `MaxChanges` publications, `MaxFaults` failures, `MaxCrashes` crashes;
two processes, because activation and pruning race between instances.

### How the matching corresponds to the code

- Time is integers; a time zone is where midnights and noons fall, with the
  clock's changes. In the run a day is eight hours, one of seven and one of nine.
- A message is a sequence of entities with each optional field present or `None`;
  `Decode` keeps or drops each stop, for a reason that is counted.
- Each update is one step of `Match`: `Skip`, `WithoutTrip`, `Cancel`, `TripOnly`
  or `FullMatch`, the branches in the order of the code. `Done` adds the
  observations (`add` is the closure with its index of keys) and the counters.
- `using` is the pointer loaded once; `Swap` may come between any two updates.
- Delays wrap at `IntRange`, which is 16 in the run so that wrapping happens.

### How the cache and the requests correspond to the code

- `Poll` is `decodeAndIngest` up to `Cache.Update`, with `Observe` in place of
  `Match` for updates that name their stop and date. A swap between the match and
  the publication has the effect of one after it, so they are one step.
- A request is `Ask` (the timetables are read; 503 or 404), `Copy` (the snapshots,
  under the read lock), `Read` (the clock, without it) and `Answer`
  (with `Newest` under the lock again when nothing was found). Polls, swaps and
  ticks come between any two.
- `LineNow` and `StopNow` are the handlers: direction, order, limit, summary and
  window, in the code's order. `call` looks the stop_sequence up in the request's
  timetable, which may be newer than the poll's.
- `AskHistory` selects hourly rows, by their places in the list, and is answered by
  `HistoryOf`. It reads nothing of the cache, so it is asked only before the
  clock's first tick. A group of `groupRows` is the set of places of its rows, and
  the list of groups is indexed by the place of the row that opened each: `combine`
  adds and sorts, so the order within a group tells nothing apart.
- A row's mean is a real, given in fractions of a second (`Precision` of them make
  one); what is answered is rounded to tenths. The sum and the division before the
  rounding are exact here, in float64 in the code. `totals` is all that `combine`
  makes of the range; the handler shows the visits, percentage and percentiles.
- An observation takes the direction its update tells, then the timetable's if that
  has one, as `fullMatch` does.

Bounds: `MaxNow` ticks, `MaxPolls` polls by feed, `MaxOvertaken` steps of others
during one request, headers at most `Lag` old.

## Runs

The first three are in `MCIngest`, then three in `MCQuota` and two in
`MCMaintenance`; the last four have a module each.

| run | question | what it shows |
|---|---|---|
| `pipeline_current` | a delay that moves one threshold at a time or is withdrawn, no faults, a channel of 1, a crash, fairness | `MissingIsAdmitted`, `SuppressedIsNear`, `EventuallyUpToDate` |
| `pipeline_log` | two keys of one feed on two days, a filter that holds one, a timetable swapped in, every fault, an expiring grace, a crash, replays, fairness | `Implements` (refinement of `ObservationLog`), `FilterBounded`, `NoSendAfterClose`, `CleanMeansFlushed`, `RecordsAreBacked`, `ShutdownEnds` |
| `failed_batch` | violated: a failed batch's values stay suppressed | `MissingIsAdmitted` |
| `quota_days` | two pollers, two days of three ticks, a budget of 2, clocks out of order, every answer | `SentWithinBudget`, `PausesEndByMidnight`, `WaitBounded`, `SpentStaysSpent` |
| `quota_live` | a poller and the loader, prompt callers, two days, a restart, fairness | `Paced`, `BackAtMidnight`, `AllReturn` |
| `loader_quota` | violated: the loader's quota answer stops nobody | `QuotaAnswerStopsAll` |
| `maintenance_tick` | two instances, a stranded visit scheduled as late as its date allows, another being written matched or unmatched, every failure | `SettledCounted`, `RowsKept`, `HoursFinal` |
| `stranded_move` | violated: a row committed during a move is deleted uncopied | `RowsKept` |
| `migrate` | two processes of five releases (one edited a migration, one skips a number) and two that cannot load; failures, lost acknowledgements, kills | `SchemaInOrder`, `ReadyMeansMigrated`, `RefusalIsDue`, `StartEnds` |
| `timetables` | two overlapping processes, a database with no version or two, a bundle that is refused, one fault, one crash | `TypeOK`, `OneActive`, `ActiveUntilReplaced`, `ServesWholeVersions`, `EventuallyCurrent` |
| `matching` | messages of one entity in every combination of fields, and of two, around a short and a long day, two timetables | `TypeOK`, `DatesAreTold`, `LastWordWins`, `EveryUpdateCounted`, `RelationshipsArrive`, `OneTimetable`, `DelayMeetsPrediction` |
| `live` | two feeds on one line, polls, a timetable loaded and replaced, requests for a line, a stop and a history | `FoundAtOneMoment`, `AnswersComplete`, `ScheduledAsMatched`, `StaleMeansStuck`, `HistoryAddsUp` |

A run leaves out what a theorem shows for every value of the constants and no
other property needs beside it: the type invariants of the pipeline, the quota,
the migrations and the maintenance, `BuffersBounded`, `Accounted`, `OneRowPerKey`,
`BudgetKept` and `WatermarkAdvances`. They are definitions of their modules, and
any of the runs can be given them.

The bounds are the smallest at which the interesting cases meet: two keys and a
filter that holds one, so that eviction and replays meet; a batch of 2 so that a
flush by size, by interval and at shutdown are different events and a batch can
hold two rows of one key; a channel of 1 or 2 so that it is full in reach; two
attempts so that a retry and its limit both happen; three timestamps where drift
matters and one where only replays do; one crash, because a crash returns the
process to its initial state. The runs have one feed's poller: two pollers at
once, at a shutdown too, are covered by the theorems, which hold for any set of
feeds.

For the quota: two days so that a day turns while requests are held, refused and
asked about; a budget of 2 so that two callers meet at its last request; two
pollers because every race is between two callers of the limiter.

For the maintenance: two instances because one cannot race itself; a visit of
yesterday, stranded, whose hour is the last its date can have, so that moving,
the window's service dates and retention all bear on it; two rows of another
visit, so that there is a last word and one before it; five hours, so that
windows of one hour and of several are rolled up, day turns twice, and a
partition comes due for retention while it has rows to count.

For the migrations and the timetables: two processes, because every race is
between two; releases that differ by one file at a time; three bundles that load
and two versions kept, so that one is pruned and may be what the operator goes
back to. For the matching: an overlap of 2 in a day of 8, a tolerance of 3 that
is below half of the shortest day; stop times past midnight; a
trip that calls twice at one stop; two entities, so that words on one key meet.
For the requests: two feeds, one of which may have nothing to say; three polls of
one, so that it stands still and advances; a TTL and a window of one tick; a
limit of 2 where more trips and calls are there; means with a third of a second,
so that rounding changes what one row alone comes to.

The violations are disagreements between the code and what its comments say;
`PROJECT.json` quotes the lines. `failed_batch` refutes `MissingIsAdmitted`,
which `pipeline_current` shows to hold when batches do not fail and timetables
stay. `stranded_move` writes a date that is in the default partition while it is
moved, which happens at the first start on a database where ingest runs before
the first tick has ended; `maintenance_tick`, where `RowsKept` holds, writes only
dates that have their partition.

Some more that a reader of the properties should know, without a run of their
own:

- `MissingIsAdmitted` needs timetables to stay: a value stored unmatched and
  matched in the next poll under the same header timestamp keeps its row, because
  the filter admits it and `ON CONFLICT DO NOTHING` does not.
- `PausesEndByMidnight` holds, but the midnight is the coming one: a poller
  refused just before a day turns may sleep through the new day.
- A trip of a replaced timetable is listed by `lineNow` until the feed's next
  poll, and a scheduled time looked up after a swap may be another stop's
  (`ScheduledAsMatched` is about the other cases).
- A feed may be left without an active timetable until its next load, though
  `load.go:191-193` says never zero: a process finds that it has a version already,
  another loads newer ones and prunes that one, and the second UPDATE of the first
  process's `activate` then touches no row after its first has deactivated the
  rest. It takes two processes and a version with `Keep` newer ones
  (`ActiveUntilReplaced` says so); `OneActive` is only that there are never two.
- A delay that overflows is written wrapped: `DelayMeetsPrediction` is about int32s
  and holds of it.
- An empty answer may be dated by a snapshot that has trips.

What the runs assume and the code does not guarantee: header timestamps grow
(with `HeaderRegresses`, a value stored under a lower timestamp and repeated
under a higher one is suppressed, so `MissingIsAdmitted` fails), delays lie
within half an int32's range of each other (otherwise the difference wraps and
`SuppressedIsNear` fails), and `SentWithinBudget` counts one process: `used` is
stored nowhere, so a restart opens the day's budget again. `maintenance_tick`
ends before a date that is still written can be dropped: a row that commits into
a partition between the check for pending rows and the DROP is lost, which takes
`RETENTION_DAYS=1` and a visit in the last hours of its 48, or an unmatched row
of a past date (`WritesAreRecent` excludes it in the theorem). An unmatched visit that is mentioned again after its hour was
rolled up is counted in a second hour; no property denies it.

### Fairness

`FairSpec` assumes weak fairness of each goroutine: a poller polls and submits,
the writer selects, `main` moves on when what it waits for has happened or its
timer fires. Go schedules every runnable goroutine; the writer's ticker never
stops; every attempt has a timeout and retries are finitely many; the poller's
timer is re-armed after every poll. Nothing is assumed of feeds, of the operator
or of crashes: `Publish`, `Swap`, `NextDay`, `ExpireFilter`, `Shutdown` and
`Crash` need never happen. Among the writer's steps no choice is fair: a
database that always fails is allowed, and `EventuallyUpToDate` is therefore
checked without faults.

In `Quota`, `FairSpec` assumes that every caller runs and that the clock does
(`WF_vars(Tick)`); a request in flight ends because the client has a timeout
(`client.go:87`). `Used`, `Shutdown` and `Restart` need never happen.

In `Migrate`, every process that is past the lock goes on, a dead session ends,
and the lock is granted fairly (`SF_vars(TakeLock(p))`): Postgres queues those
who wait for an advisory lock. In `ScheduleLoader`, every process goes on
(`WF_vars(Advance(p))`): each statement and each load has a timeout and the
loader's timer is re-armed. `Start`, failures, crashes and the operator need
never happen. `Matching` and `Live` state no liveness: a poll and a request are
loops over what is in memory.

## Proofs

For all values of the constants that satisfy `FilterConstants` and
`PipelineConstants` (finite sets of keys and feeds, positive sizes, `BatchSize
<= QueueSize`):

- `TypeCorrect`, and from it the rest. The shape of the invariant: `TypeOK`;
  `FilterBounded` and `EntriesAreOrdered` together, because eviction is possible
  only if the entries are ordered and the bound holds only if eviction is
  possible; `NoSendAfterClose` with what the poller does before it stops;
  `BuffersBounded`; `Accounted`.
- `FilterCorrect` rests on the lemmas on the filter's `Record` and
  `Remove`: a record adds at most one key, and when it would pass the limit it
  first removes at least one.
- `Backed`: a value leaves a poller's hand only for the channel (or is
  forgotten), the channel only for the batch, and the batch only for the rows or
  the settled.
- `CleanShutdown` from what the writer and `main` know of each other while
  draining (`DrainInv`), with `NoneUnaccounted` for the counters.
- `PipelineIsLog`: every step of the pipeline is an accept (`Send`), a settle
  (`WriteSucceeds`, `WriteFails`), a loss (`Crash`) or a stutter of
  `ObservationLog`, with `outstanding` mapped to what is in channel and batch.
  `RowsKeyed` follows from it and `KeyedRows`, proved of the log alone.
- `SuppressedAreNear`, from one assumption more, `DelaysInRange`: delays within
  half an int32 of each other, so that a difference that wraps stays small when
  it is small.
- `MissingAdmitted`, from `DelaysInRange` and what the list of assumptions above
  says the property needs: no header goes back (`~HeaderRegresses`), the timetable
  stays (`TimetableStays`) and no batch is given up (`BatchesApplied`; a lost
  acknowledgement is allowed, `failed_batch` shows the rest). The invariant is
  `WordsInv`. `Spoken`: all that is waiting, carried or stored is what a feed said
  at its header timestamp, so no two differ on one key and timestamp, a batch
  stores whatever the table lacks (`AllStored`), and what waits is newer than what
  went before. `Carried`: what the filter remembers of a key is the newest word on
  it that is carried or stored, unless the grace period is over, when nobody
  submits any more.

For the quota, from `QuotaConstants` (finite sets of callers, a positive budget,
burst and day length; any backoff, any number of restarts):

- `Typed`, with the arithmetic of days: `DayOf` keeps the order of clocks.
- `BudgetHolds` and `SpentHolds` rest on `LimiterInv`: no clock a caller carries
  and no limiter day is ahead of the present; what was granted on the limiter's
  day is counted in `used`, and nothing was granted on a day it has yet to reach,
  so that opening a day with `used = 0` is right; a day marked spent is over, or
  is the limiter's day with `used` at the budget, so an older clock that takes
  the lock later finds either nothing left or a newer day.
- `PausesHold`: a pause is computed from the limiter's day, which is not ahead.
- `SentHolds`: sent and held requests of a day never exceed those granted for it
  and the callers late from the day before (`SentCovered`), and a caller late on
  a day carries that day's clock afterwards and is not late twice (`LateOnce`).
- `WaitsBounded`: what the bucket is overdrawn by, at its clock or at any later
  moment, is covered by as many callers who only come back after that moment
  (`DeficitCovered`), so a caller who joins waits for the others at most.
- `PaceHolds`, with callers on time (`Prompt`; a caller with an old clock may be
  granted a moment that has passed): of the requests granted for a moment up to the
  bucket's clock or later, the burst, the time since and the overdraft pay
  (`PaidFor`); beyond that clock two grants lie one token's time apart (`Spaced`).

For the maintenance, from `MaintenanceConstants` (any number of instances,
visits, hours and days):

- `WatermarkNeverGoesBack` and `HoursAreFinal` rest on `WindowHeld`: where a job
  stands tells who holds the watermark's row; the holder's window begins at the
  watermark or after and is not empty; the words it has selected lie in it. So
  only a commit moves the watermark, forward, and touches only hours at or
  beyond it. `RowsTyped` is needed because the first window begins at the oldest
  row, which must have an hour for that to be one. `MaintenanceTyped` adds the
  rest of the state.
- `RowsAreKept`, if the dates still written have their partition
  (`WritesHavePartition`): then a row in the default partition that a move has
  not copied belongs to a date that is dropped (`KeptInv`). `stranded_move` shows
  what happens without the assumption.
- `SettledAreCounted`, if moreover the hours still written settle before their
  date may be dropped and lie in the dates a window selects (`WritesAreRecent`;
  of matched visits that limits how late they may be scheduled, of unmatched ones
  how long they are written). The argument follows a word through a window: what
  the watermark has passed is counted or overtaken by a later word for an hour to
  come; while a window is open, the same holds up to its end, through what is
  selected (`PassedInv`); and a date is found free to drop only when all its words
  are counted, after which none can come in time (`DroppedInv`, `ClockInv`).

For the migrations, from `MigrateConstants` (any processes and any releases):

- `SchemaKept`, `ServesMigrated`, `RefusalsAreDue` and `MigrateTyped` rest on
  `Held` and `Knows`: from taking the lock to returning, a process holds it, so
  the table is what it read and what it applied since, each file it has yet to
  apply is above those it applied (`DueIsNewest`), and one that returns without
  an error has all its files in the table.

For the timetables, from `LoaderConstants` (any processes, bundles and histories):

- `LoaderTyped`, `AtMostOneActive`, `WholeVersions` and `ActiveKept` rest on
  `Claims`: the id of an insert in progress is nobody else's and in no table,
  and what a publication reads is a version that was there. So
  switching leaves at most one active version, pruning never takes it, and what a
  matcher holds carries its own id. `ActiveKept` needs `Loaded` too: what a process
  activates was loaded once, and is out of the table only if `Keep` newer ones were.

For service dates, from `Zone` and `Settings` (any clock changes of less than a
third of twelve hours, any overlap, tolerance and calendars):

- `LatestOwner`: the service day that began last exists, is among yesterday, today
  and tomorrow, and so the candidates are as the comment says.
- `LastNight`: two service days begin more than two tolerances apart, so an update
  is near the stop's time on one of them only. `DatesTold` says both of
  every poll that `Matching` can take.

For the matching, from `Widths`, `Absent`, `Protobuf` and `Published` (any
messages, any timetables, any even width of integers). What the last two say of
a message and a timetable is what the protobuf's types and the loader's checks
leave; that a direction is 0 or 1 is the publisher's word, the loader parses any
small number. The invariant is `MatchInv`:

- `Phases` and `Logs` say where the poll is and that each update made one entry of
  the history `said`.
- `RowsFit`: every observation is from an update that said its key and has the
  relationships, the date and the prediction of that update. From it
  `PredictionsMet` (delays that do not wrap are what the feed predicted, against
  the timetable or, without one, as told) and `RelationshipsKept`; and, since
  nothing but `Poll` loads the pointer, it has that one timetable's version, for
  `AgainstOneTimetable`.
- `WordsKept`: one observation a key, and by the last update that said it. `add`
  overwrites in place, so an earlier word must be shown to be replaced and every
  other key's to stay: `LastWords`.
- `Tallied`: updates and observations against the counters, duplicates included,
  which `AllCounted` is read off from. A fold over the stops of one update is
  counted by a minimal counterexample instead of an induction.

For the requests, from `LiveConstants`, `Bundles` (a version's number is its own;
calls ascend by sequence, which the builder of timetables requires), `Protobuf`,
`Parameters` and `Absent`. The invariant is `LiveInv`:

- `FeedsKeepUp`: the snapshot of a feed is its last poll without what was served
  and the ghosts. `KeptIsPending` and `HasIsTold` carry that to what a request
  sees.
- `OneMoment`: what a request copied is what the feeds had said at one of its
  moments, and what it found is that at a clock since it came. The copy is of one
  moment because it is under one lock; later polls only add moments.
  `OneMomentFound`.
- `StillCounted`: the count is the length of the last run of header timestamps
  that did not advance, for `StuckIsStale`.
- `TimesAgree`: an observation of a version has sequence and time from one call of
  its trip there (`ObservationFits`), and a sequence is one call's only (`CallIs`).
- `NothingLeftOut`: a sort of any order the code uses leaves every element once and
  none behind one it goes before (`SortedSorts`), so the first of it are the least;
  the middle of a list sorted by delay has no more than half on either side
  (`MedianOf`), and a trip has one status (`StatusesPart`).

For histories, from `Rollups` besides: rows come ordered by their hour, means are
fractions of a second of any `Precision`, and a row's percentiles and mean are there exactly when it counts a visit with a delay, since
the rollup takes the four counts and all three from the same visits
(`rollup.go:98-108`). Nothing is assumed of how many rows an hour or a day has, of
the lengths of either or of the delays.

- `HistoryAnswered` is the invariant: a history's answer is what the handler made
  of the rows in the range. The rest is about the operators.
- A sum is a fold in an order nobody chose. `LeastSet` and `SetsGrow` are induction
  over a finite set, with a set in place of the formula; from them there is one
  function that sums over all parts of a set (`SumsExist`) and the fold computes it
  (`SumIs`). What else is needed of sums follows: of both addends, of parts, of
  classes, and their bounds (`SumMore` to `SumOfClasses`).
- `GroupsRight`: comparing each row with the one before it finds the rows of each
  bucket, since rows in order have buckets in order (`BucketsAscend`).
- `HalfWay`: of rows sorted by a percentile, those before the first at which half
  of the weight is reached weigh less than half; with `MedianHalves` that is the
  weighted median, and with `PercentileOfOne` what one row has.
- `RoundedMean`: a weighted mean lies between the least and the greatest mean, and
  rounding takes it out by half a tenth at most (`RoundsWithin`, `MeanBetween`).

Model-checked only: liveness (`EventuallyUpToDate`, `ShutdownEnds`,
`BackAtMidnight`, `AllReturn`, `StartEnds`, `EventuallyCurrent`), which needs
ENABLED. Every other property of a run that passes is a theorem.

## Plan

What is open, in this order:

1. The client rate limiter of the API, with requests at once and a clock read
   before the lock.
2. The trip page, which joins the timetable, the cache and the stored rows.

## Not modelled

- Parsing of the timetable's CSV, of times and dates, of the protobuf bytes and of
  the configuration: sequential code without state between calls. What a parser
  refuses is an input of the models (`Unloadable`, `BadDate`).
- The client rate limiter (`ratelimit.go`): a bucket per address under one mutex.
  One thing a reader should know: a rate below one a second never admits, because
  the bucket holds `rate` tokens and a request takes a whole one.
- The trip page, the lists of lines and stops, readiness and status, middleware,
  rendering: they read what the models above hold and change nothing.
- The trip and maintenance queries: single read-only statements.
- Metrics, the web client and the fixture tool.

`PROJECT.json` lists each part.
