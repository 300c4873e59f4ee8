--------------------------- MODULE IngestPipeline ---------------------------
(***************************************************************************)
(* internal/ingest: from a feed's snapshot to rows.  One goroutine per     *)
(* feed polls, matches and submits (main.go decodeAndIngest), Submit is a  *)
(* filter decision followed by a send that never blocks, one writer turns  *)
(* the channel into batches, and main shuts it all down in a fixed order.  *)
(*                                                                         *)
(* Submit is two steps, Admit and then Send or Refuse, because no lock     *)
(* spans them.  A snapshot is the set of what it holds for each key; the   *)
(* order of its entities is any order.                                     *)
(***************************************************************************)
EXTENDS ChangeFilter, Sequences, Functions

CONSTANTS
  Feed,            \* the configured feeds, one poller goroutine each
  FeedOf,          \* the feed of a key
  Report,          \* what a feed can say of a key, before matching
  Silent,          \* a key the feed's snapshot does not hold
  Timetables,      \* the timetables that get published: the keys each one knows
  HeaderRegresses, \* may a header timestamp move backwards (PROJECT.md 9.5)?
  LastDay,         \* bound on service dates the process lives through
  QueueSize,       \* INGEST_QUEUE_SIZE
  BatchSize,       \* INGEST_BATCH_SIZE
  MaxAttempts,     \* the first attempt and its retries: 4
  Faults,          \* how the database may fail a write
  MaxPolls,        \* bound on polls of one feed
  MaxCrashes,      \* bound on crashes
  Counting,        \* whether counters and bounds on them are kept
  None             \* no observation in hand

FaultKind == {"retryable", "permanent", "unacknowledged"}

ASSUME PipelineConstants ==
  /\ IsFiniteSet(Feed) /\ FeedOf \in [Key -> Feed]
  /\ Report \subseteq [rel : STRING, hasDelay : BOOLEAN, delay : Int]
  /\ \A r \in Report, m \in BOOLEAN :
       [rel |-> r.rel, matched |-> m, hasDelay |-> r.hasDelay, delay |-> r.delay] \in Value
  /\ Silent \notin Report
  /\ Timetables \subseteq SUBSET Key
  /\ HeaderRegresses \in BOOLEAN /\ Counting \in BOOLEAN
  /\ QueueSize \in Nat \ {0} /\ BatchSize \in 1..QueueSize
  /\ MaxAttempts \in Nat \ {0}
  /\ Faults \subseteq FaultKind
  /\ LastDay \in Nat \ {0} /\ MaxPolls \in Nat /\ MaxCrashes \in Nat
  /\ None \notin Observation

VARIABLES
  headerTS,   \* each feed's current header timestamp, 0 before it first publishes
  says,       \* what the feeds currently say of each key
  timetable,  \* the timetable the matcher holds: the keys it knows
  today,      \* the service date of the wall clock
  todo,       \* each poller's observations not yet submitted
  offer,      \* the observation a poller has had admitted and not yet sent
  polls,      \* polls made of each feed, counted only to bound them
  stopped,    \* the pollers that have returned
  queue,      \* Pipeline.ch
  writer,     \* where Writer.Run is
  batch,      \* Writer.Run's batch
  attempt,    \* attempt at writing the batch; 0 when its context was dead at the start
  rows,       \* the observations table
  lost,       \* history: observations settled without a row of their own
  main,       \* how far main is through the shutdown order
  admitted, dropped, written, conflicts, failed,  \* the counters of Pipeline.Stats
  crashes     \* crashes so far, counted only to bound them

sourceVars == <<headerTS, says, timetable, today>>
pollerVars == <<todo, offer, polls, stopped>>
writerVars == <<writer, batch, attempt>>
storeVars  == <<rows, lost>>

writes     == <<written, conflicts, failed>>
counters   == <<admitted, dropped, writes>>

vars == <<sourceVars, filterVars, pollerVars, queue, writerVars, storeVars,
          main, counters, crashes>>

TypeOK ==
  /\ FilterTypeOK
  /\ headerTS \in [Feed -> 0..MaxTS]
  /\ says \in [Key -> Report \cup {Silent}]
  /\ timetable \in Timetables
  /\ today \in 1..LastDay
  /\ todo \in [Feed -> SUBSET Observation]
  /\ offer \in [Feed -> Observation \cup {None}]
  /\ polls \in [Feed -> Nat]
  /\ stopped \subseteq Feed
  /\ queue \in Seq(Observation)
  /\ writer \in {"unstarted", "selecting", "flushing", "lastFlush", "stopped"}
  /\ batch \in Seq(Observation)
  /\ attempt \in 0..MaxAttempts
  /\ rows \subseteq Observation
  /\ lost \subseteq Observation
  /\ main \in {"building", "serving", "stopping", "draining", "overdue", "clean", "incomplete"}
  /\ admitted \in Int /\ dropped \in Int
  /\ written \in Int /\ conflicts \in Int /\ failed \in Int
  /\ crashes \in Nat

ChannelClosed == main \in {"draining", "overdue", "clean", "incomplete"}
WriterCancelled == main \in {"overdue", "incomplete"}

Count(n) == IF Counting THEN n ELSE 0

-----------------------------------------------------------------------------
(* The world around the pipeline: what the feeds publish, which timetable  *)
(* the loader has swapped in, and the date.                                *)

Publish(f) ==
  /\ \E ts \in 1..MaxTS :
       /\ IF HeaderRegresses THEN ts # headerTS[f] ELSE ts > headerTS[f]
       /\ headerTS' = [headerTS EXCEPT ![f] = ts]
  /\ \E news \in [Key -> Report \cup {Silent}] :
       /\ \A k \in Key : FeedOf[k] # f => news[k] = says[k]
       /\ says' = news
  /\ UNCHANGED <<timetable, today, filterVars, pollerVars, queue, writerVars,
                 storeVars, main, counters, crashes>>

Swap ==
  /\ main \in {"serving", "stopping"}
  /\ timetable' \in Timetables \ {timetable}
  /\ UNCHANGED <<headerTS, says, today, filterVars, pollerVars, queue, writerVars,
                 storeVars, main, counters, crashes>>

NextDay ==
  /\ today < LastDay
  /\ today' = today + 1
  /\ UNCHANGED <<headerTS, says, timetable, filterVars, pollerVars, queue, writerVars,
                 storeVars, main, counters, crashes>>

\* The maintenance tick drops filter entries from before yesterday.
ExpireFilter ==
  /\ main \in {"serving", "stopping"}
  /\ \E k \in Known : DateOf[k] < today - 1
  /\ ExpireBefore(today - 1)
  /\ UNCHANGED <<sourceVars, pollerVars, queue, writerVars, storeVars, main, counters, crashes>>

-----------------------------------------------------------------------------
(* A feed's poller.                                                        *)

Observe(k) ==
  [key |-> k, ts |-> headerTS[FeedOf[k]],
   value |-> [rel |-> says[k].rel, matched |-> k \in timetable,
              hasDelay |-> says[k].hasDelay, delay |-> says[k].delay]]

Snapshot(f) == {Observe(k) : k \in {j \in Key : FeedOf[j] = f /\ says[j] # Silent}}

Idle(f) == todo[f] = {} /\ offer[f] = None

Poll(f) ==
  /\ main = "serving"
  /\ Idle(f)
  /\ polls[f] < MaxPolls
  /\ headerTS[f] > 0 /\ Snapshot(f) # {}
  /\ todo' = [todo EXCEPT ![f] = Snapshot(f)]
  /\ polls' = [polls EXCEPT ![f] = @ + Count(1)]
  /\ UNCHANGED <<sourceVars, filterVars, offer, stopped, queue, writerVars, storeVars,
                 main, counters, crashes>>

Take(f, o) ==
  /\ offer[f] = None
  /\ o \in todo[f]
  /\ todo' = [todo EXCEPT ![f] = @ \ {o}]

\* Mutant: the filter remembers the last value seen, not the last admitted.
SuppressRemembering(f, o) ==
  /\ Take(f, o)
  /\ ~Admits(o)
  /\ Record(o)
  /\ UNCHANGED <<sourceVars, offer, polls, stopped, queue, writerVars, storeVars, main,
                 counters, crashes>>

Suppress(f, o) ==
  /\ Take(f, o)
  /\ ~Admits(o)
  /\ UNCHANGED <<sourceVars, filterVars, offer, polls, stopped, queue, writerVars,
                 storeVars, main, counters, crashes>>

Admit(f, o) ==
  /\ Take(f, o)
  /\ Admits(o)
  /\ Record(o)
  /\ offer' = [offer EXCEPT ![f] = o]
  /\ admitted' = admitted + Count(1)
  /\ UNCHANGED <<sourceVars, polls, stopped, queue, writerVars, storeVars, main,
                 dropped, writes, crashes>>

Send(f) ==
  /\ offer[f] # None
  /\ Len(queue) < QueueSize
  /\ queue' = Append(queue, offer[f])
  /\ offer' = [offer EXCEPT ![f] = None]
  /\ UNCHANGED <<sourceVars, filterVars, todo, polls, stopped, writerVars, storeVars,
                 main, counters, crashes>>

\* Mutant: a full channel leaves the record in place.
RefuseRemembering(f) ==
  /\ offer[f] # None
  /\ Len(queue) >= QueueSize
  /\ offer' = [offer EXCEPT ![f] = None]
  /\ dropped' = dropped + Count(1)
  /\ UNCHANGED <<sourceVars, filterVars, todo, polls, stopped, queue, writerVars,
                 storeVars, main, admitted, writes, crashes>>

Refuse(f) ==
  /\ offer[f] # None
  /\ Len(queue) >= QueueSize
  /\ Forget(offer[f].key)
  /\ offer' = [offer EXCEPT ![f] = None]
  /\ dropped' = dropped + Count(1)
  /\ UNCHANGED <<sourceVars, todo, polls, stopped, queue, writerVars, storeVars,
                 main, admitted, writes, crashes>>

StopPoller(f) ==
  /\ main = "stopping"
  /\ Idle(f)
  /\ f \notin stopped
  /\ stopped' = stopped \cup {f}
  /\ UNCHANGED <<sourceVars, filterVars, todo, offer, polls, queue, writerVars,
                 storeVars, main, counters, crashes>>

PollerStep(f) ==
  \/ \E o \in todo[f] : Suppress(f, o) \/ Admit(f, o)
  \/ Send(f) \/ Refuse(f) \/ StopPoller(f)

-----------------------------------------------------------------------------
(* The writer.  A batch is one INSERT ... ON CONFLICT DO NOTHING: it       *)
(* succeeds or fails whole, and of rows with one natural key the first one *)
(* stands.                                                                 *)

SameRow(o, p) == o.key = p.key /\ o.ts = p.ts

Fresh ==
  {batch[i] : i \in {n \in DOMAIN batch :
      /\ \A r \in rows : ~SameRow(r, batch[n])
      /\ \A m \in DOMAIN batch : m < n => ~SameRow(batch[m], batch[n])}}

\* writeBatch is entered: its attempts fail at once if the context is dead.
BeginWrite == attempt' = IF WriterCancelled THEN 0 ELSE 1

Receive ==
  /\ writer = "selecting"
  /\ queue # <<>>
  /\ queue' = Tail(queue)
  /\ batch' = Append(batch, Head(queue))
  /\ IF Len(batch) + 1 >= BatchSize
     THEN writer' = "flushing" /\ BeginWrite
     ELSE UNCHANGED <<writer, attempt>>
  /\ UNCHANGED <<sourceVars, filterVars, pollerVars, storeVars, main, counters, crashes>>

FlushInterval ==
  /\ writer = "selecting"
  /\ batch # <<>>
  /\ writer' = "flushing"
  /\ BeginWrite
  /\ UNCHANGED <<sourceVars, filterVars, pollerVars, queue, batch, storeVars, main,
                 counters, crashes>>

\* Mutant: Run returns without the flush that the shutdown order is for.
FinishUnflushed ==
  /\ writer = "selecting"
  /\ (ChannelClosed /\ queue = <<>>) \/ WriterCancelled
  /\ writer' = "stopped"
  /\ UNCHANGED <<sourceVars, filterVars, pollerVars, queue, batch, attempt, storeVars,
                 main, counters, crashes>>

\* Mutant: a dead context throws the batch away uncounted.
FinishForgetting ==
  /\ writer = "selecting"
  /\ (ChannelClosed /\ queue = <<>>) \/ WriterCancelled
  /\ writer' = "stopped"
  /\ batch' = <<>>
  /\ UNCHANGED <<sourceVars, filterVars, pollerVars, queue, attempt, storeVars,
                 main, counters, crashes>>

\* The channel is closed and drained, or the writer's context is done.
Finish ==
  /\ writer = "selecting"
  /\ (ChannelClosed /\ queue = <<>>) \/ WriterCancelled
  /\ IF batch = <<>>
     THEN writer' = "stopped" /\ UNCHANGED attempt
     ELSE writer' = "lastFlush" /\ BeginWrite
  /\ UNCHANGED <<sourceVars, filterVars, pollerVars, queue, batch, storeVars, main,
                 counters, crashes>>

Writing == writer \in {"flushing", "lastFlush"}

\* The batch is done with, stored or not.
Settle(stored) ==
  /\ rows' = rows \cup stored
  /\ lost' = (lost \cup Range(batch)) \ rows'
  /\ batch' = <<>>
  /\ writer' = IF writer = "flushing" THEN "selecting" ELSE "stopped"
  /\ attempt' = 0
  /\ UNCHANGED <<sourceVars, filterVars, pollerVars, queue, main, admitted, dropped,
                 crashes>>

WriteSucceeds ==
  /\ Writing
  /\ attempt > 0
  /\ Settle(Fresh)
  /\ written' = written + Count(Cardinality(Fresh))
  /\ conflicts' = conflicts + Count(Len(batch) - Cardinality(Fresh))
  /\ UNCHANGED failed

\* Mutant: retries know no limit and no context.
WriteRetriesForever ==
  /\ Writing
  /\ "retryable" \in Faults
  /\ attempt > 0
  /\ attempt' = (attempt % MaxAttempts) + 1
  /\ UNCHANGED <<sourceVars, filterVars, pollerVars, queue, writer, batch, storeVars,
                 main, counters, crashes>>

WriteRetries ==
  /\ Writing
  /\ "retryable" \in Faults
  /\ attempt \in 1..(MaxAttempts - 1)
  /\ ~WriterCancelled
  /\ attempt' = attempt + 1
  /\ UNCHANGED <<sourceVars, filterVars, pollerVars, queue, writer, batch, storeVars,
                 main, counters, crashes>>

\* A failed write the database has not applied, and one it may have.
NotApplied ==
  \/ attempt = 0 \/ WriterCancelled
  \/ "permanent" \in Faults
  \/ "retryable" \in Faults /\ attempt = MaxAttempts
MaybeApplied == attempt > 0 /\ (WriterCancelled \/ "unacknowledged" \in Faults)

WriteFails ==
  /\ Writing
  /\ \/ NotApplied /\ Settle({})
     \/ MaybeApplied /\ Settle(Fresh)
  /\ failed' = failed + Count(Len(batch))
  /\ UNCHANGED <<written, conflicts>>

WriterStep ==
  Receive \/ FlushInterval \/ Finish \/ WriteSucceeds \/ WriteRetries \/ WriteFails

-----------------------------------------------------------------------------
(* main: the shutdown order of PROJECT.md 9.4, and crashes.                *)

Advance(from, to) ==
  /\ main = from
  /\ main' = to
  /\ UNCHANGED <<sourceVars, filterVars, pollerVars, queue, batch, attempt, storeVars,
                 counters, crashes>>

Start == Advance("building", "serving") /\ writer' = "selecting"

\* Close of a pipeline whose startup failed before Start: nothing to wait for.
CloseUnstarted == Advance("building", "clean") /\ UNCHANGED writer

Shutdown == Advance("serving", "stopping") /\ UNCHANGED writer

\* Mutant: main closes the channel without waiting for the pollers.
CloseChannelEarly == Advance("stopping", "draining") /\ UNCHANGED writer

CloseChannel ==
  /\ stopped = Feed
  /\ Advance("stopping", "draining") /\ UNCHANGED writer

GraceExpires == Advance("draining", "overdue") /\ UNCHANGED writer

Closed ==
  /\ writer = "stopped"
  /\ Advance("draining", "clean") \/ Advance("overdue", "incomplete")
  /\ UNCHANGED writer

MainStep == Start \/ CloseUnstarted \/ CloseChannel \/ GraceExpires \/ Closed

\* The process dies, perhaps as a batch commits, and is started again.
Crash ==
  /\ crashes < MaxCrashes
  /\ crashes' = crashes + 1
  /\ rows' \in {rows} \cup IF Writing /\ attempt > 0 THEN {rows \cup Fresh} ELSE {}
  /\ lost' = lost \ rows'
  /\ entries' = [k \in Key |-> NoEntry] /\ older' = {}
  /\ todo' = [f \in Feed |-> {}] /\ offer' = [f \in Feed |-> None] /\ stopped' = {}
  /\ queue' = <<>> /\ writer' = "unstarted" /\ batch' = <<>> /\ attempt' = 0
  /\ main' = "building"
  /\ admitted' = 0 /\ dropped' = 0 /\ written' = 0 /\ conflicts' = 0 /\ failed' = 0
  /\ UNCHANGED <<sourceVars, polls>>

Exited == main \in {"clean", "incomplete"} /\ UNCHANGED vars

-----------------------------------------------------------------------------
Init ==
  /\ FilterInit
  /\ headerTS = [f \in Feed |-> 0]
  /\ says = [k \in Key |-> Silent]
  /\ timetable \in Timetables
  /\ today = 1
  /\ todo = [f \in Feed |-> {}] /\ offer = [f \in Feed |-> None]
  /\ polls = [f \in Feed |-> 0] /\ stopped = {}
  /\ queue = <<>>
  /\ writer = "unstarted" /\ batch = <<>> /\ attempt = 0
  /\ rows = {} /\ lost = {}
  /\ main = "building" /\ crashes = 0
  /\ admitted = 0 /\ dropped = 0 /\ written = 0 /\ conflicts = 0 /\ failed = 0

Next ==
  \/ \E f \in Feed : Publish(f) \/ Poll(f) \/ PollerStep(f)
  \/ Swap \/ NextDay \/ ExpireFilter
  \/ WriterStep
  \/ MainStep \/ Shutdown \/ Crash \/ Exited

Spec == Init /\ [][Next]_vars

(* Every goroutine that can run does: pollers poll and submit, the writer  *)
(* selects (its ticker never stops) and each attempt ends at its timeout,  *)
(* main moves on when what it waits for has happened or its timer fires.   *)
(* Nothing makes a feed publish, an operator shut down or a process crash. *)
Fairness ==
  /\ \A f \in Feed : WF_vars(Poll(f)) /\ WF_vars(PollerStep(f))
  /\ WF_vars(WriterStep)
  /\ WF_vars(MainStep)

FairSpec == Spec /\ Fairness

-----------------------------------------------------------------------------
(* Properties.                                                             *)

\* What Submit has returned true for, and what it has at least admitted.
Accepted == Range(queue) \cup Range(batch)
Outstanding == ({offer[f] : f \in Feed} \ {None}) \cup Accepted

Settled == rows \cup lost

(* Every value the filter remembers as written stands behind an            *)
(* observation in a poller's hand, in the channel, in the batch, in the    *)
(* table, or among those the writer settled without a row: a full channel  *)
(* never leaves a record of a value nothing carries (pipeline.go:92-97).   *)
RecordsAreBacked ==
  \A k \in Known : \E o \in Outstanding \cup Settled :
    o.key = k /\ o.value = entries[k]

(* Nothing is submitted once the channel is closed: a send on a closed     *)
(* channel panics, which is why main closes it only after every poller has *)
(* returned (pipeline.go:106-107).                                         *)
NoSendAfterClose ==
  ChannelClosed => \A f \in Feed : todo[f] = {} /\ offer[f] = None

Holding == {f \in Feed : offer[f] # None}

Balance ==
  admitted = dropped + written + conflicts + failed
    + Cardinality(Holding) + Len(queue) + Len(batch)

(* Every admitted observation is in exactly one place or one counter, at   *)
(* every moment (pipeline.go:143-175).                                     *)
Accounted == Counting => Balance

(* A shutdown reported as clean has settled all it accepted: channel and   *)
(* batch are empty, and the final counters add up to what was admitted     *)
(* (writer.go:103-108, pipeline.go:130, 143-175).                          *)
CleanMeansFlushed ==
  main = "clean" =>
    /\ queue = <<>> /\ batch = <<>>
    /\ Counting => admitted = dropped + written + conflicts + failed

(* The bound on memory: the channel holds at most INGEST_QUEUE_SIZE, the   *)
(* writer at most INGEST_BATCH_SIZE and less than that while it waits.     *)
BuffersBounded ==
  /\ Len(queue) <= QueueSize
  /\ Len(batch) <= BatchSize
  /\ writer = "selecting" => Len(batch) < BatchSize

(* Seen from the table, the pipeline is the log that ObservationLog states. *)
Log == INSTANCE ObservationLog WITH outstanding <- Accepted

Implements == Log!Spec
OneRowPerKey == Log!OneRowPerKey

Near(v, w) ==
  /\ v.rel = w.rel /\ v.matched = w.matched /\ v.hasDelay = w.hasDelay
  /\ v.hasDelay => v.delay - w.delay \in -MinDelta..MinDelta

(* What is suppressed is really near something carried or settled: small   *)
(* moves never add up to an unseen one, because the filter compares with   *)
(* the last admitted value (filter.go:71-75, 118-132).                     *)
SuppressedIsNear ==
  [][\A f \in Feed : \A o \in todo[f] : Suppress(f, o) =>
       \E p \in Outstanding \cup Settled : p.key = o.key /\ Near(p.value, o.value)]_vars

\* The row that has the final word on a key: DISTINCT ON ... feed_ts DESC.
FinalWord(k) == {r \in rows : r.key = k /\ \A q \in rows : q.key = k => q.ts <= r.ts}

(* A value that is newer than every row of its key, that the key's final   *)
(* word lacks and that nothing carries to the table is admitted when the   *)
(* feed sends it (filter.go:54-57, writer.go:150-153).                     *)
MissingIsAdmitted ==
  \A f \in Feed : \A o \in todo[f] :
    /\ \A p \in Outstanding : p.key # o.key
    /\ \A r \in rows : r.key = o.key => r.ts < o.ts
    /\ \A r \in FinalWord(o.key) : ~Near(r.value, o.value)
    => Admits(o)

UpToDate ==
  \A k \in Key : says[k] # Silent /\ headerTS[FeedOf[k]] > 0 =>
    \E r \in FinalWord(k) : Near(r.value, Observe(k).value)

(* While the process serves, what the feeds last said ends up in the table *)
(* and stays there, through full channels, evictions of others and crashes *)
(* (PROJECT.md 9.4: "the next poll will re-send").                         *)
EventuallyUpToDate == <>[](main = "serving") => <>[]UpToDate

(* A shutdown that has begun ends, whatever the database does, unless the  *)
(* process dies first (pipeline.go:103-141).                               *)
ShutdownEnds == main = "stopping" ~> main \in {"clean", "incomplete", "building"}

=============================================================================
