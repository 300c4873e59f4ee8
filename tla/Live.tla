-------------------------------- MODULE Live --------------------------------
(***************************************************************************)
(* The latest-state cache and the requests answered from it: cache.Cache,  *)
(* decodeAndIngest's publishing half and the handlers of "now".            *)
(*                                                                         *)
(* Pollers publish, the loader swaps timetables and a request is served in *)
(* steps, each under a lock of its own or none: the timetables are read,   *)
(* the snapshots copied, the clock read, the answer built.  Requests only  *)
(* read, so one at a time is enough.  A timetable is what the handlers and *)
(* the matcher look up in it; ids are numbers where they are sorted by.    *)
(***************************************************************************)
EXTENDS Integers, FiniteSets, SequencesExt, History

CONSTANTS
  Feed,         \* FEEDS
  Messages,     \* by feed: the bodies its producer can send
  Timetables,   \* by feed: what the loader can publish
  Requests,     \* what clients ask of the cache
  Hourly,       \* what the rollup tables can hold of a stop or line, oldest first
  Ranges,       \* the from and to asked for
  HistoryMaxDays,
  TTL,          \* CACHE_TTL
  servedAfter,  \* five minutes
  Lag,          \* bound on how old a header timestamp is when it is polled
  Thresholds,   \* ON_TIME_EARLY_S, ON_TIME_LATE_S, ON_TIME_VERY_LATE_S
  MaxNow,       \* bound on the clock
  MaxPolls,     \* by feed: bound on its polls
  MaxOvertaken  \* bound on the steps others take while a request is served

ASSUME LiveConstants ==
  /\ IsFiniteSet(Feed) /\ DayLength \in Nat \ {0} /\ Precision \in Nat \ {0}
  /\ \A f \in Feed : MaxPolls[f] \in Nat
  /\ TTL \in Nat \ {0} /\ servedAfter \in Nat /\ Lag \in Nat /\ MaxNow \in Nat
  /\ Thresholds.early < Thresholds.late /\ Thresholds.late < Thresholds.very_late

\* A version's number is its own, and a trip's calls come in ascending
\* stop_sequence, as the timetable's builder requires (schedule.go:104-106).
ASSUME Bundles ==
  \A f \in Feed : \A sch \in Timetables[f] :
    /\ sch.version # None
    /\ \A other \in Timetables[f] : other.version = sch.version => other = sch
    /\ \A trip \in DOMAIN sch.trips :
         LET calls == sch.trips[trip].calls
         IN  /\ calls \in Seq(Range(calls))
             /\ \A i \in DOMAIN calls : calls[i].seq \in Nat /\ calls[i].offset \in {None} \cup Int
             /\ \A i, j \in DOMAIN calls : i < j => calls[i].seq < calls[j].seq

ASSUME Protobuf ==
  \A f \in Feed : \A m \in Messages[f] :
    /\ m \in Seq(Range(m))
    /\ \A u \in Range(m) : u.trip \in Int /\ u.date \in Int /\ u.delay \in {None} \cup Int

\* What intParam lets through (handlers_now.go:330-337).
ASSUME Parameters ==
  \A q \in Requests :
    /\ q.kind \in {"line", "stop"} /\ q.limit \in Nat \ {0}
    /\ q.kind = "stop" => q.window \in Nat

\* The rows of a stop or a line come ordered by their hour (history.go:98-101).
\* Counts by delay are of the visits that have one, and so are the percentiles
\* and the mean: there are either all three or none (rollup.go:98-108).  The
\* percentiles are delays, whole seconds; the mean is a real, an average with a
\* fraction: what the column stores is a multiple of 2^-149, so one Precision
\* tells every mean exactly.
ASSUME Rollups ==
  /\ Ranges \subseteq Int \X Int
  /\ \A hours \in Hourly :
       /\ hours \in Seq(Range(hours))
       /\ \A i, j \in DOMAIN hours : i <= j => hours[i].start <= hours[j].start
       /\ \A r \in Range(hours) :
            /\ r.start \in Int /\ r.count \in [Counters -> Nat]
            /\ {r.p50, r.p90, r.mean} \subseteq IF Weight(r) = 0 THEN {None} ELSE Int

VARIABLES
  now,        \* the wall clock
  held,       \* by feed: the matcher's timetable
  feeds,      \* Cache.feeds
  stage,      \* of the request being served
  request,    \* what it asks
  timetable,  \* the timetables it read
  snaps,      \* the snapshots it copied
  rows,       \* the trips or calls it found
  asOf,       \* the oldest timestamp among their feeds, then the answer's
  answer,     \* what it was answered
  said,       \* history: by feed, the poll published last
  headers,    \* history: by feed, the header timestamps published
  moments,    \* history: what the feeds had said at some moment of the request
  began,      \* history: the clock when the request came
  overtaken   \* steps of others during the request, counted only to bound them

serving == <<stage, request, timetable, snaps, rows, asOf, answer>>
vars == <<now, held, feeds, serving, said, headers, moments, began, overtaken>>

Init ==
  /\ now = 0
  /\ held = [f \in Feed |-> None]
  /\ feeds = [f \in Feed |-> None]
  /\ stage = "idle" /\ request = None /\ timetable = None /\ snaps = None
  /\ rows = {} /\ asOf = None /\ answer = None
  /\ said = [f \in Feed |-> None] /\ headers = [f \in Feed |-> <<>>]
  /\ moments = {} /\ began = 0 /\ overtaken = 0

\* A step that a request may be overtaken by; an answer is final at once.
Overtakes ==
  /\ stage \in {"idle", "known", "copied", "read"}
  /\ overtaken < MaxOvertaken
  /\ overtaken' = IF stage = "idle" THEN 0 ELSE overtaken + 1

-----------------------------------------------------------------------------
(* A poll.                                                                 *)

CallsAt(calls, u) == {i \in DOMAIN calls : calls[i].stop = u.stop}

Time(st, d) == IF st.offset = None THEN None ELSE d * DayLength + st.offset

Seen(f, u) ==
  [feed |-> f, trip |-> u.trip, route |-> u.route, date |-> u.date, stop |-> u.stop,
   direction |-> IF u.direction \in {0, 1} THEN u.direction ELSE None,
   seq |-> None, scheduled |-> None, delay |-> u.delay, rel |-> u.rel,
   matched |-> FALSE, version |-> None]

\* What Matcher.Match makes of an update that names its stop and date.
Observe(f, sch, u) ==
  IF sch = None \/ u.trip \notin DOMAIN sch.trips THEN Seen(f, u)
  ELSE LET t == sch.trips[u.trip]
           o == [Seen(f, u) EXCEPT !.matched = TRUE, !.route = t.route, !.version = sch.version,
                                   !.direction = IF t.direction # None THEN t.direction ELSE @]
           at == CallsAt(t.calls, u)
           st == t.calls[Min(at)]
       IN  IF Cardinality(at) # 1 THEN o
           ELSE [o EXCEPT !.seq = st.seq, !.scheduled = Time(st, u.date)]

Observation ==
  UNION {{Observe(f, sch, u) : sch \in Timetables[f] \cup {None}, u \in UNION {Range(m) : m \in Messages[f]}}
           : f \in Feed}
Polled == [ts : Nat, obs : Seq(Observation)]
Snapshot == [ts : Nat, unchanged : Nat, calls : SUBSET Observation, trips : SUBSET Observation]

ASSUME Absent ==
  /\ None \notin Int \cup Polled \cup Snapshot
  /\ \A f \in Feed : None \notin Timetables[f]

Due(o) == o.scheduled + (IF o.delay = None THEN 0 ELSE o.delay)

\* Mutant: a stop is left by our clock, whatever the feed's own time is.
ServedByClock(o, ts) == o.scheduled # None /\ now - Due(o) > servedAfter

served(o, ts) == o.scheduled # None /\ ts - Due(o) > servedAfter

ghost(o) == ~o.matched /\ o.rel \in {"SCHEDULED", "REPLACEMENT"}

SameTrip(o, p) == o.trip = p.trip /\ o.date = p.date

\* The places in a poll of what is kept of it, and of each trip's first.
Unserved(p) == {i \in DOMAIN p.obs : ~(served(p.obs[i], p.ts) \/ ghost(p.obs[i]))}
NextStops(p) == {i \in Unserved(p) : \A j \in Unserved(p) : SameTrip(p.obs[i], p.obs[j]) => i <= j}

\* Mutant: a timestamp that stands still is not told from one that advances.
UnchangedWhenOlder(f, ts) ==
  IF feeds[f] # None /\ ts < feeds[f].ts THEN feeds[f].unchanged + 1 ELSE 0

Unchanged(f, ts) ==
  IF feeds[f] # None /\ ts <= feeds[f].ts THEN feeds[f].unchanged + 1 ELSE 0

Update(f, p) ==
  feeds' = [feeds EXCEPT ![f] = [ts |-> p.ts, unchanged |-> Unchanged(f, p.ts),
                                 calls |-> {p.obs[i] : i \in Unserved(p)},
                                 trips |-> {p.obs[i] : i \in NextStops(p)}]]

\* A fetch, decoded, matched and published.  A timetable swapped after the
\* match is swapped after the publication for every request there is.
Poll(f) ==
  /\ Overtakes
  /\ Len(headers[f]) < MaxPolls[f]
  /\ \E ts \in {n \in 1..now : n >= now - Lag}, m \in Messages[f] :
       LET p == [ts |-> ts, obs |-> [i \in DOMAIN m |-> Observe(f, held[f], m[i])]]
       IN  /\ Update(f, p)
           /\ said' = [said EXCEPT ![f] = p]
           /\ headers' = [headers EXCEPT ![f] = Append(@, ts)]
  /\ moments' = IF stage \in {"known", "copied"} THEN moments \cup {said'} ELSE moments
  /\ UNCHANGED <<now, held, serving, began>>

Stale(f, polls) == feeds[f] # None /\ feeds[f].unchanged >= polls

Newest ==
  LET ts == {feeds[f].ts : f \in {g \in Feed : feeds[g] # None}}
  IN  IF ts = {} THEN None ELSE Max(ts)

-----------------------------------------------------------------------------
(* A request.                                                              *)

Known(q) ==
  \E f \in Feed : /\ held[f] # None
                  /\ \/ q.kind = "line" /\ q.id \in held[f].routes
                     \/ q.kind = "stop" /\ q.id \in held[f].stops

\* The handler reads the timetables: 503, 404, or on to the cache.
Ask ==
  /\ stage = "idle"
  /\ \E q \in Requests :
       /\ request' = q
       /\ stage' = IF \A f \in Feed : held[f] = None THEN "not_ready"
                   ELSE IF ~Known(q) THEN "not_found" ELSE "known"
  /\ timetable' = held
  /\ began' = now /\ moments' = {said}
  /\ UNCHANGED <<now, held, feeds, snaps, rows, asOf, answer, said, headers, overtaken>>

Copy ==
  /\ stage = "known"
  /\ stage' = "copied" /\ snaps' = feeds
  /\ UNCHANGED <<now, held, feeds, request, timetable, rows, asOf, answer,
                 said, headers, moments, began, overtaken>>

Has(s) ==
  IF request.kind = "line" THEN {o \in s.trips : o.route = request.id}
  ELSE {o \in s.calls : o.stop = request.id}

Fresh == {f \in Feed : snaps[f] # None /\ now - snaps[f].ts <= TTL /\ Has(snaps[f]) # {}}

\* Route or Stop after the copy: the clock is read without a lock.
Read ==
  /\ stage = "copied"
  /\ stage' = "read"
  /\ rows' = UNION {Has(snaps[f]) : f \in Fresh}
  /\ asOf' = IF Fresh = {} THEN None ELSE Min({snaps[f].ts : f \in Fresh})
  /\ snaps' = None
  /\ UNCHANGED <<now, held, feeds, request, timetable, answer, said, headers, moments, began, overtaken>>

-----------------------------------------------------------------------------
(* The answer.                                                             *)

\* Mutant: a call is looked up by its place in the trip.
CallByPlace(o) ==
  LET sch == timetable[o.feed]
  IN  IF sch = None \/ o.trip \notin DOMAIN sch.trips \/ o.seq = None THEN None
      ELSE IF o.seq \in DOMAIN sch.trips[o.trip].calls THEN Time(sch.trips[o.trip].calls[o.seq], o.date)
      ELSE None

\* The scheduled time the request's own timetable gives the call.
call(o) ==
  LET sch == timetable[o.feed]
  IN  IF sch = None \/ o.trip \notin DOMAIN sch.trips THEN None
      ELSE LET calls == sch.trips[o.trip].calls
               at == {i \in DOMAIN calls : calls[i].seq = o.seq}
           IN  IF at = {} THEN None ELSE Time(calls[Min(at)], o.date)

status(o) ==
  IF o.rel = "CANCELED" THEN "cancelled"
  ELSE IF o.delay = None THEN "unknown"
  ELSE IF o.delay < Thresholds.early THEN "early"
  ELSE IF o.delay <= Thresholds.late THEN "on_time"
  ELSE IF o.delay <= Thresholds.very_late THEN "late"
  ELSE "very_late"

Statuses == {"cancelled", "unknown", "early", "on_time", "late", "very_late"}

First(n, s) == SubSeq(s, 1, Min({n, Len(s)}))

ByDelay(S) == [o \in S |-> {p \in S : p.delay < o.delay}]

Delayed(trips) == {o \in trips : status(o) # "cancelled" /\ o.delay # None}

summarise(trips) ==
  LET delays == Sorted(Delayed(trips), ByDelay(Delayed(trips)))
  IN  [count |-> [s \in Statuses |-> Cardinality({o \in trips : status(o) = s})],
       median |-> IF delays = <<>> THEN None ELSE delays[(Len(delays) + 1) \div 2].delay]

Directed == {o \in rows : request.direction = None \/ o.direction = request.direction}

ByTrip(S) == [o \in S |-> {p \in S : p.date < o.date \/ (p.date = o.date /\ p.trip < o.trip)}]

Shown(o) == [row |-> o, scheduled |-> call(o), status |-> status(o)]

\* Mutant: the limit is applied first.
LineOfSome ==
  LET some == First(request.limit, Sorted(Directed, ByTrip(Directed)))
  IN  [summary |-> summarise(Range(some)), shown |-> [i \in DOMAIN some |-> Shown(some[i])], horizon |-> now]

LineNow ==
  LET trips == First(request.limit, Sorted(Directed, ByTrip(Directed)))
  IN  [summary |-> summarise(Directed), shown |-> [i \in DOMAIN trips |-> Shown(trips[i])], horizon |-> now]

When(o) == call(o) + (IF o.delay = None THEN 0 ELSE o.delay)

Sooner(S) == [o \in S |-> {p \in S : When(p) < When(o) \/ (When(p) = When(o) /\ p.trip < o.trip)}]

Within == {o \in rows : call(o) # None /\ When(o) <= now + request.window}

StopNow ==
  LET deps == First(request.limit, Sorted(Within, Sooner(Within)))
  IN  [shown |-> [i \in DOMAIN deps |-> Shown(deps[i])], horizon |-> now + request.window]

\* When nothing was found, as_of is the newest feed's by now.
Answer ==
  /\ stage = "read"
  /\ stage' = "answered"
  /\ asOf' = IF asOf = None THEN Newest ELSE asOf
  /\ answer' = IF request.kind = "line" THEN LineNow ELSE StopNow
  /\ moments' = {} /\ began' = 0
  /\ UNCHANGED <<now, held, feeds, request, timetable, snaps, rows, said, headers, overtaken>>

Done ==
  /\ stage \in {"not_ready", "not_found", "answered", "history", "refused"}
  /\ stage' = "idle" /\ request' = None /\ timetable' = None
  /\ rows' = {} /\ asOf' = None /\ answer' = None
  /\ moments' = {} /\ began' = 0 /\ overtaken' = 0
  /\ UNCHANGED <<now, held, feeds, snaps, said, headers>>

Selected(hours, range) == {i \in DOMAIN hours : range[1] <= hours[i].start /\ hours[i].start < range[2]}

\* A history request, which reads the database and nothing of the above: it
\* is asked here before the first tick only.
AskHistory ==
  /\ stage = "idle" /\ now = 0
  /\ \E hours \in Hourly, range \in Ranges, byDay \in BOOLEAN :
       /\ request' = [kind |-> "history", rows |-> hours, range |-> range, byDay |-> byDay]
       /\ \/ /\ range[1] >= range[2] \/ range[2] - range[1] > HistoryMaxDays * DayLength
             /\ stage' = "refused" /\ UNCHANGED answer
          \/ /\ range[1] < range[2] /\ range[2] - range[1] <= HistoryMaxDays * DayLength
             /\ stage' = "history" /\ answer' = HistoryOf(hours, Selected(hours, range), byDay)
  /\ UNCHANGED <<now, held, feeds, timetable, snaps, rows, asOf,
                 said, headers, moments, began, overtaken>>

-----------------------------------------------------------------------------
\* The loader publishes a version newer than the one held: SetSchedule.
Swap(f) ==
  /\ Overtakes
  /\ \E sch \in Timetables[f] :
       /\ held[f] # None => held[f].version < sch.version
       /\ held' = [held EXCEPT ![f] = sch]
  /\ UNCHANGED <<now, feeds, serving, said, headers, moments, began>>

Tick ==
  /\ Overtakes
  /\ now < MaxNow
  /\ now' = now + 1
  /\ UNCHANGED <<held, feeds, serving, said, headers, moments, began>>

Next ==
  \/ \E f \in Feed : Poll(f) \/ Swap(f)
  \/ Ask \/ Copy \/ Read \/ Answer \/ AskHistory \/ Done
  \/ Tick

Spec == Init /\ [][Next]_vars
-----------------------------------------------------------------------------
(* Properties.                                                             *)

(* What a feed had told of a line or a stop with a poll: the calls that    *)
(* are still to be made by the feed's own time, of a trip's the first.     *)
Pending(p, i) ==
  LET o == p.obs[i]
  IN  /\ o.matched \/ o.rel \notin {"SCHEDULED", "REPLACEMENT"}
      /\ o.scheduled = None \/ p.ts <= o.scheduled + servedAfter + (IF o.delay = None THEN 0 ELSE o.delay)

Told(p) ==
  {p.obs[i] : i \in {n \in DOMAIN p.obs :
     /\ Pending(p, n)
     /\ \/ request.kind = "stop" /\ p.obs[n].stop = request.id
        \/ /\ request.kind = "line" /\ p.obs[n].route = request.id
           /\ \A m \in 1..n - 1 : Pending(p, m) => ~SameTrip(p.obs[m], p.obs[n])}}

(* However polls are published, feeds age and timetables are swapped while *)
(* a request is served, what it found is what the feeds had said at one    *)
(* moment of it, those left out that had been silent for CACHE_TTL by some *)
(* moment of it, and as_of is the oldest of the others (latest.go:180-233).*)
FoundAtOneMoment ==
  stage = "read" =>
    \E m \in moments, n \in began..now :
      LET telling == {f \in Feed : m[f] # None /\ n - m[f].ts <= TTL /\ Told(m[f]) # {}}
      IN  /\ rows = UNION {Told(m[f]) : f \in telling}
          /\ asOf = IF telling = {} THEN None ELSE Min({m[f].ts : f \in telling})

\* A stop's board: what is out is later than what is shown, or beyond the window.
SoonestFirst ==
  LET shown == answer.shown
      out == {o \in rows : call(o) # None} \ {shown[i].row : i \in DOMAIN shown}
  IN  /\ \A i, j \in DOMAIN shown : i <= j => When(shown[i].row) <= When(shown[j].row)
      /\ \A i \in DOMAIN shown : When(shown[i].row) <= answer.horizon
      /\ \A o \in out : When(o) <= answer.horizon =>
           Len(shown) = request.limit /\ \A i \in DOMAIN shown : When(shown[i].row) <= When(o)

\* A line's summary: no more than half of the delays on either side of the median.
SummaryCountsAll ==
  LET trips == {o \in rows : request.direction \in {None, o.direction}}
      s == answer.summary
      delayed == {o \in trips : o.rel # "CANCELED" /\ o.delay # None}
  IN  /\ Len(answer.shown) = Min({request.limit, Cardinality(trips)})
      /\ Cardinality(trips) = s.count["cancelled"] + s.count["unknown"] + s.count["early"]
                               + s.count["on_time"] + s.count["late"] + s.count["very_late"]
      /\ (s.median = None) <=> (delayed = {})
      /\ delayed # {} =>
           /\ \E o \in delayed : o.delay = s.median
           /\ 2 * Cardinality({o \in delayed : o.delay < s.median}) < Cardinality(delayed)
           /\ 2 * Cardinality({o \in delayed : o.delay <= s.median}) >= Cardinality(delayed)

(* An answer leaves out nothing but by its limit and its window: a stop's  *)
(* board is in the order of the predicted times, with no call within the   *)
(* window sooner than one it shows, however late the train, and a line's   *)
(* summary accounts for every trip asked for, whatever the limit lists of  *)
(* them, with a median some active trip has (handlers_now.go:341-454).     *)
AnswersComplete ==
  stage = "answered" =>
    /\ request.kind = "stop" => SoonestFirst
    /\ request.kind = "line" => SummaryCountsAll

(* The scheduled time an answer shows is the one the call was judged by,   *)
(* unless the timetable was swapped since the poll was matched: then the   *)
(* stop_sequence is looked up in another version (handlers_now.go:131-149).*)
ScheduledAsMatched ==
  stage = "answered" =>
    \A i \in DOMAIN answer.shown :
      LET s == answer.shown[i]
      IN  timetable[s.row.feed] # None /\ s.row.version = timetable[s.row.feed].version
            => s.scheduled = s.row.scheduled

(* A feed counts as stale after n polls exactly when its last n polls did  *)
(* not advance, each of them, on the one before (latest.go:132-150).       *)
StaleMeansStuck ==
  \A f \in Feed : \A n \in 1..MaxPolls[f] :
    LET h == headers[f]
    IN  Stale(f, n) <=> n < Len(h) /\ \A i \in Len(h) - n + 1 .. Len(h) : h[i] <= h[i - 1]

\* Less than half of the weight of the rows at S is below v, half or more up to v.
Halves(hours, S, pick, v) ==
  LET below == {i \in S : hours[i][pick] # None /\ hours[i][pick] < v}
      upTo == {i \in S : hours[i][pick] # None /\ hours[i][pick] <= v}
  IN  2 * Weights(hours, below) < Weights(hours, S) /\ 2 * Weights(hours, upTo) >= Weights(hours, S)

\* c is what the rows at S come to; its mean, in tenths, is between theirs but
\* for the rounding: half a tenth below the least at most, or above the greatest.
ComeTo(hours, S, c) ==
  /\ \A k \in Counters : c.count[k] = Counted(hours, S, k)
  /\ (c.mean = None) <=> (Weights(hours, S) = 0)
  /\ c.mean # None => \E i, j \in {n \in S : hours[n].mean # None} :
       /\ 20 * hours[i].mean - Precision <= 2 * Precision * c.mean
       /\ 2 * Precision * c.mean <= 20 * hours[j].mean + Precision
  /\ \A pick \in {"p50", "p90"} :
       /\ (c[pick] = None) <=> (Weights(hours, S) = 0)
       /\ c[pick] # None => Halves(hours, S, pick, c[pick])

(* The buckets of a history are in order, one for each hour or day with    *)
(* rows in the range, and add up to its totals; the percentiles of any of  *)
(* them have half the visits' weight at or below them and less than half   *)
(* below, and the mean lies between the rows' to half a tenth, as it is    *)
(* rounded (handlers_history.go:189-292).                                  *)
HistoryAddsUp ==
  stage = "history" =>
    LET hours == request.rows
        in == {i \in DOMAIN hours : hours[i].start \in request.range[1] .. request.range[2] - 1}
        b == answer.buckets
        Of(start) == {i \in in : BucketOf(hours[i], request.byDay) = start}
    IN  /\ \A i, j \in DOMAIN b : i < j => b[i].start < b[j].start
        /\ \A i \in in : \E j \in DOMAIN b : b[j].start = BucketOf(hours[i], request.byDay)
        /\ \A i \in DOMAIN b : ComeTo(hours, Of(b[i].start), b[i].sums)
        /\ ComeTo(hours, in, answer.totals)
        /\ \A k \in Counters :
             answer.totals.count[k] = SumFunction([i \in DOMAIN b |-> b[i].sums.count[k]])
=============================================================================
