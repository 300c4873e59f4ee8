------------------------------ MODULE Matching ------------------------------
(***************************************************************************)
(* One poll from its body to its observations: gtfsrt.Decode and           *)
(* Matcher.Match, beside the loader swapping the timetable.                *)
(*                                                                         *)
(* A message is what the protobuf carries, each optional field None when   *)
(* it is absent.  Entity, vehicle and start time, which are passed along   *)
(* or dropped, are left out, and the feed is one.                          *)
(***************************************************************************)
EXTENDS ServiceDays, SequencesExt

CONSTANTS
  Messages,    \* what a poll can receive
  Timetables,  \* what the loader can publish
  FetchedAt,   \* the process's clock at a poll
  ReconcileS,  \* DELAY_RECONCILE_TOLERANCE_S
  IntRange,    \* 2^32
  None,        \* an absent field, no timetable
  BadDate      \* a start_date that is no date

NoTime == -1

\* What the columns' width can hold of a delay.
Delay == -(IntRange \div 2) .. (IntRange \div 2) - 1

ASSUME Widths == IntRange \in Nat \ {0} /\ IntRange % 2 = 0
ASSUME Absent == None \notin Int /\ None \notin Timetables

\* What the protobuf's types and the days looked at allow.
ASSUME Protobuf ==
  /\ FetchedAt \in Instant
  /\ \A m \in Messages :
       /\ m.timestamp = 0 \/ m.timestamp \in Instant
       /\ m.entities \in Seq(Range(m.entities))
       /\ \A e \in Range(m.entities) : e.kind = "trip_update" =>
            /\ e.start \in {None, BadDate} \cup Day
            /\ e.stops \in Seq(Range(e.stops))
            /\ \A s \in Range(e.stops) : \A v \in {s.arr, s.dep} :
                 v = None \/ (v.delay \in {None} \cup Delay /\ v.time \in {None} \cup Int)

\* What the loader lets through: every call names its stop and its times are
\* offsets.  That a direction is one GTFS defines is the publisher's word.
ASSUME Published ==
  \A t \in Timetables : \A trip \in Range(t.trips) :
    /\ trip.direction \in {None, 0, 1}
    /\ trip.stops \in Seq(Range(trip.stops))
    /\ \A st \in Range(trip.stops) :
         st.stop # "" /\ st.arr \in Nat \cup {NoTime} /\ st.dep \in Nat \cup {NoTime}

VARIABLES
  held,     \* the timetable in the matcher
  using,    \* the one this Match loaded
  at,       \* idle, matching, matched
  feed,     \* the decoded feed: header_ts, updates, dropped
  message,  \* history: the message it was decoded from
  next,     \* the update Match is at
  out,      \* the observations, each with the update it is from
  said,     \* history: the keys each update made an observation for
  counts,   \* Counts
  last      \* the feed's counts from its most recent poll

vars == <<held, using, at, feed, message, next, out, said, counts, last>>

Counter == {"FullMatch", "BySequence", "TripOnly", "UnknownTrip", "Added", "NoSchedule",
            "AmbiguousStop", "CancelledStops", "TripLevelSkipped", "NoStopID", "BadStartDate",
            "DelayDisagreements", "UnknownStop", "Duplicates"}
DropReason == {"not_trip_update", "no_trip_id", "no_stop_anchor", "no_time"}

Zero == [c \in Counter |-> 0]
NoFeed == [header_ts |-> FetchedAt, updates |-> <<>>, dropped |-> [r \in DropReason |-> 0]]

Init ==
  /\ held \in Timetables \cup {None}
  /\ using = None /\ at = "idle" /\ message = None
  /\ feed = NoFeed
  /\ next = 1 /\ out = <<>> /\ said = <<>>
  /\ counts = Zero /\ last = None

-----------------------------------------------------------------------------
(* Decode.                                                                 *)

\* Mutant: the stop's own relationship alone is looked at.
StopCarriesMeaning(e, s) == s.rel \in {"SKIPPED", "NO_DATA", "UNSCHEDULED"}

carriesMeaningWithoutATime(e, s) ==
  \/ s.rel \in {"SKIPPED", "NO_DATA", "UNSCHEDULED"}
  \/ e.rel \in {"CANCELED", "DELETED", "ADDED", "REPLACEMENT", "DUPLICATED"}

NoStopTime == [seq |-> None, stop |-> "", rel |-> "SCHEDULED", arr |-> None, dep |-> None]

RawUpdate(e, s, level) ==
  [trip |-> e.trip, start |-> e.start, rel |-> e.rel, direction |-> e.direction,
   trip_level |-> level, seq |-> s.seq, stop |-> s.stop, srel |-> s.rel, arr |-> s.arr, dep |-> s.dep]

Dropped(e, s) ==
  IF s.seq = None /\ s.stop = "" THEN "no_stop_anchor"
  ELSE IF s.arr = None /\ s.dep = None /\ ~carriesMeaningWithoutATime(e, s) THEN "no_time"
  ELSE "kept"

\* What becomes of an entity: updates, each kept or dropped for a reason.
Outcomes(e) ==
  IF e.kind # "trip_update" THEN <<[why |-> "not_trip_update"]>>
  ELSE IF e.trip = "" THEN <<[why |-> "no_trip_id"]>>
  ELSE IF e.stops = <<>> THEN <<[why |-> "kept", update |-> RawUpdate(e, NoStopTime, TRUE)]>>
  ELSE [i \in DOMAIN e.stops |->
          [why |-> Dropped(e, e.stops[i]), update |-> RawUpdate(e, e.stops[i], FALSE)]]

kept(o) == IF o.why = "kept" THEN <<o.update>> ELSE <<>>

AllOutcomes(m) == FlattenSeq([i \in DOMAIN m.entities |-> Outcomes(m.entities[i])])

Decode(m) ==
  LET all == AllOutcomes(m)
  IN  [header_ts |-> IF m.timestamp = 0 THEN FetchedAt ELSE m.timestamp,
       updates |-> FlattenSeq([i \in DOMAIN all |-> kept(all[i])]),
       dropped |-> [r \in DropReason |-> Cardinality({i \in DOMAIN all : all[i].why = r})]]

-----------------------------------------------------------------------------
(* Stops, delays and observations.                                         *)

\* Mutant: each update is matched against what the matcher holds by then.
InUseNow == held

InUse == using

KnownTrip(u) == InUse # None /\ u.trip \in DOMAIN InUse.trips
Trip(u) == InUse.trips[u.trip]

candidates(u) == IF u.start = None THEN CandidateServiceDates(feed.header_ts) ELSE {u.start}

\* Match order 1, and order 2, which fails when the trip calls there twice.
BySequence(t, u) ==
  {i \in DOMAIN t.stops : u.seq # None /\ t.stops[i].seq = u.seq /\ u.stop \in {"", t.stops[i].stop}}
ByStop(t, u) == {i \in DOMAIN t.stops : t.stops[i].stop = u.stop}
resolveStop(t, u) ==
  IF BySequence(t, u) # {} THEN BySequence(t, u)
  ELSE IF Cardinality(ByStop(t, u)) = 1 THEN ByStop(t, u)
  ELSE {}

TimeOf(e) == IF e = None THEN None ELSE e.time
DelayOf(e) == IF e = None THEN None ELSE e.delay
Int32(n) == ((n + IntRange \div 2) % IntRange) - IntRange \div 2

Computed(e, d, scheduled) == Int32(TimeOf(e) - AtServiceOffset(d, scheduled))

\* Mutant: a delay is derived from the start of the service day.
DeriveFromStart(e, d, scheduled) ==
  IF DelayOf(e) # None \/ TimeOf(e) = None \/ scheduled = NoTime THEN DelayOf(e)
  ELSE Int32(TimeOf(e) - ServiceDayStart(d))

\* The producer's delay wins; its time fills a missing one.
derive(e, d, scheduled) ==
  IF DelayOf(e) # None \/ TimeOf(e) = None \/ scheduled = NoTime THEN DelayOf(e)
  ELSE Computed(e, d, scheduled)

Disagrees(e, d, scheduled) ==
  /\ DelayOf(e) # None /\ TimeOf(e) # None /\ scheduled # NoTime
  /\ LET diff == Int32(Computed(e, d, scheduled) - DelayOf(e))
     IN  diff > ReconcileS \/ diff < -ReconcileS

observed(arr, dep) == IF dep # None THEN dep ELSE arr

reference(u) ==
  IF TimeOf(u.dep) # None THEN TimeOf(u.dep)
  ELSE IF TimeOf(u.arr) # None THEN TimeOf(u.arr)
  ELSE feed.header_ts

ScheduledS(st) == IF st.dep # NoTime THEN st.dep ELSE st.arr
scheduledAt(d, st) == IF ScheduledS(st) = NoTime THEN None ELSE AtServiceOffset(d, ScheduledS(st))

span(t) ==
  LET known == UNION {{st.arr, st.dep} : st \in Range(t.stops)} \ {NoTime}
  IN  IF known = {} THEN <<>> ELSE <<Min(known), Max(known)>>

pickDate(u, ref, scheduled) ==
  PickDate(InUse.services[Trip(u).service], candidates(u),
           IF scheduled # NoTime THEN <<scheduled, scheduled>> ELSE span(Trip(u)), ref)

\* Mutant: a direction is passed on as it was sent.
BaseAsSent(u, d) ==
  [date |-> d, trip |-> u.trip, stop |-> u.stop, seq |-> None, scheduled |-> None,
   arr |-> DelayOf(u.arr), dep |-> DelayOf(u.dep),
   observed |-> observed(DelayOf(u.arr), DelayOf(u.dep)),
   rel |-> u.rel, srel |-> u.srel, direction |-> u.direction,
   matched |-> FALSE, from |-> next, version |-> IF InUse = None THEN None ELSE InUse.version]

\* Order 4: the observation as the feed alone describes it.
base(u, d) ==
  [date |-> d, trip |-> u.trip, stop |-> u.stop, seq |-> None, scheduled |-> None,
   arr |-> DelayOf(u.arr), dep |-> DelayOf(u.dep),
   observed |-> observed(DelayOf(u.arr), DelayOf(u.dep)),
   rel |-> u.rel, srel |-> u.srel, direction |-> IF u.direction \in {0, 1} THEN u.direction ELSE None,
   matched |-> FALSE, from |-> next, version |-> IF InUse = None THEN None ELSE InUse.version]

matched(o, t) ==
  [o EXCEPT !.matched = TRUE, !.direction = IF t.direction # None THEN t.direction ELSE @]

AtStop(o, d, st) ==
  [o EXCEPT !.stop = st.stop, !.seq = st.seq, !.scheduled = scheduledAt(d, st)]

Key(o) == <<o.date, o.trip, o.stop>>

-----------------------------------------------------------------------------
(* Match.                                                                  *)

Poll ==
  /\ at = "idle"
  /\ \E m \in Messages : message' = m /\ feed' = Decode(m)
  /\ using' = held
  /\ at' = "matching"
  /\ UNCHANGED <<held, next, out, said, counts, last>>

\* Mutant: the first word stays, as ON CONFLICT DO NOTHING would have it.
AddFirst(s, o) == IF \E i \in DOMAIN s : Key(s[i]) = Key(o) THEN s ELSE Append(s, o)

\* The last word of a message on a key wins, in the place of the first.
add(s, o) ==
  IF \E i \in DOMAIN s : Key(s[i]) = Key(o)
  THEN [i \in DOMAIN s |-> IF Key(s[i]) = Key(o) THEN o ELSE s[i]]
  ELSE Append(s, o)

UnknownStop(u) ==
  /\ InUse # None /\ u.stop # ""
  /\ InUse.stops # {} /\ u.stop \notin InUse.stops

\* Mutant: an update that replaced another is not counted as one.
DoneUncounted(u, observations, bumped) ==
  /\ out' = FoldLeft(add, out, observations)
  /\ counts' = [c \in Counter |->
       counts[c] + CASE c = "CancelledStops" -> IF u.trip_level THEN Len(observations) ELSE 0
                     [] c = "UnknownStop" -> IF UnknownStop(u) THEN 1 ELSE 0
                     [] OTHER -> IF c \in bumped THEN 1 ELSE 0]
  /\ said' = Append(said, {Key(o) : o \in Range(observations)})
  /\ next' = next + 1
  /\ UNCHANGED <<held, using, at, feed, message, last>>

\* An update's observations are added and its counters go up.
Done(u, observations, bumped) ==
  /\ out' = FoldLeft(add, out, observations)
  /\ counts' = [c \in Counter |->
       counts[c] + CASE c = "CancelledStops" -> IF u.trip_level THEN Len(observations) ELSE 0
                     [] c = "Duplicates" -> Len(out) + Len(observations) - Len(out')
                     [] c = "UnknownStop" -> IF UnknownStop(u) THEN 1 ELSE 0
                     [] OTHER -> IF c \in bumped THEN 1 ELSE 0]
  /\ said' = Append(said, {Key(o) : o \in Range(observations)})
  /\ next' = next + 1
  /\ UNCHANGED <<held, using, at, feed, message, last>>

Taken(u) == at = "matching" /\ next <= Len(feed.updates) /\ u = feed.updates[next]

\* No trip, no stop, no date to go by.
Skip(u) ==
  /\ Taken(u)
  /\ \/ u.start = BadDate /\ Done(u, <<>>, {"BadStartDate"})
     \/ /\ u.start # BadDate /\ u.trip_level
        /\ ~KnownTrip(u) \/ u.rel # "CANCELED"
        /\ Done(u, <<>>, {"TripLevelSkipped"})
     \/ /\ u.start # BadDate /\ ~u.trip_level /\ u.stop = ""
        /\ KnownTrip(u) => resolveStop(Trip(u), u) = {}
        /\ Done(u, <<>>, {"NoStopID"})

WithoutTrip(u) ==
  /\ Taken(u)
  /\ u.start # BadDate /\ ~KnownTrip(u)
  /\ ~u.trip_level /\ u.stop # ""
  /\ Done(u, <<base(u, Newest(candidates(u)))>>,
          {IF InUse = None THEN "NoSchedule" ELSE IF u.rel = "ADDED" THEN "Added" ELSE "UnknownTrip"})

CancelRow(u, d, st) ==
  matched([AtStop(base(u, d), d, st) EXCEPT !.arr = None, !.dep = None, !.observed = None], Trip(u))

\* A cancelled trip is one observation for each of its calls.
Cancel(u) ==
  /\ Taken(u)
  /\ u.start # BadDate /\ KnownTrip(u)
  /\ u.trip_level /\ u.rel = "CANCELED"
  /\ LET d == pickDate(u, feed.header_ts, NoTime)
     IN  Done(u, [i \in DOMAIN Trip(u).stops |-> CancelRow(u, d, Trip(u).stops[i])], {})

TripOnly(u) ==
  /\ Taken(u)
  /\ u.start # BadDate /\ KnownTrip(u) /\ ~u.trip_level
  /\ u.stop # "" /\ resolveStop(Trip(u), u) = {}
  /\ Done(u, <<matched(base(u, pickDate(u, reference(u), NoTime)), Trip(u))>>,
          {"TripOnly"} \cup IF ByStop(Trip(u), u) # {} THEN {"AmbiguousStop"} ELSE {})

StopRow(u, d, st) ==
  LET arr == derive(u.arr, d, st.arr)
      dep == derive(u.dep, d, st.dep)
  IN  matched([AtStop(base(u, d), d, st) EXCEPT !.arr = arr, !.dep = dep, !.observed = observed(arr, dep)],
              Trip(u))

FullMatch(u) ==
  /\ Taken(u)
  /\ u.start # BadDate /\ KnownTrip(u) /\ ~u.trip_level
  /\ \E i \in resolveStop(Trip(u), u) :
       LET st == Trip(u).stops[i]
           d == pickDate(u, reference(u), ScheduledS(st))
       IN  Done(u, <<StopRow(u, d, st)>>,
                {"FullMatch"}
                \cup (IF st.seq = u.seq THEN {"BySequence"} ELSE {})
                \cup (IF Disagrees(u.arr, d, st.arr) \/ Disagrees(u.dep, d, st.dep)
                      THEN {"DelayDisagreements"} ELSE {}))

MatchEnds ==
  /\ at = "matching" /\ next > Len(feed.updates)
  /\ at' = "matched"
  /\ last' = counts
  /\ UNCHANGED <<held, using, feed, message, next, out, said, counts>>

Swap ==
  /\ held' \in Timetables \ {held}
  /\ UNCHANGED <<using, at, feed, message, next, out, said, counts, last>>

Next ==
  \/ Poll \/ MatchEnds \/ Swap
  \/ \E u \in Range(feed.updates) :
       Skip(u) \/ WithoutTrip(u) \/ Cancel(u) \/ TripOnly(u) \/ FullMatch(u)

Spec == Init /\ [][Next]_vars

-----------------------------------------------------------------------------
(* What the columns can hold: a direction GTFS defines, delays of their    *)
(* width, a date, a stop (matcher.go:411-416).                             *)
TypeOK ==
  /\ held \in Timetables \cup {None} /\ using \in Timetables \cup {None}
  /\ at \in {"idle", "matching", "matched"}
  /\ counts \in [Counter -> Nat] /\ last \in {None, counts}
  /\ next = Len(said) + 1
  /\ \A o \in Range(out) :
       /\ o.date \in Int /\ o.stop # "" /\ o.from < next
       /\ o.direction \in {None, 0, 1}
       /\ {o.arr, o.dep, o.observed} \subseteq {None} \cup Delay

(* Before a poll nothing is known but the calendar: whatever its timestamp *)
(* will be, the candidates are the service day that began last and the one *)
(* before while it is young, and whatever it will say of a stop, a trip    *)
(* from last night and tonight's run of the same trip_id are told apart    *)
(* (servicetime.go:74-82, matcher.go:278-284).                             *)
DatesAreTold == at = "idle" => OwnersBeganLast /\ LastNightTold

(* For each key the batch has one observation, and it is what the last     *)
(* update of the message that spoke of it said, whether the words came     *)
(* from a stop, from a cancellation or from a trip that calls there twice  *)
(* (matcher.go:131-143).                                                   *)
LastWordWins ==
  /\ \A i, j \in DOMAIN out : Key(out[i]) = Key(out[j]) => i = j
  /\ \A k \in UNION Range(said) :
       \E o \in Range(out) : Key(o) = k /\ o.from = Max({j \in DOMAIN said : k \in said[j]})

\* The updates matched or not, with an observation each; and those without.
Observed(c) == c["FullMatch"] + c["TripOnly"] + c["UnknownTrip"] + c["Added"] + c["NoSchedule"]
Unobserved(c) == c["NoStopID"] + c["BadStartDate"] + c["TripLevelSkipped"]
Cancelled == {j \in DOMAIN said : LET u == feed.updates[j] IN
                u.trip_level /\ u.rel = "CANCELED" /\ u.start # BadDate /\ KnownTrip(u)}

(* Every update is under one label of matched, unmatched or dropped, but   *)
(* a cancellation that was carried out, and every observation made is in   *)
(* the batch or was replaced (matcher.go:17-55).                           *)
EveryUpdateCounted ==
  last # None =>
    /\ Len(feed.updates) = Observed(last) + Unobserved(last) + Cardinality(Cancelled)
    /\ Len(out) + last["Duplicates"] = Observed(last) + last["CancelledStops"]
    /\ last["BySequence"] <= last["FullMatch"] /\ last["AmbiguousStop"] <= last["TripOnly"]

\* Every stop of a trip cancelled without stops, on one date, or a later word on it.
EveryStopCancelled ==
  \A j \in Cancelled : \E d \in candidates(feed.updates[j]) :
    \A st \in Range(Trip(feed.updates[j]).stops) :
      \E o \in Range(out) :
        /\ Key(o) = <<d, feed.updates[j].trip, st.stop>>
        /\ o.from >= j
        /\ o.from = j => o.rel = "CANCELED" /\ o.matched

\* Every stop skipped, or named by a cancelled trip, with times or without, said
\* to be so, or a later word on it.
EveryStopSkipped ==
  \A e \in Range(message.entities) :
    e.kind = "trip_update" /\ e.trip # "" /\ e.start # BadDate =>
      \A s \in Range(e.stops) :
        LET u == RawUpdate(e, s, FALSE)
        IN  /\ s.rel = "SKIPPED" \/ e.rel = "CANCELED"
            /\ KnownTrip(u) /\ resolveStop(Trip(u), u) # {}
            => \E j \in DOMAIN feed.updates, o \in Range(out), i \in resolveStop(Trip(u), u) :
                 /\ feed.updates[j] = u
                 /\ o.trip = e.trip /\ o.stop = Trip(u).stops[i].stop /\ o.date \in candidates(u)
                 /\ o.from >= j
                 /\ o.from = j => o.rel = e.rel /\ o.srel = s.rel /\ o.matched

(* What a feed says by a relationship alone arrives: a trip's cancellation *)
(* at every stop of the trip, a stop that is skipped at that stop, though  *)
(* neither has times: in an observation that says so, or in that of a later*)
(* word on the stop (matcher.go:188-201, decode.go:124-131).               *)
RelationshipsArrive == at = "matched" => EveryStopCancelled /\ EveryStopSkipped

(* A poll is matched against one timetable, though another is published    *)
(* while it is (matcher.go:66-67).                                         *)
OneTimetable == \A o, p \in Range(out) : o.version = p.version

(* The scheduled time and the delay of an observation add up to the        *)
(* departure the producer predicted, when it gave the time and no delay:   *)
(* exactly, or to the width of the delay (matcher.go:368-376).             *)
DelayMeetsPrediction ==
  \A o \in Range(out) :
    LET dep == feed.updates[o.from].dep
    IN  o.matched /\ o.dep # None /\ DelayOf(dep) = None =>
          (o.scheduled + o.observed - TimeOf(dep)) % IntRange = 0
=============================================================================
