------------------------ MODULE IngestPipelineProofs ------------------------
(***************************************************************************)
(* What holds of the ingest pipeline for any number of feeds and keys, any *)
(* queue, batch and filter size, any bound on polls and crashes, and       *)
(* whatever the database does.                                             *)
(***************************************************************************)
EXTENDS IngestPipeline, FiniteSetTheorems, SequenceTheorems, TLAPS

-----------------------------------------------------------------------------
(* The change filter: what one operation preserves.                        *)

(* The map is finite, because its keys are. *)
LEMMA KnownFinite == IsFiniteSet(Known)
  BY FilterConstants, FS_Subset DEF Known

(* Making room removes at least one entry (filter.go:191). *)
LEMMA EvictionSizePositive == EvictionSize \in Nat \ {0}
<1>1. Cardinality(Known) \in Nat
  BY KnownFinite, FS_CardinalityType
<1>2. Cardinality(Known) \div EvictionShare \in Int
  BY <1>1, FilterConstants
<1>. QED
  BY <1>2 DEF EvictionSize

(* Recording an observation leaves exactly what was known, less what was   *)
(* evicted for it, and its own key (filter.go:107-112).                    *)
LEMMA RecordEffect ==
  ASSUME FilterTypeOK, NEW o \in Observation, NEW gone \in Evictions(o.key),
         entries' = [k \in Key |-> IF k = o.key THEN o.value
                                   ELSE IF k \in gone THEN NoEntry
                                   ELSE entries[k]]
  PROVE  /\ gone \subseteq Known
         /\ Known' = (Known \ gone) \cup {o.key}
         /\ entries' \in [Key -> Value \cup {NoEntry}]
<1>1. gone \subseteq Known
  BY DEF Evictions, Oldest
<1>2. o.key \in Key /\ o.value \in Value
  BY DEF Observation
<1>3. o.key \notin gone
  BY DEF Evictions, Oldest
<1>. QED
  BY <1>1, <1>2, <1>3, FilterConstants DEF Known, FilterTypeOK

(* Admitting keeps the map well formed. *)
LEMMA RecordTyped ==
  ASSUME FilterTypeOK, NEW o \in Observation, Record(o)
  PROVE  FilterTypeOK'
<1>1. PICK gone \in Evictions(o.key) :
        /\ entries' = [k \in Key |-> IF k = o.key THEN o.value
                                     ELSE IF k \in gone THEN NoEntry
                                     ELSE entries[k]]
        /\ older' = OrderWithout(gone \cup {o.key})
                      \cup ((Known \ (gone \cup {o.key})) \X {o.key})
  BY DEF Record
<1>2. older' \subseteq Key \X Key
  BY <1>1 DEF FilterTypeOK, OrderWithout, Known, Observation
<1>. QED
  BY <1>1, <1>2, RecordEffect DEF FilterTypeOK

(* Admitting keeps the map within its bound: it grows only when there is   *)
(* room or room has been made (filter.go:107-109).                         *)
LEMMA RecordBounded ==
  ASSUME FilterTypeOK, FilterBounded, NEW o \in Observation, Record(o)
  PROVE  FilterBounded'
<1>1. PICK gone \in Evictions(o.key) :
        entries' = [k \in Key |-> IF k = o.key THEN o.value
                                  ELSE IF k \in gone THEN NoEntry
                                  ELSE entries[k]]
  BY DEF Record
<1>2. Known' = (Known \ gone) \cup {o.key} /\ gone \subseteq Known
  BY <1>1, RecordEffect
<1>3. IsFiniteSet(Known) /\ Cardinality(Known) \in Nat
  BY KnownFinite, FS_CardinalityType
<1>4. CASE o.key \in Known \/ Cardinality(Known) < MaxEntries
  <2>1. gone = {}
    BY <1>3, <1>4, FilterConstants DEF Evictions
  <2>2. Known' = Known \cup {o.key}
    BY <1>2, <2>1
  <2>3. Cardinality(Known') = IF o.key \in Known THEN Cardinality(Known)
                              ELSE Cardinality(Known) + 1
    BY <1>3, <2>2, FS_AddElement
  <2>. QED
    BY <1>3, <1>4, <2>3, FilterConstants DEF FilterBounded
<1>5. CASE o.key \notin Known /\ Cardinality(Known) >= MaxEntries
  <2>1. Cardinality(gone) = EvictionSize
    BY <1>5 DEF Evictions, Oldest
  <2>2. Known \cap gone = gone
    BY <1>2
  <2>3. /\ IsFiniteSet(Known \ gone)
        /\ Cardinality(Known \ gone) = Cardinality(Known) - Cardinality(gone)
    BY <1>2, <1>3, <2>2, FS_Difference
  <2>4. o.key \notin Known \ gone
    BY <1>5
  <2>5. Cardinality((Known \ gone) \cup {o.key}) = Cardinality(Known \ gone) + 1
    BY <2>3, <2>4, FS_AddElement
  <2>. QED
    BY <1>2, <1>3, <2>1, <2>3, <2>5, EvictionSizePositive, FilterConstants DEF FilterBounded
<1>. QED
  BY <1>3, <1>4, <1>5, FilterConstants

(* Admitting keeps the order of admission a total one, the newest last. *)
LEMMA RecordOrdered ==
  ASSUME FilterTypeOK, EntriesAreOrdered, NEW o \in Observation, Record(o)
  PROVE  EntriesAreOrdered'
<1>1. PICK gone \in Evictions(o.key) :
        /\ entries' = [k \in Key |-> IF k = o.key THEN o.value
                                     ELSE IF k \in gone THEN NoEntry
                                     ELSE entries[k]]
        /\ older' = OrderWithout(gone \cup {o.key})
                      \cup ((Known \ (gone \cup {o.key})) \X {o.key})
  BY DEF Record
<1>2. Known' = (Known \ gone) \cup {o.key}
  BY <1>1, RecordEffect
<1>3. older' \subseteq Known' \X Known'
  BY <1>1, <1>2 DEF OrderWithout, EntriesAreOrdered
<1>4. \A j, k \in Known' : j # k => (<<j, k>> \in older' <=> <<k, j>> \notin older')
  BY <1>1, <1>2 DEF OrderWithout, EntriesAreOrdered
<1>5. \A k \in Known' : <<k, k>> \notin older'
  BY <1>1, <1>2 DEF OrderWithout, EntriesAreOrdered
<1>. QED
  BY <1>3, <1>4, <1>5 DEF EntriesAreOrdered

(* Forgetting and expiring keep the map well formed, bounded and ordered   *)
(* (filter.go:137-168).                                                    *)
LEMMA RemoveEffect ==
  ASSUME FilterTypeOK, NEW K, Remove(K)
  PROVE  /\ FilterTypeOK'
         /\ Known' = Known \ K
         /\ FilterBounded => FilterBounded'
         /\ EntriesAreOrdered => EntriesAreOrdered'
<1>1. FilterTypeOK'
  BY DEF FilterTypeOK, Remove, OrderWithout
<1>2. Known' = Known \ K
  BY DEF FilterTypeOK, Remove, Known
<1>3. FilterBounded => FilterBounded'
  <2>1. Known' \subseteq Known
    BY <1>2
  <2>2. Cardinality(Known') <= Cardinality(Known) /\ Cardinality(Known') \in Nat
    BY <2>1, KnownFinite, FS_Subset, FS_CardinalityType
  <2>. QED
    BY <2>2, KnownFinite, FS_CardinalityType, FilterConstants DEF FilterBounded
<1>4. EntriesAreOrdered => EntriesAreOrdered'
  BY <1>2 DEF EntriesAreOrdered, Remove, OrderWithout
<1>. QED
  BY <1>1, <1>2, <1>3, <1>4

-----------------------------------------------------------------------------
(* The pipeline.                                                           *)

(* What a channel or a batch holds after one more, or one less. *)
LEMMA RangeAppend ==
  ASSUME NEW S, NEW q \in Seq(S), NEW e \in S
  PROVE  Range(Append(q, e)) = Range(q) \cup {e}
<1>1. DOMAIN Append(q, e) = 1..(Len(q) + 1) /\ DOMAIN q = 1..Len(q) /\ Len(q) \in Nat
  OBVIOUS
<1>2. \A i \in 1..Len(q) : Append(q, e)[i] = q[i]
  OBVIOUS
<1>3. Append(q, e)[Len(q) + 1] = e
  OBVIOUS
<1>4. 1..(Len(q) + 1) = 1..Len(q) \cup {Len(q) + 1}
  BY <1>1
<1>5. \A i \in 1..(Len(q) + 1) : Append(q, e)[i] \in Range(q) \cup {e}
  BY <1>1, <1>2, <1>3, <1>4 DEF Range
<1>6. \A i \in 1..Len(q) : i \in 1..(Len(q) + 1)
  BY <1>4
<1>7. Len(q) + 1 \in 1..(Len(q) + 1)
  BY <1>4
<1>8. Range(q) \subseteq Range(Append(q, e))
  <2>1. \A i \in DOMAIN q : i \in DOMAIN Append(q, e) /\ Append(q, e)[i] = q[i]
    BY ONLY <1>1, <1>2, <1>6
  <2>. QED
    BY <2>1, Zenon DEF Range
<1>9. e \in Range(Append(q, e))
  <2>1. Len(q) + 1 \in DOMAIN Append(q, e)
    BY ONLY <1>1, <1>7
  <2>. QED
    BY <1>3, <2>1, Zenon DEF Range
<1>10. Range(Append(q, e)) \subseteq Range(q) \cup {e}
  <2>1. \A i \in DOMAIN Append(q, e) : Append(q, e)[i] \in Range(q) \cup {e}
    BY ONLY <1>1, <1>5
  <2>. QED
    BY <2>1, Zenon DEF Range
<1>. QED
  BY ONLY <1>8, <1>9, <1>10

LEMMA RangeHeadTail ==
  ASSUME NEW S, NEW q \in Seq(S), q # <<>>
  PROVE  Range(q) = Range(Tail(q)) \cup {Head(q)}
<1>1. /\ Len(q) \in Nat \ {0} /\ DOMAIN q = 1..Len(q) /\ Head(q) = q[1]
      /\ DOMAIN Tail(q) = 1..(Len(q) - 1)
  OBVIOUS
<1>2. \A i \in 1..(Len(q) - 1) : Tail(q)[i] = q[i + 1] /\ i + 1 \in 1..Len(q)
  BY <1>1
<1>3. ASSUME NEW i \in 1..Len(q), i # 1 PROVE i - 1 \in 1..(Len(q) - 1) /\ q[i] = Tail(q)[i - 1]
  BY <1>1, <1>2, <1>3
<1>4. Range(q) \subseteq Range(Tail(q)) \cup {Head(q)}
  <2>1. SUFFICES ASSUME NEW i \in 1..Len(q), i # 1 PROVE q[i] \in Range(Tail(q))
    BY <1>1 DEF Range
  <2>. QED
    BY <1>1, <1>3, <2>1 DEF Range
<1>5. Range(Tail(q)) \cup {Head(q)} \subseteq Range(q)
  <2>1. 1 \in DOMAIN q
    BY <1>1
  <2>. QED
    BY <1>1, <1>2, <2>1, Zenon DEF Range
<1>. QED
  BY <1>4, <1>5

(* What a snapshot and a batch are made of. *)
LEMMA SnapshotTyped ==
  ASSUME TypeOK, NEW f \in Feed
  PROVE  Snapshot(f) \subseteq Observation
<1>1. SUFFICES ASSUME NEW k \in Key, FeedOf[k] = f, says[k] # Silent
               PROVE  Observe(k) \in Observation
  BY DEF Snapshot
<1>2. says[k] \in Report /\ headerTS[FeedOf[k]] \in 0..MaxTS /\ (k \in timetable) \in BOOLEAN
  BY <1>1, PipelineConstants DEF TypeOK
<1>3. Observe(k).value \in Value
  BY <1>2, PipelineConstants DEF Observe
<1>. QED
  BY <1>2, <1>3 DEF Observe, Observation

LEMMA FreshTyped ==
  ASSUME TypeOK
  PROVE  Fresh \subseteq Range(batch) /\ Range(batch) \subseteq Observation
  BY DEF TypeOK, Fresh, Range

(* Settling a batch keeps the writer and the table well formed. *)
LEMMA SettleTyped ==
  ASSUME TypeOK, NEW stored \in SUBSET Observation, Settle(stored),
         written' \in Int, conflicts' \in Int, failed' \in Int
  PROVE  TypeOK'
<1>1. rows' \subseteq Observation /\ lost' \subseteq Observation
  BY FreshTyped DEF TypeOK, Settle
<1>2. batch' \in Seq(Observation) /\ attempt' \in 0..MaxAttempts
  BY PipelineConstants DEF Settle
<1>. QED
  BY <1>1, <1>2 DEF TypeOK, FilterTypeOK, Settle, sourceVars, filterVars, pollerVars

(* An INSERT never reports more rows than its batch has: the writer's      *)
(* unsigned count of conflicts does not wrap (writer.go:196).              *)
LEMMA FreshCounted ==
  ASSUME TypeOK
  PROVE  Cardinality(Fresh) \in 0..Len(batch)
<1>1. IsFiniteSet(DOMAIN batch) /\ Cardinality(DOMAIN batch) = Len(batch)
  <2>1. Len(batch) \in Nat /\ DOMAIN batch = 1..Len(batch)
    BY DEF TypeOK
  <2>2. IsFiniteSet(1..Len(batch)) /\ Cardinality(1..Len(batch)) = Len(batch)
    BY <2>1, FS_Interval, 1 \in Int, Len(batch) \in Int,
       IF 1 > Len(batch) THEN Len(batch) = 0 ELSE Len(batch) - 1 + 1 = Len(batch)
  <2>. QED
    BY <2>1, <2>2
<1>2. batch \in Surjection(DOMAIN batch, Range(batch))
  BY DEF Surjection, Range, TypeOK
<1>3. IsFiniteSet(Range(batch)) /\ Cardinality(Range(batch)) <= Len(batch)
  BY <1>1, <1>2, FS_Surjection
<1>4. IsFiniteSet(Fresh) /\ Cardinality(Fresh) <= Cardinality(Range(batch))
  BY <1>3, FreshTyped, FS_Subset
<1>. QED
  BY <1>1, <1>3, <1>4, FS_CardinalityType DEF TypeOK

(* Initially every variable has its type. *)
LEMMA TypeInit == Init => TypeOK
<1>1. SUFFICES ASSUME Init PROVE TypeOK
  OBVIOUS
<1>2. FilterTypeOK
  BY <1>1 DEF Init, FilterInit, FilterTypeOK
<1>3. 0 \in 0..MaxTS /\ 0 \in 0..MaxAttempts /\ 1 \in 1..LastDay
  BY FilterConstants, PipelineConstants
<1>. QED
  BY <1>1, <1>2, <1>3 DEF Init, TypeOK

(* Every step keeps the types. *)
LEMMA TypeNext == TypeOK /\ [Next]_vars => TypeOK'
<1>1. SUFFICES ASSUME TypeOK, [Next]_vars PROVE TypeOK'
  OBVIOUS
<1>. USE DEF sourceVars, filterVars, pollerVars, writerVars, storeVars, writes, counters
<1>2. ASSUME NEW f \in Feed, Publish(f) PROVE TypeOK'
  BY <1>1, <1>2 DEF Publish, TypeOK, FilterTypeOK
<1>3. ASSUME NEW f \in Feed, Poll(f) PROVE TypeOK'
  BY <1>1, <1>3, SnapshotTyped DEF Poll, TypeOK, FilterTypeOK, Count
<1>4. ASSUME NEW f \in Feed, NEW o \in todo[f], Suppress(f, o) PROVE TypeOK'
  BY <1>1, <1>4 DEF Suppress, Take, TypeOK, FilterTypeOK
<1>5. ASSUME NEW f \in Feed, NEW o \in todo[f], Admit(f, o) PROVE TypeOK'
  <2>1. o \in Observation
    BY <1>1 DEF TypeOK
  <2>2. FilterTypeOK'
    BY <1>1, <1>5, <2>1, RecordTyped DEF Admit, TypeOK
  <2>. QED
    BY <1>1, <1>5, <2>1, <2>2 DEF Admit, Take, TypeOK, Count
<1>6. ASSUME NEW f \in Feed, Send(f) PROVE TypeOK'
  <2>1. offer[f] \in Observation
    BY <1>1, <1>6 DEF Send, TypeOK
  <2>. QED
    BY <1>1, <1>6, <2>1 DEF Send, TypeOK, FilterTypeOK
<1>7. ASSUME NEW f \in Feed, Refuse(f) PROVE TypeOK'
  <2>1. FilterTypeOK'
    BY <1>1, <1>7, RemoveEffect DEF Refuse, Forget, TypeOK
  <2>. QED
    BY <1>1, <1>7, <2>1 DEF Refuse, TypeOK, Count
<1>8. ASSUME NEW f \in Feed, StopPoller(f) PROVE TypeOK'
  BY <1>1, <1>8 DEF StopPoller, TypeOK, FilterTypeOK
<1>9. CASE Swap
  BY <1>1, <1>9 DEF Swap, TypeOK, FilterTypeOK
<1>10. CASE NextDay
  BY <1>1, <1>10, PipelineConstants DEF NextDay, TypeOK, FilterTypeOK
<1>11. CASE ExpireFilter
  <2>1. FilterTypeOK'
    BY <1>1, <1>11, RemoveEffect DEF ExpireFilter, ExpireBefore, TypeOK
  <2>. QED
    BY <1>1, <1>11, <2>1 DEF ExpireFilter, TypeOK
<1>12. CASE Receive
  <2>1. Head(queue) \in Observation /\ Tail(queue) \in Seq(Observation)
    BY <1>1, <1>12 DEF Receive, TypeOK
  <2>. QED
    BY <1>1, <1>12, <2>1, PipelineConstants
    DEF Receive, BeginWrite, TypeOK, FilterTypeOK
<1>13. CASE FlushInterval
  BY <1>1, <1>13, PipelineConstants DEF FlushInterval, BeginWrite, TypeOK, FilterTypeOK
<1>14. CASE Finish
  BY <1>1, <1>14, PipelineConstants DEF Finish, BeginWrite, TypeOK, FilterTypeOK
<1>15. CASE WriteSucceeds
  <2>1. written' \in Int /\ conflicts' \in Int /\ failed' \in Int
    BY <1>1, <1>15, FreshCounted DEF WriteSucceeds, TypeOK, Count
  <2>. QED
    BY <1>1, <1>15, <2>1, FreshTyped, SettleTyped DEF WriteSucceeds
<1>16. CASE WriteRetries
  BY <1>1, <1>16, PipelineConstants DEF WriteRetries, TypeOK, FilterTypeOK
<1>17. CASE WriteFails
  <2>1. written' \in Int /\ conflicts' \in Int /\ failed' \in Int
    BY <1>1, <1>17 DEF WriteFails, TypeOK, Count
  <2>. QED
    BY <1>1, <1>17, <2>1, FreshTyped, SettleTyped DEF WriteFails
<1>18. CASE MainStep \/ Shutdown
  BY <1>1, <1>18 DEF MainStep, Start, CloseUnstarted, CloseChannel, GraceExpires, Closed,
       Shutdown, Advance, TypeOK, FilterTypeOK
<1>19. CASE Crash
  <2>1. rows' \subseteq Observation /\ lost' \subseteq Observation
    BY <1>1, <1>19, FreshTyped DEF Crash, TypeOK
  <2>2. FilterTypeOK'
    BY <1>19 DEF Crash, FilterTypeOK
  <2>. QED
    BY <1>1, <1>19, <2>1, <2>2, PipelineConstants DEF Crash, TypeOK
<1>20. CASE Exited \/ UNCHANGED vars
  BY <1>1, <1>20 DEF Exited, vars, TypeOK, FilterTypeOK
<1>. QED
  BY <1>1, <1>2, <1>3, <1>4, <1>5, <1>6, <1>7, <1>8, <1>9, <1>10, <1>11, <1>12, <1>13,
     <1>14, <1>15, <1>16, <1>17, <1>18, <1>19, <1>20
  DEF Next, PollerStep, WriterStep

(* Every variable of the pipeline always has its type: in particular only  *)
(* observations of the feeds travel to the table, and an attempt at a      *)
(* write never goes past the retries store.Retry makes.                    *)
THEOREM TypeCorrect == Spec => []TypeOK
  BY TypeInit, TypeNext, PTL DEF Spec

-----------------------------------------------------------------------------
(* The filter: bounded and ordered, whoever calls it. *)

FilterInv == FilterBounded /\ EntriesAreOrdered

LEMMA FilterStep == TypeOK /\ FilterInv /\ [Next]_vars => FilterInv'
<1>1. SUFFICES ASSUME TypeOK, FilterInv, [Next]_vars PROVE FilterInv'
  OBVIOUS
<1>2. FilterTypeOK
  BY <1>1 DEF TypeOK
<1>3. ASSUME NEW f \in Feed, NEW o \in todo[f], Admit(f, o) PROVE FilterInv'
  <2>1. o \in Observation
    BY <1>1 DEF TypeOK
  <2>. QED
    BY <1>1, <1>2, <1>3, <2>1, RecordBounded, RecordOrdered DEF Admit, FilterInv
<1>4. ASSUME NEW f \in Feed, Refuse(f) PROVE FilterInv'
  BY <1>1, <1>2, <1>4, RemoveEffect DEF Refuse, Forget, FilterInv
<1>5. CASE ExpireFilter
  BY <1>1, <1>2, <1>5, RemoveEffect DEF ExpireFilter, ExpireBefore, FilterInv
<1>6. CASE Crash
  <2>1. Known' = {} /\ older' = {}
    BY <1>6 DEF Crash, Known
  <2>. QED
    BY <2>1, FS_EmptySet, FilterConstants DEF FilterInv, FilterBounded, EntriesAreOrdered
<1>7. CASE UNCHANGED filterVars
  BY <1>1, <1>7 DEF filterVars, FilterInv, FilterBounded, EntriesAreOrdered, Known
<1>. QED
  BY <1>1, <1>3, <1>4, <1>5, <1>6, <1>7
  DEF Next, PollerStep, WriterStep, MainStep, vars, Publish, Poll, Suppress, Send,
      StopPoller, Swap, NextDay, Receive, FlushInterval, Finish, WriteSucceeds,
      WriteRetries, WriteFails, Settle, Start, CloseUnstarted, CloseChannel,
      GraceExpires, Closed, Shutdown, Advance, Exited

LEMMA FilterInit0 == Init => FilterInv
<1>1. SUFFICES ASSUME Init PROVE FilterInv
  OBVIOUS
<1>2. Known = {} /\ older = {}
  BY <1>1 DEF Init, FilterInit, Known
<1>. QED
  BY <1>2, FS_EmptySet, FilterConstants DEF FilterInv, FilterBounded, EntriesAreOrdered

(* For any FILTER_MAX_ENTRIES the map never holds more keys, and eviction  *)
(* always finds its entries in one total order of admission.               *)
THEOREM FilterCorrect == Spec => [](FilterBounded /\ EntriesAreOrdered)
  BY TypeCorrect, FilterInit0, FilterStep, PTL DEF Spec, FilterInv

-----------------------------------------------------------------------------
(* Shutdown.  What makes the order safe is when a poller may be busy: only *)
(* between serving and its own return, which main waits for.               *)

PollersInv ==
  /\ main \in {"building", "serving"} => stopped = {}
  /\ main = "building" => \A f \in Feed : Idle(f)
  /\ \A f \in stopped : Idle(f)
  /\ NoSendAfterClose

LEMMA PollersStep == TypeOK /\ PollersInv /\ [Next]_vars => PollersInv'
<1>1. SUFFICES ASSUME TypeOK, PollersInv, [Next]_vars PROVE PollersInv'
  OBVIOUS
<1>. USE DEF PollersInv, NoSendAfterClose, ChannelClosed, Idle, TypeOK
<1>2. ASSUME NEW f \in Feed, Poll(f) PROVE PollersInv'
  BY <1>1, <1>2 DEF Poll
<1>3. ASSUME NEW f \in Feed, NEW o \in todo[f], Suppress(f, o) PROVE PollersInv'
  BY <1>1, <1>3 DEF Suppress, Take
<1>4. ASSUME NEW f \in Feed, NEW o \in todo[f], Admit(f, o) PROVE PollersInv'
  BY <1>1, <1>4 DEF Admit, Take
<1>5. ASSUME NEW f \in Feed, Send(f) PROVE PollersInv'
  BY <1>1, <1>5 DEF Send
<1>6. ASSUME NEW f \in Feed, Refuse(f) PROVE PollersInv'
  BY <1>1, <1>6 DEF Refuse
<1>7. ASSUME NEW f \in Feed, StopPoller(f) PROVE PollersInv'
  BY <1>1, <1>7 DEF StopPoller
<1>8. CASE MainStep \/ Shutdown
  BY <1>1, <1>8 DEF MainStep, Start, CloseUnstarted, CloseChannel, GraceExpires, Closed,
       Shutdown, Advance, pollerVars
<1>9. CASE Crash
  BY <1>9 DEF Crash
<1>10. CASE UNCHANGED <<pollerVars, main>>
  BY <1>1, <1>10 DEF pollerVars
<1>. QED
  BY <1>1, <1>2, <1>3, <1>4, <1>5, <1>6, <1>7, <1>8, <1>9, <1>10
  DEF Next, PollerStep, WriterStep, vars, Publish, Swap, NextDay, ExpireFilter, Receive,
      FlushInterval, Finish, WriteSucceeds, WriteRetries, WriteFails, Settle, Exited

LEMMA PollersInit == Init => PollersInv
  BY DEF Init, PollersInv, NoSendAfterClose, ChannelClosed, Idle

(* No poller ever sends on the closed channel, in whatever order pollers   *)
(* return and main advances.                                               *)
THEOREM SafeClose == Spec => []NoSendAfterClose
<1>1. Spec => []PollersInv
  BY TypeCorrect, PollersInit, PollersStep, PTL DEF Spec
<1>. QED
  BY <1>1, PTL DEF PollersInv

(* Before Start there is nothing to flush; the writer makes its last flush *)
(* within the grace period only once the channel is empty.                 *)
DrainInv ==
  /\ main = "building" => writer = "unstarted"
  /\ writer = "unstarted" => queue = <<>> /\ batch = <<>> /\ main \in {"building", "clean"}
  /\ writer \in {"lastFlush", "stopped"} => ChannelClosed
  /\ writer \in {"lastFlush", "stopped"} /\ main \in {"draining", "clean"} => queue = <<>>
  /\ writer = "stopped" => batch = <<>>
  /\ main = "clean" => writer \in {"unstarted", "stopped"}

LEMMA DrainStep == TypeOK /\ PollersInv /\ DrainInv /\ [Next]_vars => DrainInv'
<1>1. SUFFICES ASSUME TypeOK, PollersInv, DrainInv, [Next]_vars PROVE DrainInv'
  OBVIOUS
<1>. USE DEF DrainInv, ChannelClosed
<1>2. ASSUME NEW f \in Feed, Send(f) PROVE DrainInv'
  <2>1. ~ChannelClosed
    BY <1>1, <1>2 DEF Send, PollersInv, NoSendAfterClose
  <2>2. main # "building"
    BY <1>1, <1>2 DEF Send, PollersInv, Idle
  <2>. QED
    BY <1>1, <1>2, <2>1, <2>2 DEF Send, writerVars
<1>3. CASE Receive
  BY <1>1, <1>3 DEF Receive
<1>4. CASE FlushInterval
  BY <1>1, <1>4 DEF FlushInterval
<1>5. CASE Finish
  BY <1>1, <1>5 DEF Finish, WriterCancelled
<1>6. CASE WriteSucceeds \/ WriteFails
  BY <1>1, <1>6 DEF WriteSucceeds, WriteFails, Settle, Writing
<1>7. CASE WriteRetries
  BY <1>1, <1>7 DEF WriteRetries
<1>8. CASE MainStep \/ Shutdown
  BY <1>1, <1>8 DEF MainStep, Start, CloseUnstarted, CloseChannel, GraceExpires, Closed,
       Shutdown, Advance
<1>9. CASE Crash
  BY <1>9 DEF Crash
<1>10. CASE UNCHANGED <<writerVars, queue, main>>
  BY <1>1, <1>10 DEF writerVars
<1>. QED
  BY <1>1, <1>2, <1>3, <1>4, <1>5, <1>6, <1>7, <1>8, <1>9, <1>10
  DEF Next, PollerStep, WriterStep, vars, Publish, Poll, Suppress, Admit, Refuse,
      StopPoller, Swap, NextDay, ExpireFilter, Exited

LEMMA DrainInit == Init => DrainInv
  BY DEF Init, DrainInv, ChannelClosed

LEMMA Drains == Spec => []DrainInv
<1>1. Spec => []PollersInv
  BY TypeCorrect, PollersInit, PollersStep, PTL DEF Spec
<1>. QED
  BY <1>1, TypeCorrect, DrainInit, DrainStep, PTL DEF Spec
-----------------------------------------------------------------------------
(* Bounded memory. *)

LEMMA BuffersStep == TypeOK /\ DrainInv /\ BuffersBounded /\ [Next]_vars => BuffersBounded'
<1>1. SUFFICES ASSUME TypeOK, DrainInv, BuffersBounded, [Next]_vars PROVE BuffersBounded'
  OBVIOUS
<1>. USE PipelineConstants DEF BuffersBounded
<1>2. ASSUME NEW f \in Feed, Send(f) PROVE BuffersBounded'
  <2>1. offer[f] \in Observation
    BY <1>1, <1>2 DEF Send, TypeOK
  <2>2. Len(queue') = Len(queue) + 1
    BY <1>1, <1>2, <2>1 DEF Send, TypeOK
  <2>. QED
    BY <1>1, <1>2, <2>2 DEF Send, TypeOK, writerVars
<1>3. CASE Receive
  <2>1. Head(queue) \in Observation /\ Len(Tail(queue)) = Len(queue) - 1
    BY <1>1, <1>3 DEF Receive, TypeOK
  <2>2. Len(batch') = Len(batch) + 1
    BY <1>1, <1>3, <2>1 DEF Receive, TypeOK
  <2>. QED
    BY <1>1, <1>3, <2>1, <2>2 DEF Receive, TypeOK
<1>4. CASE WriteSucceeds \/ WriteFails
  BY <1>1, <1>4 DEF WriteSucceeds, WriteFails, Settle, TypeOK
<1>5. CASE Crash
  BY <1>5 DEF Crash
<1>6. CASE UNCHANGED <<queue, batch>> /\ (writer' = writer \/ writer' # "selecting")
  BY <1>1, <1>6
<1>7. CASE Start
  <2>1. batch = <<>>
    BY <1>1, <1>7 DEF Start, Advance, DrainInv
  <2>. QED
    BY <1>1, <1>7, <2>1 DEF Start, Advance
<1>. QED
  BY <1>1, <1>2, <1>3, <1>4, <1>5, <1>6, <1>7
  DEF Next, PollerStep, WriterStep, MainStep, vars, Publish, Poll, Suppress, Admit, Refuse,
      StopPoller, Swap, NextDay, ExpireFilter, FlushInterval, Finish, WriteRetries,
      CloseUnstarted, CloseChannel, GraceExpires, Closed, Shutdown, Advance, Exited, writerVars

(* The channel and the batch stay within their configured sizes, and the   *)
(* writer never waits for more with a full batch in hand.                  *)
THEOREM BoundedBuffers == Spec => []BuffersBounded
<1>1. Init => BuffersBounded
  BY PipelineConstants DEF Init, BuffersBounded
<1>. QED
  BY <1>1, TypeCorrect, Drains, BuffersStep, PTL DEF Spec

-----------------------------------------------------------------------------
(* Nothing the filter remembers is without something that carries it. *)

(* An observation carried or settled stays so, unless it is refused.       *)
LEMMA OthersStayBacked ==
  ASSUME TypeOK, RecordsAreBacked,
         \A k \in Known' : k \in Known /\ entries'[k] = entries[k],
         \A o \in Outstanding \cup Settled :
            o.key \in Known' => o \in Outstanding' \cup Settled'
  PROVE  RecordsAreBacked'
  BY DEF RecordsAreBacked

LEMMA SettleKeepsAll ==
  ASSUME TypeOK, NEW stored \in SUBSET Range(batch), Settle(stored)
  PROVE  Outstanding \cup Settled \subseteq Outstanding' \cup Settled'
  BY DEF Outstanding, Accepted, Settled, Settle, pollerVars

LEMMA BackedStep == TypeOK /\ RecordsAreBacked /\ [Next]_vars => RecordsAreBacked'
<1>1. SUFFICES ASSUME TypeOK, RecordsAreBacked, [Next]_vars PROVE RecordsAreBacked'
  OBVIOUS
<1>. USE DEF Outstanding, Accepted, Settled
<1>2. ASSUME NEW f \in Feed, NEW o \in todo[f], Admit(f, o) PROVE RecordsAreBacked'
  <2>1. o \in Observation /\ o # None /\ offer[f] = None
    BY <1>1, <1>2, PipelineConstants DEF TypeOK, Admit, Take
  <2>2. PICK gone \in Evictions(o.key) :
          entries' = [k \in Key |-> IF k = o.key THEN o.value
                                    ELSE IF k \in gone THEN NoEntry
                                    ELSE entries[k]]
    BY <1>2 DEF Admit, Record
  <2>3. offer' = [offer EXCEPT ![f] = o] /\ UNCHANGED <<queue, batch, rows, lost>>
    BY <1>2 DEF Admit, writerVars, storeVars
  <2>4. o \in Outstanding'
    BY <1>1, <2>1, <2>3 DEF TypeOK
  <2>5. Outstanding \cup Settled \subseteq Outstanding' \cup Settled'
    BY <1>1, <2>1, <2>3 DEF TypeOK
  <2>6. ASSUME NEW k \in Known' PROVE \E p \in Outstanding' \cup Settled' :
          p.key = k /\ p.value = entries'[k]
    <3>1. CASE k = o.key
      BY <2>1, <2>2, <2>4, <2>6, <3>1 DEF Known
    <3>2. CASE k # o.key
      <4>1. k \in Known /\ entries'[k] = entries[k]
        BY <2>2, <2>6, <3>2 DEF Known
      <4>. QED
        BY <1>1, <2>5, <4>1 DEF RecordsAreBacked
    <3>. QED
      BY <3>1, <3>2
  <2>. QED
    BY <2>6 DEF RecordsAreBacked
<1>3. ASSUME NEW f \in Feed, Send(f) PROVE RecordsAreBacked'
  <2>1. /\ queue' = Append(queue, offer[f]) /\ offer' = [offer EXCEPT ![f] = None]
        /\ UNCHANGED <<batch, rows, lost, entries>>
    BY <1>3 DEF Send, writerVars, storeVars, filterVars
  <2>2. offer[f] \in Observation
    BY <1>1, <1>3 DEF Send, TypeOK
  <2>3. Range(queue') = Range(queue) \cup {offer[f]}
    BY <1>1, <2>1, <2>2, RangeAppend DEF TypeOK
  <2>4. Outstanding \cup Settled \subseteq Outstanding' \cup Settled'
    BY <1>1, <2>1, <2>3 DEF TypeOK
  <2>. QED
    BY <1>1, <2>1, <2>4, OthersStayBacked DEF Known
<1>4. ASSUME NEW f \in Feed, Refuse(f) PROVE RecordsAreBacked'
  <2>1. /\ offer' = [offer EXCEPT ![f] = None]
        /\ UNCHANGED <<queue, batch, rows, lost>>
    BY <1>4 DEF Refuse, writerVars, storeVars
  <2>2. /\ entries' = [k \in Key |-> IF k \in {offer[f].key} THEN NoEntry ELSE entries[k]]
        /\ Known' = Known \ {offer[f].key}
    BY <1>1, <1>4, RemoveEffect DEF Refuse, Forget, Remove, TypeOK
  <2>3. \A o \in Outstanding \cup Settled :
           o.key \in Known' => o \in Outstanding' \cup Settled'
    BY <1>1, <2>1, <2>2 DEF TypeOK
  <2>4. \A k \in Known' : k \in Known /\ entries'[k] = entries[k]
    BY <2>2 DEF Known
  <2>. QED
    BY <1>1, <2>3, <2>4, OthersStayBacked
<1>5. CASE ExpireFilter
  <2>1. UNCHANGED <<offer, queue, batch, rows, lost>>
    BY <1>5 DEF ExpireFilter, pollerVars, writerVars, storeVars
  <2>2. \A k \in Known' : k \in Known /\ entries'[k] = entries[k]
    BY <1>5 DEF ExpireFilter, ExpireBefore, Remove, Known
  <2>. QED
    BY <1>1, <2>1, <2>2, OthersStayBacked
<1>6. CASE Receive
  <2>1. /\ queue' = Tail(queue) /\ batch' = Append(batch, Head(queue)) /\ queue # <<>>
        /\ UNCHANGED <<offer, rows, lost, entries>>
    BY <1>6 DEF Receive, pollerVars, storeVars, filterVars
  <2>2. Range(queue) = Range(queue') \cup {Head(queue)} /\ Head(queue) \in Observation
    BY <1>1, <2>1, RangeHeadTail DEF TypeOK
  <2>3. Range(batch') = Range(batch) \cup {Head(queue)}
    BY <1>1, <2>1, <2>2, RangeAppend DEF TypeOK
  <2>4. Outstanding \cup Settled \subseteq Outstanding' \cup Settled'
    BY <2>1, <2>2, <2>3
  <2>. QED
    BY <1>1, <2>1, <2>4, OthersStayBacked DEF Known
<1>7. CASE WriteSucceeds \/ WriteFails
  <2>1. PICK stored \in SUBSET Range(batch) : Settle(stored)
    BY <1>1, <1>7, FreshTyped DEF WriteSucceeds, WriteFails
  <2>2. Outstanding \cup Settled \subseteq Outstanding' \cup Settled'
    BY <1>1, <2>1, SettleKeepsAll
  <2>3. entries' = entries
    BY <2>1 DEF Settle, filterVars
  <2>. QED
    BY <1>1, <2>2, <2>3, OthersStayBacked DEF Known
<1>8. CASE Crash
  BY <1>8 DEF Crash, RecordsAreBacked, Known
<1>9. CASE UNCHANGED <<offer, queue, batch, storeVars, entries>>
  BY <1>1, <1>9 DEF RecordsAreBacked, Known, storeVars
<1>. QED
  BY <1>1, <1>2, <1>3, <1>4, <1>5, <1>6, <1>7, <1>8, <1>9
  DEF Next, PollerStep, WriterStep, MainStep, vars, Publish, Poll, Suppress, StopPoller,
      Swap, NextDay, FlushInterval, Finish, WriteRetries, Start, CloseUnstarted,
      CloseChannel, GraceExpires, Closed, Shutdown, Advance, Exited, filterVars,
      pollerVars, writerVars

(* However pollers, the maintenance tick, eviction and the writer          *)
(* interleave, a value the filter remembers as written is in hand, in the  *)
(* channel, in the batch, in the table, or was settled by the writer       *)
(* without a row: a refused send never leaves its record behind.           *)
THEOREM Backed == Spec => []RecordsAreBacked
<1>1. Init => RecordsAreBacked
  BY DEF Init, FilterInit, RecordsAreBacked, Known
<1>. QED
  BY <1>1, TypeCorrect, BackedStep, PTL DEF Spec
-----------------------------------------------------------------------------
(* The counters. *)

LEMMA HoldingFinite == IsFiniteSet(Holding) /\ Cardinality(Holding) \in Nat
  BY PipelineConstants, FS_Subset, FS_CardinalityType DEF Holding

LEMMA AccountedStep == TypeOK /\ Accounted /\ [Next]_vars => Accounted'
<1>1. SUFFICES ASSUME TypeOK, Balance, [Next]_vars, \A n \in Int : Count(n) = n PROVE Balance'
  BY DEF Accounted, Count
<1>. USE DEF Balance
<1>2. /\ Cardinality(Holding) \in Nat /\ Len(queue) \in Nat /\ Len(batch) \in Nat
      /\ admitted \in Int /\ dropped \in Int
      /\ written \in Int /\ conflicts \in Int /\ failed \in Int
      /\ Balance
  BY <1>1, HoldingFinite DEF TypeOK
<1>3. ASSUME NEW f \in Feed, NEW o \in todo[f], Admit(f, o) PROVE Balance'
  <2>1. o # None /\ offer[f] = None
    BY <1>1, <1>3, PipelineConstants DEF Admit, Take, TypeOK
  <2>2. Holding' = Holding \cup {f} /\ f \notin Holding
    BY <1>1, <1>3, <2>1 DEF Admit, Holding, TypeOK
  <2>3. Cardinality(Holding') = Cardinality(Holding) + 1
    BY <2>2, HoldingFinite, FS_AddElement
  <2>4. admitted' = admitted + 1
    BY <1>1, <1>3 DEF Admit
  <2>5. UNCHANGED <<queue, batch, dropped, written, conflicts, failed>>
    BY <1>3 DEF Admit, writerVars, writes
  <2>. QED
    BY <1>2, <2>3, <2>4, <2>5
<1>4. ASSUME NEW f \in Feed, offer[f] # None, offer' = [offer EXCEPT ![f] = None]
      PROVE  Cardinality(Holding') = Cardinality(Holding) - 1
  <2>1. Holding' = Holding \ {f} /\ f \in Holding
    BY <1>1, <1>4 DEF Holding, TypeOK
  <2>. QED
    BY <2>1, HoldingFinite, FS_RemoveElement
<1>5. ASSUME NEW f \in Feed, Send(f) PROVE Balance'
  <2>1. offer[f] \in Observation
    BY <1>1, <1>5 DEF Send, TypeOK
  <2>2. Len(queue') = Len(queue) + 1
    BY <1>1, <1>5, <2>1 DEF Send, TypeOK
  <2>3. Cardinality(Holding') = Cardinality(Holding) - 1
    BY <1>4, <1>5 DEF Send
  <2>4. UNCHANGED <<batch, admitted, dropped, written, conflicts, failed>>
    BY <1>5 DEF Send, writerVars, writes, counters
  <2>. QED
    BY <1>2, <2>2, <2>3, <2>4
<1>6. ASSUME NEW f \in Feed, Refuse(f) PROVE Balance'
  <2>1. Cardinality(Holding') = Cardinality(Holding) - 1
    BY <1>4, <1>6 DEF Refuse
  <2>2. dropped' = dropped + 1
    BY <1>1, <1>6 DEF Refuse
  <2>3. UNCHANGED <<queue, batch, admitted, written, conflicts, failed>>
    BY <1>6 DEF Refuse, writerVars, writes
  <2>. QED
    BY <1>2, <2>1, <2>2, <2>3
<1>7. CASE Receive
  <2>1. Head(queue) \in Observation /\ Len(Tail(queue)) = Len(queue) - 1
    BY <1>1, <1>7 DEF Receive, TypeOK
  <2>2. Len(batch') = Len(batch) + 1 /\ Len(queue') = Len(queue) - 1
    BY <1>1, <1>7, <2>1 DEF Receive, TypeOK
  <2>3. UNCHANGED <<offer, admitted, dropped, written, conflicts, failed>>
    BY <1>7 DEF Receive, pollerVars, writes, counters
  <2>. QED
    BY <1>2, <2>2, <2>3 DEF Holding
<1>8. ASSUME NEW stored, Settle(stored)
      PROVE  /\ Len(batch') = 0
             /\ UNCHANGED <<Holding, queue, admitted, dropped>>
  BY <1>8 DEF Settle, Holding, pollerVars
<1>9. CASE WriteSucceeds
  <2>1. /\ Len(batch') = 0
        /\ UNCHANGED <<Holding, queue, admitted, dropped, failed>>
    BY <1>8, <1>9 DEF WriteSucceeds
  <2>2. PICK n \in Int : n = Cardinality(Fresh)
    BY <1>1, <1>2, FreshCounted
  <2>3. /\ written' = written + n
        /\ conflicts' = conflicts + (Len(batch) - n)
    BY <1>1, <1>2, <1>9, <2>2 DEF WriteSucceeds
  <2>. QED
    BY <1>2, <2>1, <2>3
<1>10. CASE WriteFails
  <2>1. /\ Len(batch') = 0
        /\ UNCHANGED <<Holding, queue, admitted, dropped, written, conflicts>>
    BY <1>8, <1>10 DEF WriteFails
  <2>2. failed' = failed + Len(batch)
    BY <1>1, <1>2, <1>10 DEF WriteFails
  <2>. QED
    BY <1>2, <2>1, <2>2
<1>11. CASE Crash
  <2>1. Cardinality(Holding') = 0
    BY <1>11, FS_EmptySet DEF Crash, Holding
  <2>2. Len(queue') = 0 /\ Len(batch') = 0
    BY <1>11 DEF Crash
  <2>. QED
    BY <1>11, <2>1, <2>2 DEF Crash
<1>12. CASE UNCHANGED <<offer, queue, batch, counters>>
  BY <1>1, <1>12 DEF Holding, counters, writes
<1>. QED
  BY <1>1, <1>3, <1>5, <1>6, <1>7, <1>9, <1>10, <1>11, <1>12
  DEF Next, PollerStep, WriterStep, MainStep, vars, Publish, Poll, Suppress, StopPoller,
      Swap, NextDay, ExpireFilter, FlushInterval, Finish, WriteRetries, Start, CloseUnstarted,
      CloseChannel, GraceExpires, Closed, Shutdown, Advance, Exited, pollerVars, writerVars

(* No observation is counted twice and none escapes the counters: what was *)
(* admitted is what was dropped, written, skipped as a conflict or failed, *)
(* plus what pollers, channel and batch still hold.                        *)
THEOREM NoneUnaccounted == Spec => []Accounted
<1>1. Init => Accounted
  <2>1. Init => Cardinality(Holding) = 0
    BY FS_EmptySet DEF Init, Holding
  <2>2. Init => Len(queue) = 0 /\ Len(batch) = 0
    BY DEF Init
  <2>. QED
    BY <2>1, <2>2 DEF Init, Accounted, Balance
<1>. QED
  BY <1>1, TypeCorrect, AccountedStep, PTL DEF Spec

(* A shutdown that main reports as clean has left nothing in the channel   *)
(* or in the batch, however the writer's select and the grace timer race,  *)
(* and the counters it logs add up.                                        *)
THEOREM CleanShutdown == Spec => []CleanMeansFlushed
<1>1. TypeOK /\ DrainInv /\ NoSendAfterClose /\ Accounted => CleanMeansFlushed
  <2>1. SUFFICES ASSUME TypeOK, DrainInv, NoSendAfterClose, Accounted, main = "clean"
                 PROVE  /\ queue = <<>> /\ batch = <<>>
                        /\ Counting => admitted = dropped + written + conflicts + failed
    BY DEF CleanMeansFlushed
  <2>2. queue = <<>> /\ batch = <<>> BY <2>1 DEF DrainInv
  <2>3. Holding = {} BY <2>1 DEF NoSendAfterClose, ChannelClosed, Holding
  <2>4. Cardinality(Holding) = 0 /\ Len(queue) = 0 /\ Len(batch) = 0
    BY <2>2, <2>3, FS_EmptySet
  <2>. QED BY <2>1, <2>2, <2>4 DEF Accounted, Balance, TypeOK
<1>. QED
  BY <1>1, TypeCorrect, Drains, SafeClose, NoneUnaccounted, PTL

-----------------------------------------------------------------------------
(* The delays a network has lie within half an int32's range of each       *)
(* other, so that their difference is one (filter.go:131).                 *)
DelaysInRange == \A v, w \in Value : v.delay - w.delay \in -(HalfRange - 1)..(HalfRange - 1)

LEMMA SmallStaysItself == \A n \in -(HalfRange - 1)..(HalfRange - 1) : Int32(n) = n
<1>1. SUFFICES ASSUME NEW n \in -(HalfRange - 1)..(HalfRange - 1) PROVE Int32(n) = n
  OBVIOUS
<1>2. HalfRange \in Nat /\ HalfRange > 0 /\ n \in Int
  BY FilterConstants
<1>3. \A a, m \in Nat : a < m => a % m = a
  OBVIOUS
<1>4. n + HalfRange \in Nat /\ 2 * HalfRange \in Nat /\ n + HalfRange < 2 * HalfRange
  BY <1>1, <1>2
<1>. QED
  BY <1>2, <1>3, <1>4 DEF Int32

(* What does not differ for the filter does not differ.                    *)
LEMMA UnchangedIsNear ==
  ASSUME DelaysInRange, NEW v \in Value, NEW w \in Value, ~Changed(v, w)
  PROVE  Near(v, w)
<1>1. v.delay \in Int /\ w.delay \in Int /\ MinDelta \in Nat
  BY FilterConstants
<1>2. v.rel = w.rel /\ v.matched = w.matched /\ v.hasDelay = w.hasDelay
  BY DEF Changed
<1>3. ASSUME w.hasDelay PROVE v.delay - w.delay \in -MinDelta..MinDelta
  <2>1. w.delay - v.delay \in -(HalfRange - 1)..(HalfRange - 1)
    BY DEF DelaysInRange
  <2>2. -(w.delay - v.delay) \in -(HalfRange - 1)..(HalfRange - 1)
    BY <1>1, <2>1, FilterConstants
  <2>3. Int32(w.delay - v.delay) = w.delay - v.delay /\ Int32(-(w.delay - v.delay)) = -(w.delay - v.delay)
    BY <2>1, <2>2, SmallStaysItself
  <2>4. ~(Abs32(w.delay - v.delay) > MinDelta)
    BY <1>3, <2>3 DEF Changed
  <2>. QED
    BY <1>1, <2>3, <2>4 DEF Abs32
<1>. QED
  BY <1>2, <1>3 DEF Near

(* However the table, the batches and the filter change in between, a      *)
(* value is suppressed only near one that is stored, carried or settled:   *)
(* what the filter holds is backed, and it compares with that              *)
(* (filter.go:71-75, 118-132).                                             *)
THEOREM SuppressedAreNear == ASSUME DelaysInRange PROVE Spec => SuppressedIsNear
<1>1. ASSUME TypeOK, RecordsAreBacked, NEW f \in Feed, NEW o \in todo[f], Suppress(f, o)
      PROVE  \E p \in Outstanding \cup Settled : p.key = o.key /\ Near(p.value, o.value)
  <2>1. o.key \in Known /\ ~Changed(entries[o.key], o.value)
    BY <1>1 DEF Suppress, Admits
  <2>2. o.value \in Value /\ entries[o.key] \in Value
    BY <1>1, <2>1 DEF TypeOK, FilterTypeOK, Observation, Known
  <2>3. PICK p \in Outstanding \cup Settled : p.key = o.key /\ p.value = entries[o.key]
    BY <1>1, <2>1 DEF RecordsAreBacked
  <2>. QED
    BY <2>1, <2>2, <2>3, UnchangedIsNear
<1>2. TypeOK /\ RecordsAreBacked =>
        [\A f \in Feed : \A o \in todo[f] : Suppress(f, o) =>
           \E p \in Outstanding \cup Settled : p.key = o.key /\ Near(p.value, o.value)]_vars
  BY <1>1
<1>. QED
  BY <1>2, TypeCorrect, Backed, PTL DEF SuppressedIsNear

-----------------------------------------------------------------------------
(* The pipeline implements the log: every step of a poller, the writer,    *)
(* main or a crash is a step of ObservationLog on what Submit has accepted *)
(* and on the table, or leaves both alone.                                 *)

(* One INSERT ... ON CONFLICT DO NOTHING never makes two rows of one       *)
(* natural key, neither with the table nor within its batch.               *)
LEMMA FreshKeyed == ASSUME TypeOK, Log!Keyed(rows)
                    PROVE  Log!Keyed(rows \cup Fresh)
<1>1. SUFFICES ASSUME NEW r \in rows \cup Fresh, NEW q \in rows \cup Fresh, SameRow(r, q)
               PROVE  r = q
  BY DEF Log!Keyed, Log!SameRow, SameRow
<1>2. CASE r \in rows /\ q \in rows
  BY <1>1, <1>2 DEF Log!Keyed, Log!SameRow, SameRow
<1>3. CASE r \in rows /\ q \in Fresh
  BY <1>1, <1>3 DEF Fresh, SameRow
<1>4. CASE r \in Fresh /\ q \in rows
  BY <1>1, <1>4 DEF Fresh, SameRow
<1>5. CASE r \in Fresh /\ q \in Fresh
  <2>1. PICK i \in DOMAIN batch : r = batch[i] /\ \A m \in DOMAIN batch : m < i => ~SameRow(batch[m], batch[i])
    BY <1>5 DEF Fresh
  <2>2. PICK j \in DOMAIN batch : q = batch[j] /\ \A m \in DOMAIN batch : m < j => ~SameRow(batch[m], batch[j])
    BY <1>5 DEF Fresh
  <2>3. i \in Nat /\ j \in Nat
    BY DEF TypeOK
  <2>4. ~(i < j) /\ ~(j < i)
    BY <1>1, <2>1, <2>2 DEF SameRow
  <2>. QED
    BY <2>1, <2>2, <2>3, <2>4
<1>. QED
  BY <1>1, <1>2, <1>3, <1>4, <1>5

(* Settling the batch settles its observations in the log. *)
LEMMA SettleIsSettle ==
  ASSUME TypeOK, NEW stored \in {{}, Fresh}, Settle(stored)
  PROVE  Log!Next
<1>1. Range(batch) \in SUBSET Accepted
  BY DEF Accepted
<1>2. /\ rows' = rows \cup stored /\ stored \subseteq Range(batch)
      /\ lost' = (lost \cup Range(batch)) \ rows'
      /\ queue' = queue /\ batch' = <<>>
  BY FreshTyped DEF Settle
<1>3. Log!Keyed(rows) => Log!Keyed(rows')
  BY <1>2, FreshKeyed
<1>4. Accepted \ Range(batch) \subseteq Accepted' /\ Accepted' \subseteq Accepted
  BY <1>2 DEF Accepted, Range
<1>. QED
  BY <1>1, <1>2, <1>3, <1>4 DEF Log!Next, Log!Settle

(* Every step of the pipeline is a step of the log, or a stutter of it. *)
LEMMA StepIsLogStep == TypeOK /\ [Next]_vars => [Log!Next]_(Log!logVars)
<1>1. SUFFICES ASSUME TypeOK, [Next]_vars PROVE Log!Next \/ UNCHANGED <<Accepted, rows, lost>>
  BY DEF Log!logVars
<1>2. ASSUME NEW f \in Feed, Send(f) PROVE Log!Next
  <2>1. /\ queue' = Append(queue, offer[f]) /\ offer[f] \in Observation
        /\ UNCHANGED <<batch, rows, lost>>
    BY <1>1, <1>2 DEF Send, TypeOK, writerVars, storeVars
  <2>2. Accepted' = Accepted \cup {offer[f]}
    BY <1>1, <2>1, RangeAppend DEF Accepted, TypeOK
  <2>. QED
    BY <2>1, <2>2 DEF Log!Next, Log!Accept
<1>3. CASE Receive
  <2>1. /\ queue' = Tail(queue) /\ batch' = Append(batch, Head(queue)) /\ queue # <<>>
        /\ Head(queue) \in Observation /\ UNCHANGED <<rows, lost>>
    BY <1>1, <1>3 DEF Receive, TypeOK, storeVars
  <2>2. Range(queue) = Range(queue') \cup {Head(queue)}
    BY <1>1, <2>1, RangeHeadTail DEF TypeOK
  <2>3. Range(batch') = Range(batch) \cup {Head(queue)}
    BY <1>1, <2>1, RangeAppend DEF TypeOK
  <2>4. Accepted' = Accepted
    BY <2>2, <2>3 DEF Accepted
  <2>. QED
    BY <2>1, <2>4
<1>4. CASE WriteSucceeds \/ WriteFails
  BY <1>1, <1>4, SettleIsSettle DEF WriteSucceeds, WriteFails
<1>5. CASE Crash
  <2>1. Range(batch) \in SUBSET Accepted
    BY DEF Accepted
  <2>2. rows' = rows \/ rows' = rows \cup Fresh
    BY <1>5 DEF Crash
  <2>3. rows \subseteq rows' /\ rows' \subseteq rows \cup Range(batch)
    BY <1>1, <2>2, FreshTyped
  <2>4. Log!Keyed(rows) => Log!Keyed(rows')
    BY <1>1, <2>2, FreshKeyed
  <2>5. Accepted' = {} /\ lost' = lost \ rows'
    BY <1>5 DEF Crash, Accepted, Range
  <2>. QED
    BY <2>1, <2>3, <2>4, <2>5 DEF Log!Next, Log!Lose
<1>6. CASE UNCHANGED <<queue, batch, storeVars>>
  BY <1>6 DEF storeVars, Accepted
<1>. QED
  BY <1>1, <1>2, <1>3, <1>4, <1>5, <1>6
  DEF Next, PollerStep, WriterStep, MainStep, vars, Publish, Poll, Suppress, Admit, Refuse,
      StopPoller, Swap, NextDay, ExpireFilter, FlushInterval, Finish, WriteRetries, Start,
      CloseUnstarted, CloseChannel, GraceExpires, Closed, Shutdown, Advance, Exited, writerVars

(* The ingest path keeps the log's promise for any number of feeds, any    *)
(* sizes, faults, crashes and interleavings: what Submit accepted becomes  *)
(* a row, is settled without one, or dies with the process.                *)
THEOREM PipelineIsLog == Spec => Implements
<1>1. Init => Log!Init
  BY DEF Init, Log!Init, Accepted, Range
<1>. QED
  BY <1>1, TypeCorrect, StepIsLogStep, PTL DEF Spec, Implements, Log!Spec

(* And so the table never holds two rows of one key and feed timestamp.    *)
THEOREM RowsKeyed == Spec => []OneRowPerKey
  BY PipelineIsLog, Log!KeyedRows, PTL DEF Implements, OneRowPerKey

-----------------------------------------------------------------------------
(* The last word on a key.  While no batch is given up, no header goes     *)
(* back and the timetable stays, a feed's words reach the channel, the     *)
(* batch and the table in the order it said them: what the filter          *)
(* remembers of a key is the newest of them.                               *)

TimetableStays == \A t, u \in Timetables : t = u
BatchesApplied == Faults \subseteq {"unacknowledged"}

Waiting == UNION {todo[f] : f \in Feed}
Words == rows \cup Outstanding

\* It is no newer than what its feed says now; what is as new is just that.
AsPublished(w) ==
  /\ w.ts <= headerTS[FeedOf[w.key]]
  /\ w.ts = headerTS[FeedOf[w.key]] => says[w.key] # Silent /\ w = Observe(w.key)

\* What is carried, stored or about to be submitted is what the feeds said.
Spoken ==
  /\ \A f \in Feed : \A o \in todo[f] : FeedOf[o.key] = f
  /\ \A w \in Words \cup Waiting : AsPublished(w)
  /\ \A v, w \in Words \cup Waiting : SameRow(v, w) => v = w
  /\ \A o \in Waiting, w \in Words : w.key = o.key => w.ts <= o.ts
  /\ \A o, p \in Waiting : o.key = p.key => o = p

\* What the filter remembers is the newest word, until the grace is over.
Newest(w) == \A q \in Words : q.key = w.key => q.ts <= w.ts
Remembered(k) == \E w \in Words : w.key = k /\ w.value = entries[k] /\ Newest(w)
Carried == ~WriterCancelled => \A k \in Known : Remembered(k)

\* A batch is not attempted at all only when the grace is over.
Begun == Writing /\ attempt = 0 => WriterCancelled

WordsInv == Spoken /\ Carried /\ Begun

(* A set of naturals has a least element. *)
LEMMA LeastNatural ==
  ASSUME NEW S, S \subseteq Nat, S # {}
  PROVE  \E n \in S : \A m \in S : n <= m
<1>. DEFINE Below(n) == 0 .. n
            Segments == {Below(n) : n \in S}
<1>1. IsWellFoundedOn(StrictSubsetOrdering(Nat), FiniteSubsetsOf(Nat))
  BY FS_StrictSubsetOrderingWellFounded
<1>2. \A n \in Nat : Below(n) \in FiniteSubsetsOf(Nat)
  <2>1. \A n \in Nat : IsFiniteSet(Below(n)) BY FS_Interval
  <2> QED BY <2>1 DEF FiniteSubsetsOf
<1>3. Segments \subseteq FiniteSubsetsOf(Nat) /\ Segments # {}
  <2>1. \A n \in S : Below(n) \in FiniteSubsetsOf(Nat) BY <1>2
  <2>2. PICK n \in S : TRUE OBVIOUS
  <2>3. Below(n) \in Segments BY <2>2
  <2> HIDE DEF Below
  <2> QED BY <2>1, <2>3
<1>4. PICK A \in Segments : \A B \in Segments : ~(<<B, A>> \in StrictSubsetOrdering(Nat))
  BY <1>1, <1>3, WFMin
<1>5. PICK n \in S : A = Below(n) BY <1>4
<1>6. \A m \in S : n <= m
  <2>1. SUFFICES ASSUME NEW m \in S, m < n PROVE FALSE OBVIOUS
  <2>2. m \in Nat /\ n \in Nat OBVIOUS
  <2>3. Below(m) \subseteq Below(n) /\ n \in Below(n) /\ n \notin Below(m) BY <2>1, <2>2
  <2>4. Below(m) \in SUBSET Nat /\ Below(n) \in SUBSET Nat BY <2>2
  <2>5. <<Below(m), Below(n)>> \in StrictSubsetOrdering(Nat)
    BY <2>3, <2>4 DEF StrictSubsetOrdering
  <2> QED BY <1>4, <1>5, <2>5
<1> QED BY <1>6

(* Of observations of which no two are of one row, a batch stores all that *)
(* the table lacks (writer.go:150-153).                                    *)
LEMMA AllStored ==
  ASSUME TypeOK, Spoken
  PROVE  Range(batch) \subseteq rows \cup Fresh
<1>1. SUFFICES ASSUME NEW i \in DOMAIN batch, batch[i] \notin rows PROVE batch[i] \in Fresh
  BY DEF Range
<1>. DEFINE alike == {n \in DOMAIN batch : batch[n] = batch[i]}
<1>2. DOMAIN batch \subseteq Nat
  BY DEF TypeOK
<1>3. PICK n \in alike : \A m \in alike : n <= m
  <2>1. alike \subseteq Nat /\ i \in alike
    BY <1>2
  <2>. HIDE DEF alike
  <2>. QED
    BY <2>1, LeastNatural
<1>4. \A m \in DOMAIN batch : batch[m] \in Words
  BY DEF Words, Outstanding, Accepted, Range
<1>5. \A r \in rows : ~SameRow(r, batch[n])
  BY <1>1, <1>4 DEF Spoken, Words
<1>6. ASSUME NEW m \in DOMAIN batch, m < n PROVE ~SameRow(batch[m], batch[n])
  <2>1. m \notin alike
    BY <1>2, <1>3, <1>6
  <2>. QED
    BY <1>4, <2>1 DEF Spoken
<1>. QED
  BY <1>3, <1>5, <1>6 DEF Fresh

(* Submitting, sending, storing and losing words leaves them what they     *)
(* were.                                                                   *)
LEMMA SpokenStays ==
  ASSUME TypeOK, Spoken, UNCHANGED <<headerTS, says, timetable>>,
         \A f \in Feed : todo'[f] \subseteq todo[f],
         Words' \subseteq Words \cup Waiting
  PROVE  Spoken'
<1>1. Waiting' \subseteq Waiting
  BY DEF Waiting
<1>2. \A w : AsPublished(w)' = AsPublished(w)
  BY DEF AsPublished, Observe
<1>4. \A f \in Feed : \A o \in todo'[f] : FeedOf[o.key] = f
  BY DEF Spoken
<1>5. \A w \in Words' \cup Waiting' : AsPublished(w)'
  BY <1>1, <1>2 DEF Spoken
<1>6. \A v, w \in Words' \cup Waiting' : SameRow(v, w) => v = w
  BY <1>1 DEF Spoken
<1>7. \A o \in Waiting', w \in Words' : w.key = o.key => w.ts <= o.ts
  <2>1. SUFFICES ASSUME NEW o \in Waiting', NEW w \in Words', w.key = o.key PROVE w.ts <= o.ts
    OBVIOUS
  <2>2. CASE w \in Words
    BY <1>1, <2>1, <2>2 DEF Spoken
  <2>3. CASE w \in Waiting
    <3>1. w = o
      BY <1>1, <2>1, <2>3 DEF Spoken
    <3>2. o.ts \in Int
      BY <1>1 DEF Waiting, TypeOK, Observation
    <3>. QED
      BY <3>1, <3>2
  <2>. QED
    BY <2>2, <2>3
<1>8. \A o, p \in Waiting' : o.key = p.key => o = p
  BY <1>1 DEF Spoken
<1>. QED
  BY <1>4, <1>5, <1>6, <1>7, <1>8 DEF Spoken, SameRow

(* What the filter still remembers stays the newest word, if the words of  *)
(* those keys are what they were.                                          *)
LEMMA CarriedStays ==
  ASSUME Carried, WriterCancelled => WriterCancelled',
         \A k \in Known' : k \in Known /\ entries'[k] = entries[k],
         \A w \in Words \cup Words' : w.key \in Known' => (w \in Words <=> w \in Words')
  PROVE  Carried'
<1>1. SUFFICES ASSUME ~WriterCancelled', NEW k \in Known' PROVE Remembered(k)'
  BY DEF Carried
<1>2. PICK w \in Words : w.key = k /\ w.value = entries[k] /\ Newest(w)
  BY <1>1 DEF Carried, Remembered
<1>3. w \in Words' /\ w.value = entries'[k]
  BY <1>1, <1>2
<1>4. Newest(w)'
  BY <1>1, <1>2 DEF Newest
<1>. QED
  BY <1>2, <1>3, <1>4 DEF Remembered

(* A word that is sent stays one, and so does one that is received.        *)
LEMMA SendWords ==
  ASSUME TypeOK, NEW f \in Feed, Send(f)
  PROVE  Words' = Words
<1>1. /\ queue' = Append(queue, offer[f]) /\ offer' = [offer EXCEPT ![f] = None]
      /\ UNCHANGED <<batch, rows>> /\ offer[f] # None
  BY DEF Send, writerVars, storeVars
<1>2. offer[f] \in Observation /\ None \notin Observation
  BY <1>1, PipelineConstants DEF TypeOK
<1>3. Range(queue') = Range(queue) \cup {offer[f]}
  BY <1>1, <1>2, RangeAppend DEF TypeOK
<1>4. {offer[g] : g \in Feed} \ {None} = ({offer'[g] : g \in Feed} \ {None}) \cup {offer[f]}
  BY <1>1, <1>2 DEF TypeOK
<1>. QED
  BY <1>1, <1>3, <1>4 DEF Words, Outstanding, Accepted

LEMMA ReceiveWords ==
  ASSUME TypeOK, Receive
  PROVE  Words' = Words
<1>1. /\ queue' = Tail(queue) /\ batch' = Append(batch, Head(queue)) /\ queue # <<>>
      /\ UNCHANGED <<offer, rows>>
  BY DEF Receive, pollerVars, storeVars
<1>2. Range(queue) = Range(queue') \cup {Head(queue)} /\ Head(queue) \in Observation
  BY <1>1, RangeHeadTail DEF TypeOK
<1>3. Range(batch') = Range(batch) \cup {Head(queue)}
  BY <1>1, <1>2, RangeAppend DEF TypeOK
<1>. QED
  BY <1>1, <1>2, <1>3 DEF Words, Outstanding, Accepted

(* A batch that is stored leaves the words, one that is not loses some.    *)
LEMMA SettleWords ==
  ASSUME TypeOK, Spoken, NEW stored \in {{}, Fresh}, Settle(stored)
  PROVE  Words' \subseteq Words /\ (stored = Fresh => Words' = Words)
<1>1. rows' = rows \cup stored /\ batch' = <<>> /\ UNCHANGED <<queue, offer>>
  BY DEF Settle, pollerVars
<1>2. Range(batch') = {} /\ stored \subseteq Range(batch)
  BY <1>1, FreshTyped DEF Range
<1>3. Range(batch) \subseteq rows \cup Fresh
  BY AllStored
<1>. QED
  BY <1>1, <1>2, <1>3 DEF Words, Outstanding, Accepted

(* Admitting makes a waiting observation a word, the newest of its key.    *)
LEMMA AdmitWords ==
  ASSUME TypeOK, NEW f \in Feed, NEW o \in todo[f], Admit(f, o)
  PROVE  Words' = Words \cup {o} /\ todo' = [todo EXCEPT ![f] = @ \ {o}]
<1>1. o \in Observation /\ o # None /\ offer[f] = None
  BY PipelineConstants DEF TypeOK, Admit, Take
<1>2. offer' = [offer EXCEPT ![f] = o] /\ UNCHANGED <<queue, batch, rows>>
  BY DEF Admit, writerVars, storeVars
<1>3. {offer'[g] : g \in Feed} \ {None} = ({offer[g] : g \in Feed} \ {None}) \cup {o}
  BY <1>1, <1>2 DEF TypeOK
<1>. QED
  BY <1>2, <1>3 DEF Words, Outstanding, Accepted, Admit, Take

LEMMA AdmitCarries ==
  ASSUME TypeOK, Spoken, Carried, NEW f \in Feed, NEW o \in todo[f], Admit(f, o)
  PROVE  Carried'
<1>1. Words' = Words \cup {o}
  BY AdmitWords
<1>2. PICK gone \in Evictions(o.key) :
        entries' = [k \in Key |-> IF k = o.key THEN o.value
                                  ELSE IF k \in gone THEN NoEntry
                                  ELSE entries[k]]
  BY DEF Admit, Record
<1>3. o \in Observation /\ o \in Waiting
  BY DEF TypeOK, Waiting
<1>4. SUFFICES ASSUME ~WriterCancelled, NEW k \in Known' PROVE Remembered(k)'
  BY DEF Carried, Admit, WriterCancelled
<1>5. CASE k = o.key
  <2>1. o \in Words' /\ o.value = entries'[k]
    BY <1>1, <1>2, <1>3, <1>5 DEF Observation
  <2>2. Newest(o)'
    BY <1>1, <1>3, o.ts \in Int DEF Newest, Spoken, Observation
  <2>. QED
    BY <1>5, <2>1, <2>2 DEF Remembered
<1>6. CASE k # o.key
  <2>1. k \in Known /\ entries'[k] = entries[k]
    BY <1>2, <1>4, <1>6 DEF Known
  <2>2. PICK w \in Words : w.key = k /\ w.value = entries[k] /\ Newest(w)
    BY <1>4, <2>1 DEF Carried, Remembered
  <2>3. Newest(w)'
    BY <1>1, <1>6, <2>2 DEF Newest
  <2>. QED
    BY <1>1, <2>1, <2>2, <2>3 DEF Remembered
<1>. QED
  BY <1>5, <1>6

(* A poll reads what its feed says now: as new as any word, and the same   *)
(* as any word that is as new.                                             *)
LEMMA PollSpeaks ==
  ASSUME TypeOK, Spoken, NEW f \in Feed, Poll(f)
  PROVE  Spoken'
<1>1. /\ todo' = [todo EXCEPT ![f] = Snapshot(f)] /\ todo[f] = {}
      /\ UNCHANGED <<headerTS, says, timetable, rows, offer, queue, batch>>
  BY DEF Poll, Idle, sourceVars, writerVars, storeVars
<1>2. Words' = Words /\ Waiting' = Waiting \cup Snapshot(f)
  <2>1. Words' = Words
    BY <1>1 DEF Words, Outstanding, Accepted
  <2>2. \A g \in Feed : todo'[g] = IF g = f THEN Snapshot(f) ELSE todo[g]
    BY <1>1 DEF TypeOK
  <2>. QED
    BY <1>1, <2>1, <2>2 DEF Waiting
<1>3. \A w : AsPublished(w)' = AsPublished(w)
  BY <1>1 DEF AsPublished, Observe
<1>5. ASSUME NEW o \in Snapshot(f)
      PROVE  /\ FeedOf[o.key] = f /\ o.ts = headerTS[f] /\ says[o.key] # Silent
             /\ o = Observe(o.key) /\ o.ts \in Int
  <2>1. PICK k \in Key : FeedOf[k] = f /\ says[k] # Silent /\ o = Observe(k)
    BY <1>5 DEF Snapshot
  <2>2. o.key = k /\ o.ts = headerTS[f] /\ headerTS[f] \in Int
    BY <2>1 DEF Observe, TypeOK
  <2>. QED
    BY <2>1, <2>2
<1>6. \A g \in Feed : \A o \in todo'[g] : FeedOf[o.key] = g
  BY <1>1, <1>5 DEF Spoken, TypeOK
<1>7. \A o \in Snapshot(f) : AsPublished(o)
  BY <1>5 DEF AsPublished
<1>8. \A w \in Words' \cup Waiting' : AsPublished(w)'
  BY <1>2, <1>3, <1>7 DEF Spoken
<1>9. ASSUME NEW o \in Snapshot(f), NEW w \in Words \cup Waiting \cup Snapshot(f), SameRow(o, w)
      PROVE  o = w
  <2>1. w.key = o.key /\ w.ts = headerTS[FeedOf[w.key]]
    BY <1>5, <1>9 DEF SameRow
  <2>2. AsPublished(w)
    BY <1>7 DEF Spoken
  <2>. QED
    BY <1>5, <2>1, <2>2 DEF AsPublished
<1>10. \A v, w \in Words' \cup Waiting' : SameRow(v, w) => v = w
  <2>1. SUFFICES ASSUME NEW v \in Words \cup Waiting \cup Snapshot(f),
                        NEW w \in Words \cup Waiting \cup Snapshot(f), SameRow(v, w)
                 PROVE  v = w
    BY <1>2
  <2>2. SameRow(w, v)
    BY <2>1 DEF SameRow
  <2>. QED
    BY <1>9, <2>1, <2>2 DEF Spoken
<1>11. \A o \in Waiting', w \in Words' : w.key = o.key => w.ts <= o.ts
  <2>1. SUFFICES ASSUME NEW o \in Snapshot(f), NEW w \in Words, w.key = o.key PROVE w.ts <= o.ts
    BY <1>2 DEF Spoken
  <2>. QED
    BY <1>5, <2>1 DEF Spoken, AsPublished
<1>12. \A o, p \in Waiting' : o.key = p.key => o = p
  <2>1. SUFFICES ASSUME NEW o \in Waiting', NEW p \in Waiting', o.key = p.key PROVE o = p
    OBVIOUS
  <2>2. \A q \in Waiting : FeedOf[q.key] # f
    BY <1>1 DEF Waiting, Spoken
  <2>. QED
    BY <1>2, <1>5, <2>1, <2>2 DEF Spoken
<1>. QED
  BY <1>6, <1>8, <1>10, <1>11, <1>12 DEF Spoken, SameRow

(* What a feed publishes is newer than all its words.                      *)
LEMMA PublishSpeaks ==
  ASSUME TypeOK, ~HeaderRegresses, Spoken, NEW f \in Feed, Publish(f)
  PROVE  Spoken'
<1>1. PICK ts \in 1..MaxTS : ts > headerTS[f] /\ headerTS' = [headerTS EXCEPT ![f] = ts]
  BY DEF Publish
<1>2. \A k \in Key : FeedOf[k] # f => says'[k] = says[k]
  BY DEF Publish
<1>3. UNCHANGED <<timetable, todo, offer, queue, batch, rows>>
  BY DEF Publish, pollerVars, writerVars, storeVars
<1>4. Words' = Words /\ Waiting' = Waiting
  BY <1>3 DEF Words, Waiting, Outstanding, Accepted
<1>5. \A w \in Words \cup Waiting : w \in Observation
  BY FreshTyped DEF Words, Waiting, Outstanding, Accepted, TypeOK, Range
<1>6. ASSUME NEW w \in Words \cup Waiting PROVE AsPublished(w)'
  <2>1. w.key \in Key /\ w.ts \in Int /\ FeedOf[w.key] \in Feed /\ AsPublished(w)
    BY <1>5, PipelineConstants DEF Spoken, Observation
  <2>2. \A g \in Feed : headerTS[g] \in Int
    BY DEF TypeOK
  <2>3. CASE FeedOf[w.key] = f
    <3>1. headerTS'[FeedOf[w.key]] = ts /\ ts \in Int
      BY <1>1, <2>3 DEF TypeOK
    <3>. QED
      BY <1>1, <2>1, <2>2, <2>3, <3>1 DEF AsPublished
  <2>4. CASE FeedOf[w.key] # f
    <3>1. headerTS'[FeedOf[w.key]] = headerTS[FeedOf[w.key]] /\ says'[w.key] = says[w.key]
      BY <1>1, <1>2, <2>1, <2>4 DEF TypeOK
    <3>2. Observe(w.key)' = Observe(w.key)
      BY <1>3, <3>1 DEF Observe
    <3>. QED
      BY <2>1, <3>1, <3>2 DEF AsPublished
  <2>. QED
    BY <2>3, <2>4
<1>. QED
  BY <1>3, <1>4, <1>6 DEF Spoken, SameRow

(* Every step keeps the order of the words. *)
LEMMA WordsStep ==
  ASSUME ~HeaderRegresses, TimetableStays, BatchesApplied, TypeOK, WordsInv, [Next]_vars
  PROVE  WordsInv'
<1>1. TypeOK /\ Spoken /\ Carried /\ Begun
  BY DEF WordsInv
<1>. DEFINE Quiet == /\ UNCHANGED <<headerTS, says, timetable, main>>
                     /\ \A f \in Feed : todo'[f] \subseteq todo[f]
<1>2. ASSUME Quiet, Words' = Words, UNCHANGED entries, Begun' PROVE WordsInv'
  <2>1. Spoken'
    BY <1>1, <1>2, SpokenStays
  <2>2. Carried'
    BY <1>1, <1>2, CarriedStays DEF Known, WriterCancelled
  <2>. QED
    BY <1>2, <2>1, <2>2 DEF WordsInv
<1>3. ASSUME UNCHANGED <<writer, attempt, main>> PROVE Begun'
  BY <1>1, <1>3 DEF Begun, Writing, WriterCancelled
<1>4. ASSUME UNCHANGED <<offer, queue, batch, rows>> PROVE Words' = Words
  BY <1>4 DEF Words, Outstanding, Accepted
<1>5. ASSUME NEW f \in Feed, Publish(f) PROVE WordsInv'
  <2>1. UNCHANGED <<entries, offer, queue, batch, rows, writer, attempt, main>>
    BY <1>5 DEF Publish, filterVars, pollerVars, writerVars, storeVars
  <2>2. Carried'
    BY <1>1, <1>4, <2>1, CarriedStays DEF Known, WriterCancelled
  <2>. QED
    BY <1>1, <1>3, <1>5, <2>1, <2>2, PublishSpeaks DEF WordsInv
<1>6. ASSUME NEW f \in Feed, Poll(f) PROVE WordsInv'
  <2>1. UNCHANGED <<entries, offer, queue, batch, rows, writer, attempt, main>>
    BY <1>6 DEF Poll, filterVars, writerVars, storeVars
  <2>2. Carried'
    BY <1>1, <1>4, <2>1, CarriedStays DEF Known, WriterCancelled
  <2>. QED
    BY <1>1, <1>3, <1>6, <2>1, <2>2, PollSpeaks DEF WordsInv
<1>7. ASSUME NEW f \in Feed, NEW o \in todo[f], Suppress(f, o) PROVE WordsInv'
  <2>1. UNCHANGED <<headerTS, says, timetable, entries, offer, queue, batch, rows, writer, attempt, main>>
    BY <1>7 DEF Suppress, sourceVars, filterVars, writerVars, storeVars
  <2>2. \A g \in Feed : todo'[g] \subseteq todo[g]
    BY <1>1, <1>7 DEF Suppress, Take, TypeOK
  <2>. QED
    BY <1>2, <1>3, <1>4, <2>1, <2>2
<1>8. ASSUME NEW f \in Feed, NEW o \in todo[f], Admit(f, o) PROVE WordsInv'
  <2>1. UNCHANGED <<headerTS, says, timetable, writer, attempt, main>>
    BY <1>8 DEF Admit, sourceVars, writerVars
  <2>2. Words' = Words \cup {o} /\ todo' = [todo EXCEPT ![f] = @ \ {o}] /\ o \in Waiting
    BY <1>1, <1>8, AdmitWords DEF Waiting
  <2>3. \A g \in Feed : todo'[g] \subseteq todo[g]
    BY <2>2 DEF TypeOK
  <2>4. Spoken'
    BY <1>1, <2>1, <2>2, <2>3, SpokenStays
  <2>. QED
    BY <1>1, <1>3, <1>8, <2>1, <2>4, AdmitCarries DEF WordsInv
<1>9. ASSUME NEW f \in Feed, Send(f) PROVE WordsInv'
  <2>1. UNCHANGED <<headerTS, says, timetable, todo, entries, writer, attempt, main>>
    BY <1>9 DEF Send, sourceVars, filterVars, writerVars
  <2>. QED
    BY <1>1, <1>2, <1>3, <1>9, <2>1, SendWords
<1>10. ASSUME NEW f \in Feed, Refuse(f) PROVE WordsInv'
  <2>1. /\ offer' = [offer EXCEPT ![f] = None]
        /\ UNCHANGED <<headerTS, says, timetable, todo, queue, batch, rows, writer, attempt, main>>
    BY <1>10 DEF Refuse, sourceVars, writerVars, storeVars
  <2>2. /\ entries' = [k \in Key |-> IF k \in {offer[f].key} THEN NoEntry ELSE entries[k]]
        /\ Known' = Known \ {offer[f].key}
    BY <1>1, <1>10, RemoveEffect DEF Refuse, Forget, Remove, TypeOK
  <2>3. Words' \subseteq Words /\ Words \subseteq Words' \cup {offer[f]}
    BY <1>1, <2>1 DEF Words, Outstanding, Accepted, TypeOK
  <2>4. Spoken'
    BY <1>1, <2>1, <2>3, SpokenStays
  <2>5. \A k \in Known' : k \in Known /\ entries'[k] = entries[k]
    BY <2>2 DEF Known
  <2>6. \A w \in Words \cup Words' : w.key \in Known' => (w \in Words <=> w \in Words')
    BY <2>2, <2>3
  <2>7. WriterCancelled => WriterCancelled'
    BY <2>1 DEF WriterCancelled
  <2>8. Carried'
    BY <1>1, <2>5, <2>6, <2>7, CarriedStays
  <2>. QED
    BY <1>3, <2>1, <2>4, <2>8 DEF WordsInv
<1>11. CASE ExpireFilter
  <2>1. UNCHANGED <<headerTS, says, timetable, todo, offer, queue, batch, rows, writer, attempt, main>>
    BY <1>11 DEF ExpireFilter, sourceVars, pollerVars, writerVars, storeVars
  <2>2. \A k \in Known' : k \in Known /\ entries'[k] = entries[k]
    BY <1>11 DEF ExpireFilter, ExpireBefore, Remove, Known
  <2>3. Words' = Words
    BY <1>4, <2>1
  <2>4. Spoken'
    BY <1>1, <2>1, <2>3, SpokenStays
  <2>5. Carried'
    BY <1>1, <2>1, <2>2, <2>3, CarriedStays DEF WriterCancelled
  <2>. QED
    BY <1>3, <2>1, <2>4, <2>5 DEF WordsInv
<1>12. CASE Receive \/ FlushInterval \/ Finish
  <2>1. UNCHANGED <<headerTS, says, timetable, todo, entries, main>>
    BY <1>12 DEF Receive, FlushInterval, Finish, sourceVars, filterVars, pollerVars
  <2>2. Words' = Words
    <3>1. CASE Receive
      BY <1>1, <3>1, ReceiveWords
    <3>2. CASE FlushInterval \/ Finish
      BY <1>4, <3>2 DEF FlushInterval, Finish, pollerVars, storeVars
    <3>. QED
      BY <1>12, <3>1, <3>2
  <2>3. Begun'
    BY <1>1, <1>12, <2>1 DEF Begun, BeginWrite, Receive, FlushInterval, Finish, Writing, WriterCancelled
  <2>. QED
    BY <1>2, <2>1, <2>2, <2>3
<1>13. CASE WriteSucceeds \/ WriteFails
  <2>1. PICK stored \in {{}, Fresh} : Settle(stored) /\ (stored = Fresh \/ WriterCancelled)
    BY <1>1, <1>13 DEF WriteSucceeds, WriteFails, NotApplied, BatchesApplied, Begun
  <2>2. UNCHANGED <<headerTS, says, timetable, todo, entries, main>> /\ ~Writing'
    BY <1>13, <2>1 DEF Settle, sourceVars, filterVars, pollerVars, Writing, WriteSucceeds, WriteFails
  <2>3. Words' \subseteq Words /\ (stored = Fresh => Words' = Words)
    BY <1>1, <2>1, SettleWords
  <2>4. Spoken'
    BY <1>1, <2>2, <2>3, SpokenStays
  <2>5. Carried'
    <3>1. CASE WriterCancelled
      BY <2>2, <3>1 DEF Carried, WriterCancelled
    <3>2. CASE stored = Fresh
      BY <1>1, <2>2, <2>3, <3>2, CarriedStays DEF Known, WriterCancelled
    <3>. QED
      BY <2>1, <3>1, <3>2
  <2>. QED
    BY <2>2, <2>4, <2>5 DEF WordsInv, Begun
<1>14. CASE WriteRetries
  <2>1. UNCHANGED <<headerTS, says, timetable, todo, entries, offer, queue, batch, rows, main>>
    BY <1>14 DEF WriteRetries, sourceVars, filterVars, pollerVars, storeVars
  <2>2. Begun'
    BY <1>14 DEF WriteRetries, Begun, BatchesApplied
  <2>. QED
    BY <1>2, <1>4, <2>1, <2>2
<1>15. CASE MainStep \/ Shutdown
  <2>1. UNCHANGED <<headerTS, says, timetable, todo, entries, offer, queue, batch, rows, attempt>>
    BY <1>15 DEF MainStep, Start, CloseUnstarted, CloseChannel, GraceExpires, Closed,
         Shutdown, Advance, sourceVars, filterVars, pollerVars, storeVars
  <2>2. WriterCancelled => WriterCancelled'
    BY <1>15 DEF MainStep, Start, CloseUnstarted, CloseChannel, GraceExpires, Closed,
         Shutdown, Advance, WriterCancelled
  <2>3. Writing' => Writing
    BY <1>15 DEF MainStep, Start, CloseUnstarted, CloseChannel, GraceExpires, Closed,
         Shutdown, Advance, Writing
  <2>4. Words' = Words
    BY <1>4, <2>1
  <2>5. Spoken'
    BY <1>1, <2>1, <2>4, SpokenStays
  <2>6. Carried'
    BY <1>1, <2>1, <2>2, <2>4, CarriedStays DEF Known
  <2>. QED
    BY <1>1, <2>1, <2>2, <2>3, <2>5, <2>6 DEF WordsInv, Begun
<1>16. CASE Crash
  <2>1. /\ todo' = [g \in Feed |-> {}] /\ offer' = [g \in Feed |-> None]
        /\ entries' = [k \in Key |-> NoEntry]
        /\ queue' = <<>> /\ batch' = <<>> /\ writer' = "unstarted"
        /\ UNCHANGED <<headerTS, says, timetable>>
    BY <1>16 DEF Crash, sourceVars
  <2>2. rows' = rows \/ rows' = rows \cup Fresh
    BY <1>16 DEF Crash
  <2>3. Outstanding' = {} /\ Fresh \subseteq Range(batch)
    BY <1>1, <2>1, FreshTyped DEF Outstanding, Accepted, Range
  <2>4. Words' \subseteq Words
    BY <2>2, <2>3 DEF Words, Outstanding, Accepted
  <2>5. \A g \in Feed : todo'[g] \subseteq todo[g]
    BY <2>1
  <2>6. Spoken'
    BY <1>1, <2>1, <2>4, <2>5, SpokenStays
  <2>7. Carried'
    BY <2>1 DEF Carried, Known
  <2>8. Begun'
    BY <2>1 DEF Begun, Writing
  <2>. QED
    BY <2>6, <2>7, <2>8 DEF WordsInv
<1>17. ASSUME NEW f \in Feed, StopPoller(f) PROVE WordsInv'
  <2>1. UNCHANGED <<headerTS, says, timetable, todo, entries, offer, queue, batch, rows, writer, attempt, main>>
    BY <1>17 DEF StopPoller, sourceVars, filterVars, writerVars, storeVars
  <2>. QED
    BY <1>2, <1>3, <1>4, <2>1
<1>18. CASE Swap
  BY <1>1, <1>18 DEF Swap, TimetableStays, TypeOK
<1>19. CASE NextDay \/ Exited \/ UNCHANGED vars
  <2>1. UNCHANGED <<headerTS, says, timetable, todo, entries, offer, queue, batch, rows, writer, attempt, main>>
    BY <1>19 DEF NextDay, Exited, vars, sourceVars, filterVars, pollerVars, writerVars, storeVars
  <2>. QED
    BY <1>2, <1>3, <1>4, <2>1
<1>. QED
  BY <1>5, <1>6, <1>7, <1>8, <1>9, <1>10, <1>11, <1>12, <1>13, <1>14, <1>15, <1>16, <1>17,
     <1>18, <1>19
  DEF Next, PollerStep, WriterStep

(* While the server knows one timetable, no feed's clock goes back and no  *)
(* batch is given up, a value that the table's final word on its key lacks *)
(* and that nothing carries is never held back: not by an eviction, a full *)
(* channel, a race of the shutdown or a crash that took the last batch     *)
(* (filter.go:54-57, writer.go:150-153).                                   *)
THEOREM MissingAdmitted ==
  ASSUME DelaysInRange, ~HeaderRegresses, TimetableStays, BatchesApplied
  PROVE  Spec => []MissingIsAdmitted
<1>1. Init => WordsInv
  <2>1. SUFFICES ASSUME Init PROVE WordsInv
    OBVIOUS
  <2>2. Words = {} /\ Waiting = {} /\ Known = {} /\ \A f \in Feed : todo[f] = {}
    BY <2>1 DEF Init, FilterInit, Words, Waiting, Outstanding, Accepted, Range, Known
  <2>. QED
    BY <2>1, <2>2 DEF Init, WordsInv, Spoken, Carried, Begun, Writing
<1>2. TypeOK /\ WordsInv /\ [Next]_vars => WordsInv'
  BY WordsStep
<1>3. Spec => []WordsInv
  BY <1>1, <1>2, TypeCorrect, PTL DEF Spec
<1>4. TypeOK /\ NoSendAfterClose /\ WordsInv => MissingIsAdmitted
  <2>1. SUFFICES ASSUME TypeOK, NoSendAfterClose, WordsInv, NEW f \in Feed, NEW o \in todo[f],
                        \A p \in Outstanding : p.key # o.key,
                        \A r \in FinalWord(o.key) : ~Near(r.value, o.value),
                        o.key \in Known
                 PROVE  Changed(entries[o.key], o.value)
    BY DEF MissingIsAdmitted, Admits
  <2>2. ~WriterCancelled
    BY <2>1 DEF NoSendAfterClose, ChannelClosed, WriterCancelled
  <2>3. PICK w \in Words : w.key = o.key /\ w.value = entries[o.key] /\ Newest(w)
    BY <2>1, <2>2 DEF WordsInv, Carried, Remembered
  <2>4. w \in rows
    BY <2>1, <2>3 DEF Words
  <2>5. w \in FinalWord(o.key)
    BY <2>3, <2>4 DEF FinalWord, Newest, Words
  <2>6. o.value \in Value /\ w.value \in Value
    BY <2>1, <2>4 DEF TypeOK, Observation
  <2>. QED
    BY <2>1, <2>3, <2>5, <2>6, UnchangedIsNear
<1>. QED
  BY <1>3, <1>4, TypeCorrect, SafeClose, PTL
=============================================================================
