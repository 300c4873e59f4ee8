------------------------- MODULE MaintenanceProofs -------------------------
(* Theorems about Maintenance: two instances never take the watermark back *)
(* and never count an hour anew. The argument: a job that holds the lock   *)
(* has a window that begins at the watermark and ends beyond it, nobody    *)
(* else moves the watermark meanwhile, and the words it has selected lie   *)
(* in that window. From there, and from assumptions on what the writer may *)
(* still write, no row is lost and every settled word is counted.          *)
EXTENDS Maintenance, TLAPS, FiniteSetTheorems, WellFoundedInduction

USE DEF Hour, Sentinel, Place

(* The invariant of the rows: what is in the table or on its way there is  *)
(* a row, so its hour is one of the model's.                               *)
RowsTyped ==
  /\ now \in Hour
  /\ default \subseteq Row /\ daily \subseteq Row
  /\ inflight # None => inflight.row \in Row
  /\ copied \in [Job -> SUBSET Row]

(* The invariant of the rollup. pc tells who holds the lock; his window    *)
(* begins at the watermark or after and is not empty.                      *)
WindowHeld ==
  /\ watermark \in Int /\ Sentinel <= watermark
  /\ hourly \in [Hour -> SUBSET Row]
  /\ lock \in Job \cup {None}
  /\ pc \in [Job -> Place]
  /\ from \in [Job -> Int] /\ to \in [Job -> Int] /\ final \in [Job -> SUBSET Row]
  /\ \A j \in Job : pc[j] \in {"rolling", "selected"} <=> lock = j
  /\ \A j \in Job : lock = j => watermark <= from[j] /\ from[j] < to[j]
  /\ \A j \in Job : \A r \in final[j] : pc[j] = "selected" => from[j] <= Bucket(r)

IInv == RowsTyped /\ WindowHeld

(* A row is bucketed in an hour.                                           *)
LEMMA BucketInHour == \A r \in Row : Bucket(r) \in Hour
BY DEF Row, Bucket

(* Some hours have a first.                                                *)
LEMMA LeastHour == ASSUME NEW S, S \subseteq Nat, S # {} PROVE \E n \in S : \A m \in S : n <= m
<1> DEFINE Below(n) == 0..(n - 1)
           Segments == {Below(n) : n \in S}
<1>1. IsWellFoundedOn(StrictSubsetOrdering(Nat), FiniteSubsetsOf(Nat))
  BY FS_StrictSubsetOrderingWellFounded
<1>2. \A n \in Nat : Below(n) \in FiniteSubsetsOf(Nat)
  <2>1. \A n \in Nat : IsFiniteSet(Below(n)) BY FS_Interval
  <2> QED BY <2>1 DEF FiniteSubsetsOf
<1>3. Segments \subseteq FiniteSubsetsOf(Nat) /\ Segments # {}
  <2>1. \A n \in S : Below(n) \in FiniteSubsetsOf(Nat) BY <1>2
  <2>2. PICK n \in S : TRUE OBVIOUS
  <2>3. Below(n) \in Segments BY <2>2
  <2> HIDE DEF Below
  <2> QED BY <2>1, <2>3
<1>4. PICK A \in Segments : \A B \in Segments : ~(<<B, A>> \in StrictSubsetOrdering(Nat))
  BY <1>1, <1>3, WFMin
<1>5. PICK n \in S : A = Below(n) BY <1>4
<1>6. \A m \in S : n <= m
  <2>1. SUFFICES ASSUME NEW m \in S, m < n PROVE FALSE OBVIOUS
  <2>2. m \in Nat /\ n \in Nat OBVIOUS
  <2>3. Below(m) \subseteq Below(n) /\ m \in Below(n) /\ m \notin Below(m) BY <2>1, <2>2
  <2>4. Below(m) \in SUBSET Nat /\ Below(n) \in SUBSET Nat BY <2>2
  <2>5. <<Below(m), Below(n)>> \in StrictSubsetOrdering(Nat)
    BY <2>3, <2>4 DEF StrictSubsetOrdering
  <2> QED BY <1>4, <1>5, <2>5
<1> QED BY <1>6

(* The first of some hours is one of them (the first run's window begins   *)
(* at the oldest row, rollup.go:46-57), and so is the first of some dates. *)
LEMMA FirstOfHours == ASSUME NEW S, S \subseteq Nat, S # {} PROVE First(S) \in S
BY LeastHour DEF First

LEMMA FirstOfDates == ASSUME NEW S, S \subseteq Date, S # {} PROVE First(S) \in S
<1> DEFINE T == {d + 1 : d \in S}
<1>1. \A d \in S : d \in Int /\ d >= -1 BY DEF Date
<1>2. T \subseteq Nat /\ T # {} BY <1>1
<1> HIDE DEF T
<1>3. PICK n \in T : \A m \in T : n <= m BY <1>2, LeastHour
<1>4. PICK d \in S : n = d + 1 BY DEF T
<1>5. \A e \in S : d <= e
  <2>1. SUFFICES ASSUME NEW e \in S PROVE d <= e OBVIOUS
  <2>2. e + 1 \in T BY DEF T
  <2> QED BY <1>1, <1>3, <1>4, <2>2
<1> QED BY <1>5 DEF First

(* A window that is due begins at the watermark or after, and is not empty *)
(* (rollup.go:45-63).                                                      *)
LEMMA DueWindow ==
  ASSUME RowsTyped, WindowHeld, Due
  PROVE  /\ WindowStart \in Int /\ WindowEnd \in Int
         /\ watermark <= WindowStart /\ WindowStart < WindowEnd
<1>1. WindowEnd \in Int BY MaintenanceConstants DEF WindowEnd, RowsTyped
<1>2. WindowStart \in Int /\ watermark <= WindowStart
  <2>1. CASE watermark = Sentinel /\ Table # {}
    <3> DEFINE S == {Bucket(r) : r \in Table}
    <3>1. S \subseteq Nat /\ S # {} BY <2>1, BucketInHour DEF Table, RowsTyped
    <3>2. First(S) \in S BY <3>1, FirstOfHours
    <3> QED BY <2>1, <3>1, <3>2 DEF WindowStart
  <2>2. CASE ~(watermark = Sentinel /\ Table # {}) BY <2>2 DEF WindowStart, WindowHeld
  <2> QED BY <2>1, <2>2
<1> QED BY <1>1, <1>2 DEF Due

(* Typed rows stay typed.                                                  *)
LEMMA RowsTypedStep == ASSUME IInv, [Next]_vars PROVE RowsTyped'
<1> USE DEF IInv, RowsTyped
<1>1. CASE UNCHANGED vars BY <1>1 DEF vars, tableVars, moveVars
<1>2. ASSUME NEW v \in Live, NEW m \in Matched, Insert(v, m) PROVE RowsTyped'
  <2>1. [visit |-> v, ts |-> now, at |-> IF m THEN ScheduledAt[v] ELSE None] \in Row
    BY MaintenanceConstants DEF Row
  <2> QED BY <1>2, <2>1 DEF Insert, tableVars, moveVars
<1>3. CASE Commit BY <1>3 DEF Commit, moveVars
<1>4. CASE Rollback BY <1>4 DEF Rollback, tableVars, moveVars
<1>5. CASE HourPasses BY <1>5, MaintenanceConstants DEF HourPasses, tableVars, moveVars
<1>6. ASSUME NEW j \in Job, JobStep(j) PROVE RowsTyped'
  <2>1. CASE Create(j) BY <2>1 DEF Create, moveVars
  <2>2. CASE Copy(j) BY <2>2 DEF Copy, tableVars, On
  <2>3. CASE Delete(j) BY <2>3 DEF Delete, tableVars
  <2>4. CASE Attach(j) BY <2>4 DEF Attach
  <2>5. CASE EnsureFails(j) BY <2>5 DEF EnsureFails, tableVars
  <2>6. CASE StartTick(j) \/ EnsureEnds(j) \/ Check(j) \/ Skip(j) \/ TickEnds(j)
    BY <2>6 DEF StartTick, EnsureEnds, Check, Skip, TickEnds, tableVars, moveVars
  <2>7. CASE RollBegin(j) \/ Select(j) \/ RollCommit(j) \/ NothingDue(j) \/ RollFails(j)
    BY <2>7 DEF RollBegin, Select, RollCommit, NothingDue, RollFails, tableVars, moveVars
  <2>8. CASE Drop(j) BY <2>8 DEF Drop, moveVars
  <2> QED BY <1>6, <2>1, <2>2, <2>3, <2>4, <2>5, <2>6, <2>7, <2>8 DEF JobStep
<1> QED BY <1>1, <1>2, <1>3, <1>4, <1>5, <1>6 DEF Next

(* What a selection finds lies in its window (rollup.go:73-86).            *)
LEMMA FinalsInWindow ==
  ASSUME RowsTyped, NEW f \in Int, NEW t \in Int
  PROVE  /\ Finals(f, t) \subseteq Row
         /\ \A r \in Finals(f, t) : f <= Bucket(r)
BY DEF RowsTyped, Finals, LastWords, Candidates, Table

(* A step of a tick outside the rollup leaves the window held.             *)
LEMMA ElsewhereKeepsWindow ==
  ASSUME WindowHeld, UNCHANGED rollupVars, NEW j \in Job, NEW p \in Place,
         pc[j] \notin {"rolling", "selected"}, p \notin {"rolling", "selected"},
         pc' = [pc EXCEPT ![j] = p]
  PROVE  WindowHeld'
<1> USE DEF WindowHeld, rollupVars
<1>1. pc' \in [Job -> Place] OBVIOUS
<1>2. \A i \in Job : pc'[i] \in {"rolling", "selected"} <=> pc[i] \in {"rolling", "selected"}
  OBVIOUS
<1>3. \A i \in Job : pc'[i] = "selected" => pc[i] = "selected" OBVIOUS
<1> QED BY <1>1, <1>2, <1>3 DEF Bucket

(* The lock holder's window stays beyond the watermark: only he moves it,  *)
(* and whoever takes the lock next begins where it stands.                 *)
LEMMA WindowHeldStep == ASSUME IInv, [Next]_vars PROVE WindowHeld'
<1>0. RowsTyped /\ WindowHeld BY DEF IInv
<1>1. CASE UNCHANGED vars BY <1>0, <1>1 DEF vars, rollupVars, WindowHeld, Bucket
<1>2. ASSUME NEW v \in Live, NEW m \in Matched, Insert(v, m) PROVE WindowHeld'
  BY <1>0, <1>2 DEF Insert, rollupVars, WindowHeld, Bucket
<1>3. CASE Commit \/ Rollback \/ HourPasses
  BY <1>0, <1>3 DEF Commit, Rollback, HourPasses, rollupVars, WindowHeld, Bucket
<1>4. ASSUME NEW j \in Job, JobStep(j) PROVE WindowHeld'
  <2>1. CASE StartTick(j) BY <2>1, <1>0, ElsewhereKeepsWindow DEF StartTick, Goto
  <2>2. CASE Create(j) BY <1>0, <2>2 DEF Create, rollupVars, WindowHeld, Bucket
  <2>3. CASE Copy(j) BY <2>3, <1>0, ElsewhereKeepsWindow DEF Copy, Goto
  <2>4. CASE Delete(j) BY <2>4, <1>0, ElsewhereKeepsWindow DEF Delete, Goto
  <2>5. CASE Attach(j) BY <2>5, <1>0, ElsewhereKeepsWindow DEF Attach, Goto
  <2>6. CASE EnsureFails(j) BY <2>6, <1>0, ElsewhereKeepsWindow DEF EnsureFails, Goto
  <2>7. CASE EnsureEnds(j) BY <2>7, <1>0, ElsewhereKeepsWindow DEF EnsureEnds, Goto
  <2>8. CASE RollBegin(j)
    <3>1. /\ WindowStart \in Int /\ WindowEnd \in Int
          /\ watermark <= WindowStart /\ WindowStart < WindowEnd
      BY <1>0, <2>8, DueWindow DEF RollBegin
    <3>2. lock = None /\ lock' = j /\ pc' = [pc EXCEPT ![j] = "rolling"] BY <2>8 DEF RollBegin, Goto
    <3>3. /\ from' = [from EXCEPT ![j] = WindowStart] /\ to' = [to EXCEPT ![j] = WindowEnd]
          /\ UNCHANGED <<watermark, hourly, final>>
      BY <2>8 DEF RollBegin
    <3>4. \A i \in Job : pc'[i] \in {"rolling", "selected"} <=> lock' = i
      BY <1>0, <3>2, MaintenanceConstants DEF WindowHeld
    <3>5. \A i \in Job : pc'[i] # "selected"
      BY <1>0, <3>2, MaintenanceConstants DEF WindowHeld
    <3> QED BY <1>0, <3>1, <3>2, <3>3, <3>4, <3>5 DEF WindowHeld
  <2>9. CASE Select(j)
    <3>1. /\ Finals(from[j], to[j]) \subseteq Row
          /\ \A r \in Finals(from[j], to[j]) : from[j] <= Bucket(r)
      BY <1>0, FinalsInWindow DEF WindowHeld
    <3>2. /\ pc[j] = "rolling" /\ pc' = [pc EXCEPT ![j] = "selected"]
          /\ final' = [final EXCEPT ![j] = Finals(from[j], to[j])]
          /\ UNCHANGED <<watermark, hourly, lock, from, to>>
      BY <2>9 DEF Select, Goto
    <3>3. \A i \in Job : \A r \in final'[i] : pc'[i] = "selected" => from'[i] <= Bucket(r)'
      BY <1>0, <3>1, <3>2 DEF WindowHeld, Bucket
    <3> QED BY <1>0, <3>1, <3>2, <3>3 DEF WindowHeld
  <2>10. CASE RollCommit(j)
    <3>1. /\ pc[j] = "selected" /\ pc' = [pc EXCEPT ![j] = "drop"] /\ lock' = None
          /\ watermark' = to[j] /\ final' = [final EXCEPT ![j] = {}]
          /\ from' = [from EXCEPT ![j] = Sentinel] /\ to' = [to EXCEPT ![j] = Sentinel]
      BY <2>10 DEF RollCommit, Goto
    <3>2. lock = j /\ watermark < to[j] BY <1>0, <3>1 DEF WindowHeld
    <3>3. hourly' \in [Hour -> SUBSET Row] BY <1>0, <2>10 DEF RollCommit, InHour, WindowHeld
    <3>4. \A i \in Job : pc'[i] \notin {"rolling", "selected"} /\ lock' # i
      BY <1>0, <3>1, <3>2, MaintenanceConstants DEF WindowHeld
    <3> QED BY <1>0, <3>1, <3>2, <3>3, <3>4 DEF WindowHeld
  <2>11. CASE NothingDue(j) BY <2>11, <1>0, ElsewhereKeepsWindow DEF NothingDue, Goto
  <2>12. CASE RollFails(j)
    <3>1. /\ pc' = [pc EXCEPT ![j] = "idle"] /\ lock' = (IF lock = j THEN None ELSE lock)
          /\ final' = [final EXCEPT ![j] = {}]
          /\ from' = [from EXCEPT ![j] = Sentinel] /\ to' = [to EXCEPT ![j] = Sentinel]
          /\ UNCHANGED <<watermark, hourly>>
      BY <2>12 DEF RollFails
    <3>2. \A i \in Job : pc'[i] \in {"rolling", "selected"} <=> lock' = i
      BY <1>0, <3>1, MaintenanceConstants DEF WindowHeld
    <3>3. \A i \in Job \ {j} : from'[i] = from[i] /\ to'[i] = to[i] /\ final'[i] = final[i] /\ pc'[i] = pc[i]
      BY <1>0, <3>1 DEF WindowHeld
    <3>4. lock' # j BY <3>1, MaintenanceConstants
    <3> QED BY <1>0, <3>1, <3>2, <3>3, <3>4 DEF WindowHeld, Bucket
  <2>13. CASE Check(j) BY <2>13, <1>0, ElsewhereKeepsWindow DEF Check, Goto
  <2>14. CASE Skip(j) BY <1>0, <2>14 DEF Skip, rollupVars, WindowHeld, Bucket
  <2>15. CASE Drop(j) BY <2>15, <1>0, ElsewhereKeepsWindow DEF Drop, Goto
  <2>16. CASE TickEnds(j) BY <2>16, <1>0, ElsewhereKeepsWindow DEF TickEnds, Goto
  <2> QED
    BY <1>4, <2>1, <2>2, <2>3, <2>4, <2>5, <2>6, <2>7, <2>8, <2>9, <2>10, <2>11, <2>12, <2>13,
       <2>14, <2>15, <2>16 DEF JobStep
<1> QED BY <1>1, <1>2, <1>3, <1>4 DEF Next

(* The rows are typed and the window is held in every state.               *)
THEOREM RollupInvariant == Spec => []IInv
<1>1. Init => IInv
  <2> SUFFICES ASSUME Init PROVE IInv OBVIOUS
  <2>1. default \subseteq Row BY MaintenanceConstants DEF Init, Row
  <2>2. RowsTyped BY <2>1, MaintenanceConstants DEF Init, RowsTyped
  <2>3. WindowHeld BY MaintenanceConstants DEF Init, WindowHeld
  <2> QED BY <2>2, <2>3 DEF IInv
<1>2. IInv /\ [Next]_vars => IInv'
  BY RowsTypedStep, WindowHeldStep DEF IInv
<1> QED BY <1>1, <1>2, PTL DEF Spec

(* Only a commit moves the watermark or an hourly row, and it does so      *)
(* beyond where the watermark stood.                                       *)
LEMMA OnlyCommits ==
  ASSUME IInv, [Next]_vars
  PROVE  \/ UNCHANGED <<watermark, hourly>>
         \/ /\ watermark' >= watermark
            /\ \A h \in Hour : h < watermark => hourly'[h] = hourly[h]
<1>1. ASSUME NEW j \in Job, RollCommit(j)
      PROVE  /\ watermark' >= watermark
             /\ \A h \in Hour : h < watermark => hourly'[h] = hourly[h]
  <2> USE DEF IInv, WindowHeld
  <2>1. pc[j] = "selected" /\ lock = j /\ watermark <= from[j] /\ from[j] < to[j]
    BY <1>1 DEF RollCommit, Goto
  <2>2. watermark' >= watermark BY <1>1, <2>1 DEF RollCommit
  <2>3. ASSUME NEW h \in Hour, h < watermark PROVE hourly'[h] = hourly[h]
    <3>1. InHour(final[j], h) = {}
      <4>1. \A r \in final[j] : from[j] <= Bucket(r) /\ Bucket(r) \in Int
        BY <2>1, BucketInHour
      <4> QED BY <2>1, <2>3, <4>1 DEF InHour
    <3> QED BY <1>1, <3>1 DEF RollCommit
  <2> QED BY <2>2, <2>3
<1>2. ASSUME NEW j \in Job, JobStep(j), ~RollCommit(j) PROVE UNCHANGED <<watermark, hourly>>
  BY <1>2 DEF JobStep, StartTick, Create, Copy, Delete, Attach, EnsureFails, EnsureEnds, RollBegin,
    Select, NothingDue, RollFails, Check, Skip, Drop, TickEnds, rollupVars
<1>3. ASSUME NEW v \in Live, NEW m \in Matched, Insert(v, m) PROVE UNCHANGED <<watermark, hourly>>
  BY <1>3 DEF Insert, rollupVars
<1>4. CASE Commit \/ Rollback \/ HourPasses \/ UNCHANGED vars
  BY <1>4 DEF Commit, Rollback, HourPasses, vars, rollupVars
<1> QED BY <1>1, <1>2, <1>3, <1>4 DEF Next

(* Two instances never take the watermark back (rollup.go:40-42).          *)
THEOREM WatermarkNeverGoesBack == Spec => WatermarkAdvances
<1>1. IInv /\ [Next]_vars => [watermark' >= watermark]_watermark
  BY OnlyCommits
<1> QED BY <1>1, RollupInvariant, PTL DEF Spec, WatermarkAdvances

(* An hour the watermark has passed is never counted anew (job.go:31-32).  *)
THEOREM HoursAreFinal == Spec => HoursFinal
<1>1. IInv /\ [Next]_vars => [\A h \in Hour : h < watermark => hourly'[h] = hourly[h]]_hourly
  BY OnlyCommits
<1> QED BY <1>1, RollupInvariant, PTL DEF Spec, HoursFinal

-----------------------------------------------------------------------------
(* Type correctness: beside what the rollup's argument needs, the dates,   *)
(* the row on its way and the histories.  A move has a date to attach.     *)
RestTyped ==
  /\ partitions \subseteq Date
  /\ inflight = None \/ inflight \in [row : Row, leaf : Date \cup {None}]
  /\ watermark \in Hour \cup {Sentinel}
  /\ today \in [Job -> Date] /\ dates \in [Job -> SUBSET Date]
  /\ deleted \in [Job -> SUBSET Row]
  /\ from \in [Job -> Hour \cup {Sentinel}] /\ to \in [Job -> Hour \cup {Sentinel}]
  /\ stored \subseteq Row /\ timely \subseteq stored /\ dropped \subseteq Date
  /\ pc \in [Job -> Place]
  /\ \A j \in Job : pc[j] \in {"copied", "deleted"} => dates[j] # {}

LEMMA DaysOfHours == \A h \in Hour : DayOf(h) \in Int /\ 0 <= DayOf(h) /\ DayOf(h) <= DayOf(LastHour)
<1>1. SUFFICES ASSUME NEW h \in Hour
               PROVE  DayOf(h) \in Int /\ 0 <= DayOf(h) /\ DayOf(h) <= DayOf(LastHour)
  OBVIOUS
<1> DEFINE q == h \div HoursPerDay
           l == LastHour \div HoursPerDay
<1>2. h \in Int /\ LastHour \in Int /\ h <= LastHour /\ 0 <= h /\ HoursPerDay \in Nat \ {0}
  BY MaintenanceConstants
<1>3. q \in Int /\ l \in Int BY <1>2
<1>4. HoursPerDay * q <= h /\ LastHour < HoursPerDay * (l + 1) /\ h < HoursPerDay * (q + 1)
  BY <1>2
<1> HIDE DEF q, l
<1>5. HoursPerDay * q < HoursPerDay * (l + 1) /\ 0 < HoursPerDay * (q + 1) BY <1>2, <1>3, <1>4
<1>6. q < l + 1 /\ 0 < q + 1 BY <1>2, <1>3, <1>5
<1> QED BY <1>3, <1>6 DEF DayOf, q, l

(* The dates a tick ensures are dates.                                     *)
LEMMA TickDates ==
  ASSUME now \in Hour
  PROVE  DayOf(now) \in Date /\ 0 \in Date /\ (DayOf(now) - 1)..(DayOf(now) + LookaheadDays) \subseteq Date
<1>1. DayOf(now) \in Int /\ 0 <= DayOf(now) /\ DayOf(now) <= DayOf(LastHour) BY DaysOfHours
<1>2. DayOf(LastHour) \in Int BY DaysOfHours, MaintenanceConstants
<1> QED BY <1>1, <1>2, MaintenanceConstants DEF Date

LEMMA DueHours ==
  ASSUME IInv, RestTyped, Due
  PROVE  WindowStart \in Hour \cup {Sentinel} /\ WindowEnd \in Hour
<1>1. /\ WindowStart \in Int /\ WindowEnd \in Int
      /\ watermark <= WindowStart /\ WindowStart < WindowEnd
  BY DueWindow DEF IInv
<1>2. now \in Hour /\ WindowEnd = now - Settle /\ Settle \in Nat /\ LastHour \in Nat /\ Sentinel <= watermark
      /\ watermark \in Int
  BY MaintenanceConstants DEF IInv, RowsTyped, WindowHeld, WindowEnd
<1> QED BY <1>1, <1>2

LEMMA RestTypedStep == ASSUME IInv, RestTyped, [Next]_vars PROVE RestTyped'
<1> USE DEF RestTyped
<1>0. RowsTyped /\ WindowHeld BY DEF IInv
<1>1. CASE UNCHANGED vars
  BY <1>1 DEF vars, tableVars, rollupVars, moveVars, history
<1>2. ASSUME NEW v \in Live, NEW m \in Matched, Insert(v, m) PROVE RestTyped'
  <2> DEFINE r == [visit |-> v, ts |-> now, at |-> IF m THEN ScheduledAt[v] ELSE None]
  <2>1. r \in Row BY <1>0, MaintenanceConstants DEF Row, RowsTyped
  <2>2. Leaf(r) \in Date \cup {None} BY DEF Leaf
  <2>3. inflight' = [row |-> r, leaf |-> Leaf(r)] BY <1>2 DEF Insert
  <2>4. inflight' \in [row : Row, leaf : Date \cup {None}] BY <2>1, <2>2, <2>3
  <2> QED BY <1>2, <2>4 DEF Insert, tableVars, rollupVars, moveVars, history
<1>3. CASE Commit BY <1>3 DEF Commit, rollupVars, moveVars
<1>4. CASE Rollback \/ HourPasses
  BY <1>4 DEF Rollback, HourPasses, tableVars, rollupVars, moveVars, history
<1>5. ASSUME NEW j \in Job, JobStep(j) PROVE RestTyped'
  <2>0. DayOf(now) \in Date /\ 0 \in Date
        /\ (DayOf(now) - 1)..(DayOf(now) + LookaheadDays) \subseteq Date
    BY <1>0, TickDates DEF RowsTyped
  <2>1. CASE StartTick(j)
    BY <2>0, <2>1 DEF Goto, StartTick, tableVars, rollupVars, moveVars, history
  <2>2. CASE Create(j) \/ Attach(j)
    <3>1. First(dates[j]) \in Date
      <4>1. dates[j] # {} BY <2>2 DEF Create, Attach, Goto
      <4> QED BY <4>1, FirstOfDates
    <3> QED BY <2>2, <3>1 DEF Goto, Create, Attach, rollupVars, moveVars, history
  <2>3. CASE Copy(j) BY <2>3 DEF Goto, Copy, tableVars, rollupVars, history
  <2>4. CASE Delete(j) BY <1>0, <2>4 DEF Goto, Delete, RowsTyped, On, tableVars, rollupVars, history
  <2>5. CASE EnsureFails(j) \/ EnsureEnds(j)
    BY <2>5 DEF Goto, EnsureFails, EnsureEnds, tableVars, rollupVars, moveVars, history
  <2>6. CASE RollBegin(j)
    BY <2>6, DueHours DEF Goto, RollBegin, tableVars, moveVars, history
  <2>7. CASE Select(j) BY <2>7 DEF Goto, Select, tableVars, moveVars, history
  <2>8. CASE RollCommit(j)
    BY <2>8 DEF Goto, RollCommit, tableVars, moveVars, history
  <2>9. CASE NothingDue(j) BY <2>9 DEF Goto, NothingDue, tableVars, rollupVars, moveVars, history
  <2>10. CASE RollFails(j) BY <2>0, <2>10 DEF Goto, RollFails, tableVars, moveVars, history
  <2>11. CASE Check(j) \/ Skip(j)
    BY <2>11 DEF Goto, Check, Skip, tableVars, rollupVars, moveVars, history
  <2>12. CASE Drop(j) BY <2>12 DEF Goto, Drop, rollupVars, moveVars
  <2>13. CASE TickEnds(j) BY <2>0, <2>13 DEF Goto, TickEnds, tableVars, rollupVars, moveVars, history
  <2> QED BY <1>5, <2>1, <2>2, <2>3, <2>4, <2>5, <2>6, <2>7, <2>8, <2>9, <2>10, <2>11, <2>12, <2>13
    DEF JobStep
<1> QED BY <1>1, <1>2, <1>3, <1>4, <1>5 DEF Next

LEMMA RestTypedInit == Init => RestTyped
<1> SUFFICES ASSUME Init PROVE RestTyped OBVIOUS
<1>1. default \subseteq Row BY MaintenanceConstants DEF Init, Row
<1>2. now \in Hour BY MaintenanceConstants DEF Init
<1>3. 0 \in Date BY <1>2, TickDates
<1> QED BY <1>1, <1>3, MaintenanceConstants DEF Init, RestTyped

(* The rows, dates, hours and places the tick and the writer work with are *)
(* what the table and the code can hold, after any failures.               *)
THEOREM MaintenanceTyped == Spec => []TypeOK
<1>1. IInv /\ RestTyped => TypeOK
  BY DEF IInv, RowsTyped, WindowHeld, RestTyped, TypeOK
<1> QED BY <1>1, RestTypedInit, RestTypedStep, RollupInvariant, PTL DEF Spec
-----------------------------------------------------------------------------
(* Rows. What the two theorems assume of the writer: the dates it still    *)
(* writes have had their partition from the start, as they have once a     *)
(* first tick has run (job.go:37-40).                                      *)
WritesHavePartition == \A v \in Live : ServiceDate[v] \in Existing

(* What is stored is somewhere; a date that has a partition has nothing    *)
(* left in the default; and a move has copied all that it takes away but   *)
(* what was written for a date that is dropped.                            *)
KeptInv ==
  /\ Table \subseteq stored /\ RowsKept
  /\ Existing \subseteq partitions \cup dropped
  /\ \A r \in default : DateOf(r) \notin partitions
  /\ inflight # None => /\ DateOf(inflight.row) \in Existing
                        /\ inflight.leaf = None => DateOf(inflight.row) \notin partitions
  /\ \A j \in Job : Moving(j) =>
       /\ copied[j] \subseteq stored
       /\ \A r \in default : DateOf(r) = First(dates[j]) => r \in copied[j] \/ DateOf(r) \in dropped
  /\ \A j \in Job : pc[j] = "deleted" => \A r \in deleted[j] : r \in copied[j] \/ DateOf(r) \in dropped

LEMMA KeptInit == Init => KeptInv
BY MaintenanceConstants DEF Init, KeptInv, RowsKept, Table, Moving, DateOf

LEMMA KeptStep ==
  ASSUME WritesHavePartition, IInv, RestTyped, KeptInv, [Next]_vars
  PROVE  KeptInv'
<1> USE DEF KeptInv, RowsKept, Table, Moving, DateOf
<1>0. pc \in [Job -> Place] /\ dates \in [Job -> SUBSET Date] BY DEF RestTyped
<1>1. CASE UNCHANGED vars
  BY <1>1 DEF vars, tableVars, rollupVars, moveVars, history
<1>2. ASSUME NEW v \in Live, NEW m \in Matched, Insert(v, m) PROVE KeptInv'
  <2> DEFINE r == [visit |-> v, ts |-> now, at |-> IF m THEN ScheduledAt[v] ELSE None]
  <2>1. inflight' = [row |-> r, leaf |-> Leaf(r)] BY <1>2 DEF Insert
  <2>2. r.visit = v OBVIOUS
  <2>3. DateOf(inflight'.row) \in Existing
    BY <2>1, <2>2 DEF WritesHavePartition
  <2>4. inflight'.leaf = None => DateOf(inflight'.row) \notin partitions
    <3>1. Leaf(r) = None => DateOf(r) \notin partitions
      <4>1. None \notin partitions BY MaintenanceConstants DEF RestTyped
      <4> QED BY <4>1 DEF Leaf
    <3> QED BY <2>1, <3>1
  <2> QED BY <1>2, <2>3, <2>4 DEF Insert, tableVars, rollupVars, moveVars, history
<1>3. CASE Commit
  BY <1>3, <1>0 DEF Commit, rollupVars, moveVars
<1>4. CASE Rollback \/ HourPasses
  BY <1>4 DEF Rollback, HourPasses, tableVars, rollupVars, moveVars, history
<1>5. ASSUME NEW j \in Job, JobStep(j) PROVE KeptInv'
  <2>1. CASE StartTick(j) \/ EnsureFails(j) \/ EnsureEnds(j)
    <3>1. /\ \A i \in Job \ {j} : /\ pc'[i] = pc[i] /\ dates'[i] = dates[i]
                                  /\ copied'[i] = copied[i] /\ deleted'[i] = deleted[i]
          /\ pc'[j] \notin {"copied", "deleted"}
          /\ UNCHANGED <<default, daily, partitions, inflight, stored, dropped>>
      BY <1>0, <2>1 DEF StartTick, EnsureFails, EnsureEnds, Goto, tableVars, rollupVars, moveVars,
        history, RowsTyped, IInv, RestTyped
    <3> QED BY <3>1
  <2>2. CASE Create(j)
    BY <1>0, <2>2 DEF Create, On, rollupVars, moveVars, history
  <2>3. CASE Copy(j)
    <3>1. /\ copied' = [copied EXCEPT ![j] = {r \in default : DateOf(r) = First(dates[j])}]
          /\ pc' = [pc EXCEPT ![j] = "copied"]
          /\ UNCHANGED <<default, daily, partitions, inflight, stored, dropped, dates, deleted>>
      BY <2>3 DEF Copy, Goto, On, tableVars, history
    <3>2. copied \in [Job -> SUBSET Row] BY DEF IInv, RowsTyped
    <3>3. \A i \in Job : Moving(i)' =>
            /\ copied'[i] \subseteq stored
            /\ \A r \in default : DateOf(r) = First(dates[i]) => r \in copied'[i] \/ DateOf(r) \in dropped
      BY <1>0, <3>1, <3>2
    <3>4. \A i \in Job : pc'[i] = "deleted" => i # j /\ pc[i] = "deleted" /\ copied'[i] = copied[i]
      BY <1>0, <3>1, <3>2
    <3> QED BY <3>1, <3>3, <3>4
  <2>4. CASE Delete(j)
    <3>1. /\ deleted' = [deleted EXCEPT ![j] = {r \in default : DateOf(r) = First(dates[j])}]
          /\ pc[j] = "copied" /\ pc' = [pc EXCEPT ![j] = "deleted"]
          /\ UNCHANGED <<default, daily, partitions, inflight, stored, dropped, dates, copied>>
      BY <2>4 DEF Delete, Goto, On, tableVars, history
    <3>2. deleted \in [Job -> SUBSET Row] BY DEF RestTyped
    <3>3. \A i \in Job : Moving(i)' => Moving(i) BY <1>0, <3>1
    <3>4. \A i \in Job : pc'[i] = "deleted" =>
            \A r \in deleted'[i] : r \in copied[i] \/ DateOf(r) \in dropped
      BY <1>0, <3>1, <3>2
    <3> QED BY <3>1, <3>3, <3>4
  <2>5. CASE Attach(j)
    BY <1>0, <2>5 DEF Attach, Goto, On, rollupVars, history
  <2>6. CASE RollBegin(j) \/ Select(j) \/ RollFails(j)
    BY <1>0, <2>6 DEF RollBegin, Select, RollFails, Goto, tableVars, moveVars, history
  <2>7. CASE RollCommit(j) \/ NothingDue(j)
    BY <1>0, <2>7 DEF RollCommit, NothingDue, Goto, tableVars, rollupVars, moveVars, history
  <2>8. CASE Check(j) \/ Skip(j) \/ TickEnds(j)
    BY <1>0, <2>8 DEF Check, Skip, TickEnds, Goto, tableVars, rollupVars, moveVars, history
  <2>9. CASE Drop(j)
    BY <1>0, <2>9 DEF Drop, Goto, On, rollupVars, moveVars, history
  <2> QED BY <1>5, <2>1, <2>2, <2>3, <2>4, <2>5, <2>6, <2>7, <2>8, <2>9 DEF JobStep
<1> QED BY <1>1, <1>2, <1>3, <1>4, <1>5 DEF Next


(* Rows are moved whole, and go only with the partition of their date,     *)
(* through failures and a second instance (job.go:144-147).                *)
THEOREM RowsAreKept == ASSUME WritesHavePartition PROVE Spec => []RowsKept
<1>1. Init => RestTyped /\ KeptInv BY RestTypedInit, KeptInit
<1>2. RestTyped /\ IInv /\ KeptInv /\ [Next]_vars => RestTyped' /\ KeptInv'
  BY RestTypedStep, KeptStep
<1>3. KeptInv => RowsKept BY DEF KeptInv
<1> QED BY <1>1, <1>2, <1>3, RollupInvariant, PTL DEF Spec

-----------------------------------------------------------------------------
(* Counting. What is assumed of the hours a visit may still be written     *)
(* for, its feed timestamps included where it may be unmatched: a window   *)
(* with that hour selects the visit's date (rollup.go:73-86), and the hour *)
(* settles before the date may be dropped.                                 *)
HoursOf(v) == (IF TRUE \in Matched THEN {ScheduledAt[v]} ELSE {})
              \cup (IF FALSE \in Matched THEN Hour ELSE {})

WritesAreRecent ==
  \A v \in Live : \A h \in HoursOf(v) :
    /\ ServiceDate[v] \in DatesOf(h, h)
    /\ h + Settle < LastHour => h + Settle < (ServiceDate[v] + RetentionDays + 1) * HoursPerDay

(* Clocks: no window ends in an hour that has yet to settle, a tick's date *)
(* is not ahead, and what it drops is out of retention.                    *)
ClockInv ==
  /\ watermark # Sentinel => watermark + Settle <= now
  /\ \A j \in Job : lock = j => to[j] + Settle <= now
  /\ \A j \in Job : today[j] <= DayOf(now)
  /\ \A j \in Job : pc[j] \in {"drop", "checked"} => \A d \in dates[j] : d < today[j] - RetentionDays
  /\ \A j \in Job : pc[j] = "checked" => dates[j] # {}
  /\ \A d \in dropped : d < DayOf(now) - RetentionDays
  /\ \A r \in stored : DateOf(r) \in DatesOf(Bucket(r), Bucket(r))
  /\ inflight # None => /\ inflight.row.visit \in Live
                        /\ Bucket(inflight.row) \in HoursOf(inflight.row.visit)

LEMMA DaysGrow == \A g, h \in Int : g <= h => DayOf(g) <= DayOf(h)
<1>1. SUFFICES ASSUME NEW g \in Int, NEW h \in Int, g <= h PROVE DayOf(g) <= DayOf(h)
  OBVIOUS
<1> DEFINE q == g \div HoursPerDay
           l == h \div HoursPerDay
<1>2. g \in Int /\ h \in Int /\ HoursPerDay \in Nat \ {0} BY MaintenanceConstants
<1>3. q \in Int /\ l \in Int BY <1>2
<1>4. HoursPerDay * q <= g /\ h < HoursPerDay * (l + 1) BY <1>2
<1> HIDE DEF q, l
<1>5. HoursPerDay * q < HoursPerDay * (l + 1) BY <1>1, <1>2, <1>3, <1>4
<1>6. q < l + 1 BY <1>2, <1>3, <1>5
<1> QED BY <1>3, <1>6 DEF DayOf, q, l

(* The hour a visit has by the timetable is one its date can have.         *)
LEMMA ScheduledDates ==
  \A v \in Visit : ServiceDate[v] \in DatesOf(ScheduledAt[v], ScheduledAt[v])
<1>1. SUFFICES ASSUME NEW v \in Visit PROVE ServiceDate[v] \in DatesOf(ScheduledAt[v], ScheduledAt[v])
  OBVIOUS
<1> DEFINE d == ServiceDate[v]
           h == ScheduledAt[v]
           q == h \div HoursPerDay
<1>2. h \in Int /\ d \in Int /\ HoursPerDay \in Nat \ {0}
  BY MaintenanceConstants DEF Date
<1>3. h - d * HoursPerDay \in 0..(2 * HoursPerDay) BY MaintenanceConstants
<1>4. q \in Int /\ HoursPerDay * q <= h /\ h < HoursPerDay * (q + 1) BY <1>2
<1> HIDE DEF d, h, q
<1>5. h - d * HoursPerDay >= 0 /\ h - d * HoursPerDay <= 2 * HoursPerDay /\ d * HoursPerDay \in Int
      /\ d * HoursPerDay = HoursPerDay * d
  BY <1>2, <1>3
<1>6. HoursPerDay * d < HoursPerDay * (q + 1) /\ HoursPerDay * q <= HoursPerDay * (d + 2)
  BY <1>2, <1>4, <1>5
<1>7. d < q + 1 BY <1>2, <1>4, <1>6
<1>8. q <= d + 2 BY <1>2, <1>4, <1>6
<1> QED BY <1>2, <1>4, <1>7, <1>8 DEF DatesOf, DayOf, d, h, q


LEMMA ClockStep ==
  ASSUME WritesAreRecent, IInv, RestTyped, KeptInv, ClockInv, [Next]_vars
  PROVE  ClockInv'
<1> USE DEF ClockInv, DateOf, Bucket
<1>0. /\ pc \in [Job -> Place] /\ dates \in [Job -> SUBSET Date] /\ today \in [Job -> Date]
      /\ to \in [Job -> Hour \cup {Sentinel}] /\ watermark \in Hour \cup {Sentinel}
      /\ now \in Hour /\ DayOf(now) \in Int /\ 0 <= DayOf(now)
      /\ Settle \in Nat /\ RetentionDays \in Nat /\ \A d \in Date : d \in Int
      /\ \A j \in Job : pc[j] \in {"rolling", "selected"} <=> lock = j
      /\ None \notin Job /\ dropped \subseteq Date
  BY DaysOfHours, MaintenanceConstants DEF IInv, RowsTyped, WindowHeld, RestTyped, Date
<1>1. CASE UNCHANGED vars
  BY <1>1 DEF vars, tableVars, rollupVars, moveVars, history
<1>2. ASSUME NEW v \in Live, NEW m \in Matched, Insert(v, m) PROVE ClockInv'
  <2> DEFINE r == [visit |-> v, ts |-> now, at |-> IF m THEN ScheduledAt[v] ELSE None]
  <2>1. inflight' = [row |-> r, leaf |-> Leaf(r)] BY <1>2 DEF Insert
  <2>2. Bucket(r) \in HoursOf(v)
    <3>1. CASE m = TRUE
      <4>1. Bucket(r) = ScheduledAt[v] BY <3>1, MaintenanceConstants
      <4> QED BY <3>1, <4>1 DEF HoursOf
    <3>2. CASE m = FALSE
      <4>1. Bucket(r) = now BY <3>2
      <4> QED BY <1>0, <3>2, <4>1 DEF HoursOf
    <3> QED BY <3>1, <3>2, MaintenanceConstants
  <2>3. inflight'.row.visit \in Live /\ Bucket(inflight'.row) \in HoursOf(inflight'.row.visit)
    BY <2>1, <2>2
  <2> QED BY <1>2, <2>3 DEF Insert, tableVars, rollupVars, moveVars, history
<1>3. CASE Commit
  <2>1. inflight # None /\ stored' = stored \cup {inflight.row} BY <1>3 DEF Commit
  <2>2. DateOf(inflight.row) \in DatesOf(Bucket(inflight.row), Bucket(inflight.row))
    BY <2>1 DEF WritesAreRecent
  <2> QED BY <1>3, <2>1, <2>2 DEF Commit, rollupVars, moveVars
<1>4. CASE Rollback
  BY <1>4 DEF Rollback, tableVars, rollupVars, moveVars, history
<1>5. CASE HourPasses
  <2>1. now' \in Hour /\ now <= now' BY <1>0, <1>5, MaintenanceConstants DEF HourPasses
  <2>2. DayOf(now) <= DayOf(now') /\ DayOf(now') \in Int BY <1>0, <2>1, DaysGrow, DaysOfHours
  <2>3. DayOf(now)' = DayOf(now') BY DEF DayOf
  <2>4. watermark # Sentinel => watermark + Settle <= now' BY <1>0, <2>1
  <2>5. \A j \in Job : lock = j => to[j] + Settle <= now' BY <1>0, <2>1
  <2>6. \A j \in Job : today[j] <= DayOf(now') BY <1>0, <2>2
  <2>7. \A d \in dropped : d < DayOf(now') - RetentionDays BY <1>0, <2>2
  <2> QED
    BY <1>5, <2>3, <2>4, <2>5, <2>6, <2>7 DEF HourPasses, tableVars, rollupVars, moveVars, history
<1>6. ASSUME NEW j \in Job, JobStep(j) PROVE ClockInv'
  <2>1. CASE StartTick(j)
    <3>1. /\ pc' = [pc EXCEPT ![j] = "ensure"] /\ today' = [today EXCEPT ![j] = DayOf(now)]
          /\ \A i \in Job \ {j} : dates'[i] = dates[i]
          /\ UNCHANGED <<now, watermark, lock, to, dropped, stored, inflight>>
      BY <1>0, <2>1 DEF StartTick, Goto, tableVars, rollupVars, moveVars, history
    <3>2. DayOf(now)' = DayOf(now) BY <3>1 DEF DayOf
    <3>3. \A i \in Job : today'[i] <= DayOf(now) BY <1>0, <3>1
    <3> QED BY <1>0, <3>1, <3>2, <3>3
  <2>2. CASE Create(j) \/ Copy(j) \/ Delete(j) \/ Attach(j) \/ EnsureFails(j) \/ EnsureEnds(j)
    <3>1. /\ pc'[j] \notin {"drop", "checked"}
          /\ \A i \in Job \ {j} : pc'[i] = pc[i] /\ dates'[i] = dates[i]
          /\ UNCHANGED <<now, today, watermark, lock, to, dropped, stored, inflight>>
      BY <1>0, <2>2 DEF Create, Copy, Delete, Attach, EnsureFails, EnsureEnds, Goto, tableVars,
        rollupVars, moveVars, history
    <3> QED BY <3>1 DEF DayOf
  <2>3. CASE RollBegin(j)
    <3>1. lock' = j /\ to' = [to EXCEPT ![j] = now - Settle] BY <2>3 DEF RollBegin, WindowEnd
    <3>2. \A i \in Job : lock' = i => to'[i] + Settle <= now BY <1>0, <3>1
    <3>3. /\ pc' = [pc EXCEPT ![j] = "rolling"]
          /\ UNCHANGED <<now, today, dates, watermark, dropped, stored, inflight>>
      BY <2>3 DEF RollBegin, Goto, history
    <3> QED BY <1>0, <3>2, <3>3 DEF DayOf
  <2>4. CASE Select(j)
    <3>1. /\ pc' = [pc EXCEPT ![j] = "selected"]
          /\ UNCHANGED <<now, today, dates, watermark, lock, to, dropped, stored, inflight>>
      BY <2>4 DEF Select, Goto, history
    <3> QED BY <1>0, <3>1 DEF DayOf
  <2>5. CASE RollCommit(j)
    <3>1. /\ lock = j /\ lock' = None /\ watermark' = to[j]
          /\ pc' = [pc EXCEPT ![j] = "drop"]
          /\ dates' = [dates EXCEPT ![j] = {d \in partitions : d < today[j] - RetentionDays}]
          /\ UNCHANGED <<now, today, dropped, stored, inflight>>
      BY <1>0, <2>5 DEF RollCommit, Goto, history
    <3>2. watermark' + Settle <= now BY <3>1
    <3>3. \A i \in Job : pc'[i] \in {"drop", "checked"} => \A d \in dates'[i] : d < today[i] - RetentionDays
      BY <1>0, <3>1
    <3>4. \A i \in Job : pc'[i] = "checked" => dates'[i] # {} BY <1>0, <3>1
    <3> QED BY <1>0, <3>1, <3>2, <3>3, <3>4 DEF DayOf
  <2>6. CASE NothingDue(j)
    <3>1. /\ pc' = [pc EXCEPT ![j] = "drop"]
          /\ dates' = [dates EXCEPT ![j] = {d \in partitions : d < today[j] - RetentionDays}]
          /\ UNCHANGED <<now, today, watermark, lock, to, dropped, stored, inflight>>
      BY <2>6 DEF NothingDue, Goto, rollupVars, history
    <3>2. \A i \in Job : pc'[i] \in {"drop", "checked"} => \A d \in dates'[i] : d < today[i] - RetentionDays
      BY <1>0, <3>1
    <3>3. \A i \in Job : pc'[i] = "checked" => dates'[i] # {} BY <1>0, <3>1
    <3> QED BY <1>0, <3>1, <3>2, <3>3 DEF DayOf
  <2>7. CASE RollFails(j)
    <3>1. /\ pc' = [pc EXCEPT ![j] = "idle"] /\ lock' = (IF lock = j THEN None ELSE lock)
          /\ to' = [to EXCEPT ![j] = Sentinel] /\ today' = [today EXCEPT ![j] = 0]
          /\ UNCHANGED <<now, dates, watermark, dropped, stored, inflight>>
      BY <2>7 DEF RollFails, history
    <3>2. \A i \in Job : lock' = i => i # j /\ lock = i /\ to'[i] = to[i] BY <1>0, <3>1
    <3>3. \A i \in Job : today'[i] <= DayOf(now) BY <1>0, <3>1
    <3>4. \A i \in Job : pc'[i] \in {"drop", "checked"} => pc'[i] = pc[i] /\ today'[i] = today[i]
      BY <1>0, <3>1
    <3> QED BY <3>1, <3>2, <3>3, <3>4 DEF DayOf
  <2>8. CASE Check(j)
    <3>1. /\ pc[j] = "drop" /\ dates[j] # {} /\ pc' = [pc EXCEPT ![j] = "checked"]
          /\ UNCHANGED <<now, today, dates, watermark, lock, to, dropped, stored, inflight>>
      BY <2>8 DEF Check, Goto, rollupVars, history
    <3>2. \A i \in Job : pc'[i] \in {"drop", "checked"} => pc[i] \in {"drop", "checked"} BY <1>0, <3>1
    <3>3. \A i \in Job : pc'[i] = "checked" => dates[i] # {} BY <1>0, <3>1
    <3> QED BY <3>1, <3>2, <3>3 DEF DayOf
  <2>9. CASE Skip(j) \/ TickEnds(j)
    <3>1. /\ \A i \in Job : pc'[i] \in {"drop", "checked"} =>
                              pc'[i] = pc[i] /\ today'[i] = today[i] /\ dates'[i] \subseteq dates[i]
          /\ \A i \in Job : today'[i] = today[i] \/ today'[i] = 0
          /\ UNCHANGED <<now, watermark, lock, to, dropped, stored, inflight>>
      BY <1>0, <2>9 DEF Skip, TickEnds, rollupVars, history
    <3>2. \A i \in Job : pc'[i] = "checked" => dates'[i] = dates[i]
      BY <1>0, <2>9 DEF Skip, TickEnds
    <3>3. \A i \in Job : today'[i] <= DayOf(now) BY <1>0, <3>1
    <3> QED BY <3>1, <3>2, <3>3 DEF DayOf
  <2>10. CASE Drop(j)
    <3> DEFINE d == First(dates[j])
    <3>1. /\ pc[j] = "checked" /\ pc' = [pc EXCEPT ![j] = "drop"]
          /\ dates' = [dates EXCEPT ![j] = @ \ {d}] /\ dropped' = dropped \cup {d}
          /\ UNCHANGED <<now, today, watermark, lock, to, stored, inflight>>
      BY <2>10 DEF Drop, Goto, rollupVars
    <3>2. d \in dates[j] BY <1>0, <3>1, FirstOfDates
    <3>3. d < today[j] - RetentionDays /\ today[j] <= DayOf(now) /\ d \in Int /\ today[j] \in Int
      BY <1>0, <3>1, <3>2
    <3>4. d < DayOf(now) - RetentionDays BY <1>0, <3>3
    <3>5. \A i \in Job : pc'[i] \in {"drop", "checked"} =>
                           pc[i] \in {"drop", "checked"} /\ dates'[i] \subseteq dates[i]
      BY <1>0, <3>1
    <3>6. \A i \in Job : pc'[i] = "checked" => dates'[i] = dates[i] /\ pc[i] = "checked" BY <1>0, <3>1
    <3> QED BY <3>1, <3>4, <3>5, <3>6 DEF DayOf
  <2> QED BY <1>6, <2>1, <2>2, <2>3, <2>4, <2>5, <2>6, <2>7, <2>8, <2>9, <2>10 DEF JobStep
<1> QED BY <1>1, <1>2, <1>3, <1>4, <1>5, <1>6 DEF Next


(* The word r is counted, or its hour settles beyond what the model lives  *)
(* to see; a later word of its visit is for hour h or beyond; a rollup has *)
(* selected it or a later word.                                            *)
Done(r) == Counted(r) \/ Bucket(r) + Settle >= LastHour
Overtaken(r, h) == \E q \in Table : q.visit = r.visit /\ q.ts > r.ts /\ Bucket(q) >= h
Selected(r, j) == \E q \in final[j] : q.visit = r.visit /\ q.ts >= r.ts

(* What the watermark has passed is counted or overtaken; a rollup in      *)
(* progress is about to make that so up to the end of its window.          *)
PassedInv ==
  /\ \A r \in timely : Bucket(r) < watermark => Counted(r) \/ Overtaken(r, watermark)
  /\ \A j \in Job : pc[j] = "rolling" =>
       /\ watermark # Sentinel => from[j] = watermark
       /\ \A r \in timely : Bucket(r) < from[j] => Counted(r) \/ Overtaken(r, from[j])
  /\ \A j \in Job : pc[j] = "selected" =>
       /\ \A q \in final[j] : Bucket(q) < to[j]
       /\ \A r \in timely : Bucket(r) < to[j] => Counted(r) \/ Selected(r, j) \/ Overtaken(r, to[j])

(* A date is dropped, or found free to drop, when all its words are        *)
(* counted, and no hour beyond the watermark has words.                    *)
DroppedInv ==
  /\ \A h \in Hour : hourly[h] # {} => h < watermark
  /\ \A r \in timely : DateOf(r) \in dropped => Done(r)
  /\ \A j \in Job : pc[j] = "checked" => \A r \in timely : DateOf(r) = First(dates[j]) => Done(r)

CountInv == PassedInv /\ DroppedInv

LEMMA Bounds ==
  ASSUME IInv, RestTyped, ClockInv
  PROVE  /\ now \in Int /\ now <= LastHour /\ LastHour \in Int /\ Settle \in Nat
         /\ watermark \in Int /\ (watermark <= LastHour - Settle \/ watermark = Sentinel)
         /\ \A j \in Job : pc[j] \in {"rolling", "selected"} =>
              /\ lock = j /\ from[j] \in Int /\ to[j] \in Int
              /\ watermark <= from[j] /\ from[j] < to[j] /\ to[j] + Settle <= now
         /\ \A r \in stored : r \in Row /\ Bucket(r) \in Nat /\ r.ts \in Nat
         /\ \A r \in Table : r \in Row /\ Bucket(r) \in Nat /\ r.ts \in Nat
         /\ timely \subseteq stored
BY BucketInHour, MaintenanceConstants
DEF IInv, RowsTyped, WindowHeld, RestTyped, ClockInv, Table, Row

(* A step outside the rollup commits a row in time, if any, and takes away *)
(* none but of visits that are done.                                       *)
LEMMA ElsewhereKeepsPassed ==
  ASSUME IInv, RestTyped, ClockInv, PassedInv, UNCHANGED <<hourly, watermark, from, to, final>>,
         \A j \in Job : pc'[j] \in {"rolling", "selected"} => pc'[j] = pc[j],
         timely' \subseteq stored', stored' \subseteq Row,
         \A r \in timely' : r \in timely \/ now <= Bucket(r) + Settle,
         \A q \in Table \ Table' : \A r \in timely : r.visit = q.visit => Done(r)
  PROVE  PassedInv'
<1> USE DEF PassedInv
<1>1. \A r \in timely : \A h \in Int : h + Settle <= now /\ Bucket(r) < h /\ Overtaken(r, h) =>
        Counted(r) \/ Overtaken(r, h)'
  <2>1. SUFFICES ASSUME NEW r \in timely, NEW h \in Int, h + Settle <= now, Bucket(r) < h, Overtaken(r, h)
                 PROVE  Counted(r) \/ Overtaken(r, h)'
    OBVIOUS
  <2>2. PICK q \in Table : q.visit = r.visit /\ q.ts > r.ts /\ Bucket(q) >= h BY <2>1 DEF Overtaken
  <2>3. CASE q \in Table' BY <2>2, <2>3 DEF Overtaken, Bucket
  <2>4. CASE q \notin Table'
    <3>1. Done(r) BY <2>2, <2>4
    <3>2. ~(Bucket(r) + Settle >= LastHour) BY <2>1, Bounds
    <3> QED BY <3>1, <3>2 DEF Done
  <2> QED BY <2>3, <2>4
<1>2. \A r \in timely' : \A h \in Int : h + Settle <= now /\ Bucket(r) < h => r \in timely
  <2>1. SUFFICES ASSUME NEW r \in timely', NEW h \in Int, h + Settle <= now, Bucket(r) < h, r \notin timely
                 PROVE  FALSE
    OBVIOUS
  <2>2. Bucket(r) \in Int /\ now <= Bucket(r) + Settle /\ now \in Int /\ Settle \in Int
    BY <2>1, BucketInHour, Bounds
  <2> QED BY <2>1, <2>2
<1>3. \A r : Bucket(r)' = Bucket(r) /\ (Counted(r)' <=> Counted(r)) BY DEF Bucket, Counted
<1>4. ASSUME NEW r \in timely', Bucket(r) < watermark PROVE Counted(r) \/ Overtaken(r, watermark)'
  <2>1. watermark # Sentinel
    BY <1>4, BucketInHour
  <2>2. watermark \in Int /\ watermark + Settle <= now BY <2>1, Bounds DEF ClockInv
  <2> QED BY <1>1, <1>2, <1>4, <2>2
<1>5. ASSUME NEW j \in Job, pc'[j] = "rolling", NEW r \in timely', Bucket(r) < from[j]
      PROVE  Counted(r) \/ Overtaken(r, from[j])'
  <2>1. pc[j] = "rolling" /\ from[j] \in Int /\ from[j] + Settle <= now BY <1>5, Bounds
  <2> QED BY <1>1, <1>2, <1>5, <2>1
<1>6. ASSUME NEW j \in Job, pc'[j] = "selected", NEW r \in timely', Bucket(r) < to[j]
      PROVE  Counted(r) \/ Selected(r, j) \/ Overtaken(r, to[j])'
  <2>1. pc[j] = "selected" /\ to[j] \in Int /\ to[j] + Settle <= now BY <1>6, Bounds
  <2> QED BY <1>1, <1>2, <1>6, <2>1
<1>7. \A r : \A j : Selected(r, j)' <=> Selected(r, j) BY DEF Selected
<1> QED BY <1>3, <1>4, <1>5, <1>6, <1>7 DEF Overtaken


(* Some hours have a last.                                                 *)
LEMMA GreatestHour ==
  ASSUME NEW S, S \subseteq Hour, S # {} PROVE \E n \in S : \A m \in S : m <= n
<1> DEFINE T == {LastHour - n : n \in S}
<1>1. \A n \in S : n \in Int /\ LastHour - n \in Nat BY MaintenanceConstants
<1>2. T \subseteq Nat /\ T # {} BY <1>1
<1> HIDE DEF T
<1>3. PICK k \in T : \A m \in T : k <= m BY <1>2, LeastHour
<1>4. PICK n \in S : k = LastHour - n BY DEF T
<1>5. \A m \in S : m <= n
  <2>1. SUFFICES ASSUME NEW m \in S PROVE m <= n OBVIOUS
  <2>2. LastHour - m \in T BY DEF T
  <2> QED BY <1>1, <1>3, <1>4, <2>2, MaintenanceConstants
<1> QED BY <1>5

(* A word of the window is selected, or a later one of its visit is, or    *)
(* there is one beyond the window (rollup.go:65-86).                       *)
LEMMA SelectionCovers ==
  ASSUME IInv, RestTyped, KeptInv, ClockInv, NEW f \in Int, NEW t \in Int,
         NEW q \in Table, f <= Bucket(q), Bucket(q) < t
  PROVE  \/ \E p \in Finals(f, t) : p.visit = q.visit /\ p.ts >= q.ts
         \/ \E p \in Table : p.visit = q.visit /\ p.ts > q.ts /\ Bucket(p) >= t
<1>0. Table \subseteq stored /\ \A r \in Table : r \in Row /\ Bucket(r) \in Nat /\ r.ts \in Hour
  BY BucketInHour DEF IInv, RowsTyped, Table, Row, KeptInv
<1>1. DateOf(q) \in DatesOf(f, t)
  <2>1. DateOf(q) \in DatesOf(Bucket(q), Bucket(q)) BY <1>0 DEF ClockInv
  <2>2. DayOf(f) <= DayOf(Bucket(q)) /\ DayOf(Bucket(q)) <= DayOf(t) BY <1>0, DaysGrow
  <2>3. DayOf(f) \in Int /\ DayOf(t) \in Int /\ DayOf(Bucket(q)) \in Int
    BY <1>0, MaintenanceConstants DEF DayOf
  <2> HIDE DEF Bucket
  <2> QED BY <2>1, <2>2, <2>3 DEF DatesOf
<1>2. q \in Candidates(f, t) BY <1>1 DEF Candidates, Bucket
<1> DEFINE C == {r \in Candidates(f, t) : r.visit = q.visit}
           S == {r.ts : r \in C}
<1>3. S \subseteq Hour /\ S # {} BY <1>0, <1>2 DEF Candidates
<1>4. PICK n \in S : \A m \in S : m <= n BY <1>3, GreatestHour
<1>5. PICK p \in C : p.ts = n OBVIOUS
<1>6. p \in LastWords(Candidates(f, t)) /\ p.ts >= q.ts /\ p \in Table /\ p.visit = q.visit
  BY <1>0, <1>2, <1>4, <1>5 DEF LastWords, Candidates
<1>7. f <= Bucket(p) /\ Bucket(p) \in Int BY <1>0, <1>5, <1>6 DEF Candidates, Bucket
<1>8. CASE Bucket(p) < t BY <1>6, <1>7, <1>8 DEF Finals
<1>9. CASE Bucket(p) >= t
  <2>1. CASE p.ts > q.ts BY <1>6, <1>9, <2>1
  <2>2. CASE p.ts = q.ts
    <3>1. q \in LastWords(Candidates(f, t)) BY <1>2, <1>6, <2>2 DEF LastWords
    <3>2. q \in Finals(f, t) BY <3>1 DEF Finals
    <3> QED BY <1>0, <3>2
  <2> QED BY <1>0, <1>6, <2>1, <2>2
<1> QED BY <1>7, <1>8, <1>9

(* A date whose rows are not pending has all its words counted.            *)
LEMMA CheckedIsDone ==
  ASSUME IInv, RestTyped, KeptInv, ClockInv, CountInv, NEW d \in partitions, ~Pending(d),
         NEW r \in timely, DateOf(r) = d
  PROVE  Done(r)
<1> USE DEF Table
<1>1. r \in Table \/ d \in dropped BY Bounds DEF KeptInv, RowsKept
<1>2. CASE d \in dropped BY <1>2 DEF CountInv, DroppedInv
<1>3. CASE r \in Table
  <2>1. \A q \in Table : q.visit = r.visit => q \in daily /\ Bucket(q) < watermark
    <3>1. \A q \in Table : q.visit = r.visit => DateOf(q) = d BY DEF DateOf
    <3>2. \A q \in Table : DateOf(q) = d => q \in daily BY DEF KeptInv
    <3>3. \A q \in Table : Bucket(q) \in Int /\ watermark \in Int BY Bounds
    <3> QED BY <3>1, <3>2, <3>3 DEF Pending, On
  <2>2. Bucket(r) < watermark BY <1>3, <2>1
  <2>3. ~Overtaken(r, watermark)
    <3>1. \A q \in Table : q.visit = r.visit => ~(Bucket(q) >= watermark) BY <2>1, Bounds
    <3> QED BY <3>1 DEF Overtaken
  <2> QED BY <2>2, <2>3 DEF CountInv, PassedInv, Done
<1> QED BY <1>1, <1>2, <1>3


LEMMA ElsewhereKeepsDropped ==
  ASSUME DroppedInv, UNCHANGED <<hourly, watermark, timely, dropped>>,
         \A j \in Job : pc'[j] = "checked" => pc[j] = "checked" /\ dates'[j] = dates[j]
  PROVE  DroppedInv'
<1>1. \A r : Bucket(r)' = Bucket(r) /\ (Counted(r)' <=> Counted(r)) BY DEF Bucket, Counted
<1>2. \A r : Done(r)' <=> Done(r) BY <1>1 DEF Done
<1> QED BY <1>2 DEF DroppedInv, DateOf

(* What commits in time into a date that is out of retention is for an     *)
(* hour that the model does not live to see settled.                       *)
LEMMA LateForItsDate ==
  ASSUME WritesAreRecent, IInv, RestTyped, ClockInv, inflight # None,
         now <= Bucket(inflight.row) + Settle,
         DateOf(inflight.row) < DayOf(now) - RetentionDays
  PROVE  Bucket(inflight.row) + Settle >= LastHour
<1> DEFINE b == Bucket(inflight.row)
           d == DateOf(inflight.row)
           q == now \div HoursPerDay
<1>1. SUFFICES ASSUME b + Settle < LastHour PROVE FALSE
  BY BucketInHour, MaintenanceConstants DEF IInv, RowsTyped
<1>2. b + Settle < (d + RetentionDays + 1) * HoursPerDay
  BY <1>1 DEF WritesAreRecent, ClockInv, DateOf
<1>3. /\ b \in Int /\ now \in Int /\ d \in Int /\ Settle \in Int /\ RetentionDays \in Int
      /\ HoursPerDay \in Nat \ {0}
  BY BucketInHour, MaintenanceConstants DEF IInv, RowsTyped, DateOf, Row, Date
<1>4. q \in Int /\ HoursPerDay * q <= now /\ d < q - RetentionDays BY <1>3 DEF DayOf
<1> HIDE DEF b, d, q
<1>5. (d + RetentionDays + 1) * HoursPerDay = HoursPerDay * (d + RetentionDays + 1) BY <1>3
<1>6. HoursPerDay * q < HoursPerDay * (d + RetentionDays + 1)
  <2>1. now <= b + Settle BY DEF b
  <2>2. HoursPerDay * (d + RetentionDays + 1) \in Int /\ HoursPerDay * q \in Int BY <1>3, <1>4
  <2> QED BY <1>2, <1>3, <1>4, <1>5, <2>1, <2>2
<1>7. q < d + RetentionDays + 1 BY <1>3, <1>4, <1>6
<1> QED BY <1>3, <1>4, <1>7

(* The rollup's own steps (rollup.go:39-120).                              *)
LEMMA BeginKeepsCounts ==
  ASSUME IInv, RestTyped, KeptInv, ClockInv, CountInv, NEW j \in Job, RollBegin(j)
  PROVE  CountInv'
<1>1. /\ pc' = [pc EXCEPT ![j] = "rolling"] /\ Due
      /\ from' = [from EXCEPT ![j] = WindowStart] /\ to' = [to EXCEPT ![j] = WindowEnd]
      /\ UNCHANGED <<default, daily, watermark, hourly, final, timely, stored, dropped, dates>>
  BY DEF RollBegin, Goto, tableVars, history
<1>2. /\ pc \in [Job -> Place] /\ from \in [Job -> Hour \cup {Sentinel}]
      /\ to \in [Job -> Hour \cup {Sentinel}]
  BY DEF RestTyped
<1>3. DroppedInv' BY <1>1, <1>2, ElsewhereKeepsDropped DEF CountInv
<1>4. ASSUME NEW r \in timely, Bucket(r) < WindowStart
      PROVE  Counted(r) \/ Overtaken(r, WindowStart)
  <2>1. CASE watermark = Sentinel
    <3> DEFINE S == {Bucket(q) : q \in Table}
    <3>1. S \subseteq Nat /\ S # {} BY <1>1, <2>1, Bounds DEF Due
    <3>2. WindowStart = First(S) BY <1>1, <2>1 DEF WindowStart, Due
    <3>3. PICK n \in S : \A m \in S : n <= m BY <3>1, LeastHour
    <3>4. \A m \in S : First(S) <= m BY <3>3 DEF First
    <3> HIDE DEF S
    <3>5. First(S) \in Nat BY <3>1, FirstOfHours
    <3>6. Bucket(r) \notin S
      <4>1. Bucket(r) \in Int /\ Bucket(r) < First(S) BY <1>4, <3>2, Bounds
      <4> HIDE DEF Bucket
      <4> QED BY <3>4, <3>5, <4>1
    <3>7. r \notin Table BY <3>6 DEF S
    <3>8. Done(r)
      <4>1. r \in stored BY Bounds
      <4> QED BY <3>7, <4>1 DEF KeptInv, RowsKept, CountInv, DroppedInv
    <3>9. WindowStart < WindowEnd BY <1>1 DEF Due
    <3>10. ~(Bucket(r) + Settle >= LastHour)
      <4>1. Bucket(r) \in Int BY Bounds
      <4> QED BY <1>4, <3>2, <3>5, <3>9, <4>1, Bounds DEF WindowEnd
    <3> QED BY <3>8, <3>10 DEF Done
  <2>2. CASE watermark # Sentinel BY <1>4, <2>2 DEF WindowStart, CountInv, PassedInv
  <2> QED BY <2>1, <2>2
<1>5. watermark # Sentinel => WindowStart = watermark BY DEF WindowStart
<1>6. \A r : Bucket(r)' = Bucket(r) /\ (Counted(r)' <=> Counted(r)) BY <1>1 DEF Bucket, Counted
<1>7. Table' = Table BY <1>1 DEF Table
<1>8. /\ \A i \in Job \ {j} : pc'[i] = pc[i] /\ from'[i] = from[i] /\ to'[i] = to[i]
      /\ pc'[j] = "rolling" /\ from'[j] = WindowStart
  BY <1>1, <1>2
<1>9. PassedInv'
  BY <1>1, <1>4, <1>5, <1>6, <1>7, <1>8 DEF CountInv, PassedInv, Overtaken, Selected
<1> QED BY <1>3, <1>9 DEF CountInv

LEMMA SelectKeepsCounts ==
  ASSUME IInv, RestTyped, KeptInv, ClockInv, CountInv, NEW j \in Job, Select(j)
  PROVE  CountInv'
<1>1. /\ pc[j] = "rolling" /\ pc' = [pc EXCEPT ![j] = "selected"]
      /\ final' = [final EXCEPT ![j] = Finals(from[j], to[j])]
      /\ UNCHANGED <<default, daily, watermark, hourly, from, to, timely, stored, dropped, dates>>
  BY DEF Select, Goto, tableVars, history
<1>2. /\ pc \in [Job -> Place] /\ final \in [Job -> SUBSET Row]
  BY DEF RestTyped, IInv, WindowHeld
<1>3. DroppedInv' BY <1>1, <1>2, ElsewhereKeepsDropped DEF CountInv
<1>4. /\ from[j] \in Int /\ to[j] \in Int /\ from[j] < to[j] /\ to[j] + Settle <= LastHour
  <2>1. from[j] \in Int /\ to[j] \in Int /\ from[j] < to[j] /\ to[j] + Settle <= now BY <1>1, Bounds
  <2> QED BY <2>1, Bounds
<1>5. ASSUME NEW r \in timely, Bucket(r) < to[j]
      PROVE  \/ Counted(r)
             \/ \E q \in Finals(from[j], to[j]) : q.visit = r.visit /\ q.ts >= r.ts
             \/ Overtaken(r, to[j])
  <2> DEFINE Covered(q) ==
        \/ \E p \in Finals(from[j], to[j]) : p.visit = q.visit /\ p.ts >= q.ts
        \/ \E p \in Table : p.visit = q.visit /\ p.ts > q.ts /\ Bucket(p) >= to[j]
  <2>1. \A q \in Table : from[j] <= Bucket(q) /\ Bucket(q) < to[j] => Covered(q)
    BY <1>4, SelectionCovers
  <2>2. CASE Bucket(r) < from[j]
    <3>1. Counted(r) \/ Overtaken(r, from[j]) BY <1>1, <2>2 DEF CountInv, PassedInv
    <3>2. ASSUME NEW q \in Table, q.visit = r.visit, q.ts > r.ts, Bucket(q) >= from[j]
          PROVE  \/ \E p \in Finals(from[j], to[j]) : p.visit = r.visit /\ p.ts >= r.ts
                 \/ Overtaken(r, to[j])
      <4>1. q.ts \in Nat /\ r.ts \in Nat /\ Bucket(q) \in Nat BY Bounds
      <4>2. CASE Bucket(q) >= to[j] BY <3>2, <4>2 DEF Overtaken
      <4>3. CASE Bucket(q) < to[j]
        <5>1. Covered(q) BY <1>4, <2>1, <3>2, <4>1, <4>3
        <5>2. \A p \in Table : p.ts \in Nat BY Bounds
        <5>3. \A p \in Finals(from[j], to[j]) : p \in Table BY DEF Finals, LastWords, Candidates
        <5> QED BY <3>2, <4>1, <5>1, <5>2, <5>3 DEF Overtaken
      <4> QED BY <1>4, <4>1, <4>2, <4>3
    <3> QED BY <3>1, <3>2 DEF Overtaken
  <2>3. CASE ~(Bucket(r) < from[j])
    <3>1. r \in stored /\ Bucket(r) \in Nat BY Bounds
    <3>2. CASE r \in Table
      <4>1. Covered(r) BY <1>4, <1>5, <2>1, <2>3, <3>1, <3>2
      <4> QED BY <4>1 DEF Overtaken
    <3>3. CASE r \notin Table
      <4>1. Done(r) BY <3>1, <3>3 DEF KeptInv, RowsKept, CountInv, DroppedInv
      <4>2. ~(Bucket(r) + Settle >= LastHour) BY <1>4, <1>5, <3>1, Bounds
      <4> QED BY <4>1, <4>2 DEF Done
    <3> QED BY <3>2, <3>3
  <2> QED BY <2>2, <2>3
<1>6. \A q \in Finals(from[j], to[j]) : Bucket(q) < to[j] BY DEF Finals
<1>7. \A r : Bucket(r)' = Bucket(r) /\ (Counted(r)' <=> Counted(r)) BY <1>1 DEF Bucket, Counted
<1>8. Table' = Table BY <1>1 DEF Table
<1>9. /\ \A i \in Job \ {j} : pc'[i] = pc[i] /\ final'[i] = final[i]
      /\ pc'[j] = "selected" /\ final'[j] = Finals(from[j], to[j])
  BY <1>1, <1>2
<1>10. PassedInv'
  BY <1>1, <1>5, <1>6, <1>7, <1>8, <1>9 DEF CountInv, PassedInv, Overtaken, Selected
<1> QED BY <1>3, <1>10 DEF CountInv

LEMMA CommitKeepsCounts ==
  ASSUME IInv, RestTyped, KeptInv, ClockInv, CountInv, NEW j \in Job, RollCommit(j)
  PROVE  CountInv'
<1>1. /\ pc[j] = "selected" /\ pc' = [pc EXCEPT ![j] = "drop"] /\ watermark' = to[j]
      /\ hourly' = [h \in Hour |-> IF InHour(final[j], h) = {} THEN hourly[h] ELSE InHour(final[j], h)]
      /\ UNCHANGED <<default, daily, timely, stored, dropped>>
      /\ \A i \in Job \ {j} : dates'[i] = dates[i]
  BY DEF RollCommit, Goto, tableVars, history, RestTyped
<1>2. pc \in [Job -> Place] /\ lock = j BY <1>1, Bounds DEF RestTyped
<1>3. /\ watermark \in Int /\ from[j] \in Int /\ to[j] \in Int /\ watermark <= from[j] /\ from[j] < to[j]
      /\ \A q \in final[j] : q \in Row /\ Bucket(q) \in Hour /\ from[j] <= Bucket(q) /\ Bucket(q) < to[j]
  BY <1>1, Bounds, BucketInHour DEF IInv, WindowHeld, CountInv, PassedInv
<1>4. \A h \in Hour : InHour(final[j], h) # {} => from[j] <= h /\ h < to[j]
  BY <1>3 DEF InHour
<1>5. \A h \in Hour : hourly[h] # {} => h < watermark BY DEF CountInv, DroppedInv
<1>6. \A h \in Hour : hourly[h] \subseteq hourly'[h]
  <2>1. SUFFICES ASSUME NEW h \in Hour, hourly[h] # {} PROVE hourly'[h] = hourly[h] OBVIOUS
  <2>2. InHour(final[j], h) = {} BY <1>3, <1>4, <1>5, <2>1
  <2> QED BY <1>1, <2>2
<1>7. \A r : Counted(r) => Counted(r)' BY <1>6 DEF Counted
<1>8. \A q \in final[j] : q \in hourly'[Bucket(q)] BY <1>1, <1>3 DEF InHour
<1>9. \A r : Selected(r, j) => Counted(r)' BY <1>3, <1>8 DEF Selected, Counted
<1>10. \A h \in Hour : hourly'[h] # {} => h < to[j]
  <2>1. SUFFICES ASSUME NEW h \in Hour, hourly'[h] # {} PROVE h < to[j] OBVIOUS
  <2>2. CASE InHour(final[j], h) = {} BY <1>1, <1>3, <1>5, <2>1, <2>2
  <2>3. CASE InHour(final[j], h) # {} BY <1>4, <2>3
  <2> QED BY <2>2, <2>3
<1>11. \A r : Bucket(r)' = Bucket(r) BY DEF Bucket
<1>12. \A r : Done(r) => Done(r)' BY <1>7, <1>11 DEF Done
<1>13. \A i \in Job : pc'[i] = "checked" => pc[i] = "checked" /\ dates'[i] = dates[i]
  BY <1>1, <1>2
<1>14. DroppedInv' BY <1>1, <1>10, <1>12, <1>13 DEF CountInv, DroppedInv, DateOf
<1>15. \A r \in timely : Bucket(r) < to[j] => Counted(r)' \/ Overtaken(r, to[j])
  BY <1>1, <1>7, <1>9 DEF CountInv, PassedInv
<1>16. \A i \in Job : pc'[i] \notin {"rolling", "selected"}
  BY <1>1, <1>2 DEF IInv, WindowHeld
<1>17. Table' = Table BY <1>1 DEF Table
<1>18. PassedInv' BY <1>1, <1>11, <1>15, <1>16, <1>17 DEF PassedInv, Overtaken
<1> QED BY <1>14, <1>18 DEF CountInv

LEMMA FailureKeepsCounts ==
  ASSUME CountInv, RestTyped, NEW j \in Job, RollFails(j)
  PROVE  CountInv'
<1>1. /\ pc' = [pc EXCEPT ![j] = "idle"]
      /\ \A i \in Job \ {j} : pc'[i] = pc[i] /\ from'[i] = from[i] /\ to'[i] = to[i] /\ final'[i] = final[i]
      /\ pc'[j] = "idle"
      /\ UNCHANGED <<default, daily, watermark, hourly, timely, stored, dropped, dates>>
  BY DEF RollFails, tableVars, history, RestTyped
<1>2. DroppedInv' BY <1>1, ElsewhereKeepsDropped DEF CountInv
<1>3. \A r : Bucket(r)' = Bucket(r) /\ (Counted(r)' <=> Counted(r)) BY <1>1 DEF Bucket, Counted
<1>4. Table' = Table BY <1>1 DEF Table
<1>5. PassedInv' BY <1>1, <1>3, <1>4 DEF CountInv, PassedInv, Overtaken, Selected
<1> QED BY <1>2, <1>5 DEF CountInv


LEMMA CountStep ==
  ASSUME WritesAreRecent, IInv, RestTyped, KeptInv, ClockInv, CountInv, [Next]_vars
  PROVE  CountInv'
<1>0. /\ timely' \subseteq stored' /\ stored' \subseteq Row /\ pc \in [Job -> Place]
      /\ dates \in [Job -> SUBSET Date]
  BY RestTypedStep DEF RestTyped
<1>1. PassedInv /\ DroppedInv BY DEF CountInv
<1>2. \A r : Bucket(r)' = Bucket(r) BY DEF Bucket
<1>3. ASSUME UNCHANGED <<default, daily, hourly, watermark, from, to, final, timely, stored, dropped>>,
             \A j \in Job : pc'[j] \in {"rolling", "selected", "checked"} => pc'[j] = pc[j],
             \A j \in Job : pc'[j] = "checked" => dates'[j] = dates[j]
      PROVE  CountInv'
  <2>1. Table' = Table BY <1>3 DEF Table
  <2>2. PassedInv' BY <1>0, <1>1, <1>3, <2>1, ElsewhereKeepsPassed
  <2>3. DroppedInv' BY <1>1, <1>3, ElsewhereKeepsDropped
  <2> QED BY <2>2, <2>3 DEF CountInv
<1>4. CASE UNCHANGED vars
  BY <1>3, <1>4 DEF vars, tableVars, rollupVars, moveVars, history
<1>5. ASSUME NEW v \in Live, NEW m \in Matched, Insert(v, m) PROVE CountInv'
  BY <1>3, <1>5 DEF Insert, tableVars, rollupVars, moveVars, history
<1>6. CASE Rollback \/ HourPasses
  BY <1>3, <1>6 DEF Rollback, HourPasses, tableVars, rollupVars, moveVars, history
<1>7. CASE Commit
  <2> DEFINE r == inflight.row
  <2>1. /\ inflight # None /\ timely' = timely \cup {q \in {r} : now <= Bucket(q) + Settle}
        /\ Table \subseteq Table'
        /\ UNCHANGED <<hourly, watermark, from, to, final, pc, dates, dropped, today>>
    BY <1>7 DEF Commit, Table, rollupVars, moveVars
  <2>2. PassedInv' BY <1>0, <1>1, <2>1, ElsewhereKeepsPassed
  <2>3. ASSUME now <= Bucket(r) + Settle, DateOf(r) < DayOf(now) - RetentionDays PROVE Done(r)
    BY <2>1, <2>3, LateForItsDate DEF Done
  <2>4. \A q : Done(q)' <=> Done(q) BY <1>2, <2>1 DEF Done, Counted
  <2>5. \A q \in timely' : DateOf(q) \in dropped => Done(q)
    BY <1>1, <2>1, <2>3 DEF DroppedInv, ClockInv
  <2>6. ASSUME NEW j \in Job, pc[j] = "checked" PROVE First(dates[j]) < DayOf(now) - RetentionDays
    <3>1. First(dates[j]) \in dates[j] BY <1>0, <2>6, FirstOfDates DEF ClockInv
    <3>2. First(dates[j]) < today[j] - RetentionDays /\ today[j] <= DayOf(now)
      BY <2>6, <3>1 DEF ClockInv
    <3>3. /\ First(dates[j]) \in Int /\ today[j] \in Int /\ RetentionDays \in Int /\ DayOf(now) \in Int
      BY <1>0, <3>1, DaysOfHours, MaintenanceConstants DEF Date, RestTyped, IInv, RowsTyped
    <3> QED BY <3>2, <3>3
  <2>7. \A j \in Job : pc[j] = "checked" => \A q \in timely' : DateOf(q) = First(dates[j]) => Done(q)
    BY <1>1, <2>1, <2>3, <2>6 DEF DroppedInv
  <2>8. DroppedInv' BY <1>1, <2>1, <2>4, <2>5, <2>7 DEF DroppedInv, DateOf
  <2> QED BY <2>2, <2>8 DEF CountInv
<1>8. ASSUME NEW j \in Job, JobStep(j) PROVE CountInv'
  <2>1. CASE StartTick(j) \/ Create(j) \/ Copy(j) \/ Delete(j) \/ EnsureFails(j) \/ EnsureEnds(j)
    <3>1. UNCHANGED <<default, daily, hourly, watermark, from, to, final, timely, stored, dropped>>
      BY <2>1 DEF StartTick, Create, Copy, Delete, EnsureFails, EnsureEnds, tableVars, rollupVars, history
    <3>2. /\ pc'[j] \notin {"rolling", "selected", "checked"}
          /\ \A i \in Job \ {j} : pc'[i] = pc[i] /\ dates'[i] = dates[i]
      BY <1>0, <2>1 DEF StartTick, Create, Copy, Delete, EnsureFails, EnsureEnds, Goto
    <3> QED BY <1>3, <3>1, <3>2
  <2>2. CASE NothingDue(j) \/ Skip(j) \/ TickEnds(j)
    <3>1. UNCHANGED <<default, daily, hourly, watermark, from, to, final, timely, stored, dropped>>
      BY <2>2 DEF NothingDue, Skip, TickEnds, tableVars, rollupVars, history
    <3>2. /\ pc'[j] \notin {"rolling", "selected", "checked"}
          /\ \A i \in Job \ {j} : pc'[i] = pc[i] /\ dates'[i] = dates[i]
      BY <1>0, <2>2 DEF NothingDue, Skip, TickEnds, Goto
    <3> QED BY <1>3, <3>1, <3>2
  <2>3. CASE Attach(j)
    <3>1. /\ pc[j] = "deleted" /\ pc'[j] = "ensure" /\ \A i \in Job \ {j} : pc'[i] = pc[i] /\ dates'[i] = dates[i]
          /\ default' = default \ deleted[j] /\ daily' = daily \cup copied[j]
          /\ UNCHANGED <<hourly, watermark, from, to, final, timely, stored, dropped>>
      BY <1>0, <2>3 DEF Attach, Goto, rollupVars, history
    <3>2. \A q \in Table \ Table' : DateOf(q) \in dropped BY <3>1 DEF Table, KeptInv
    <3>3. \A q \in Table \ Table' : \A r \in timely : r.visit = q.visit => Done(r)
      BY <1>1, <3>2 DEF DroppedInv, DateOf
    <3>4. PassedInv' BY <1>0, <1>1, <3>1, <3>3, ElsewhereKeepsPassed
    <3>5. DroppedInv' BY <1>1, <3>1, ElsewhereKeepsDropped
    <3> QED BY <3>4, <3>5 DEF CountInv
  <2>4. CASE RollBegin(j) BY <2>4, BeginKeepsCounts
  <2>5. CASE Select(j) BY <2>5, SelectKeepsCounts
  <2>6. CASE RollCommit(j) BY <2>6, CommitKeepsCounts
  <2>7. CASE RollFails(j) BY <2>7, FailureKeepsCounts
  <2>8. CASE Check(j)
    <3>1. /\ pc[j] = "drop" /\ pc'[j] = "checked" /\ \A i \in Job \ {j} : pc'[i] = pc[i]
          /\ First(dates[j]) \in partitions /\ ~Pending(First(dates[j]))
          /\ UNCHANGED <<default, daily, hourly, watermark, from, to, final, timely, stored, dropped, dates>>
      BY <1>0, <2>8 DEF Check, Goto, tableVars, rollupVars, history
    <3>2. Table' = Table BY <3>1 DEF Table
    <3>3. PassedInv' BY <1>0, <1>1, <3>1, <3>2, ElsewhereKeepsPassed
    <3>4. \A r \in timely : DateOf(r) = First(dates[j]) => Done(r) BY <3>1, CheckedIsDone
    <3>5. \A r : Done(r)' <=> Done(r) BY <1>2, <3>1 DEF Done, Counted
    <3>6. DroppedInv' BY <1>1, <3>1, <3>4, <3>5 DEF DroppedInv, DateOf
    <3> QED BY <3>3, <3>6 DEF CountInv
  <2>9. CASE Drop(j)
    <3> DEFINE d == First(dates[j])
    <3>1. /\ pc[j] = "checked" /\ pc'[j] = "drop"
          /\ \A i \in Job \ {j} : pc'[i] = pc[i] /\ dates'[i] = dates[i]
          /\ daily' = daily \ On(daily, d) /\ dropped' = dropped \cup {d}
          /\ UNCHANGED <<default, hourly, watermark, from, to, final, timely, stored>>
      BY <1>0, <2>9 DEF Drop, Goto, rollupVars
    <3>2. \A r \in timely : DateOf(r) = d => Done(r) BY <1>1, <3>1 DEF DroppedInv
    <3>3. \A q \in Table \ Table' : DateOf(q) = d BY <3>1 DEF Table, On
    <3>4. \A q \in Table \ Table' : \A r \in timely : r.visit = q.visit => Done(r)
      BY <3>2, <3>3 DEF DateOf
    <3>5. PassedInv' BY <1>0, <1>1, <3>1, <3>4, ElsewhereKeepsPassed
    <3>6. \A r : Done(r)' <=> Done(r) BY <1>2, <3>1 DEF Done, Counted
    <3>7. \A r \in timely : DateOf(r) \in dropped' => Done(r) BY <1>1, <3>1, <3>2 DEF DroppedInv
    <3>8. \A i \in Job : pc'[i] = "checked" => pc[i] = "checked" /\ dates'[i] = dates[i] BY <3>1
    <3>9. DroppedInv' BY <1>1, <3>1, <3>6, <3>7, <3>8 DEF DroppedInv, DateOf
    <3> QED BY <3>5, <3>9 DEF CountInv
  <2> QED BY <1>8, <2>1, <2>2, <2>3, <2>4, <2>5, <2>6, <2>7, <2>8, <2>9 DEF JobStep
<1> QED BY <1>4, <1>5, <1>6, <1>7, <1>8 DEF Next

LEMMA CountInit == Init => ClockInv /\ CountInv
<1> SUFFICES ASSUME Init PROVE ClockInv /\ CountInv OBVIOUS
<1>1. \A r \in stored : r.visit \in Visit /\ r.at = ScheduledAt[r.visit] /\ r.at # None
  BY MaintenanceConstants DEF Init
<1>2. \A r \in stored : DateOf(r) \in DatesOf(Bucket(r), Bucket(r))
  BY <1>1, ScheduledDates DEF DateOf, Bucket
<1>3. now \in Hour /\ now = 0 BY MaintenanceConstants DEF Init
<1>4. 0 <= DayOf(now) BY <1>3, DaysOfHours
<1>5. ClockInv BY <1>2, <1>3, <1>4, MaintenanceConstants DEF Init, ClockInv
<1>6. \A r \in timely : Bucket(r) \in Nat
  BY <1>1, MaintenanceConstants DEF Init, Bucket
<1>7. CountInv BY <1>6 DEF Init, CountInv, PassedInv, DroppedInv
<1> QED BY <1>5, <1>7

(* Every word that is stored before its hour settles is counted, once the  *)
(* watermark has passed it, or gives way to a later word of its visit:     *)
(* through moves, drops, failures and a second instance (job.go:197-200,   *)
(* rollup.go:65-71).                                                       *)
THEOREM SettledAreCounted ==
  ASSUME WritesHavePartition, WritesAreRecent PROVE Spec => []SettledCounted
<1> DEFINE All == RestTyped /\ KeptInv /\ ClockInv /\ CountInv
<1>1. Init => All BY RestTypedInit, KeptInit, CountInit
<1>2. IInv /\ All /\ [Next]_vars => All'
  BY RestTypedStep, KeptStep, ClockStep, CountStep
<1>3. KeptInv /\ CountInv => SettledCounted
  BY DEF KeptInv, CountInv, PassedInv, SettledCounted, Overtaken, ToCome
<1> HIDE DEF All
<1>4. All => KeptInv /\ CountInv BY DEF All
<1> QED BY <1>1, <1>2, <1>3, <1>4, RollupInvariant, PTL DEF Spec

=============================================================================
