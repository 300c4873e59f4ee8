---------------------------- MODULE ServiceDays ----------------------------
(***************************************************************************)
(* Which service date an update belongs to: internal/servicetime, the      *)
(* calendars of internal/match/schedule.go and the matcher's pickDate.     *)
(*                                                                         *)
(* Days are numbered and instants are integers.  The time zone is given by *)
(* where each day's midnight and noon fall: noon is where the code starts  *)
(* from, because the clock changes between the two.                        *)
(***************************************************************************)
EXTENDS Integers

CONSTANTS
  Midnight(_), Noon(_),  \* the instants of local midnight and noon of a day
  HalfDay,               \* twelve hours
  Hour,                  \* what the clock is changed by
  FirstDay, LastDay,     \* the days whose instants are looked at
  Overlap,               \* SERVICE_DAY_OVERLAP_H
  DateTolerance,         \* SERVICE_DATE_TOLERANCE
  Services,              \* the calendars looked at
  Offsets,               \* the stop times looked at
  NoStart                \* a service without a calendar.txt row

Day == FirstDay - 2 .. LastDay + 2

\* Noons are 23 to 25 hours apart, and a day's change falls before its noon.
ASSUME Zone ==
  /\ FirstDay \in Int /\ LastDay \in Int /\ FirstDay <= LastDay
  /\ HalfDay \in Nat /\ Hour \in Nat /\ 3 * Hour < HalfDay
  /\ \A d \in Day : Midnight(d) \in Int /\ Noon(d) \in Int
  /\ \A d \in Day : /\ Noon(d) - HalfDay - Midnight(d) <= Hour
                    /\ Midnight(d) - (Noon(d) - HalfDay) <= Hour
  /\ \A d \in Day \ {LastDay + 2} : Noon(d + 1) - Noon(d) >= 2 * HalfDay - Hour
ASSUME Settings == Overlap \in Nat /\ DateTolerance \in Nat /\ Offsets \subseteq Nat

Instant == Midnight(FirstDay) .. Midnight(LastDay + 1) - 1

Newest(days) == CHOOSE d \in days : \A e \in days : e <= d

-----------------------------------------------------------------------------
(* servicetime.                                                            *)

ServiceDayStart(d) == Noon(d) - HalfDay

AtServiceOffset(d, s) == ServiceDayStart(d) + s

\* t.In(Loc).Date()
LocalDate(t) == CHOOSE d \in FirstDay .. LastDay : Midnight(d) <= t /\ t < Midnight(d + 1)

\* Tomorrow, today or yesterday, whichever last began.
Owner(t) ==
  Newest({d \in LocalDate(t) - 1 .. LocalDate(t) + 1 : ServiceDayStart(d) <= t})

CandidateServiceDates(t) ==
  IF t - ServiceDayStart(Owner(t)) < Overlap THEN {Owner(t), Owner(t) - 1} ELSE {Owner(t)}

-----------------------------------------------------------------------------
(* Calendars.                                                              *)

\* Day 0 is a Thursday; Go's week begins on Sunday, the file's on Monday.
Weekday(d) == (d + 4) % 7
AddCalendar(mondayFirst, start, end, added, removed) ==
  [days |-> [w \in 0..6 |-> mondayFirst[1 + ((w + 6) % 7)]],
   start |-> start, end |-> end, added |-> added, removed |-> removed]

RunsOn(service, d) ==
  /\ d \notin service.removed
  /\ \/ d \in service.added
     \/ /\ service.start # NoStart
        /\ service.start <= d /\ d <= service.end
        /\ service.days[Weekday(d)]

-----------------------------------------------------------------------------
(* pickDate.                                                               *)

\* ref is within the tolerance of [first, last] on d, or nothing is known.
Near(d, first, last, ref) ==
  /\ ref >= AtServiceOffset(d, first) - DateTolerance
  /\ ref <= AtServiceOffset(d, last) + DateTolerance

\* Mutant: the newest date on which the service runs, whatever the time.
PickNewest(service, cands, span, ref) ==
  LET running == {d \in cands : RunsOn(service, d)}
  IN  Newest(IF running # {} THEN running ELSE cands)

\* The stop's time is a span of no length; a trip without times has no span.
PickDate(service, cands, span, ref) ==
  LET running == {d \in cands : RunsOn(service, d)}
      near == {d \in running : span = <<>> \/ Near(d, span[1], span[2], ref)}
  IN  Newest(IF near # {} THEN near ELSE IF running # {} THEN running ELSE cands)

-----------------------------------------------------------------------------
(* The candidates of an instant are the service day that was the last to   *)
(* begin, by the rule that holds on the days the clock changes, and the    *)
(* one before while it is young (servicetime.go:74-82).                    *)
OwnersBeganLast ==
  \A t \in Instant :
    LET o == Owner(t)
    IN  /\ ServiceDayStart(o) <= t /\ t < ServiceDayStart(o + 1)
        /\ CandidateServiceDates(t) \subseteq {o, o - 1}
        /\ o - 1 \in CandidateServiceDates(t) <=> t < ServiceDayStart(o) + Overlap

(* A trip still running from last night is told from tonight's run of the  *)
(* same trip_id, whichever of the two an update is about and however the   *)
(* clock changes between them, while the tolerance is below half of the    *)
(* shortest day (matcher.go:278-284).                                      *)
LastNightTold ==
  2 * DateTolerance < 2 * HalfDay - Hour =>
    \A t \in Instant, service \in Services, s \in Offsets :
      \A d \in CandidateServiceDates(t) :
        \A delay \in -DateTolerance .. DateTolerance :
          RunsOn(service, d) =>
            PickDate(service, CandidateServiceDates(t), <<s, s>>, AtServiceOffset(d, s) + delay) = d
=============================================================================
