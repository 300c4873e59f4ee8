----------------------------- MODULE MCMatching -----------------------------
(***************************************************************************)
(* A small instance of Matching for TLC: days of eight hours, one of seven *)
(* and one of nine among them.                                             *)
(***************************************************************************)
EXTENDS Matching

Short == 2
Long == 4
SydneyMidnight(d) == 8 * d - (IF d > Short THEN 1 ELSE 0) + (IF d > Long THEN 1 ELSE 0)
SydneyNoon(d) == SydneyMidnight(d) + 4 - (IF d = Short THEN 1 ELSE 0) + (IF d = Long THEN 1 ELSE 0)

T == TRUE
F == FALSE
Daily == AddCalendar(<<T, T, T, T, T, T, T>>, 0, 9, {}, {})
Weekdays == AddCalendar(<<T, T, T, T, T, F, F>>, 0, 9, {2}, {1})
Lapsed == AddCalendar(<<T, T, T, T, T, T, T>>, 0, 1, {}, {})
DatesOnly == AddCalendar(<<F, F, F, F, F, F, F>>, NoStart, NoStart, {3, 4}, {4})
Calendars == {Daily, Weekdays, Lapsed, DatesOnly}

Call(n, stop, arr, dep) == [seq |-> n, stop |-> stop, arr |-> arr, dep |-> dep]

\* A trip that runs past midnight and calls at A twice; one with a blank stop;
\* one whose calendar is over, without times, at a stop that is not listed.
Trips ==
  [night |-> [service |-> "daily", direction |-> None,
              stops |-> <<Call(1, "A", NoTime, 6), Call(2, "B", 9, NoTime), Call(4, "A", 11, 11)>>],
   day |-> [service |-> "weekdays", direction |-> 1,
            stops |-> <<Call(1, "A", NoTime, NoTime), Call(2, "B", 2, 3)>>],
   old |-> [service |-> "lapsed", direction |-> 0, stops |-> <<Call(1, "C", NoTime, NoTime)>>]]

Bundles ==
  {[version |-> 1, stops |-> {"A", "B"}, trips |-> Trips,
    services |-> [daily |-> Daily, weekdays |-> Weekdays, lapsed |-> Lapsed]],
   [version |-> 2, stops |-> {},
    trips |-> [night |-> [service |-> "dates", direction |-> None,
                          stops |-> <<Call(1, "B", 2, 2), Call(2, "A", 5, 6)>>]],
    services |-> [dates |-> DatesOnly]]}

Event(delay, time) == [delay |-> delay, time |-> time]
Stu(n, stop, rel, arr, dep) == [seq |-> n, stop |-> stop, rel |-> rel, arr |-> arr, dep |-> dep]

StopTimeUpdates ==
  [seq : {None}, stop : {"B", "X"}, rel : {"SCHEDULED"},
   arr : {None, Event(1, None)}, dep : {None, Event(None, 19), Event(1, 35)}]
  \cup {Stu(None, "", "SCHEDULED", Event(1, None), None),
        Stu(1, "", "SCHEDULED", None, Event(None, 24)),
        Stu(4, "", "SCHEDULED", Event(2, None), Event(None, 60)),
        Stu(4, "A", "SCHEDULED", None, Event(None, 28)),
        Stu(1, "B", "SCHEDULED", Event(None, 26), None),
        Stu(9, "", "SKIPPED", None, None),
        Stu(None, "A", "SCHEDULED", Event(None, None), None),
        Stu(2, "B", "SKIPPED", None, None),
        Stu(None, "C", "SCHEDULED", Event(2, None), None)}

Entity(trip, rel, start, direction, stops) ==
  [kind |-> "trip_update", trip |-> trip, rel |-> rel, start |-> start,
   direction |-> direction, stops |-> stops]
Alert == [kind |-> "alert"]

Ones ==
  {Entity(trip, rel, start, direction, stops) :
     trip \in {"night", "day", "old", "ghost", ""}, rel \in {"SCHEDULED", "ADDED", "CANCELED"},
     start \in {None, BadDate, 2}, direction \in {2},
     stops \in {<<>>} \cup {<<s>> : s \in StopTimeUpdates}}

\* Several words on one trip in one message.
Words ==
  {Entity("night", "CANCELED", None, 0, <<>>), Entity("night", "SCHEDULED", None, 1, <<>>),
   Entity("night", "SCHEDULED", None, 1,
          <<Stu(2, "", "SCHEDULED", None, Event(None, 25)), Stu(None, "B", "SKIPPED", None, None)>>),
   Entity("night", "CANCELED", 2, None, <<Stu(1, "A", "SCHEDULED", None, None)>>),
   Entity("night", "SCHEDULED", None, 1, <<Stu(None, "A", "SCHEDULED", Event(3, None), None)>>),
   Alert}

Received ==
  [timestamp : {0, 14, 16, 22, 31, 40}, entities : {<<e>> : e \in Ones}]
  \cup [timestamp : {16, 22}, entities : Words \X Words]
=============================================================================
