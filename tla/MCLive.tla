------------------------------- MODULE MCLive -------------------------------
(* A small instance of Live for TLC: two feeds on one line. *)
EXTENDS Live

CONSTANTS f, g

TwoFeeds == {f, g}

Stop(seq, stop, offset) == [seq |-> seq, stop |-> stop, offset |-> offset]
Trip(direction, calls) == [route |-> "R", direction |-> direction, calls |-> calls]

\* The second version has trip 1 call at the stops in the other order, and
\* no trip 2; trip 5 has a call without a time, and its direction from the feed.
FirstVersion ==
  [version |-> 1, routes |-> {"R"}, stops |-> {"A", "B"},
   trips |-> (1 :> Trip(0, <<Stop(1, "A", 0), Stop(4, "B", 1)>>)) @@ (2 :> Trip(1, <<Stop(2, "A", 2)>>))
             @@ (5 :> Trip(None, <<Stop(1, "A", None)>>))]
SecondVersion ==
  [version |-> 2, routes |-> {"R"}, stops |-> {"A", "B"},
   trips |-> (1 :> Trip(0, <<Stop(1, "B", 1), Stop(4, "A", 2)>>))]
Versions == (f :> {FirstVersion, SecondVersion}) @@ (g :> {})

U(trip, date, stop, delay, rel) ==
  [trip |-> trip, route |-> "R", date |-> date, stop |-> stop, delay |-> delay, rel |-> rel,
   direction |-> IF trip = 5 THEN 1 ELSE IF rel = "ADDED" THEN 2 ELSE None]

Running ==
  <<U(1, 0, "A", None, "SCHEDULED"), U(1, 0, "B", 1, "SCHEDULED"), U(2, 0, "A", 0, "SCHEDULED"),
    U(5, 0, "A", 3, "SCHEDULED"), U(9, 0, "A", 0, "SCHEDULED")>>
Disrupted ==
  <<U(1, 0, "A", 1, "SCHEDULED"), U(1, 1, "A", -2, "SCHEDULED"), U(2, 0, "A", 1, "CANCELED"),
    U(8, 0, "A", 2, "ADDED")>>
Bodies == (f :> {Running, Disrupted}) @@ (g :> {<<>>, <<U(3, 0, "A", 2, "SCHEDULED"), U(7, 0, "A", 0, "ADDED")>>})
Polls == (f :> 3) @@ (g :> 1)

Asked ==
  {[kind |-> "line", id |-> "R", direction |-> None, limit |-> 2],
   [kind |-> "line", id |-> "R", direction |-> 1, limit |-> 2],
   [kind |-> "line", id |-> "Y", direction |-> None, limit |-> 2],
   [kind |-> "stop", id |-> "A", window |-> 1, limit |-> 2]}

Bounds == [early |-> 0, late |-> 1, very_late |-> 2]

\* Of p and of p + 1.
Class(p) == CASE p = -2 -> "early" [] p = 0 -> "on_time" [] p = 5 -> "very_late"

Row(start, n, class, p50, p90, mean) ==
  [start |-> start, p50 |-> p50, p90 |-> p90, mean |-> mean,
   count |-> (class :> n) @@ [early |-> 0, on_time |-> 0, late |-> 0, very_late |-> 0, skipped |-> 1,
                              cancelled |-> start, obs |-> n + 1 + start]]

\* An hour without delays, with one of p, and with p twice and p + 1 once: a
\* mean of p and a third.
RowsAt(starts) ==
  {Row(s, 0, "on_time", None, None, None) : s \in starts}
  \cup UNION {{Row(s, 1, Class(p), p, p, Precision * p),
               Row(s, 3, Class(p), p, p + 1, (Precision * (3 * p + 1)) \div 3)} : s \in starts, p \in {-2, 0, 5}}

\* Up to three rows over two days, two of them of one hour perhaps.
Rows ==
  {<<>>} \cup {<<r>> : r \in RowsAt({0})}
  \cup {<<r, s, t>> : r \in RowsAt({0}), s \in RowsAt({0, 2}), t \in RowsAt({2, 4})}

Spans == {<<0, 8>>, <<2, 4>>, <<4, 2>>, <<0, 12>>}
=============================================================================
