------------------------------ MODULE History ------------------------------
(***************************************************************************)
(* What the history handlers make of hourly rollup rows: hours or days,    *)
(* counts, percentiles and means.                                          *)
(*                                                                         *)
(* A row is [start, count, p50, p90, mean]; rows arrive in the order of    *)
(* their start, several of one hour when a stop has several routes.  Some  *)
(* of them are given by their places in the list, and a list of buckets by *)
(* the place of the first row of each.  A row's mean is the real that the  *)
(* rollup stores, in fractions of a second; percentages and means that are *)
(* answered are in tenths, as they are rounded.                            *)
(***************************************************************************)
EXTENDS Integers, FiniteSets, SequencesExt

CONSTANTS
  None,      \* null
  DayLength, \* of a calendar day and of a service day
  Precision  \* the fractions of a second a row's mean is told in

\* A sort of what came in some order, by what goes before each.
Sorted(S, before) ==
  LET s == SetToSeq(S)
      Ahead(j, i) == s[j] \in before[s[i]] \/ (s[i] \notin before[s[j]] /\ j <= i)
      place == [i \in DOMAIN s |-> Cardinality({j \in DOMAIN s : Ahead(j, i)})]
  IN  [n \in DOMAIN s |-> s[CHOOSE i \in DOMAIN s : place[i] = n]]

Delays == {"early", "on_time", "late", "very_late"}
Counters == Delays \cup {"obs", "skipped", "cancelled"}

known(count) == count["early"] + count["on_time"] + count["late"] + count["very_late"]
Weight(r) == known(r.count)
Weights(rows, S) == SumFunctionOnSet([i \in DOMAIN rows |-> Weight(rows[i])], S)
Counted(rows, S, c) == SumFunctionOnSet([i \in DOMAIN rows |-> rows[i].count[c]], S)

\* n / d to tenths, a half away from zero: math.Round(10 n / d).
round1(n, d) == IF n >= 0 THEN (20 * n + d) \div (2 * d) ELSE -((d - 20 * n) \div (2 * d))

\* pick is the column: p50 or p90.
ByPick(rows, S, pick) == [i \in S |-> {j \in S : rows[j][pick] < rows[i][pick]}]

weightedMedian(rows, S, pick) ==
  LET vals == {i \in S : rows[i][pick] # None /\ Weight(rows[i]) > 0}
      order == Sorted(vals, ByPick(rows, vals, pick))
      acc(n) == Weights(rows, {order[m] : m \in 1..n})
      half == {n \in DOMAIN order : 2 * acc(n) >= Weights(rows, vals)}
  IN  IF vals = {} THEN None ELSE rows[order[Min(half)]][pick]

Percentile(rows, S, pick) ==
  IF Cardinality(S) = 1 THEN rows[CHOOSE i \in S : TRUE][pick] ELSE weightedMedian(rows, S, pick)

combine(rows, S) ==
  LET count == [c \in Counters |-> Counted(rows, S, c)]
      Part(r) == IF r.mean = None THEN 0 ELSE r.mean * Weight(r)
      sum == SumFunctionOnSet([i \in DOMAIN rows |-> Part(rows[i])], S)
      n == known(count)
  IN  [count |-> count, p50 |-> Percentile(rows, S, "p50"), p90 |-> Percentile(rows, S, "p90"),
       mean |-> IF n = 0 THEN None ELSE round1(sum, Precision * n),
       on_time_pct |-> IF n = 0 THEN None ELSE round1(100 * count["on_time"], n)]

Midnight(t) == (t \div DayLength) * DayLength
BucketOf(r, byDay) == IF byDay THEN Midnight(r.start) ELSE r.start

\* Mutant: rows of one hour or day stay apart.
RowsApart(rows, in, byDay) == [i \in in |-> {i}]

\* A row of another bucket than the last row's opens a group.
groupRows(rows, in, byDay) ==
  LET Earlier(i) == {j \in in : j < i}
      opens == {i \in in : \/ Earlier(i) = {}
                           \/ BucketOf(rows[Max(Earlier(i))], byDay) # BucketOf(rows[i], byDay)}
  IN  [i \in opens |-> {j \in in : Max({h \in opens : h <= j}) = i}]

\* All of what the range comes to; the totals show its visits, percentage and
\* percentiles.
HistoryOf(rows, in, byDay) ==
  LET groups == groupRows(rows, in, byDay)
  IN  [buckets |-> [i \in DOMAIN groups |-> [start |-> BucketOf(rows[i], byDay),
                                             sums |-> combine(rows, groups[i])]],
       totals |-> combine(rows, in)]
=============================================================================
