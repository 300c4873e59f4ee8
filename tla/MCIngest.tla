------------------------------ MODULE MCIngest ------------------------------
(* Small instances of IngestPipeline for TLC. *)
EXTENDS IngestPipeline, TLC

CONSTANTS a, b, f  \* stops' keys and a feed

Late(n) == [rel |-> "scheduled", hasDelay |-> TRUE, delay |-> n]
Skipped == [rel |-> "skipped", hasDelay |-> FALSE, delay |-> 0]

MCValue(reports) ==
  {[rel |-> r.rel, matched |-> m, hasDelay |-> r.hasDelay, delay |-> r.delay] :
      r \in reports, m \in BOOLEAN}

OneKey == {a}
TwoKeys == {a, b}
OneFeed == {f}

OneOfF == a :> f
BothOfF == (a :> f) @@ (b :> f)

OneDay == a :> 1
TwoDates == (a :> 0) @@ (b :> 1)

OneReport == {Late(0)}
OneValues == MCValue(OneReport)
TwoReports == {Late(0), Skipped}
TwoValues == MCValue(TwoReports)

\* With FILTER_MIN_DELTA_S = 1 each step is small and the sum of two is not.
Drifting == {Late(0), Late(1), Late(2)}
DriftingOrSkipped == Drifting \cup {Skipped}
DriftingOrSkippedValues == MCValue(DriftingOrSkipped)

\* Timetables: one that knows every key, or first none and then that one.
Loaded1 == {OneKey}
Both == {{}, TwoKeys}

AllFaults == FaultKind
NoFaults == {}
OnlyPermanent == {"permanent"}
=============================================================================
