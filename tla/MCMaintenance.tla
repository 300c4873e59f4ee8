--------------------------- MODULE MCMaintenance ---------------------------
(* Small instances of Maintenance for TLC, with service days of two hours. *)
EXTENDS Maintenance, TLC

CONSTANTS i, j, v, w  \* jobs and visits

TwoJobs == {i, j}
OneJob == {i}
BothVisits == {v, w}
OneVisit == {v}
OtherVisit == {w}

\* v is as late as a visit of its date can be, w is due early.
Dates == (v :> -1) @@ (w :> 0)
Hours == (v :> 2) @@ (w :> 1)

TodayOn == {0, 1}
NoDates == {}

DateZero == v :> 0
HourOne == v :> 1

Matching == {TRUE}
Either == BOOLEAN
Jobs == Permutations(TwoJobs)
=============================================================================
