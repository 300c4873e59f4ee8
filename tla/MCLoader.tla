------------------------------ MODULE MCLoader ------------------------------
(* A small instance of ScheduleLoader for TLC. *)
EXTENDS ScheduleLoader

CONSTANTS x, y, z, broken

\* A first start, and a start with two versions there: with Keep = 2, the next
\* one loaded has the older pruned.
LoadedBefore == {<<>>, <<x, y>>}
=============================================================================
