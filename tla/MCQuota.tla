------------------------------ MODULE MCQuota ------------------------------
(* Small instances of Quota for TLC. *)
EXTENDS Quota, TLC

CONSTANTS p, q, l  \* two feeds' pollers and the loader

OnePoller == {p}
TwoPollers == {p, q}
OneLoader == {l}
NoLoader == {}
Sends == {"sent"}
SendsAndTold == {"sent", "told"}
Slots == {"slots"}
LoaderGaps == {0, 2}
AnHour == {2}
Pollers == Permutations(TwoPollers)
=============================================================================
