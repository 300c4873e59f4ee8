--------------------------- MODULE ObservationLog ---------------------------
(***************************************************************************)
(* What the ingest path promises of the observations table, whatever the   *)
(* filter, the channel and the writer do in between: rows are only added,  *)
(* each from an observation that was accepted, at most one per key and     *)
(* feed timestamp; and an accepted observation leaves only by being        *)
(* settled, with a row or without, or with the process that held it.       *)
(***************************************************************************)
EXTENDS Naturals, TLAPS

CONSTANT Observation  \* records with a key and a ts

VARIABLES
  outstanding,  \* accepted (Submit has returned true) and not yet settled
  rows,         \* the table
  lost          \* settled without a row

logVars == <<outstanding, rows, lost>>

SameRow(o, p) == o.key = p.key /\ o.ts = p.ts

Keyed(R) == \A r, q \in R : SameRow(r, q) => r = q

Init == outstanding = {} /\ rows = {} /\ lost = {}

Accept(o) ==
  /\ outstanding' = outstanding \cup {o}
  /\ UNCHANGED <<rows, lost>>

\* Some of B become rows beside those there are; what else is held stays held.
Settle(B) ==
  /\ rows \subseteq rows' /\ rows' \subseteq rows \cup B
  /\ Keyed(rows) => Keyed(rows')
  /\ lost' = (lost \cup B) \ rows'
  /\ outstanding \ B \subseteq outstanding' /\ outstanding' \subseteq outstanding

\* The process dies, perhaps as B is being stored.
Lose(B) ==
  /\ outstanding' = {}
  /\ rows \subseteq rows' /\ rows' \subseteq rows \cup B
  /\ Keyed(rows) => Keyed(rows')
  /\ lost' = lost \ rows'

Next ==
  \/ \E o \in Observation : Accept(o)
  \/ \E B \in SUBSET outstanding : Settle(B) \/ Lose(B)

Spec == Init /\ [][Next]_logVars

(* The table holds at most one row per key and feed timestamp: replays are *)
(* absorbed (PROJECT.md 9.5, migrations 0005).                             *)
OneRowPerKey == Keyed(rows)
-----------------------------------------------------------------------------
(* One row per key and timestamp, however accepts, settles and crashes     *)
(* alternate.                                                              *)
THEOREM KeyedRows == Spec => []OneRowPerKey
<1>1. Init => OneRowPerKey
  BY DEF Init, OneRowPerKey, Keyed
<1>2. OneRowPerKey /\ [Next]_logVars => OneRowPerKey'
  BY DEF OneRowPerKey, Next, Accept, Settle, Lose, Keyed, logVars
<1>. QED
  BY <1>1, <1>2, PTL DEF Spec
=============================================================================
