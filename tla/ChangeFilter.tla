---------------------------- MODULE ChangeFilter ----------------------------
(***************************************************************************)
(* internal/ingest/filter.go: the map of last-written values that decides  *)
(* whether an observation is worth a row.  Every operation of the filter   *)
(* runs under its mutex, so each is one step; the pipeline composes them.  *)
(*                                                                         *)
(* entry.seq is abstracted to what eviction reads of it: the relation      *)
(* `older', which holds <<j, k>> when j was admitted before k.             *)
(***************************************************************************)
EXTENDS Integers, FiniteSets

CONSTANTS
  Key,            \* (service date, feed, trip, stop)
  DateOf,         \* the service date of a key, a day number
  Value,          \* what a query can tell apart: see entry
  MaxTS,          \* bound on feed header timestamps
  MinDelta,       \* FILTER_MIN_DELTA_S
  MaxEntries,     \* FILTER_MAX_ENTRIES
  EvictionShare,  \* one entry in this many leaves when the map is full: 10
  HalfRange,      \* an int32 runs from -HalfRange to HalfRange - 1
  NoEntry         \* the value of a key the map does not hold

ASSUME FilterConstants ==
  /\ IsFiniteSet(Key)
  /\ DateOf \in [Key -> Int]
  /\ Value \subseteq [rel : STRING, matched : BOOLEAN, hasDelay : BOOLEAN, delay : Int]
  /\ MaxTS \in Nat
  /\ MinDelta \in Nat
  /\ MaxEntries \in Nat \ {0}
  /\ EvictionShare \in Nat \ {0}
  /\ HalfRange \in Nat \ {0}
  /\ NoEntry \notin Value

VARIABLES
  entries,  \* Filter.entries, NoEntry where the map has no such key
  older     \* the order of entry.seq

filterVars == <<entries, older>>

Observation == [key : Key, ts : 0..MaxTS, value : Value]

FilterTypeOK ==
  /\ entries \in [Key -> Value \cup {NoEntry}]
  /\ older \subseteq Key \X Key

FilterInit ==
  /\ entries = [k \in Key |-> NoEntry]
  /\ older = {}

-----------------------------------------------------------------------------
(* Deciding.                                                               *)

\* int32 subtraction wraps, and so does the negation of the least int32.
Int32(n) == ((n + HalfRange) % (2 * HalfRange)) - HalfRange
Abs32(n) == IF n < 0 THEN Int32(-n) ELSE n

\* Mutant: a status change is not a change.
ChangedInDelayOnly(prev, now) ==
  prev.hasDelay /\ now.hasDelay /\ Abs32(Int32(now.delay - prev.delay)) > MinDelta

Changed(prev, now) ==
  \/ prev.rel # now.rel
  \/ prev.matched # now.matched
  \/ prev.hasDelay # now.hasDelay
  \/ now.hasDelay /\ Abs32(Int32(now.delay - prev.delay)) > MinDelta

Known == {k \in Key : entries[k] # NoEntry}

Admits(o) == o.key \in Known => Changed(entries[o.key], o.value)

-----------------------------------------------------------------------------
(* Evicting.                                                               *)

EvictionSize ==
  LET share == Cardinality(Known) \div EvictionShare
  IN  IF share > 1 THEN share ELSE 1

\* The n oldest entries, the first n of the map sorted by seq.
Oldest(n) ==
  {gone \in SUBSET Known :
      /\ Cardinality(gone) = n
      /\ \A j \in gone, k \in Known \ gone : <<j, k>> \in older}

\* Mutant: room is made one entry too late.
EvictionsLate(k) ==
  IF k \notin Known /\ Cardinality(Known) > MaxEntries THEN Oldest(EvictionSize) ELSE {{}}

Evictions(k) ==
  IF k \notin Known /\ Cardinality(Known) >= MaxEntries
  THEN Oldest(EvictionSize)
  ELSE {{}}

-----------------------------------------------------------------------------
(* The operations.                                                         *)

OrderWithout(K) == {p \in older : p[1] \notin K /\ p[2] \notin K}

\* The admitting half of Admit: make room, then record the value as written.
Record(o) ==
  \E gone \in Evictions(o.key) :
    /\ entries' = [k \in Key |-> IF k = o.key THEN o.value
                                 ELSE IF k \in gone THEN NoEntry
                                 ELSE entries[k]]
    /\ older' = OrderWithout(gone \cup {o.key})
                  \cup ((Known \ (gone \cup {o.key})) \X {o.key})

Remove(K) ==
  /\ entries' = [k \in Key |-> IF k \in K THEN NoEntry ELSE entries[k]]
  /\ older' = OrderWithout(K)

Forget(k) == Remove({k})

ExpireBefore(cutoff) == Remove({k \in Known : DateOf[k] < cutoff})

-----------------------------------------------------------------------------
(* The map never holds more entries than FILTER_MAX_ENTRIES, whatever is   *)
(* admitted, forgotten and expired in between (filter.go:107-109): the     *)
(* memory bound of the process.                                            *)
FilterBounded == Cardinality(Known) <= MaxEntries

(* Eviction can always tell the oldest entries: any two entries are in one *)
(* and only one order, through re-admissions, evictions and expiry         *)
(* (filter.go:110-112, 189).                                               *)
EntriesAreOrdered ==
  /\ older \subseteq Known \X Known
  /\ \A j, k \in Known : j # k => (<<j, k>> \in older <=> <<k, j>> \notin older)
  /\ \A k \in Known : <<k, k>> \notin older
=============================================================================
