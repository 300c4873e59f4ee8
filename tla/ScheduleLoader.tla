--------------------------- MODULE ScheduleLoader ---------------------------
(***************************************************************************)
(* internal/gtfsstatic: the versions of a feed's timetable in Postgres,    *)
(* which of them is active, and which one each process's matcher holds.    *)
(*                                                                         *)
(* A process publishes what is active when it starts, and then goes over   *)
(* its feeds in passes: download, look up, insert, activate, prune,        *)
(* publish.  Feeds share nothing but the pass, so one stands for all.      *)
(* Processes overlap when one replaces another, and Postgres is READ       *)
(* COMMITTED except where the code asks for more.                          *)
(*                                                                         *)
(* A bundle stands for its content and for the rows made of it; versions   *)
(* are ordered by id, and the gaps a rolled back insert leaves in the      *)
(* sequence are left out.                                                  *)
(***************************************************************************)
EXTENDS Integers, Sequences, FiniteSetsExt

CONSTANTS
  Process,     \* the instances of the service
  Bundle,      \* what upstream can publish
  Unloadable,  \* bundles insert refuses: a file missing, no calendar, no trips
  Histories,   \* what was loaded, in order, before the model begins
  Keep,        \* SCHEDULE_KEEP_VERSIONS
  MaxChanges,  \* bound on publications upstream
  MaxFaults,   \* bound on failing steps and on timeouts
  MaxCrashes,  \* bound on crashes
  Nothing      \* no timetable, no bundle

ASSUME LoaderConstants ==
  /\ IsFiniteSet(Process)
  /\ Unloadable \subseteq Bundle /\ Nothing \notin Bundle
  /\ Histories \subseteq Seq(Bundle \ Unloadable)
  /\ Keep \in Nat /\ Keep > 1
  /\ MaxChanges \in Nat /\ MaxFaults \in Nat /\ MaxCrashes \in Nat

VARIABLES
  upstream,  \* the bundle the operator publishes
  versions,  \* schedule_versions, as committed
  active,    \* the ids of its active rows
  ever,      \* history: every version there has been
  at,        \* where each process is
  starting,  \* the processes that publish at startup and do not load yet
  got,       \* the downloaded bundle
  id,        \* the version being inserted or activated
  found,     \* the active rows an activation has locked
  reading,   \* the version a process reads into memory
  holds,     \* the timetable in each process's matcher
  changes, faults, crashes  \* counted only to bound them

vars == <<upstream, versions, active, ever, at, starting, got, id, found, reading, holds,
          changes, faults, crashes>>
schema == <<versions, active, ever>>
bounds == <<upstream, changes, faults, crashes>>

Version == [id : Nat, bundle : Bundle]
Ids == {v.id : v \in versions}

Place == {"down", "fetch", "lookup", "insert", "copying", "activate", "waiting",
          "switching", "prune", "publish", "snapshot", "reading", "asleep"}

TypeOK ==
  /\ upstream \in Bundle
  /\ versions \subseteq ever /\ ever \subseteq Version
  /\ \A v, w \in ever : v.id = w.id => v = w
  /\ active \subseteq Ids
  /\ at \in [Process -> Place]
  /\ starting \subseteq Process
  /\ got \in [Process -> Bundle \cup {Nothing}]
  /\ id \in [Process -> Nat]
  /\ found \in [Process -> SUBSET Nat]
  /\ reading \in [Process -> ever \cup {Nothing}]
  /\ holds \in [Process -> [id : Nat, rows : Bundle \cup {Nothing}]]
  /\ changes \in 0..MaxChanges /\ faults \in 0..MaxFaults /\ crashes \in 0..MaxCrashes

Empty == [id |-> 0, rows |-> Nothing]

\* What was loaded before is in the database, the last of it active.
Init ==
  /\ \E h \in Histories :
       /\ versions = {[id |-> n, bundle |-> h[n]] : n \in DOMAIN h}
       /\ active = {n \in DOMAIN h : n + 1 \notin DOMAIN h}
  /\ ever = versions
  /\ upstream \in Bundle
  /\ at = [p \in Process |-> "down"]
  /\ starting = {}
  /\ got = [p \in Process |-> Nothing]
  /\ id = [p \in Process |-> 0]
  /\ found = [p \in Process |-> {}]
  /\ reading = [p \in Process |-> Nothing]
  /\ holds = [p \in Process |-> Empty]
  /\ changes = 0 /\ faults = 0 /\ crashes = 0

-----------------------------------------------------------------------------
(* Moving through a pass.                                                  *)

Go(p, place) == at' = [at EXCEPT ![p] = place]

Fault == faults < MaxFaults /\ faults' = faults + 1 /\ UNCHANGED <<upstream, changes, crashes>>

\* What a pass is working on is forgotten; the matcher keeps its timetable.
Forget(p) ==
  /\ got' = [got EXCEPT ![p] = Nothing]
  /\ id' = [id EXCEPT ![p] = 0]
  /\ found' = [found EXCEPT ![p] = {}]
  /\ reading' = [reading EXCEPT ![p] = Nothing]

\* Load has returned, with an error or without: publish.
LoadReturns(p) == Go(p, "publish") /\ Forget(p) /\ UNCHANGED <<starting, holds>>

\* publishActive has returned: at startup the first load is next.
PassEnds(p) ==
  /\ Go(p, IF p \in starting THEN "fetch" ELSE "asleep")
  /\ starting' = starting \ {p}
  /\ Forget(p)

-----------------------------------------------------------------------------
(* The service starts, sleeps and loads.                                   *)

Start(p) ==
  /\ at[p] = "down"
  /\ Go(p, "publish")
  /\ starting' = starting \cup {p}
  /\ UNCHANGED <<schema, got, id, found, reading, holds, bounds>>

Wake(p) ==
  /\ at[p] = "asleep"
  /\ Go(p, "fetch")
  /\ UNCHANGED <<schema, starting, got, id, found, reading, holds, bounds>>

Fetch(p) ==
  /\ at[p] = "fetch"
  /\ got' = [got EXCEPT ![p] = upstream]
  /\ Go(p, "lookup")
  /\ UNCHANGED <<schema, starting, id, found, reading, holds, bounds>>

\* Mutant: a bundle that was loaded before is not made active again.
LookupKnown(p) ==
  /\ at[p] = "lookup"
  /\ \/ /\ \E v \in versions : v.bundle = got[p]
        /\ LoadReturns(p)
     \/ /\ \A v \in versions : v.bundle # got[p]
        /\ Go(p, "insert")
        /\ UNCHANGED <<starting, got, id, found, reading, holds>>
  /\ UNCHANGED <<schema, bounds>>

\* An unchanged bundle is already there; one that was there before comes back.
Lookup(p) ==
  /\ at[p] = "lookup"
  /\ \/ \E v \in versions :
          /\ v.bundle = got[p]
          /\ \/ v.id \in active /\ LoadReturns(p)
             \/ /\ v.id \notin active
                /\ id' = [id EXCEPT ![p] = v.id]
                /\ got' = [got EXCEPT ![p] = Nothing]
                /\ Go(p, "activate")
                /\ UNCHANGED <<starting, found, reading, holds>>
     \/ /\ \A v \in versions : v.bundle # got[p]
        /\ Go(p, "insert")
        /\ UNCHANGED <<starting, got, id, found, reading, holds>>
  /\ UNCHANGED <<schema, bounds>>

TakenIds == {v.id : v \in ever} \cup {id[q] : q \in {r \in Process : at[r] = "copying"}}

\* Mutant: one more than what can be seen in the table.
NextVisibleId == 1 + Max({v.id : v \in versions} \cup {0})

NextId == 1 + Max(TakenIds \cup {0})

\* The unique index on the content makes a second insert wait for the first,
\* and fail when that commits.
InsertBegins(p) ==
  /\ at[p] = "insert"
  /\ \A q \in Process : at[q] = "copying" => got[q] # got[p]
  /\ IF \E v \in versions : v.bundle = got[p]
     THEN LoadReturns(p)
     ELSE /\ id' = [id EXCEPT ![p] = NextId]
          /\ Go(p, "copying")
          /\ UNCHANGED <<starting, got, found, reading, holds>>
  /\ UNCHANGED <<schema, bounds>>

Row(p) == [id |-> id[p], bundle |-> got[p]]

\* The transaction's COMMIT: the version and its rows.
Commit(p) ==
  /\ at[p] = "copying" /\ got[p] \notin Unloadable
  /\ versions' = versions \cup {Row(p)}
  /\ ever' = ever \cup {Row(p)}
  /\ UNCHANGED active

InsertCommits(p) ==
  /\ Commit(p)
  /\ Go(p, "activate")
  /\ UNCHANGED <<starting, got, id, found, reading, holds, bounds>>

InsertRefused(p) ==
  /\ at[p] = "copying" /\ got[p] \in Unloadable
  /\ LoadReturns(p)
  /\ UNCHANGED <<schema, bounds>>

Locked(n, p) == \E q \in Process \ {p} : at[q] = "switching" /\ n \in found[q]

\* activate's first UPDATE: every active row is locked and marked inactive, once
\* the activation that holds it is over.
Deactivate(p) ==
  /\ at[p] = "activate"
  /\ found' = [found EXCEPT ![p] = active]
  /\ Go(p, IF \E n \in active : Locked(n, p) THEN "waiting" ELSE "switching")
  /\ UNCHANGED <<schema, starting, got, id, reading, holds, bounds>>

\* It goes on with the rows it saw that are still active.
Waited(p) ==
  /\ at[p] = "waiting"
  /\ \A n \in found[p] : ~Locked(n, p)
  /\ found' = [found EXCEPT ![p] = @ \cap active]
  /\ Go(p, "switching")
  /\ UNCHANGED <<schema, starting, got, id, reading, holds, bounds>>

\* Mutant: no unique index over the active rows.
SwitchUnchecked(p) ==
  /\ at[p] = "switching"
  /\ active' = (active \ found[p]) \cup ({id[p]} \cap Ids)
  /\ UNCHANGED <<versions, ever>>

\* The second UPDATE and the COMMIT; a row that is gone is no error.
Switch(p) ==
  /\ at[p] = "switching"
  /\ active \subseteq found[p] \cup {id[p]}
  /\ active' = (active \ found[p]) \cup ({id[p]} \cap Ids)
  /\ UNCHANGED <<versions, ever>>

\* A version found in the table is not pruned after, an inserted one is.
Activated(p) ==
  /\ Switch(p)
  /\ IF got[p] = Nothing
     THEN LoadReturns(p)
     ELSE Go(p, "prune") /\ Forget(p) /\ UNCHANGED <<starting, holds>>
  /\ UNCHANGED bounds

\* The unique index over the active rows refuses a second one.
ActivationRefused(p) ==
  /\ at[p] = "switching"
  /\ ~(active \subseteq found[p] \cup {id[p]})
  /\ LoadReturns(p)
  /\ UNCHANGED <<schema, bounds>>

\* Mutant: the active version is not spared.
DoomedByAge(v) == Cardinality({w \in versions : w.id > v.id}) >= Keep

Doomed(v) == v.id \notin active /\ Cardinality({w \in versions : w.id > v.id}) >= Keep

DeleteOld(p) ==
  /\ at[p] = "prune"
  /\ versions' = {v \in versions : ~Doomed(v)}
  /\ active' = active \cap {v.id : v \in versions'}
  /\ UNCHANGED ever

Prune(p) == DeleteOld(p) /\ LoadReturns(p) /\ UNCHANGED bounds

-----------------------------------------------------------------------------
(* publishActive.                                                          *)

Publish(p) ==
  /\ at[p] = "publish"
  /\ IF active \ {holds[p].id} = {}
     THEN PassEnds(p)
     ELSE Go(p, "snapshot") /\ UNCHANGED <<starting, got, id, found, reading>>
  /\ UNCHANGED <<schema, holds, bounds>>

\* Schedule's REPEATABLE READ transaction sees what is committed now, to its end.
Snapshot(p) ==
  /\ at[p] = "snapshot"
  /\ \/ \E v \in versions :
          /\ v.id \in active
          /\ reading' = [reading EXCEPT ![p] = v]
          /\ Go(p, "reading")
          /\ UNCHANGED <<starting, got, id, found>>
     \/ active = {} /\ PassEnds(p)
  /\ UNCHANGED <<schema, holds, bounds>>

\* Mutant: each query sees what is committed when it runs.
RowsReadCommitted(p) == IF reading[p] \in versions THEN reading[p].bundle ELSE Nothing

RowsRead(p) == reading[p].bundle

Swap(p) ==
  /\ at[p] = "reading"
  /\ holds' = [holds EXCEPT ![p] = [id |-> reading[p].id, rows |-> RowsRead(p)]]
  /\ PassEnds(p)
  /\ UNCHANGED <<schema, bounds>>

-----------------------------------------------------------------------------
(* Failures.                                                               *)

InLoad == {"fetch", "lookup", "insert", "copying", "activate", "waiting", "switching"}
InPublish == {"prune", "publish", "snapshot", "reading"}

\* What was sent may be carried out whatever the process learns.
Unacknowledged(p) == Commit(p) \/ Switch(p) \/ DeleteOld(p) \/ UNCHANGED schema

\* The download or the database fails a step.  A failed prune is a warning.
Fails(p) ==
  /\ \/ at[p] \in InLoad \cup {"prune"} /\ LoadReturns(p)
     \/ at[p] \in InPublish \ {"prune"} /\ PassEnds(p) /\ UNCHANGED holds
  /\ Unacknowledged(p)
  /\ Fault

\* The load's five minutes are over, and publishActive has the same context.
\* At startup there is one minute, for publishing alone.
TimesOut(p) ==
  /\ at[p] \in InLoad \cup InPublish
  /\ PassEnds(p)
  /\ Unacknowledged(p)
  /\ UNCHANGED holds
  /\ Fault

Crash(p) ==
  /\ at[p] # "down" /\ crashes < MaxCrashes
  /\ crashes' = crashes + 1
  /\ Go(p, "down")
  /\ starting' = starting \ {p}
  /\ holds' = [holds EXCEPT ![p] = Empty]
  /\ Forget(p)
  /\ Unacknowledged(p)
  /\ UNCHANGED <<upstream, changes, faults>>

Change ==
  /\ changes < MaxChanges
  /\ changes' = changes + 1
  /\ upstream' \in Bundle \ {upstream}
  /\ UNCHANGED <<schema, at, starting, got, id, found, reading, holds, faults, crashes>>

Advance(p) ==
  \/ Wake(p) \/ Fetch(p) \/ Lookup(p)
  \/ InsertBegins(p) \/ InsertCommits(p) \/ InsertRefused(p)
  \/ Deactivate(p) \/ Waited(p) \/ Activated(p) \/ ActivationRefused(p) \/ Prune(p)
  \/ Publish(p) \/ Snapshot(p) \/ Swap(p)

Next ==
  \/ \E p \in Process : Start(p) \/ Advance(p) \/ Fails(p) \/ TimesOut(p) \/ Crash(p)
  \/ Change

Spec == Init /\ [][Next]_vars

FairSpec == Spec /\ \A p \in Process : WF_vars(Advance(p))

-----------------------------------------------------------------------------
(* However two processes' activations, an unacknowledged commit and a      *)
(* prune fall together, no two versions are active (load.go:191-193, which *)
(* says never zero either: that is ActiveUntilReplaced's).                 *)
OneActive == Cardinality(active) <= 1

(* Only an activation changes what is active: the active version is never  *)
(* pruned, and a load that fails, times out or dies before its second      *)
(* UPDATE leaves it as it was (load.go:118-120, 208-209, refresh.go:94).   *)
(* What is active then is the version activated; none only if that one was *)
(* pruned meanwhile, Keep newer ones loaded since it was (load.go:194-217).*)
ActiveUntilReplaced ==
  [][active' # active =>
       \E p \in Process :
         /\ at[p] = "switching" /\ at'[p] # "switching"
         /\ active' = {id[p]} \cap Ids
         /\ active' = {} => Cardinality({v \in ever : v.id > id[p]}) >= Keep]_vars

(* The timetable in memory is the one that was loaded under its id, all of *)
(* it, whatever was activated or pruned while it was read                  *)
(* (schedule.go:20-21).                                                    *)
ServesWholeVersions ==
  \A p \in Process :
    holds[p] # Empty => [id |-> holds[p].id, bundle |-> holds[p].rows] \in ever

(* A process that stays up ends with the operator's timetable in its       *)
(* matcher, also when the operator goes back to an earlier one, unless     *)
(* that is one the loader refuses (load.go:47, 76-82, refresh.go:94-95).   *)
EventuallyCurrent ==
  \A p \in Process :
    <>[](at[p] = "down" \/ upstream \in Unloadable \/ holds[p].rows = upstream)
=============================================================================
