------------------------------- MODULE Migrate -------------------------------
(***************************************************************************)
(* internal/store/migrate.go: what a process does to the schema before it  *)
(* serves.  Processes start with the migration files of their release, one *)
(* at a time behind a session's advisory lock; they crash anywhere, and    *)
(* the server notices that a session is gone some time later.              *)
(***************************************************************************)
EXTENDS Integers, Sequences

CONSTANTS
  Process,  \* the service's containers and `make migrate'
  Release,  \* the sets of migration files a process can be built with
  None,     \* nobody holds the lock
  Gone      \* a session whose process has died still holds it

File == UNION Release

ASSUME MigrateConstants ==
  /\ \A m \in File : m.version \in Nat
  /\ None \notin Process /\ Gone \notin Process /\ None # Gone

VARIABLES
  lock,     \* who holds pg_advisory_lock(migrationLockID)
  applied,  \* schema_migrations; the checksum stands for the file
  schema,   \* history: the migrations that ran and committed, in that order
  at,       \* where each process is in Migrate
  release,  \* its files
  seen,     \* appliedVersions: the table as it read it
  ran,      \* what it has applied
  verdict   \* what Migrate returns

vars == <<lock, applied, schema, at, release, seen, ran, verdict>>
local == <<at, release, seen, ran, verdict>>

Place == {"down", "locking", "reading", "applying", "unlocking", "ready"}
Verdict == {"none", "ok", "edited", "order", "conflict", "database"}

TypeOK ==
  /\ lock \in Process \cup {None, Gone}
  /\ applied \subseteq File
  /\ schema \in Seq(File)
  /\ at \in [Process -> Place]
  /\ release \in [Process -> Release \cup {{}}]
  /\ \A p \in Process : \A m, n \in release[p] : m.version = n.version => m = n
  /\ seen \in [Process -> SUBSET File]
  /\ ran \in [Process -> SUBSET File]
  /\ verdict \in [Process -> Verdict]

Init ==
  /\ lock = None /\ applied = {} /\ schema = <<>>
  /\ at = [p \in Process |-> "down"]
  /\ release = [p \in Process |-> {}]
  /\ seen = [p \in Process |-> {}]
  /\ ran = [p \in Process |-> {}]
  /\ verdict = [p \in Process |-> "none"]

-----------------------------------------------------------------------------
(* What a process makes of its files and of what it has read.              *)

\* load refuses a build without files, or with two files of one version.
Loadable(r) == r # {} /\ \A m, n \in r : m.version = n.version => m = n

\* The files the loop has not passed: those applied unchanged it continues over.
Pending(p) == release[p] \ (seen[p] \cup ran[p])

Upcoming(p, m) == m \in Pending(p) /\ \A n \in Pending(p) : m.version <= n.version

EditedIn(table, m) == \E a \in table : a.version = m.version /\ a # m

\* Mutant: a gap in the numbers is filled in late.
NeverOutOfOrder(table, m) == FALSE

OutOfOrderIn(table, m) == \E a \in table : a.version > m.version

-----------------------------------------------------------------------------
(* Migrate.                                                                *)

Start(p) ==
  /\ at[p] = "down"
  /\ \E r \in Release :
       /\ Loadable(r)
       /\ release' = [release EXCEPT ![p] = r]
  /\ at' = [at EXCEPT ![p] = "locking"]
  /\ UNCHANGED <<lock, applied, schema, seen, ran, verdict>>

\* Mutant: the lock is tried and not waited for.
TakeLockOrGoOn(p) ==
  /\ at[p] = "locking"
  /\ lock' = IF lock = None THEN p ELSE lock
  /\ at' = [at EXCEPT ![p] = "reading"]
  /\ UNCHANGED <<applied, schema, release, seen, ran, verdict>>

TakeLock(p) ==
  /\ at[p] = "locking"
  /\ lock = None
  /\ lock' = p
  /\ at' = [at EXCEPT ![p] = "reading"]
  /\ UNCHANGED <<applied, schema, release, seen, ran, verdict>>

LockFails(p) ==
  /\ at[p] = "locking"
  /\ at' = [at EXCEPT ![p] = "down"]
  /\ UNCHANGED <<lock, applied, schema, release, seen, ran, verdict>>

\* CREATE TABLE IF NOT EXISTS and the one SELECT.
ReadApplied(p) ==
  /\ at[p] = "reading"
  /\ seen' = [seen EXCEPT ![p] = applied]
  /\ at' = [at EXCEPT ![p] = "applying"]
  /\ UNCHANGED <<lock, applied, schema, release, ran, verdict>>

Return(p, v) ==
  /\ verdict' = [verdict EXCEPT ![p] = v]
  /\ at' = [at EXCEPT ![p] = "unlocking"]

Refuse(p) ==
  /\ at[p] = "applying"
  /\ \E m \in release[p] :
       /\ Upcoming(p, m)
       /\ \/ EditedIn(seen[p], m) /\ Return(p, "edited")
          \/ ~EditedIn(seen[p], m) /\ OutOfOrderIn(seen[p], m) /\ Return(p, "order")
  /\ UNCHANGED <<lock, applied, schema, release, seen, ran>>

Due(p, m) ==
  /\ at[p] = "applying"
  /\ Upcoming(p, m)
  /\ ~EditedIn(seen[p], m) /\ ~OutOfOrderIn(seen[p], m)

Taken(m) == \E a \in applied : a.version = m.version

\* Statements and the row of one migration, committed together.
Commit(m) ==
  /\ ~Taken(m)
  /\ applied' = applied \cup {m}
  /\ schema' = Append(schema, m)

\* What a migration makes may exist already, and its version be taken.
Apply(p) ==
  /\ \E m \in release[p] :
       /\ Due(p, m)
       /\ IF Taken(m)
          THEN Return(p, "conflict") /\ UNCHANGED <<applied, schema, ran>>
          ELSE /\ Commit(m)
               /\ ran' = [ran EXCEPT ![p] = @ \cup {m}]
               /\ UNCHANGED <<at, verdict>>
  /\ UNCHANGED <<lock, release, seen>>

\* The database fails a migration, or its commit is not acknowledged.
ApplyFails(p) ==
  /\ \E m \in release[p] :
       /\ Due(p, m)
       /\ \/ Commit(m)
          \/ UNCHANGED <<applied, schema>>
  /\ Return(p, "database")
  /\ UNCHANGED <<lock, release, seen, ran>>

ReadFails(p) ==
  /\ at[p] = "reading"
  /\ Return(p, "database")
  /\ UNCHANGED <<lock, applied, schema, release, seen, ran>>

\* Mutant: every file has been looked at when one has been applied.
AllAppliedAfterOne(p) ==
  /\ at[p] = "applying"
  /\ Pending(p) = {} \/ ran[p] # {}
  /\ Return(p, "ok")
  /\ UNCHANGED <<lock, applied, schema, release, seen, ran>>

AllApplied(p) ==
  /\ at[p] = "applying"
  /\ Pending(p) = {}
  /\ Return(p, "ok")
  /\ UNCHANGED <<lock, applied, schema, release, seen, ran>>

Forget(p) ==
  /\ seen' = [seen EXCEPT ![p] = {}]
  /\ ran' = [ran EXCEPT ![p] = {}]

\* A refusal exits (main.go:85-88), so its session ends too.
AfterMigrate(p) ==
  /\ at[p] = "unlocking"
  /\ at' = [at EXCEPT ![p] = IF verdict[p] = "ok" THEN "ready" ELSE "down"]
  /\ verdict' = [verdict EXCEPT ![p] = "none"]
  /\ Forget(p)
  /\ UNCHANGED <<applied, schema, release>>

\* Mutant: the connection goes back to the pool with its lock.
UnlockLeft(p) ==
  /\ AfterMigrate(p)
  /\ lock' = IF verdict[p] # "ok" THEN None ELSE lock

Unlock(p) == AfterMigrate(p) /\ lock' = IF lock = p THEN None ELSE lock

-----------------------------------------------------------------------------
(* Processes end, and sessions after them.                                 *)

\* A commit on its way may be the last thing the session does.
Crash(p) ==
  /\ at[p] # "down"
  /\ \/ \E m \in release[p] : Due(p, m) /\ Commit(m)
     \/ UNCHANGED <<applied, schema>>
  /\ lock' = IF lock = p THEN Gone ELSE lock
  /\ at' = [at EXCEPT ![p] = "down"]
  /\ verdict' = [verdict EXCEPT ![p] = "none"]
  /\ Forget(p)
  /\ UNCHANGED release

SessionEnds ==
  /\ lock = Gone
  /\ lock' = None
  /\ UNCHANGED <<applied, schema, local>>

Advance(p) ==
  \/ ReadApplied(p) \/ Refuse(p) \/ Apply(p) \/ ApplyFails(p)
  \/ ReadFails(p) \/ AllApplied(p) \/ Unlock(p)

Next ==
  \/ \E p \in Process : Start(p) \/ TakeLock(p) \/ LockFails(p) \/ Advance(p) \/ Crash(p)
  \/ SessionEnds

Spec == Init /\ [][Next]_vars

\* Postgres grants the lock in the order it was asked for.
FairSpec ==
  /\ Spec
  /\ \A p \in Process : WF_vars(Advance(p)) /\ SF_vars(TakeLock(p))
  /\ WF_vars(SessionEnds)

-----------------------------------------------------------------------------
(* The schema is what the table says, and each migration found the one     *)
(* before it: through failures, lost acknowledgements, crashes and two     *)
(* releases starting at once, nothing ran unrecorded, was recorded and did *)
(* not run, or ran after a later one (migrate.go:91-98, 114-115).          *)
SchemaInOrder ==
  /\ applied = {schema[i] : i \in DOMAIN schema}
  /\ \A i, j \in DOMAIN schema : i < j => schema[i].version < schema[j].version

(* A process that serves does so on a schema that has all its migrations,  *)
(* unchanged, whichever other releases have started since (main.go:85).    *)
ReadyMeansMigrated == \A p \in Process : at[p] = "ready" => release[p] \subseteq applied

Contradicts(r) == \E m \in r \ applied : EditedIn(applied, m) \/ \E a \in applied : a.version > m.version

(* A start is refused, other than by the database failing it, only when    *)
(* its files contradict the schema as it is: never for losing a race       *)
(* against another start with the same files (migrate.go:20-24, 38-40).    *)
RefusalIsDue ==
  \A p \in Process :
    at[p] = "unlocking" /\ verdict[p] \in {"edited", "order", "conflict"} => Contradicts(release[p])

(* A start ends, in serving or in refusal: no lock is left behind by a     *)
(* process that served, was refused or died (migrate.go:53-54).            *)
StartEnds == \A p \in Process : at[p] = "locking" ~> at[p] \in {"ready", "down"}
=============================================================================
