---------------------------- MODULE MigrateProofs ----------------------------
(* Theorems about Migrate, for any number of processes and any releases. *)
EXTENDS Migrate, TLAPS

(* Where a process stands tells what it holds and what it knows: from the  *)
(* lock on nobody else changes the table, so until it returns the table is *)
(* what it read and what it has applied, and that in order.                *)
Held == \A p \in Process : at[p] \in {"reading", "applying", "unlocking"} => lock = p

Knows ==
  \A p \in Process :
    /\ at[p] \in {"down", "locking", "reading"} => seen[p] = {} /\ ran[p] = {}
    /\ at[p] = "applying" =>
         /\ applied = seen[p] \cup ran[p]
         /\ \A a \in ran[p], m \in Pending(p) : a.version < m.version
    /\ at[p] = "unlocking" /\ verdict[p] = "ok" => release[p] \subseteq applied

Inv == TypeOK /\ Held /\ Knows /\ SchemaInOrder /\ ReadyMeansMigrated /\ RefusalIsDue

-----------------------------------------------------------------------------
(* A file that is due has a higher number than anything in the table.      *)
LEMMA DueIsNewest ==
  ASSUME Inv, NEW p \in Process, NEW m \in release[p], Due(p, m)
  PROVE  m \in File /\ \A a \in applied : a.version < m.version
<1>1. m \in File /\ m \in Pending(p)
  BY DEF Inv, TypeOK, File, Due, Upcoming
<1>2. SUFFICES ASSUME NEW a \in applied PROVE a.version < m.version
  BY <1>1
<1>3. a.version \in Nat /\ m.version \in Nat
  BY <1>1, MigrateConstants DEF Inv, TypeOK
<1>4. a \in seen[p] \/ a \in ran[p]
  BY DEF Inv, Knows, Due
<1>5. CASE a \in seen[p]
  <2>1. a # m BY <1>1, <1>5 DEF Pending
  <2>2. a.version # m.version BY <1>5, <2>1 DEF Due, EditedIn
  <2>3. ~(a.version > m.version) BY <1>5 DEF Due, OutOfOrderIn
  <2> QED BY <1>3, <2>2, <2>3
<1>6. CASE a \in ran[p]
  BY <1>1, <1>6 DEF Inv, Knows, Due
<1> QED BY <1>4, <1>5, <1>6

(* Committing it keeps the schema in order.                                *)
LEMMA CommitInOrder ==
  ASSUME Inv, NEW p \in Process, NEW m \in release[p], Due(p, m), Commit(m)
  PROVE  applied' \subseteq File /\ schema' \in Seq(File) /\ SchemaInOrder'
<1>1. m \in File /\ \A a \in applied : a.version < m.version
  BY DueIsNewest
<1>2. /\ schema \in Seq(File) /\ applied = {schema[i] : i \in 1..Len(schema)}
      /\ \A i, j \in 1..Len(schema) : i < j => schema[i].version < schema[j].version
  BY DEF Inv, TypeOK, SchemaInOrder
<1>3. schema' = Append(schema, m) /\ applied' = applied \cup {m} /\ Len(schema) \in Nat
  BY <1>2 DEF Commit
<1>4. /\ schema' \in Seq(File) /\ Len(schema') = Len(schema) + 1 /\ DOMAIN schema' = 1..(Len(schema) + 1)
      /\ schema'[Len(schema) + 1] = m
      /\ \A i \in 1..Len(schema) : schema'[i] = schema[i]
  BY <1>1, <1>2, <1>3
<1>5. applied' = {schema'[i] : i \in DOMAIN schema'}
  <2>1. 1..(Len(schema) + 1) = 1..Len(schema) \cup {Len(schema) + 1} BY <1>3
  <2>2. \A x \in applied' : \E i \in DOMAIN schema' : x = schema'[i]
    BY <1>2, <1>3, <1>4, <2>1
  <2>3. \A i \in DOMAIN schema' : schema'[i] \in applied'
    BY <1>2, <1>3, <1>4, <2>1
  <2> QED BY <2>2, <2>3
<1>6. ASSUME NEW i \in DOMAIN schema', NEW j \in DOMAIN schema', i < j
      PROVE  schema'[i].version < schema'[j].version
  <2>1. i \in 1..Len(schema) BY <1>3, <1>4, <1>6
  <2>2. CASE j \in 1..Len(schema) BY <1>2, <1>4, <1>6, <2>1, <2>2
  <2>3. CASE j = Len(schema) + 1 BY <1>1, <1>2, <1>4, <2>1, <2>3
  <2> QED BY <1>3, <1>4, <2>2, <2>3
<1> QED BY <1>1, <1>3, <1>4, <1>5, <1>6 DEF Inv, TypeOK, SchemaInOrder

(* Whoever is due to commit holds the lock, so nobody else is between      *)
(* reading the table and returning, and what the others rely on only grows.*)
LEMMA CommitKeepsOthers ==
  ASSUME Inv, NEW p \in Process, NEW m \in release[p], Due(p, m), Commit(m),
         NEW q \in Process, q # p, at'[q] = at[q], release'[q] = release[q],
         seen'[q] = seen[q], ran'[q] = ran[q], verdict'[q] = verdict[q]
  PROVE  /\ at[q] \in {"down", "locking", "ready"}
         /\ at'[q] = "ready" => release'[q] \subseteq applied'
<1>1. at[p] = "applying" BY DEF Due
<1>2. at[q] \in {"down", "locking", "ready"} BY <1>1 DEF Inv, Held, TypeOK, Place
<1> QED BY <1>2 DEF Inv, ReadyMeansMigrated, Commit

-----------------------------------------------------------------------------
LEMMA InitInv == Init => Inv
BY DEF Init, Inv, TypeOK, Place, Verdict, Held, Knows, SchemaInOrder, ReadyMeansMigrated, RefusalIsDue

LEMMA StepInv == Inv /\ [Next]_vars => Inv'
<1> SUFFICES ASSUME Inv, [Next]_vars PROVE Inv'
  OBVIOUS
<1> USE DEF Inv
<1>1. CASE UNCHANGED vars
  BY <1>1 DEF vars, TypeOK, Held, Knows, Pending, SchemaInOrder, ReadyMeansMigrated, RefusalIsDue, Contradicts, EditedIn
<1>2. CASE SessionEnds
  BY <1>2, MigrateConstants DEF SessionEnds, local, TypeOK, Held, Knows, Pending, SchemaInOrder,
     ReadyMeansMigrated, RefusalIsDue, Contradicts, EditedIn
<1>3. ASSUME NEW p \in Process, Start(p) PROVE Inv'
  BY <1>3 DEF Start, Loadable, TypeOK, Place, Held, Knows, Pending, SchemaInOrder,
     ReadyMeansMigrated, RefusalIsDue, Contradicts, EditedIn
<1>4. ASSUME NEW p \in Process, TakeLock(p) PROVE Inv'
  BY <1>4, MigrateConstants DEF TakeLock, TypeOK, Place, Held, Knows, Pending, SchemaInOrder,
     ReadyMeansMigrated, RefusalIsDue, Contradicts, EditedIn
<1>5. ASSUME NEW p \in Process, LockFails(p) PROVE Inv'
  BY <1>5 DEF LockFails, TypeOK, Place, Held, Knows, Pending, SchemaInOrder,
     ReadyMeansMigrated, RefusalIsDue, Contradicts, EditedIn
<1>6. ASSUME NEW p \in Process, ReadApplied(p) PROVE Inv'
  BY <1>6 DEF ReadApplied, TypeOK, Place, Held, Knows, Pending, SchemaInOrder,
     ReadyMeansMigrated, RefusalIsDue, Contradicts, EditedIn
<1>7. ASSUME NEW p \in Process, Refuse(p) PROVE Inv'
  BY <1>7 DEF Refuse, Return, Upcoming, OutOfOrderIn, TypeOK, Place, Verdict, Held, Knows, Pending, SchemaInOrder,
     ReadyMeansMigrated, RefusalIsDue, Contradicts, EditedIn
<1>8. ASSUME NEW p \in Process, Apply(p) PROVE Inv'
  <2>1. PICK m \in release[p] : Due(p, m) /\ (IF Taken(m) THEN TRUE ELSE Commit(m) /\ ran' = [ran EXCEPT ![p] = @ \cup {m}] /\ UNCHANGED <<at, verdict>>)
    BY <1>8 DEF Apply
  <2>2. ~Taken(m)
    BY <2>1, DueIsNewest, MigrateConstants DEF Taken, TypeOK
  <2>3. Commit(m) /\ ran' = [ran EXCEPT ![p] = @ \cup {m}] /\ UNCHANGED <<at, verdict>>
    BY <2>1, <2>2
  <2>4. UNCHANGED <<lock, release, seen>> BY <1>8 DEF Apply
  <2>5. /\ applied' \subseteq File /\ schema' \in Seq(File) /\ SchemaInOrder'
        /\ applied' = applied \cup {m}
    BY <2>1, <2>3, CommitInOrder DEF Commit
  <2>6. TypeOK' BY <2>3, <2>4, <2>5, DueIsNewest, <2>1 DEF TypeOK
  <2>7. Held' BY <2>3, <2>4 DEF Held
  <2>8. \A q \in Process : q # p => at[q] \in {"down", "locking", "ready"} /\ (at'[q] = "ready" => release'[q] \subseteq applied')
    <3> SUFFICES ASSUME NEW q \in Process, q # p
                 PROVE  at[q] \in {"down", "locking", "ready"} /\ (at'[q] = "ready" => release'[q] \subseteq applied')
      OBVIOUS
    <3>1. at'[q] = at[q] /\ release'[q] = release[q] /\ seen'[q] = seen[q] /\ ran'[q] = ran[q] /\ verdict'[q] = verdict[q]
      BY <2>3, <2>4 DEF TypeOK
    <3> QED BY <2>1, <2>3, <3>1, CommitKeepsOthers
  <2>9. at[p] = "applying" /\ at' = at BY <2>1, <2>3 DEF Due
  <2>10. Knows'
    <3>1. applied' = seen'[p] \cup ran'[p]
      BY <2>3, <2>4, <2>5, <2>9 DEF Knows, TypeOK
    <3>2. \A a \in ran'[p], n \in Pending(p)' : a.version < n.version
      <4> SUFFICES ASSUME NEW a \in ran'[p], NEW n \in Pending(p)' PROVE a.version < n.version
        OBVIOUS
      <4>1. n \in Pending(p) /\ n # m /\ n \in release[p]
        BY <2>3, <2>4 DEF Pending, TypeOK
      <4>2. CASE a \in ran[p] BY <4>1, <4>2, <2>9 DEF Knows
      <4>3. CASE a = m
        <5>1. m.version <= n.version BY <2>1, <4>1 DEF Due, Upcoming
        <5>2. m.version # n.version BY <4>1 DEF TypeOK
        <5>3. m \in File /\ n \in File BY <4>1 DEF TypeOK, File
        <5> QED BY <4>3, <5>1, <5>2, <5>3, MigrateConstants
      <4> QED BY <4>2, <4>3, <2>3 DEF TypeOK
    <3> QED BY <3>1, <3>2, <2>3, <2>4, <2>8, <2>9 DEF Knows, TypeOK
  <2>11. ReadyMeansMigrated' BY <2>8, <2>9 DEF ReadyMeansMigrated
  <2>12. RefusalIsDue' BY <2>8, <2>9 DEF RefusalIsDue
  <2> QED BY <2>5, <2>6, <2>7, <2>10, <2>11, <2>12
<1>9. ASSUME NEW p \in Process, ReadFails(p) PROVE Inv'
  BY <1>9 DEF ReadFails, Return, TypeOK, Place, Verdict, Held, Knows, Pending, SchemaInOrder,
     ReadyMeansMigrated, RefusalIsDue, Contradicts, EditedIn
<1>10. ASSUME NEW p \in Process, AllApplied(p) PROVE Inv'
  BY <1>10 DEF AllApplied, Return, TypeOK, Place, Verdict, Held, Knows, Pending, SchemaInOrder,
     ReadyMeansMigrated, RefusalIsDue, Contradicts, EditedIn
<1>11. ASSUME NEW p \in Process, Unlock(p) PROVE Inv'
  BY <1>11 DEF Unlock, AfterMigrate, Forget, TypeOK, Place, Verdict, Held, Knows, Pending, SchemaInOrder,
     ReadyMeansMigrated, RefusalIsDue, Contradicts, EditedIn
<1>12. ASSUME NEW p \in Process, ApplyFails(p) \/ Crash(p) PROVE Inv'
  <2>1. PICK m : \/ m \in release[p] /\ Due(p, m) /\ Commit(m)
                \/ UNCHANGED <<applied, schema>>
    BY <1>12 DEF ApplyFails, Crash
  <2>2. /\ at' = [at EXCEPT ![p] = IF at'[p] = "down" THEN "down" ELSE "unlocking"]
        /\ verdict' = [verdict EXCEPT ![p] = IF at'[p] = "down" THEN "none" ELSE "database"]
        /\ at'[p] \in {"down", "unlocking"} /\ release' = release
        /\ seen' = [seen EXCEPT ![p] = seen'[p]] /\ seen'[p] \subseteq File
        /\ ran' = [ran EXCEPT ![p] = ran'[p]] /\ ran'[p] \subseteq File
        /\ at'[p] = "down" => seen'[p] = {} /\ ran'[p] = {} /\ (lock' = IF lock = p THEN Gone ELSE lock)
        /\ at'[p] # "down" => at[p] = "applying" /\ lock' = lock
    BY <1>12 DEF ApplyFails, Crash, Forget, Return, Due, TypeOK, Place
  <2>3. CASE UNCHANGED <<applied, schema>>
    <3>1. \A q \in Process : q # p => at'[q] = at[q] /\ seen'[q] = seen[q] /\ ran'[q] = ran[q] /\ verdict'[q] = verdict[q]
      BY <2>2 DEF TypeOK
    <3>2. at'[p] = "unlocking" => verdict'[p] = "database"
      BY <2>2 DEF TypeOK
    <3>3. TypeOK' BY <2>2, <2>3, MigrateConstants DEF TypeOK, Place, Verdict
    <3>4. Held' BY <2>2, <3>1 DEF Held, TypeOK
    <3>5. Knows' BY <2>2, <2>3, <3>1, <3>2 DEF Knows, TypeOK, Pending
    <3>6. SchemaInOrder' BY <2>3 DEF SchemaInOrder
    <3>7. ReadyMeansMigrated' BY <2>2, <2>3, <3>1 DEF ReadyMeansMigrated, TypeOK
    <3>8. RefusalIsDue' BY <2>2, <2>3, <3>1, <3>2 DEF RefusalIsDue, Contradicts, EditedIn, TypeOK
    <3> QED BY <3>3, <3>4, <3>5, <3>6, <3>7, <3>8
  <2>4. CASE m \in release[p] /\ Due(p, m) /\ Commit(m)
    <3>1. applied' \subseteq File /\ schema' \in Seq(File) /\ SchemaInOrder'
      BY <2>4, CommitInOrder
    <3>2. \A q \in Process : q # p =>
            at[q] \in {"down", "locking", "ready"} /\ (at'[q] = "ready" => release'[q] \subseteq applied')
      <4> SUFFICES ASSUME NEW q \in Process, q # p
                   PROVE  at[q] \in {"down", "locking", "ready"} /\ (at'[q] = "ready" => release'[q] \subseteq applied')
        OBVIOUS
      <4>1. at'[q] = at[q] /\ release'[q] = release[q] /\ seen'[q] = seen[q] /\ ran'[q] = ran[q] /\ verdict'[q] = verdict[q]
        BY <2>2 DEF TypeOK
      <4> QED BY <2>4, <4>1, CommitKeepsOthers
    <3>3. \A q \in Process : q # p => at'[q] = at[q] /\ seen'[q] = seen[q] /\ ran'[q] = ran[q] /\ verdict'[q] = verdict[q]
      BY <2>2 DEF TypeOK
    <3>4. TypeOK' BY <2>2, <3>1, MigrateConstants DEF TypeOK, Place, Verdict
    <3>5. Held' BY <2>2, <3>2, <3>3 DEF Held, TypeOK
    <3>6. Knows' BY <2>2, <3>2, <3>3 DEF Knows, TypeOK
    <3>7. ReadyMeansMigrated' BY <2>2, <3>2, <3>3 DEF ReadyMeansMigrated, TypeOK
    <3>8. RefusalIsDue' BY <2>2, <3>2, <3>3 DEF RefusalIsDue, TypeOK
    <3> QED BY <3>1, <3>4, <3>5, <3>6, <3>7, <3>8
  <2> QED BY <2>1, <2>3, <2>4
<1> QED
  BY <1>1, <1>2, <1>3, <1>4, <1>5, <1>6, <1>7, <1>8, <1>9, <1>10, <1>11, <1>12 DEF Next, Advance

(* Through crashes, lost acknowledgements and any number of releases       *)
(* starting at once, what the table records is what ran, in order          *)
(* (migrate.go:91-98, 114-115).                                            *)
THEOREM SchemaKept == Spec => []SchemaInOrder
<1>1. Inv => SchemaInOrder BY DEF Inv
<1> QED BY InitInv, StepInv, <1>1, PTL DEF Spec

(* Whoever serves has the schema its release was written for, and keeps it *)
(* while other releases start (main.go:85).                                *)
THEOREM ServesMigrated == Spec => []ReadyMeansMigrated
<1>1. Inv => ReadyMeansMigrated BY DEF Inv
<1> QED BY InitInv, StepInv, <1>1, PTL DEF Spec

(* No start is refused for having raced another: the files it was built    *)
(* with really contradict the schema (migrate.go:20-24).                   *)
THEOREM RefusalsAreDue == Spec => []RefusalIsDue
<1>1. Inv => RefusalIsDue BY DEF Inv
<1> QED BY InitInv, StepInv, <1>1, PTL DEF Spec

(* The values the schema table, the lock and the processes range over      *)
(* (migrate.go:27-32, 41-112).                                             *)
THEOREM MigrateTyped == Spec => []TypeOK
<1>1. Inv => TypeOK BY DEF Inv
<1> QED BY InitInv, StepInv, <1>1, PTL DEF Spec
=============================================================================
