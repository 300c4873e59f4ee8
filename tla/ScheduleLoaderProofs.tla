------------------------ MODULE ScheduleLoaderProofs ------------------------
(***************************************************************************)
(* Theorems about ScheduleLoader: any number of processes, any bundles and *)
(* histories, any number of faults and crashes.                            *)
(***************************************************************************)
EXTENDS ScheduleLoader, FiniteSetTheorems, WellFoundedInduction, TLAPS

(* An id that was assigned belongs to one version for good, and to nobody  *)
(* else while the transaction that inserts it is open; what a process      *)
(* works on at each place is there.                                        *)
Claims ==
  /\ IsFiniteSet(ever)
  /\ \A p \in Process :
       /\ at[p] \in {"lookup", "insert", "copying"} => got[p] \in Bundle
       /\ at[p] = "reading" => reading[p] \in ever
       /\ at[p] = "copying" => \A v \in ever : v.id # id[p]
       /\ \A q \in Process : at[p] = "copying" /\ at[q] = "copying" /\ p # q => id[p] # id[q]

Inv == TypeOK /\ Claims /\ OneActive /\ ServesWholeVersions

-----------------------------------------------------------------------------
(* A finite set of numbers has a greatest.                                 *)
LEMMA GreatestOf ==
  ASSUME NEW S, S \subseteq Nat, S # {}, IsFiniteSet(S)
  PROVE  Max(S) \in S /\ \A n \in S : n <= Max(S)
<1> DEFINE Above(n) == {m \in S : m > n}
           Tails == {Above(n) : n \in S}
<1>1. IsWellFoundedOn(StrictSubsetOrdering(S), FiniteSubsetsOf(S))
  BY FS_StrictSubsetOrderingWellFounded
<1>2. \A n \in S : Above(n) \in FiniteSubsetsOf(S)
  BY FS_FiniteSubsetsOfFinite
<1>3. Tails \subseteq FiniteSubsetsOf(S) /\ Tails # {}
  <2>1. PICK n \in S : TRUE OBVIOUS
  <2>2. Above(n) \in Tails BY <2>1
  <2> HIDE DEF Above
  <2> QED BY <1>2, <2>2
<1>4. PICK A \in Tails : \A B \in Tails : ~(<<B, A>> \in StrictSubsetOrdering(S))
  BY <1>1, <1>3, WFMin
<1>5. PICK n \in S : A = Above(n) BY <1>4
<1>6. \A m \in S : n >= m
  <2>1. SUFFICES ASSUME NEW m \in S, m > n PROVE FALSE OBVIOUS
  <2>2. m \in Nat /\ n \in Nat OBVIOUS
  <2>3. Above(m) \subseteq Above(n) /\ m \in Above(n) /\ m \notin Above(m)
    <3>1. \A k \in Above(m) : k \in S /\ k \in Nat /\ k > m OBVIOUS
    <3>2. m \in Above(n) /\ m \notin Above(m) BY <2>1, <2>2
    <3>3. \A k \in Above(m) : k \in Above(n) BY <2>1, <2>2, <3>1
    <3> QED BY <3>2, <3>3
  <2>4. Above(m) \in SUBSET S /\ Above(n) \in SUBSET S OBVIOUS
  <2>5. <<Above(m), Above(n)>> \in StrictSubsetOrdering(S)
    BY <2>3, <2>4 DEF StrictSubsetOrdering
  <2> QED BY <1>4, <1>5, <2>5
<1>7. Max(S) \in S /\ \A m \in S : Max(S) >= m BY <1>6 DEF Max
<1> QED BY <1>7

(* The next id of the sequence is nobody's.                                *)
LEMMA NextIdIsNew ==
  ASSUME TypeOK, Claims
  PROVE  NextId \in Nat /\ NextId \notin TakenIds
<1> DEFINE Used == TakenIds \cup {0}
           Copying == {r \in Process : at[r] = "copying"}
<1>1. IsFiniteSet({v.id : v \in ever})
  <2>1. [v \in ever |-> v.id] \in Surjection(ever, {v.id : v \in ever})
    BY DEF Surjection
  <2> QED BY <2>1, FS_Surjection DEF Claims
<1>2. IsFiniteSet({id[q] : q \in Copying})
  <2>1. IsFiniteSet(Copying) BY FS_Subset, LoaderConstants
  <2>2. [q \in Copying |-> id[q]] \in Surjection(Copying, {id[q] : q \in Copying})
    BY DEF Surjection
  <2> QED BY <2>1, <2>2, FS_Surjection
<1>3. IsFiniteSet(TakenIds) BY <1>1, <1>2, FS_Union DEF TakenIds
<1>4. IsFiniteSet(Used) BY <1>3, FS_AddElement
<1>5. Used \subseteq Nat /\ Used # {} BY DEF TypeOK, Version, TakenIds
<1>6. Max(Used) \in Nat /\ \A n \in Used : n <= Max(Used) BY <1>4, <1>5, GreatestOf
<1> QED BY <1>5, <1>6 DEF NextId

(* An INSERT that commits keeps ids unique and what is active there.       *)
LEMMA CommitKeeps ==
  ASSUME TypeOK, Claims, NEW p \in Process, Commit(p)
  PROVE  /\ versions' \subseteq ever' /\ ever' \subseteq Version /\ ever \subseteq ever'
         /\ \A v, w \in ever' : v.id = w.id => v = w
         /\ active' \subseteq Ids' /\ active' = active
         /\ IsFiniteSet(ever')
         /\ \A v \in ever' : v \in ever \/ v.id = id[p]
<1>1. at[p] = "copying" /\ got[p] \in Bundle /\ id[p] \in Nat /\ \A v \in ever : v.id # id[p]
  BY DEF Commit, Claims, TypeOK
<1>2. Row(p) \in Version /\ Row(p).id = id[p] BY <1>1 DEF Row, Version
<1>3. versions' = versions \cup {Row(p)} /\ ever' = ever \cup {Row(p)} /\ active' = active
  BY DEF Commit
<1>4. IsFiniteSet(ever') BY <1>3, FS_AddElement DEF Claims
<1>5. active' \subseteq Ids' BY <1>3 DEF TypeOK, Ids
<1> QED BY <1>1, <1>2, <1>3, <1>4, <1>5 DEF TypeOK

(* Pruning keeps the active version.                                       *)
LEMMA PruneKeeps ==
  ASSUME TypeOK, NEW p \in Process, DeleteOld(p)
  PROVE  active' = active /\ ever' = ever /\ versions' \subseteq versions /\ active' \subseteq Ids'
<1>1. \A n \in active : \E v \in versions' : n = v.id
  <2>1. SUFFICES ASSUME NEW n \in active PROVE \E v \in versions' : n = v.id OBVIOUS
  <2>2. PICK v \in versions : n = v.id BY DEF TypeOK, Ids
  <2>3. ~Doomed(v) BY <2>2 DEF Doomed
  <2> QED BY <2>2, <2>3 DEF DeleteOld
<1>2. active' = active BY <1>1 DEF DeleteOld
<1> QED BY <1>1, <1>2 DEF DeleteOld, Ids

(* What an unacknowledged statement may leave, and so every step.          *)
SchemaStep ==
  /\ versions' \subseteq ever' /\ ever' \subseteq Version /\ ever \subseteq ever'
  /\ \A v, w \in ever' : v.id = w.id => v = w
  /\ active' \subseteq Ids' /\ (OneActive => OneActive')
  /\ IsFiniteSet(ever')

LEMMA SwitchKeeps ==
  ASSUME TypeOK, Claims, NEW p \in Process, Switch(p)
  PROVE  SchemaStep /\ ever' = ever
<1>1. active' \subseteq {id[p]} /\ active' \subseteq Ids' /\ versions' = versions /\ ever' = ever
  BY DEF Switch, TypeOK, Ids
<1>2. OneActive'
  <2>1. IsFiniteSet({id[p]}) /\ Cardinality({id[p]}) = 1 BY FS_Singleton
  <2> QED BY <1>1, <2>1, FS_Subset DEF OneActive
<1> QED BY <1>1, <1>2 DEF SchemaStep, TypeOK, Claims

LEMMA UnacknowledgedKeeps ==
  ASSUME TypeOK, Claims, NEW p \in Process, Unacknowledged(p)
  PROVE  /\ SchemaStep
         /\ \A v \in ever' : v \in ever \/ (at[p] = "copying" /\ v.id = id[p])
<1>1. CASE Commit(p)
  BY <1>1, CommitKeeps DEF SchemaStep, Commit, OneActive
<1>2. CASE Switch(p)
  BY <1>2, SwitchKeeps
<1>3. CASE DeleteOld(p)
  BY <1>3, PruneKeeps DEF SchemaStep, OneActive, TypeOK, Claims
<1>4. CASE UNCHANGED schema
  BY <1>4 DEF schema, SchemaStep, OneActive, TypeOK, Claims, Ids
<1> QED BY <1>1, <1>2, <1>3, <1>4 DEF Unacknowledged

(* Steps that leave the tables alone.                                      *)
LEMMA AloneKeeps == TypeOK /\ Claims /\ UNCHANGED schema => SchemaStep /\ ever' = ever
BY DEF schema, SchemaStep, OneActive, TypeOK, Claims, Ids

(* Each step of a process keeps the tables in order, and adds at most the  *)
(* version it was inserting.                                               *)
LEMMA ProcessSchema ==
  ASSUME TypeOK, Claims, NEW p \in Process,
         Start(p) \/ Advance(p) \/ Fails(p) \/ TimesOut(p) \/ Crash(p)
  PROVE  /\ SchemaStep
         /\ \A v \in ever' : v \in ever \/ (at[p] = "copying" /\ v.id = id[p])
<1>1. CASE UNCHANGED schema
  BY <1>1, AloneKeeps
<1>2. CASE Fails(p) \/ TimesOut(p) \/ Crash(p)
  BY <1>2, UnacknowledgedKeeps DEF Fails, TimesOut, Crash
<1>3. CASE InsertCommits(p)
  BY <1>3, UnacknowledgedKeeps DEF InsertCommits, Unacknowledged
<1>4. CASE Activated(p)
  BY <1>4, UnacknowledgedKeeps DEF Activated, Unacknowledged
<1>5. CASE Prune(p)
  BY <1>5, UnacknowledgedKeeps DEF Prune, Unacknowledged
<1> QED
  BY <1>1, <1>2, <1>3, <1>4, <1>5
  DEF Advance, Start, Wake, Fetch, Lookup, InsertBegins, InsertRefused, Deactivate, Waited,
      ActivationRefused, Publish, Snapshot, Swap, schema

(* What a process knows: its place and what it carries.                    *)
Carried ==
  /\ at \in [Process -> Place]
  /\ starting \subseteq Process
  /\ got \in [Process -> Bundle \cup {Nothing}]
  /\ id \in [Process -> Nat]
  /\ found \in [Process -> SUBSET Nat]
  /\ reading \in [Process -> ever \cup {Nothing}]
  /\ holds \in [Process -> [id : Nat, rows : Bundle \cup {Nothing}]]

OthersStay(p) ==
  \A q \in Process \ {p} :
    at'[q] = at[q] /\ got'[q] = got[q] /\ id'[q] = id[q] /\ reading'[q] = reading[q] /\ holds'[q] = holds[q]

(* A process that has just what its new place needs.                       *)
Fits(p) ==
  /\ at'[p] \in {"lookup", "insert", "copying"} => got'[p] \in Bundle
  /\ at'[p] = "reading" => reading'[p] \in ever
  /\ at'[p] = "copying" => at[p] = "insert" /\ id'[p] = NextId /\ ever' = ever
  /\ holds'[p] \in {Empty, holds[p]} \cup [id : Nat, rows : Bundle]
  /\ holds'[p] \notin {Empty, holds[p]} => [id |-> holds'[p].id, bundle |-> holds'[p].rows] \in ever

LEMMA ForgetFits ==
  ASSUME TypeOK, Carried, NEW p \in Process, Forget(p),
         starting' \subseteq Process, ever \subseteq ever',
         NEW place \in Place \ {"lookup", "insert", "copying", "reading"}, Go(p, place),
         holds' = holds \/ holds' = [holds EXCEPT ![p] = Empty]
  PROVE  Carried' /\ OthersStay(p) /\ Fits(p)
<1>1. Empty \in [id : Nat, rows : Bundle \cup {Nothing}] BY DEF Empty
<1>2. reading' \in [Process -> ever' \cup {Nothing}] BY DEF Forget, Carried
<1>3. at' \in [Process -> Place] /\ at'[p] = place BY DEF Go, Carried
<1>4. /\ got' \in [Process -> Bundle \cup {Nothing}] /\ id' \in [Process -> Nat]
      /\ found' \in [Process -> SUBSET Nat]
  BY DEF Forget, Carried
<1>5. holds' \in [Process -> [id : Nat, rows : Bundle \cup {Nothing}]] /\ holds'[p] \in {Empty, holds[p]}
  BY <1>1 DEF Carried
<1>6. OthersStay(p) BY DEF OthersStay, Go, Forget, Carried
<1> QED BY <1>2, <1>3, <1>4, <1>5, <1>6 DEF Carried, Fits

LEMMA ProcessCarries ==
  ASSUME Inv, NEW p \in Process, ever \subseteq ever',
         Start(p) \/ Advance(p) \/ Fails(p) \/ TimesOut(p) \/ Crash(p)
  PROVE  Carried' /\ OthersStay(p) /\ Fits(p)
<1> USE DEF Place
<1>1. TypeOK /\ Claims /\ Carried BY DEF Inv, TypeOK, Carried
<1>2. PassEnds(p) /\ holds' = holds => Carried' /\ OthersStay(p) /\ Fits(p)
  BY <1>1, ForgetFits DEF PassEnds, Carried
<1>3. LoadReturns(p) => Carried' /\ OthersStay(p) /\ Fits(p)
  BY <1>1, ForgetFits DEF LoadReturns, Carried
<1>4. CASE Fails(p) \/ TimesOut(p)
  BY <1>2, <1>3, <1>4 DEF Fails, TimesOut
<1>5. CASE Crash(p)
  BY <1>1, <1>5, ForgetFits DEF Crash, Carried
<1>6. CASE InsertRefused(p) \/ ActivationRefused(p) \/ Prune(p)
  BY <1>3, <1>6 DEF InsertRefused, ActivationRefused, Prune
<1>7. CASE Start(p) \/ Wake(p)
  BY <1>1, <1>7 DEF Start, Wake, Go, Carried, OthersStay, Fits, schema
<1>8. CASE Fetch(p)
  BY <1>1, <1>8 DEF Fetch, Go, Carried, OthersStay, Fits, schema, TypeOK
<1>9. CASE Lookup(p)
  <2>1. CASE LoadReturns(p) BY <1>3, <2>1
  <2>2. CASE \E v \in versions :
               /\ id' = [id EXCEPT ![p] = v.id]
               /\ got' = [got EXCEPT ![p] = Nothing]
               /\ Go(p, "activate")
               /\ UNCHANGED <<starting, found, reading, holds>>
    <3>1. \A v \in versions : v.id \in Nat BY <1>1 DEF TypeOK, Version
    <3>2. reading' \in [Process -> ever' \cup {Nothing}] BY <1>1, <2>2 DEF Carried
    <3> QED BY <1>1, <2>2, <3>1, <3>2 DEF Go, Carried, OthersStay, Fits
  <2>3. CASE Go(p, "insert") /\ UNCHANGED <<starting, got, id, found, reading, holds>>
    <3>1. got[p] \in Bundle BY <1>1, <1>9 DEF Claims, Lookup
    <3>2. reading' \in [Process -> ever' \cup {Nothing}] BY <1>1, <2>3 DEF Carried
    <3> QED BY <1>1, <2>3, <3>1, <3>2 DEF Go, Carried, OthersStay, Fits
  <2> QED BY <1>9, <2>1, <2>2, <2>3 DEF Lookup
<1>10. CASE InsertBegins(p)
  BY <1>1, <1>3, <1>10, NextIdIsNew DEF InsertBegins, Go, Carried, OthersStay, Fits, schema, Claims
<1>11. CASE InsertCommits(p)
  BY <1>1, <1>11 DEF InsertCommits, Go, Carried, OthersStay, Fits
<1>12. CASE Deactivate(p) \/ Waited(p)
  <2>1. active \subseteq Nat BY <1>1 DEF TypeOK, Ids, Version
  <2>2. PICK place \in {"waiting", "switching"}, mine \in SUBSET active :
          /\ at' = [at EXCEPT ![p] = place] /\ found' = [found EXCEPT ![p] = mine]
          /\ UNCHANGED <<schema, starting, got, id, reading, holds>>
    <3>1. found[p] \cap active \in SUBSET active /\ active \in SUBSET active OBVIOUS
    <3> QED BY <1>12, <3>1 DEF Deactivate, Waited, Go
  <2>3. Carried'
    <3>1. at' \in [Process -> Place] BY <1>1, <2>2 DEF Carried
    <3>2. found' \in [Process -> SUBSET Nat] BY <1>1, <2>1, <2>2 DEF Carried
    <3>3. reading' \in [Process -> ever' \cup {Nothing}] BY <1>1, <2>2 DEF Carried
    <3> HIDE DEF Place
    <3> QED BY <1>1, <2>2, <3>1, <3>2, <3>3 DEF Carried
  <2>4. OthersStay(p) BY <1>1, <2>2 DEF OthersStay, Carried
  <2>5. Fits(p)
    <3>1. at'[p] = place /\ holds' = holds BY <1>1, <2>2 DEF Carried
    <3> QED BY <2>2, <3>1 DEF Fits
  <2> QED BY <2>3, <2>4, <2>5
<1>13. CASE Activated(p)
  BY <1>1, <1>3, <1>13, ForgetFits DEF Activated, Carried
<1>14. CASE Publish(p)
  BY <1>1, <1>2, <1>14 DEF Publish, Go, Carried, OthersStay, Fits, schema
<1>15. CASE Snapshot(p)
  <2>1. versions \subseteq ever /\ ever' = ever /\ holds' = holds BY <1>1, <1>15 DEF TypeOK, Snapshot, schema
  <2>2. CASE at'[p] = "reading"
    BY <1>1, <1>2, <1>15, <2>1, <2>2 DEF Snapshot, Go, Carried, OthersStay, Fits
  <2> QED BY <1>1, <1>2, <1>15, <2>1, <2>2 DEF Snapshot, Go, Carried
<1>16. CASE Swap(p)
  <2>1. reading[p] \in ever /\ reading[p] \in Version BY <1>1, <1>16 DEF Swap, Claims, TypeOK
  <2>2. [id |-> reading[p].id, bundle |-> reading[p].bundle] = reading[p] BY <2>1 DEF Version
  <2>3. /\ holds'[p] = [id |-> reading[p].id, rows |-> reading[p].bundle]
        /\ \A q \in Process \ {p} : holds'[q] = holds[q]
        /\ holds'[p] \in [id : Nat, rows : Bundle]
        /\ holds' \in [Process -> [id : Nat, rows : Bundle \cup {Nothing}]]
    BY <1>1, <1>16, <2>1 DEF Swap, RowsRead, Carried, Version
  <2>4. /\ at' \in [Process -> Place] /\ at'[p] \in {"fetch", "asleep"} /\ starting' \subseteq Process
        /\ got' \in [Process -> Bundle \cup {Nothing}] /\ id' \in [Process -> Nat]
        /\ found' \in [Process -> SUBSET Nat] /\ reading' \in [Process -> ever' \cup {Nothing}]
    BY <1>1, <1>16 DEF Swap, PassEnds, Go, Forget, Carried, schema
  <2>5. OthersStay(p) BY <1>1, <1>16, <2>3 DEF Swap, PassEnds, Go, Forget, Carried, OthersStay
  <2> QED BY <2>1, <2>2, <2>3, <2>4, <2>5 DEF Carried, Fits
<1> QED
  BY <1>4, <1>5, <1>6, <1>7, <1>8, <1>9, <1>10, <1>11, <1>12, <1>13, <1>14, <1>15, <1>16 DEF Advance

(* The invariant is inductive.                                             *)
LEMMA InvStep == Inv /\ [Next]_vars => Inv'
<1>1. ASSUME Inv, NEW p \in Process, Start(p) \/ Advance(p) \/ Fails(p) \/ TimesOut(p) \/ Crash(p)
      PROVE  Inv'
  <2>1. /\ TypeOK /\ Claims /\ OneActive /\ ServesWholeVersions BY <1>1 DEF Inv
  <2>2. /\ SchemaStep
        /\ \A v \in ever' : v \in ever \/ (at[p] = "copying" /\ v.id = id[p])
    BY <1>1, <2>1, ProcessSchema
  <2>3. Carried' /\ OthersStay(p) /\ Fits(p) BY <1>1, <2>2, ProcessCarries DEF SchemaStep
  <2>4. upstream' = upstream /\ changes' = changes /\ faults' \in 0..MaxFaults /\ crashes' \in 0..MaxCrashes
    BY <1>1, <2>1, LoaderConstants
    DEF TypeOK, Start, Advance, Wake, Fetch, Lookup, InsertBegins, InsertCommits, InsertRefused, Deactivate,
        Waited, Activated, ActivationRefused, Prune, Publish, Snapshot, Swap, Fails, TimesOut, Crash, Fault, bounds
  <2>5. TypeOK' BY <2>1, <2>2, <2>3, <2>4 DEF TypeOK, SchemaStep, Carried
  <2>6. Claims'
    <3>1. ASSUME NEW q \in Process, NEW r \in Process, q # r, at'[q] = "copying", at'[r] = "copying"
          PROVE  id'[q] # id'[r]
      <4>1. NextId \notin TakenIds BY <2>1, NextIdIsNew
      <4> QED BY <2>1, <2>3, <3>1, <4>1 DEF OthersStay, Fits, Claims, TakenIds
    <3>2. ASSUME NEW q \in Process, at'[q] = "copying", NEW v \in ever'
          PROVE  v.id # id'[q]
      <4>1. CASE q = p
        <5>1. NextId \notin TakenIds BY <2>1, NextIdIsNew
        <5> QED BY <2>3, <3>2, <4>1, <5>1 DEF Fits, TakenIds
      <4>2. CASE q # p
        BY <2>1, <2>2, <2>3, <3>2, <4>2 DEF OthersStay, Claims
      <4> QED BY <4>1, <4>2
    <3>3. ASSUME NEW q \in Process
          PROVE  /\ at'[q] \in {"lookup", "insert", "copying"} => got'[q] \in Bundle
                 /\ at'[q] = "reading" => reading'[q] \in ever'
      BY <2>1, <2>2, <2>3 DEF OthersStay, Fits, Claims, SchemaStep
    <3> QED BY <2>2, <3>1, <3>2, <3>3 DEF Claims, SchemaStep
  <2>7. ServesWholeVersions'
    BY <2>1, <2>2, <2>3 DEF ServesWholeVersions, OthersStay, Fits, SchemaStep, Empty
  <2> QED BY <2>1, <2>2, <2>5, <2>6, <2>7 DEF Inv, SchemaStep
<1>2. ASSUME Inv, Change PROVE Inv'
  BY <1>2, LoaderConstants DEF Inv, Change, TypeOK, Claims, OneActive, ServesWholeVersions, schema, Ids
<1>3. ASSUME Inv, UNCHANGED vars PROVE Inv'
  BY <1>3 DEF Inv, vars, TypeOK, Claims, OneActive, ServesWholeVersions, Ids
<1> QED BY <1>1, <1>2, <1>3 DEF Next

LEMMA InvInit == Init => Inv
<1> SUFFICES ASSUME Init PROVE Inv OBVIOUS
<1>1. PICK h \in Histories :
        /\ versions = {[id |-> n, bundle |-> h[n]] : n \in DOMAIN h}
        /\ active = {n \in DOMAIN h : n + 1 \notin DOMAIN h}
  BY DEF Init
<1>2. h \in Seq(Bundle) /\ Len(h) \in Nat /\ DOMAIN h = 1..Len(h) /\ \A n \in 1..Len(h) : h[n] \in Bundle
  BY LoaderConstants
<1>3. versions \subseteq Version /\ \A v, w \in versions : v.id = w.id => v = w
  BY <1>1, <1>2 DEF Version
<1>4. active \subseteq Ids
  <2>1. SUFFICES ASSUME NEW n \in DOMAIN h PROVE n \in Ids BY <1>1
  <2>2. [id |-> n, bundle |-> h[n]] \in versions BY <1>1
  <2> QED BY <2>2 DEF Ids
<1>5. IsFiniteSet(versions)
  <2>1. IsFiniteSet(DOMAIN h) BY <1>2, FS_Interval
  <2>2. [n \in DOMAIN h |-> [id |-> n, bundle |-> h[n]]] \in Surjection(DOMAIN h, versions)
    BY <1>1 DEF Surjection
  <2> QED BY <2>1, <2>2, FS_Surjection
<1>6. OneActive
  <2>1. active \subseteq {Len(h)} BY <1>1, <1>2
  <2>2. IsFiniteSet({Len(h)}) /\ Cardinality({Len(h)}) = 1 BY FS_Singleton
  <2> QED BY <2>1, <2>2, FS_Subset DEF OneActive
<1>7. TypeOK
  BY <1>3, <1>4, LoaderConstants DEF Init, TypeOK, Place, Empty
<1> QED BY <1>5, <1>6, <1>7 DEF Init, Inv, Claims, ServesWholeVersions

LEMMA LoaderInvariant == Spec => []Inv
BY InvInit, InvStep, PTL DEF Spec

-----------------------------------------------------------------------------
(* Ids stay unique and what is active is there, however inserts, prunes,   *)
(* lost acknowledgements and crashes fall together (load.go:114-237).      *)
THEOREM LoaderTyped == Spec => []TypeOK
BY LoaderInvariant, PTL DEF Inv

(* No two versions are active, for any number of processes                 *)
(* (load.go:191-193).                                                      *)
THEOREM AtMostOneActive == Spec => []OneActive
BY LoaderInvariant, PTL DEF Inv

(* A matcher holds all of one version, and that under its own id           *)
(* (schedule.go:20-21).                                                    *)
THEOREM WholeVersions == Spec => []ServesWholeVersions
BY LoaderInvariant, PTL DEF Inv

(* What activates is a version that was loaded, and what is no longer in   *)
(* the table was pruned for Keep newer ones.                               *)
Loaded ==
  /\ \A p \in Process :
       at[p] \in {"activate", "waiting", "switching"} => \E v \in ever : v.id = id[p]
  /\ \A v \in ever : v \notin versions => Cardinality({w \in ever : w.id > v.id}) >= Keep

(* The newer of more versions are no fewer.                                *)
LEMMA NewerStay ==
  ASSUME NEW S, NEW R, IsFiniteSet(R), S \subseteq R, NEW n, Cardinality({w \in S : w.id > n}) >= Keep
  PROVE  Cardinality({w \in R : w.id > n}) >= Keep
<1>. DEFINE A == {w \in S : w.id > n}
            B == {w \in R : w.id > n}
<1>1. B \in SUBSET R /\ A \in SUBSET B OBVIOUS
<1>2. IsFiniteSet(B) BY <1>1, FS_Subset
<1>3. IsFiniteSet(A) /\ Cardinality(A) <= Cardinality(B) BY <1>1, <1>2, FS_Subset
<1>4. Cardinality(A) \in Int /\ Cardinality(B) \in Int BY <1>2, <1>3, FS_CardinalityType
<1>5. Keep \in Int /\ Cardinality(A) >= Keep BY LoaderConstants
<1>. HIDE DEF A, B
<1>6. Cardinality(B) >= Keep BY <1>3, <1>4, <1>5
<1> QED BY <1>6 DEF B

(* A step of a process takes versions out of the table for newer ones only.*)
LEMMA AgedStep ==
  ASSUME TypeOK, Claims, NEW p \in Process, Unacknowledged(p),
         NEW v \in ever', v \notin versions',
         v \in ever /\ v \notin versions => Cardinality({w \in ever : w.id > v.id}) >= Keep
  PROVE  Cardinality({w \in ever' : w.id > v.id}) >= Keep
<1>1. SchemaStep BY UnacknowledgedKeeps
<1>2. ever \subseteq ever' /\ IsFiniteSet(ever') BY <1>1 DEF SchemaStep
<1>3. CASE v \in ever /\ v \notin versions BY <1>2, <1>3, NewerStay
<1>4. CASE v \notin ever
  <2>1. Commit(p) BY <1>4, PruneKeeps DEF Unacknowledged, Switch, schema
  <2> QED BY <1>4, <2>1 DEF Commit
<1>5. CASE v \in versions
  <2>1. DeleteOld(p) /\ Doomed(v) BY <1>5 DEF Unacknowledged, Commit, Switch, schema, DeleteOld
  <2>2. Cardinality({w \in versions : w.id > v.id}) >= Keep BY <2>1 DEF Doomed
  <2>3. versions \subseteq ever' BY <1>2 DEF TypeOK
  <2> QED BY <1>2, <2>2, <2>3, NewerStay
<1> QED BY <1>3, <1>4, <1>5

(* So it is at every step.                                                 *)
LEMMA LoadedStep == Inv /\ Loaded /\ [Next]_vars => Loaded'
<1>1. ASSUME Inv, Loaded, NEW p \in Process,
             Start(p) \/ Advance(p) \/ Fails(p) \/ TimesOut(p) \/ Crash(p)
      PROVE  Loaded'
  <2>1. TypeOK /\ Claims BY <1>1 DEF Inv
  <2>2. SchemaStep BY <1>1, <2>1, ProcessSchema
  <2>3. ever \subseteq ever' BY <2>2 DEF SchemaStep
  <2>4. OthersStay(p) BY <1>1, <2>3, ProcessCarries
  <2>5. Unacknowledged(p)
    BY <1>1
    DEF Unacknowledged, Start, Advance, Wake, Fetch, Lookup, InsertBegins, InsertCommits, InsertRefused,
        Deactivate, Waited, Activated, ActivationRefused, Prune, Publish, Snapshot, Swap, Fails, TimesOut,
        Crash, schema
  <2>6. ASSUME NEW v \in ever', v \notin versions'
        PROVE  Cardinality({w \in ever' : w.id > v.id}) >= Keep
    BY <1>1, <2>1, <2>5, <2>6, AgedStep DEF Loaded
  <2>7. at'[p] \in {"activate", "waiting", "switching"} => \E v \in ever' : v.id = id'[p]
    <3>1. SUFFICES ASSUME at'[p] \in {"activate", "waiting", "switching"} PROVE \E v \in ever' : v.id = id'[p]
      OBVIOUS
    <3>2. at \in [Process -> Place] /\ id \in [Process -> Nat] BY <2>1 DEF TypeOK
    <3>3. Lookup(p) \/ InsertCommits(p) \/ Deactivate(p) \/ Waited(p)
      BY <1>1, <3>1, <3>2
      DEF Start, Advance, Wake, Fetch, InsertBegins, InsertRefused, Activated, ActivationRefused, Prune,
          Publish, Snapshot, Swap, Fails, TimesOut, Crash, LoadReturns, PassEnds, Go
    <3>4. CASE Lookup(p)
      <4>1. PICK v \in versions : id' = [id EXCEPT ![p] = v.id]
        BY <3>1, <3>2, <3>4 DEF Lookup, LoadReturns, Go
      <4>2. v \in ever' /\ id'[p] = v.id BY <2>1, <2>3, <3>2, <4>1 DEF TypeOK
      <4> QED BY <4>2
    <3>5. CASE InsertCommits(p)
      <4>1. Row(p) \in ever' /\ id' = id BY <3>5 DEF InsertCommits, Commit
      <4> QED BY <4>1 DEF Row
    <3>6. CASE Deactivate(p) \/ Waited(p)
      <4>1. at[p] \in {"activate", "waiting", "switching"} /\ id' = id BY <3>6 DEF Deactivate, Waited
      <4> QED BY <1>1, <2>3, <4>1 DEF Loaded
    <3> QED BY <3>3, <3>4, <3>5, <3>6
  <2>8. \A q \in Process \ {p} :
          at'[q] \in {"activate", "waiting", "switching"} => \E v \in ever' : v.id = id'[q]
    BY <1>1, <2>3, <2>4 DEF OthersStay, Loaded
  <2> QED BY <2>6, <2>7, <2>8 DEF Loaded
<1>2. ASSUME Loaded, Change PROVE Loaded' BY <1>2 DEF Loaded, Change, schema
<1>3. ASSUME Loaded, UNCHANGED vars PROVE Loaded' BY <1>3 DEF Loaded, vars
<1> QED BY <1>1, <1>2, <1>3 DEF Next

LEMMA LoadedHolds == Spec => []Loaded
<1>1. Init => Loaded BY DEF Init, Loaded
<1> QED BY <1>1, LoaderInvariant, LoadedStep, PTL DEF Spec

(* Only an activation changes what is active, and leaves its own version   *)
(* active; none only if that was pruned meanwhile, Keep newer ones loaded  *)
(* since it was (load.go:118-120, 194-217).                                *)
THEOREM ActiveKept == Spec => ActiveUntilReplaced
<1>. DEFINE Replaces(p) == /\ at[p] = "switching" /\ at'[p] # "switching"
                           /\ active' = {id[p]} \cap Ids
                           /\ active' = {} => Cardinality({v \in ever : v.id > id[p]}) >= Keep
<1>1. Inv /\ Loaded /\ [Next]_vars => [active' # active => \E p \in Process : Replaces(p)]_vars
  <2>1. SUFFICES ASSUME Inv, Loaded, NEW p \in Process, active' # active,
                        Start(p) \/ Advance(p) \/ Fails(p) \/ TimesOut(p) \/ Crash(p)
                 PROVE  Replaces(p)
    BY DEF Next, Change, schema, vars
  <2>2. TypeOK /\ at \in [Process -> Place] BY <2>1 DEF Inv, TypeOK
  <2>3. Switch(p) BY <2>1, <2>2, PruneKeeps
    DEF Start, Advance, Wake, Fetch, Lookup, InsertBegins, InsertCommits, InsertRefused, Deactivate,
        Waited, Activated, ActivationRefused, Prune, Publish, Snapshot, Swap, Fails, TimesOut, Crash,
        Unacknowledged, Commit, schema
  <2>4. at[p] = "switching" /\ at'[p] # "switching"
    BY <2>1, <2>2, <2>3
    DEF Switch, Start, Advance, Wake, Fetch, Lookup, InsertBegins, InsertCommits, InsertRefused, Deactivate,
        Waited, Activated, ActivationRefused, Prune, Publish, Snapshot, Swap, Fails, TimesOut, Crash,
        LoadReturns, PassEnds, Go, Place
  <2>5. active' = {id[p]} \cap Ids BY <2>2, <2>3 DEF Switch, TypeOK
  <2>6. ASSUME active' = {} PROVE Cardinality({v \in ever : v.id > id[p]}) >= Keep
    <3>1. PICK v \in ever : v.id = id[p] BY <2>1, <2>4 DEF Loaded
    <3>2. v \notin versions BY <2>5, <2>6, <3>1 DEF Ids
    <3>3. Cardinality({w \in ever : w.id > v.id}) >= Keep BY <2>1, <3>2 DEF Loaded
    <3> QED BY <3>1, <3>3
  <2> QED BY <2>4, <2>5, <2>6
<1> QED BY <1>1, LoaderInvariant, LoadedHolds, PTL DEF Spec, ActiveUntilReplaced
=============================================================================
