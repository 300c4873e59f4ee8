----------------------------- MODULE LiveProofs -----------------------------
(***************************************************************************)
(* The requests answered from the latest-state cache, for any number of    *)
(* feeds, polls, timetables and requests: what was found is what the feeds *)
(* had said at one moment, and the answer leaves out nothing but by its    *)
(* limit and its window.  And histories, for any rows of the rollup: their *)
(* buckets and totals add up.                                              *)
(***************************************************************************)
EXTENDS Live, FiniteSetTheorems, SequenceTheorems, WellFoundedInduction, TLAPS

-----------------------------------------------------------------------------
(* Lists and sorts.                                                        *)

\* Of two at most one goes before the other, and what goes before another goes
\* before a third or has the third go before the other.
WeakOrder(S, before) ==
  /\ before \in [S -> SUBSET S]
  /\ \A o, p \in S : o \in before[p] => p \notin before[o]
  /\ \A o, p, q \in S : o \in before[p] => o \in before[q] \/ q \in before[p]

(* The first n numbers are n.                                              *)
LEMMA FirstNumbers == \A n \in Nat : IsFiniteSet(1 .. n) /\ Cardinality(1 .. n) = n
<1>1. SUFFICES ASSUME NEW n \in Nat PROVE IsFiniteSet(1 .. n) /\ Cardinality(1 .. n) = n
  OBVIOUS
<1>2. 1 \in Int /\ n \in Int OBVIOUS
<1>3. IsFiniteSet(1 .. n) /\ Cardinality(1 .. n) = IF 1 > n THEN 0 ELSE n - 1 + 1
  BY ONLY <1>2, FS_Interval
<1> QED BY <1>3

\* s is S in a list: everything once.
Lists(s, S) ==
  /\ s \in [1 .. Cardinality(S) -> S]
  /\ \A i, j \in 1 .. Cardinality(S) : s[i] = s[j] => i = j
  /\ \A o \in S : \E i \in 1 .. Cardinality(S) : s[i] = o

(* A finite set can be listed.                                             *)
LEMMA Listed ==
  ASSUME NEW S, IsFiniteSet(S)
  PROVE  Cardinality(S) \in Nat /\ Lists(SetToSeq(S), S)
<1>. DEFINE D == 1 .. Cardinality(S)
            s == SetToSeq(S)
<1>1. Cardinality(S) \in Nat /\ ExistsBijection(D, S) BY FS_CardinalityType
<1>2. PICK g \in Bijection(D, S) : TRUE BY <1>1 DEF ExistsBijection
<1>3. g \in [D -> S] /\ IsInjective(g) BY <1>2 DEF Bijection, Injection, IsInjective
<1>4. s \in [D -> S] /\ IsInjective(s) BY <1>3 DEF SetToSeq
<1>5. s \in Injection(D, S) BY <1>4 DEF Injection, IsInjective
<1>6. IsFiniteSet(D) /\ Cardinality(D) = Cardinality(S) BY <1>1, FirstNumbers
<1>7. s \in Surjection(D, S) BY <1>5, <1>6, FS_Injection
<1>. HIDE DEF s
<1> QED BY <1>1, <1>4, <1>7 DEF Lists, Surjection, IsInjective, s

\* What is ahead of what in the order of the list, where the sort leaves it be.
Ahead(s, before, j, i) == s[j] \in before[s[i]] \/ (s[i] \notin before[s[j]] /\ j <= i)
Place(s, before, i) == Cardinality({j \in DOMAIN s : Ahead(s, before, j, i)})

(* Places are in the order of what is ahead, each taken once.              *)
LEMMA Places ==
  ASSUME NEW S, IsFiniteSet(S), NEW before, WeakOrder(S, before), NEW s, Lists(s, S)
  PROVE  /\ \A i \in 1 .. Cardinality(S) : Place(s, before, i) \in 1 .. Cardinality(S)
         /\ \A i, j \in 1 .. Cardinality(S) :
              i # j /\ Ahead(s, before, j, i) => Place(s, before, j) < Place(s, before, i)
         /\ \A i, j \in 1 .. Cardinality(S) : i # j => Ahead(s, before, i, j) \/ Ahead(s, before, j, i)
         /\ \A n \in 1 .. Cardinality(S) : \E i \in 1 .. Cardinality(S) : Place(s, before, i) = n
<1>. DEFINE D == 1 .. Cardinality(S)
            A(j, i) == Ahead(s, before, j, i)
            Set(i) == {j \in D : A(j, i)}
<1>1. Cardinality(S) \in Nat /\ DOMAIN s = D BY FS_CardinalityType DEF Lists
<1>2. IsFiniteSet(D) /\ Cardinality(D) = Cardinality(S) BY <1>1, FirstNumbers
<1>3. \A i \in D : s[i] \in S BY DEF Lists
<1>4. \A i \in D : A(i, i) BY <1>1, <1>3 DEF WeakOrder, Ahead
<1>5. \A o, p \in S : o \in before[p] => p \notin before[o] BY DEF WeakOrder
<1>6. \A i, j \in D : i # j => (A(i, j) \/ A(j, i)) /\ ~(A(i, j) /\ A(j, i))
  BY <1>1, <1>3, <1>5 DEF Ahead
<1>7. \A i, j, k \in D : A(i, j) /\ A(j, k) => A(i, k)
  <2>1. SUFFICES ASSUME NEW i \in D, NEW j \in D, NEW k \in D, A(i, j), A(j, k) PROVE A(i, k) OBVIOUS
  <2>2. \A o, p, q \in S : o \in before[p] => o \in before[q] \/ q \in before[p] BY DEF WeakOrder
  <2>3. s[i] \in S /\ s[j] \in S /\ s[k] \in S BY <1>3
  <2>4. CASE s[i] \in before[s[k]] BY <2>4 DEF Ahead
  <2>5. CASE s[i] \notin before[s[k]]
    <3>1. s[i] \in before[s[j]] => s[k] \in before[s[j]] BY <2>2, <2>3, <2>5
    <3>2. s[j] \in before[s[k]] => s[j] \in before[s[i]] BY <2>2, <2>3, <2>5
    <3>3. s[k] \in before[s[j]] => ~(s[j] \in before[s[k]]) BY <1>5, <2>3
    <3>4. s[i] \notin before[s[j]] /\ s[j] \notin before[s[k]] BY <1>5, <2>1, <2>3, <3>1, <3>2, <3>3 DEF Ahead
    <3>5. s[j] \notin before[s[i]] /\ s[k] \notin before[s[j]] /\ i <= j /\ j <= k BY <2>1, <3>4 DEF Ahead
    <3>6. s[k] \notin before[s[i]] BY <2>2, <2>3, <3>5
    <3>7. i <= k BY <1>1, <3>5
    <3> QED BY <3>6, <3>7 DEF Ahead
  <2> QED BY <2>4, <2>5
<1>. HIDE DEF A
<1>8. \A i \in D : IsFiniteSet(Set(i)) /\ Cardinality(Set(i)) \in D
  <2>1. SUFFICES ASSUME NEW i \in D PROVE IsFiniteSet(Set(i)) /\ Cardinality(Set(i)) \in D OBVIOUS
  <2>2. Set(i) \in SUBSET D /\ i \in Set(i) BY <1>4
  <2>3. IsFiniteSet(Set(i)) /\ Cardinality(Set(i)) <= Cardinality(D) BY <1>2, <2>2, FS_Subset
  <2>4. Cardinality(Set(i)) \in Nat /\ Cardinality(Set(i)) # 0 BY <2>2, <2>3, FS_CardinalityType, FS_EmptySet
  <2> QED BY <1>1, <1>2, <2>3, <2>4
<1>9. \A i, j \in D : i # j /\ A(j, i) => Cardinality(Set(j)) < Cardinality(Set(i))
  <2>1. SUFFICES ASSUME NEW i \in D, NEW j \in D, i # j, A(j, i)
                 PROVE Cardinality(Set(j)) < Cardinality(Set(i)) OBVIOUS
  <2>2. Set(j) \in SUBSET Set(i) BY <1>7, <2>1
  <2>3. i \in Set(i) /\ i \notin Set(j) BY <1>4, <1>6, <2>1
  <2>4. Cardinality(Set(j)) <= Cardinality(Set(i)) /\ Cardinality(Set(j)) # Cardinality(Set(i))
    BY <1>8, <2>2, <2>3, FS_Subset
  <2>5. Cardinality(Set(j)) \in Int /\ Cardinality(Set(i)) \in Int BY <1>8
  <2> QED BY <2>4, <2>5
<1>10. \A i \in D : Place(s, before, i) = Cardinality(Set(i)) BY <1>1 DEF Place, A
<1>. DEFINE place == [i \in D |-> Cardinality(Set(i))]
<1>11. place \in Surjection(D, D)
  <2>1. place \in [D -> D] BY <1>8
  <2>2. \A i, j \in D : place[i] = place[j] => i = j
    <3>1. \A i \in D : Cardinality(Set(i)) \in Int BY <1>8
    <3>2. SUFFICES ASSUME NEW i \in D, NEW j \in D, place[i] = place[j], i # j PROVE FALSE OBVIOUS
    <3>3. Cardinality(Set(i)) = Cardinality(Set(j)) BY <3>2
    <3>4. A(i, j) \/ A(j, i) BY <1>6, <3>2
    <3>5. Cardinality(Set(i)) < Cardinality(Set(j)) \/ Cardinality(Set(j)) < Cardinality(Set(i))
      BY <1>9, <3>2, <3>4
    <3>. HIDE DEF Set
    <3> QED BY <3>1, <3>3, <3>5
  <2>. HIDE DEF place
  <2>3. place \in Injection(D, D) BY <2>1, <2>2 DEF Injection, IsInjective
  <2> QED BY <1>2, <2>3, FS_Injection
<1>12. \A n \in D : \E i \in D : place[i] = n
  <2>. HIDE DEF place
  <2> QED BY <1>11 DEF Surjection
<1>13. \A n \in D : \E i \in D : Cardinality(Set(i)) = n BY <1>12
<1>. HIDE DEF Set, place
<1> QED BY <1>6, <1>8, <1>9, <1>10, <1>13 DEF A

\* s is S in a list, nothing after what it goes before.
Sorts(s, S, before) ==
  Lists(s, S) /\ \A i, j \in 1 .. Cardinality(S) : i < j => s[j] \notin before[s[i]]

(* A sort leaves each element once, and none behind one it goes before.    *)
LEMMA SortedSorts ==
  ASSUME NEW S, IsFiniteSet(S), NEW before, WeakOrder(S, before)
  PROVE  Sorts(Sorted(S, before), S, before)
<1>. DEFINE s == SetToSeq(S)
            D == 1 .. Cardinality(S)
            P(i) == Place(s, before, i)
            at == [n \in D |-> CHOOSE i \in D : P(i) = n]
            t == [n \in D |-> s[at[n]]]
<1>1. Cardinality(S) \in Nat /\ Lists(s, S) BY Listed
<1>2. DOMAIN s = D BY <1>1 DEF Lists
<1>3. \A i \in D : [k \in DOMAIN s |-> Cardinality({j \in DOMAIN s : Ahead(s, before, j, k)})][i] = P(i)
  BY <1>2 DEF Place
<1>4. Sorted(S, before) = t
  <2>1. Sorted(S, before) =
          [n \in DOMAIN s |-> s[CHOOSE i \in DOMAIN s :
             [k \in DOMAIN s |-> Cardinality({j \in DOMAIN s : Ahead(s, before, j, k)})][i] = n]]
    BY DEF Sorted, Ahead
  <2>. DEFINE c == [k \in DOMAIN s |-> Cardinality({j \in DOMAIN s : Ahead(s, before, j, k)})]
  <2>2. \A i \in D : c[i] = P(i) BY <1>3
  <2>. HIDE DEF c, P
  <2>3. \A n \in D : (CHOOSE i \in D : c[i] = n) = (CHOOSE i \in D : P(i) = n) BY <2>2
  <2>. USE DEF c
  <2>4. Sorted(S, before) = [n \in D |-> s[CHOOSE i \in D : c[i] = n]] BY <1>2, <2>1
  <2>. HIDE DEF c
  <2> QED BY <2>3, <2>4
<1>. HIDE DEF s
<1>5. /\ \A i \in D : P(i) \in D
      /\ \A i, j \in D : i # j /\ Ahead(s, before, j, i) => P(j) < P(i)
      /\ \A i, j \in D : i # j => Ahead(s, before, i, j) \/ Ahead(s, before, j, i)
      /\ \A n \in D : \E i \in D : P(i) = n
  BY <1>1, Places
<1>. HIDE DEF P
<1>6. \A n \in D : at[n] \in D /\ P(at[n]) = n BY <1>5
<1>7. \A i \in D : at[P(i)] = i
  <2>1. SUFFICES ASSUME NEW i \in D, at[P(i)] # i PROVE FALSE OBVIOUS
  <2>2. P(i) \in D /\ at[P(i)] \in D /\ P(at[P(i)]) = P(i) BY <1>5, <1>6
  <2>. HIDE DEF at
  <2>3. P(at[P(i)]) < P(i) \/ P(i) < P(at[P(i)]) BY <1>5, <2>1, <2>2
  <2> QED BY <1>1, <2>2, <2>3
<1>. HIDE DEF at
<1>8. \A i, j \in D : s[i] = s[j] => i = j BY <1>1 DEF Lists
<1>9. \A i \in D : s[i] \in S BY <1>1 DEF Lists
<1>10. \A o \in S : \E i \in D : s[i] = o BY <1>1 DEF Lists
<1>11. t \in [D -> S] BY <1>6, <1>9
<1>12. \A i, j \in D : t[i] = t[j] => i = j BY <1>6, <1>8
<1>13. \A o \in S : \E n \in D : t[n] = o
  <2>1. SUFFICES ASSUME NEW o \in S PROVE \E n \in D : t[n] = o OBVIOUS
  <2>2. PICK i \in D : s[i] = o BY <1>10
  <2>3. P(i) \in D /\ t[P(i)] = o BY <1>5, <1>7, <2>2
  <2> QED BY <2>3
<1>14. \A m, n \in D : m < n => t[n] \notin before[t[m]]
  <2>1. SUFFICES ASSUME NEW m \in D, NEW n \in D, m < n, t[n] \in before[t[m]] PROVE FALSE OBVIOUS
  <2>2. at[m] \in D /\ at[n] \in D /\ P(at[m]) = m /\ P(at[n]) = n BY <1>6
  <2>3. at[m] # at[n] BY <1>1, <2>1, <2>2
  <2>4. Ahead(s, before, at[n], at[m]) BY <2>1 DEF Ahead
  <2>5. n < m BY <1>5, <2>2, <2>3, <2>4
  <2> QED BY <1>1, <2>1, <2>5
<1>. HIDE DEF t
<1> QED BY <1>4, <1>11, <1>12, <1>13, <1>14 DEF Sorts, Lists

-----------------------------------------------------------------------------
(* What a poll makes of an update, and what a request makes of a poll.     *)

\* An observation's numbers are numbers, and one that names a version has its
\* sequence and time from a call of its trip there, or neither.
Fits(o) ==
  /\ o.feed \in Feed /\ o.trip \in Int /\ o.date \in Int
  /\ o.delay \in {None} \cup Int /\ o.scheduled \in {None} \cup Int
  /\ \/ o.version = None
     \/ \E sch \in Timetables[o.feed] :
          /\ o.version = sch.version /\ o.trip \in DOMAIN sch.trips
          /\ \/ o.seq = None /\ o.scheduled = None
             \/ \E i \in DOMAIN sch.trips[o.trip].calls :
                  /\ o.seq = sch.trips[o.trip].calls[i].seq
                  /\ o.scheduled = Time(sch.trips[o.trip].calls[i], o.date)

(* A timetabled time is one, or there is none.                             *)
LEMMA TimeTyped ==
  ASSUME NEW st, st.offset \in {None} \cup Int, NEW d \in Int
  PROVE  Time(st, d) \in {None} \cup Int
<1>1. DayLength \in Int BY LiveConstants
<1>2. \A n \in Int : d * DayLength + n \in Int BY <1>1
<1> QED BY <1>2 DEF Time

(* Of one there is a least.                                                *)
LEMMA LeastOfOne == ASSUME NEW i \in Int PROVE Min({i}) = i
  BY DEF Min

(* What is made of an update fits.                                         *)
LEMMA ObservationFits == \A o \in Observation : Fits(o)
<1>1. SUFFICES ASSUME NEW f \in Feed, NEW sch \in Timetables[f] \cup {None},
                      NEW m \in Messages[f], NEW u \in Range(m)
               PROVE  Fits(Observe(f, sch, u))
  BY DEF Observation
<1>2. u.trip \in Int /\ u.date \in Int /\ u.delay \in {None} \cup Int BY Protobuf
<1>. DEFINE s == Seen(f, u)
<1>3. /\ s.feed = f /\ s.trip = u.trip /\ s.date = u.date /\ s.delay = u.delay
      /\ s.scheduled = None /\ s.version = None
  BY DEF Seen
<1>4. CASE sch = None \/ u.trip \notin DOMAIN sch.trips
  <2>1. Observe(f, sch, u) = s BY <1>4 DEF Observe
  <2> QED BY <1>2, <1>3, <2>1 DEF Fits
<1>5. CASE sch # None /\ u.trip \in DOMAIN sch.trips
  <2>. DEFINE t == sch.trips[u.trip]
              o == [s EXCEPT !.matched = TRUE, !.route = t.route, !.version = sch.version,
                             !.direction = IF t.direction # None THEN t.direction ELSE @]
              at == CallsAt(t.calls, u)
              st == t.calls[Min(at)]
              p == [o EXCEPT !.seq = st.seq, !.scheduled = Time(st, u.date)]
  <2>1. sch \in Timetables[f] BY <1>5
  <2>2. /\ t.calls \in Seq(Range(t.calls))
        /\ \A i \in DOMAIN t.calls : t.calls[i].seq \in Nat /\ t.calls[i].offset \in {None} \cup Int
    BY <1>5, <2>1, Bundles
  <2>3. /\ o.feed = f /\ o.trip = u.trip /\ o.date = u.date /\ o.delay = u.delay
        /\ o.scheduled = None /\ o.version = sch.version /\ o.seq = None
    BY DEF Seen
  <2>4. /\ p.feed = f /\ p.trip = u.trip /\ p.date = u.date /\ p.delay = u.delay
        /\ p.scheduled = Time(st, u.date) /\ p.version = sch.version /\ p.seq = st.seq
    BY DEF Seen
  <2>5. Observe(f, sch, u) = IF Cardinality(at) # 1 THEN o ELSE p
    BY <1>5 DEF Observe
  <2>. HIDE DEF s, o, p
  <2>6. CASE Cardinality(at) # 1
    <3>1. Observe(f, sch, u) = o BY <2>5, <2>6
    <3> QED BY <1>2, <1>5, <2>1, <2>3, <3>1 DEF Fits
  <2>7. CASE Cardinality(at) = 1
    <3>1. at \subseteq DOMAIN t.calls /\ DOMAIN t.calls = 1 .. Len(t.calls) /\ Len(t.calls) \in Nat
      <4>1. at \subseteq DOMAIN t.calls BY DEF CallsAt
      <4>2. t.calls \in Seq(Range(t.calls)) BY <2>2
      <4>3. DOMAIN t.calls = 1 .. Len(t.calls) /\ Len(t.calls) \in Nat BY ONLY <4>2
      <4> QED BY <4>1, <4>3
    <3>2. IsFiniteSet(at)
      <4>1. IsFiniteSet(1 .. Len(t.calls)) BY <3>1, FirstNumbers
      <4>2. at \in SUBSET (1 .. Len(t.calls)) BY <3>1
      <4>. HIDE DEF at
      <4> QED BY <4>1, <4>2, FS_Subset
    <3>3. PICK i : at = {i} BY <2>7, <3>2, FS_Singleton
    <3>4. i \in DOMAIN t.calls /\ Min(at) = i BY <3>1, <3>3, LeastOfOne
    <3>5. st = t.calls[i] BY <3>4
    <3>6. Time(st, u.date) \in {None} \cup Int BY <1>2, <2>2, <3>4, <3>5, TimeTyped
    <3>7. Observe(f, sch, u) = p BY <2>5, <2>7
    <3> QED BY <1>2, <1>5, <2>1, <2>4, <3>4, <3>5, <3>6, <3>7 DEF Fits
  <2> QED BY <2>6, <2>7
<1> QED BY <1>4, <1>5

\* s is what is kept of p, whatever its count of polls that stood still.
Keeps(s, p) ==
  /\ s = None <=> p = None
  /\ p # None => /\ s.ts = p.ts
                 /\ s.calls = {p.obs[i] : i \in Unserved(p)}
                 /\ s.trips = {p.obs[i] : i \in NextStops(p)}

(* An observation is kept when it is pending.                              *)
LEMMA KeptIsPending ==
  ASSUME NEW p \in Polled
  PROVE  Unserved(p) = {i \in DOMAIN p.obs : Pending(p, i)}
<1>1. SUFFICES ASSUME NEW i \in DOMAIN p.obs
               PROVE  ~(served(p.obs[i], p.ts) \/ ghost(p.obs[i])) <=> Pending(p, i)
  BY DEF Unserved
<1>2. p.obs \in Seq(Observation) /\ p.ts \in Nat BY DEF Polled
<1>3. p.obs[i] \in Observation BY <1>1, <1>2
<1>. DEFINE o == p.obs[i]
            d == IF o.delay = None THEN 0 ELSE o.delay
<1>4. o.delay \in {None} \cup Int /\ o.scheduled \in {None} \cup Int BY <1>3, ObservationFits DEF Fits
<1>5. d \in Int BY <1>4
<1>6. served(o, p.ts) <=> o.scheduled # None /\ p.ts - (o.scheduled + d) > servedAfter BY DEF served, Due
<1>7. Pending(p, i) <=> /\ o.matched \/ o.rel \notin {"SCHEDULED", "REPLACEMENT"}
                        /\ o.scheduled = None \/ p.ts <= o.scheduled + servedAfter + d
  BY DEF Pending
<1>. HIDE DEF d
<1>8. o.scheduled # None =>
        (p.ts - (o.scheduled + d) > servedAfter <=> ~(p.ts <= o.scheduled + servedAfter + d))
  BY <1>2, <1>4, <1>5, LiveConstants
<1> QED BY <1>6, <1>7, <1>8 DEF ghost

(* What a snapshot has of a line or a stop is what its poll told of it.    *)
LEMMA HasIsTold ==
  ASSUME NEW p \in Polled, NEW s, Keeps(s, p), request.kind \in {"line", "stop"}
  PROVE  Has(s) = Told(p)
<1>1. p # None BY Absent
<1>2. s.calls = {p.obs[i] : i \in Unserved(p)} /\ s.trips = {p.obs[i] : i \in NextStops(p)}
  BY <1>1 DEF Keeps
<1>3. Unserved(p) = {i \in DOMAIN p.obs : Pending(p, i)} BY KeptIsPending
<1>4. DOMAIN p.obs = 1 .. Len(p.obs) /\ Len(p.obs) \in Nat BY DEF Polled
<1>5. CASE request.kind = "stop"
  <2>1. Told(p) = {p.obs[i] : i \in {n \in Unserved(p) : p.obs[n].stop = request.id}}
    BY <1>3, <1>5 DEF Told
  <2>2. Has(s) = {o \in s.calls : o.stop = request.id} BY <1>5 DEF Has
  <2> QED BY <1>2, <2>1, <2>2
<1>6. CASE request.kind = "line"
  <2>1. NextStops(p) = {n \in Unserved(p) : \A m \in 1..n - 1 : Pending(p, m) => ~SameTrip(p.obs[m], p.obs[n])}
    <3>1. SUFFICES ASSUME NEW n \in Unserved(p)
                   PROVE  (\A j \in Unserved(p) : SameTrip(p.obs[n], p.obs[j]) => n <= j)
                          <=> \A m \in 1..n - 1 : Pending(p, m) => ~SameTrip(p.obs[m], p.obs[n])
      BY DEF NextStops
    <3>2. \A m : SameTrip(p.obs[n], p.obs[m]) <=> SameTrip(p.obs[m], p.obs[n]) BY DEF SameTrip
    <3>3. n \in 1 .. Len(p.obs) BY <1>3, <1>4
    <3>4. \A m : m \in 1..n - 1 <=> m \in 1 .. Len(p.obs) /\ ~(n <= m) BY <1>4, <3>3
    <3> QED BY <1>3, <1>4, <3>2, <3>4
  <2>2. Told(p) = {p.obs[i] : i \in {n \in NextStops(p) : p.obs[n].route = request.id}}
    BY <1>3, <1>6, <2>1 DEF Told
  <2>3. Has(s) = {o \in s.trips : o.route = request.id} BY <1>6 DEF Has
  <2> QED BY <1>2, <2>2, <2>3
<1> QED BY <1>5, <1>6

(* What a poll told is finite.                                             *)
LEMMA ToldFinite ==
  ASSUME NEW p \in Polled
  PROVE  IsFiniteSet(Told(p)) /\ Told(p) \subseteq Observation
<1>1. p.obs \in Seq(Observation) /\ DOMAIN p.obs = 1 .. Len(p.obs) /\ Len(p.obs) \in Nat BY DEF Polled
<1>. DEFINE all == {p.obs[i] : i \in DOMAIN p.obs}
<1>2. IsFiniteSet(DOMAIN p.obs)
  <2>1. IsFiniteSet(1 .. Len(p.obs)) BY <1>1, FirstNumbers
  <2> QED BY <1>1, <2>1
<1>3. [i \in DOMAIN p.obs |-> p.obs[i]] \in Surjection(DOMAIN p.obs, all) BY DEF Surjection
<1>4. IsFiniteSet(all) BY <1>2, <1>3, FS_Surjection
<1>5. Told(p) \subseteq all BY DEF Told
<1>6. \A i \in DOMAIN p.obs : p.obs[i] \in Observation BY <1>1
<1> QED BY <1>4, <1>5, <1>6, FS_Subset

-----------------------------------------------------------------------------
(* The invariant: the cache holds what was said last, its counts are those *)
(* of the timestamps, and a request carries one moment from step to step.  *)

Stages == {"idle", "not_ready", "not_found", "known", "copied", "read", "answered", "history", "refused"}

FeedsKeepUp ==
  /\ now \in Nat
  /\ DOMAIN held = Feed /\ \A f \in Feed : held[f] \in Timetables[f] \cup {None}
  /\ said \in [Feed -> Polled \cup {None}]
  /\ feeds \in [Feed -> Snapshot \cup {None}]
  /\ \A f \in Feed : Keeps(feeds[f], said[f])

\* The last u timestamps of h did not advance, and the one before them did.
Still(u, h) ==
  /\ u \in Nat /\ u < Len(h)
  /\ \A i \in Len(h) - u + 1 .. Len(h) : h[i] <= h[i - 1]
  /\ u + 1 < Len(h) => h[Len(h) - u] > h[Len(h) - u - 1]

StillCounted ==
  /\ headers \in [Feed -> Seq(Nat)]
  /\ \A f \in Feed :
       /\ feeds[f] = None <=> headers[f] = <<>>
       /\ feeds[f] # None => /\ feeds[f].ts = headers[f][Len(headers[f])]
                             /\ Still(feeds[f].unchanged, headers[f])

OneMoment ==
  /\ stage \in Stages /\ began \in Nat /\ began <= now
  /\ moments \subseteq [Feed -> Polled \cup {None}]
  /\ stage \in {"known", "copied", "read"} =>
       /\ request \in Requests
       /\ \A f \in Feed : timetable[f] \in Timetables[f] \cup {None}
  /\ stage \in {"known", "copied"} => said \in moments
  /\ stage = "copied" => \E m \in moments : \A f \in Feed : Keeps(snaps[f], m[f])
  /\ stage = "read" => IsFiniteSet(rows) /\ rows \subseteq Observation
  /\ FoundAtOneMoment

LiveInv == FeedsKeepUp /\ StillCounted /\ OneMoment

\* What FoundAtOneMoment says of one of the moments and one of the clocks.
FoundAt(m, n) ==
  LET telling == {f \in Feed : m[f] # None /\ n - m[f].ts <= TTL /\ Told(m[f]) # {}}
  IN  /\ rows = UNION {Told(m[f]) : f \in telling}
      /\ asOf = IF telling = {} THEN None ELSE Min({m[f].ts : f \in telling})

(* It stays so while the request has what it found.                        *)
LEMMA FoundStays ==
  ASSUME stage = "read" => \E m \in moments, n \in began..now : FoundAt(m, n),
         now \in Nat, began \in Nat, now' \in Nat, now <= now', began' = began,
         stage = "read" => moments' = moments,
         stage' = stage, rows' = rows, asOf' = asOf, request' = request
  PROVE  FoundAtOneMoment'
<1>1. SUFFICES ASSUME stage = "read" PROVE (\E m \in moments, n \in began..now : FoundAt(m, n))'
  BY DEF FoundAtOneMoment, FoundAt
<1>2. PICK m \in moments, n \in began..now : FoundAt(m, n) BY <1>1
<1>3. FoundAt(m, n)'
  <2>1. \A p : Told(p)' = Told(p) BY DEF Told
  <2> QED BY <1>2, <2>1 DEF FoundAt
<1>4. m \in moments' /\ n \in began' .. now' BY <1>1, <1>2
<1> QED BY <1>3, <1>4

(* Nothing has been said and nobody asks.                                  *)
LEMMA LiveInit == Init => LiveInv
<1>1. SUFFICES ASSUME Init PROVE LiveInv OBVIOUS
<1>2. now = 0 /\ stage = "idle" /\ began = 0 /\ moments = {} BY <1>1 DEF Init
<1>3. \A f \in Feed : held[f] = None /\ feeds[f] = None /\ said[f] = None /\ headers[f] = <<>>
  BY <1>1 DEF Init
<1>4. FeedsKeepUp BY <1>1, <1>2, <1>3 DEF FeedsKeepUp, Keeps, Init
<1>5. StillCounted BY <1>1, <1>3 DEF StillCounted, Init
<1>6. OneMoment BY <1>2 DEF OneMoment, Stages, FoundAtOneMoment
<1> QED BY <1>4, <1>5, <1>6 DEF LiveInv

(* A timestamp more: the count goes on or starts again.                    *)
LEMMA StillGoesOn ==
  ASSUME NEW h \in Seq(Nat), NEW ts \in Nat, NEW u,
         \/ h = <<>> /\ u = 0
         \/ \E v : Still(v, h) /\ u = IF ts <= h[Len(h)] THEN v + 1 ELSE 0
  PROVE  Still(u, Append(h, ts))
<1>. DEFINE g == Append(h, ts)
            n == Len(h)
<1>1. n \in Nat /\ Len(g) = n + 1 /\ g[n + 1] = ts /\ \A i \in 1 .. n : g[i] = h[i] /\ h[i] \in Nat
  OBVIOUS
<1>4. g = Append(h, ts) /\ Len(g) = n + 1 BY <1>1
<1>. HIDE DEF g
<1>2. CASE h = <<>> /\ u = 0
  <2>1. n = 0 /\ Len(g) = 1 BY <1>1, <1>2
  <2> QED BY <1>2, <2>1 DEF Still, g
<1>3. CASE \E v : Still(v, h) /\ u = IF ts <= h[Len(h)] THEN v + 1 ELSE 0
  <2>1. PICK v : Still(v, h) /\ u = IF ts <= h[n] THEN v + 1 ELSE 0 BY <1>3
  <2>2. v \in Nat /\ v < n /\ (\A i \in n - v + 1 .. n : h[i] <= h[i - 1])
        /\ (v + 1 < n => h[n - v] > h[n - v - 1])
    BY <2>1 DEF Still
  <2>. HIDE DEF n
  <2>3. CASE ts <= h[n]
    <3>1. u = v + 1 BY <2>1, <2>3
    <3>2. u \in Nat /\ u < n + 1 BY <1>1, <2>2, <3>1
    <3>3. \A i \in n + 1 - u + 1 .. n + 1 : g[i] <= g[i - 1]
      <4>1. SUFFICES ASSUME NEW i \in n + 1 - u + 1 .. n + 1 PROVE g[i] <= g[i - 1] OBVIOUS
      <4>2. CASE i = n + 1
        <5>1. i - 1 = n /\ n \in 1 .. n BY <1>1, <2>2, <4>2
        <5> QED BY <1>1, <2>3, <4>2, <5>1
      <4>3. CASE i # n + 1
        <5>1. i \in n - v + 1 .. n /\ i \in 1 .. n /\ i - 1 \in 1 .. n BY <1>1, <2>2, <3>1, <4>1, <4>3
        <5> QED BY <1>1, <2>2, <5>1
      <4> QED BY <4>2, <4>3
    <3>4. u + 1 < n + 1 => g[n + 1 - u] > g[n + 1 - u - 1]
      <4>1. SUFFICES ASSUME u + 1 < n + 1 PROVE g[n + 1 - u] > g[n + 1 - u - 1] OBVIOUS
      <4>2. v + 1 < n /\ n + 1 - u = n - v /\ n - v \in 1 .. n /\ n - v - 1 \in 1 .. n
        BY <1>1, <2>2, <3>1, <4>1
      <4>3. n + 1 - u - 1 = n - v - 1 BY <1>1, <2>2, <3>1, <4>2
      <4>4. g[n - v] = h[n - v] /\ g[n - v - 1] = h[n - v - 1] BY <1>1, <4>2
      <4> QED BY <2>2, <4>2, <4>3, <4>4
    <3>5. Still(u, g) BY <1>1, <3>2, <3>3, <3>4, <1>4 DEF Still
    <3> QED BY <3>5, <1>4
  <2>4. CASE ~(ts <= h[n])
    <3>1. u = 0 BY <2>1, <2>4
    <3>2. n \in 1 .. n /\ h[n] \in Nat /\ g[n] = h[n] BY <1>1, <2>2
    <3>3. n + 1 - 0 = n + 1 /\ n + 1 - 0 - 1 = n BY <1>1
    <3>4. g[n + 1] > g[n] BY <1>1, <2>4, <3>2
    <3>5. \A i \in n + 1 - 0 + 1 .. n + 1 : FALSE BY <1>1
    <3>6. 0 \in Nat /\ 0 < n + 1 BY <1>1
    <3>7. u + 1 < n + 1 => g[n + 1 - u] > g[n + 1 - u - 1] BY <3>1, <3>3, <3>4
    <3>8. u \in Nat /\ u < n + 1 /\ \A i \in n + 1 - u + 1 .. n + 1 : g[i] <= g[i - 1]
      BY <3>1, <3>5, <3>6
    <3>9. Still(u, g) BY <1>1, <3>7, <3>8, <1>4 DEF Still
    <3> QED BY <3>9, <1>4
  <2> QED BY <2>3, <2>4
<1> QED BY <1>2, <1>3 DEF g

(* A poll: what it leaves in the cache and in the histories.               *)
LEMMA PollStep ==
  ASSUME LiveInv, NEW f \in Feed, Poll(f)
  PROVE  LiveInv'
<1>1. PICK ts \in {n \in 1..now : n >= now - Lag}, m \in Messages[f] :
        LET p == [ts |-> ts, obs |-> [i \in DOMAIN m |-> Observe(f, held[f], m[i])]]
        IN  /\ Update(f, p)
            /\ said' = [said EXCEPT ![f] = p]
            /\ headers' = [headers EXCEPT ![f] = Append(@, ts)]
  BY DEF Poll
<1>. DEFINE p == [ts |-> ts, obs |-> [i \in DOMAIN m |-> Observe(f, held[f], m[i])]]
            s == [ts |-> ts, unchanged |-> Unchanged(f, ts),
                  calls |-> {p.obs[i] : i \in Unserved(p)}, trips |-> {p.obs[i] : i \in NextStops(p)}]
<1>2. /\ feeds' = [feeds EXCEPT ![f] = s] /\ said' = [said EXCEPT ![f] = p]
      /\ headers' = [headers EXCEPT ![f] = Append(@, ts)]
  BY <1>1 DEF Update
<1>3. UNCHANGED <<now, held, stage, request, timetable, snaps, rows, asOf, answer, began>>
  BY DEF Poll, serving
<1>4. FeedsKeepUp /\ StillCounted /\ OneMoment BY DEF LiveInv
<1>5. now \in Nat /\ ts \in Nat BY <1>4 DEF FeedsKeepUp
<1>6. p \in Polled
  <2>1. m \in Seq(Range(m)) /\ DOMAIN m = 1 .. Len(m) /\ Len(m) \in Nat BY Protobuf
  <2>2. \A i \in DOMAIN m : m[i] \in Range(m) BY DEF Range
  <2>3. \A i \in DOMAIN m : Observe(f, held[f], m[i]) \in Observation
    <3>1. SUFFICES ASSUME NEW i \in DOMAIN m PROVE Observe(f, held[f], m[i]) \in Observation OBVIOUS
    <3>2. m[i] \in UNION {Range(b) : b \in Messages[f]} BY <2>2
    <3>3. held[f] \in Timetables[f] \cup {None} BY <1>4 DEF FeedsKeepUp
    <3> QED BY <3>2, <3>3 DEF Observation
  <2>4. p.obs \in Seq(Observation) BY <2>1, <2>3
  <2>5. p = [ts |-> ts, obs |-> p.obs] OBVIOUS
  <2>. HIDE DEF p
  <2> QED BY <1>5, <2>4, <2>5 DEF Polled
<1>. HIDE DEF p
<1>7. Still(Unchanged(f, ts), Append(headers[f], ts))
  <2>1. headers[f] \in Seq(Nat) BY <1>4 DEF StillCounted
  <2>2. CASE feeds[f] = None
    <3>1. headers[f] = <<>> /\ Unchanged(f, ts) = 0 BY <1>4, <2>2 DEF StillCounted, Unchanged
    <3> QED BY <1>5, <2>1, <3>1, StillGoesOn
  <2>3. CASE feeds[f] # None
    <3>1. feeds[f].ts = headers[f][Len(headers[f])] /\ Still(feeds[f].unchanged, headers[f])
      BY <1>4, <2>3 DEF StillCounted
    <3>2. Unchanged(f, ts) = IF ts <= headers[f][Len(headers[f])] THEN feeds[f].unchanged + 1 ELSE 0
      BY <2>3, <3>1 DEF Unchanged
    <3> QED BY <1>5, <2>1, <3>1, <3>2, StillGoesOn
  <2> QED BY <2>2, <2>3
<1>8. s \in Snapshot
  <2>1. Unchanged(f, ts) \in Nat BY <1>7 DEF Still
  <2>2. \A i \in DOMAIN p.obs : p.obs[i] \in Observation BY <1>6 DEF Polled
  <2>3. Unserved(p) \subseteq DOMAIN p.obs /\ NextStops(p) \subseteq DOMAIN p.obs BY DEF Unserved, NextStops
  <2> QED BY <1>5, <2>1, <2>2, <2>3 DEF Snapshot
<1>9. Keeps(s, p)
  <2>1. s # None /\ p # None BY <1>6, <1>8, Absent
  <2>2. p.ts = ts BY DEF p
  <2> QED BY <2>1, <2>2 DEF Keeps
<1>10. s # None /\ s.ts = ts /\ s.unchanged = Unchanged(f, ts) BY <1>8, Absent
<1>. HIDE DEF s
<1>11. FeedsKeepUp'
  BY <1>2, <1>3, <1>4, <1>6, <1>8, <1>9 DEF FeedsKeepUp
<1>12. StillCounted'
  <2>1. headers \in [Feed -> Seq(Nat)] /\ feeds \in [Feed -> Snapshot \cup {None}]
    BY <1>4 DEF StillCounted, FeedsKeepUp
  <2>2. Append(headers[f], ts) \in Seq(Nat) BY <1>5, <2>1
  <2>3. Append(headers[f], ts) # <<>> /\ Append(headers[f], ts)[Len(Append(headers[f], ts))] = ts
    <3>1. \A h \in Seq(Nat) : Append(h, ts) # <<>> /\ Append(h, ts)[Len(Append(h, ts))] = ts
      BY <1>5
    <3> QED BY <2>1, <3>1
  <2>4. headers' \in [Feed -> Seq(Nat)] BY <1>2, <2>1, <2>2
  <2>5. ASSUME NEW g \in Feed
        PROVE  /\ feeds'[g] = None <=> headers'[g] = <<>>
               /\ feeds'[g] # None => /\ feeds'[g].ts = headers'[g][Len(headers'[g])]
                                      /\ Still(feeds'[g].unchanged, headers'[g])
    <3>1. CASE g = f
      <4>1. feeds'[g] = s /\ headers'[g] = Append(headers[f], ts) BY <1>2, <2>1, <3>1
      <4> QED BY <1>7, <1>10, <2>3, <4>1
    <3>2. CASE g # f
      <4>1. feeds'[g] = feeds[g] /\ headers'[g] = headers[g] BY <1>2, <2>1, <3>2
      <4> QED BY <1>4, <4>1 DEF StillCounted
    <3> QED BY <3>1, <3>2
  <2> QED BY <2>4, <2>5 DEF StillCounted
<1>13. said' \in [Feed -> Polled \cup {None}] BY <1>11 DEF FeedsKeepUp
<1>14. moments' = IF stage \in {"known", "copied"} THEN moments \cup {said'} ELSE moments BY DEF Poll
<1>16. FoundAtOneMoment'
  <2>1. stage = "read" => \E m2 \in moments, n \in began..now : FoundAt(m2, n)
    BY <1>4 DEF OneMoment, FoundAtOneMoment, FoundAt
  <2>2. stage = "read" => moments' = moments BY <1>14
  <2>3. now \in Nat /\ began \in Nat /\ now <= now' BY <1>3, <1>4 DEF OneMoment, FeedsKeepUp
  <2> QED BY <1>3, <2>1, <2>2, <2>3, FoundStays
<1>17. stage # "answered" BY DEF Poll, Overtakes
<1>18. OneMoment'
  BY <1>3, <1>4, <1>13, <1>14, <1>16, <1>17 DEF OneMoment
<1> QED BY <1>11, <1>12, <1>18 DEF LiveInv

(* A request comes, and what has been said is its first moment.            *)
LEMMA AskStep ==
  ASSUME LiveInv, Ask
  PROVE  LiveInv'
<1>1. FeedsKeepUp /\ StillCounted /\ OneMoment BY DEF LiveInv
<1>2. UNCHANGED <<now, held, feeds, said, headers>> BY DEF Ask
<1>3. stage' \in {"not_ready", "not_found", "known"} /\ request' \in Requests /\ timetable' = held
      /\ began' = now /\ moments' = {said}
  BY DEF Ask
<1>4. FeedsKeepUp' BY <1>1, <1>2 DEF FeedsKeepUp
<1>5. StillCounted' BY <1>1, <1>2 DEF StillCounted
<1>6. said \in [Feed -> Polled \cup {None}] /\ now \in Nat
      /\ \A f \in Feed : held[f] \in Timetables[f] \cup {None}
  BY <1>1 DEF FeedsKeepUp
<1>7. OneMoment' BY <1>2, <1>3, <1>6 DEF OneMoment, Stages, FoundAtOneMoment
<1> QED BY <1>4, <1>5, <1>7 DEF LiveInv

(* The snapshots copied are of the moment of the copy.                     *)
LEMMA CopyStep ==
  ASSUME LiveInv, Copy
  PROVE  LiveInv'
<1>1. FeedsKeepUp /\ StillCounted /\ OneMoment BY DEF LiveInv
<1>2. UNCHANGED <<now, held, feeds, request, timetable, said, headers, moments, began>>
  BY DEF Copy
<1>3. stage = "known" /\ stage' = "copied" /\ snaps' = feeds BY DEF Copy
<1>4. FeedsKeepUp' BY <1>1, <1>2 DEF FeedsKeepUp
<1>5. StillCounted' BY <1>1, <1>2 DEF StillCounted
<1>6. \A f \in Feed : Keeps(feeds[f], said[f]) BY <1>1 DEF FeedsKeepUp
<1>7. OneMoment' BY <1>1, <1>2, <1>3, <1>6 DEF OneMoment, Stages, FoundAtOneMoment
<1> QED BY <1>4, <1>5, <1>7 DEF LiveInv

(* What is found in the snapshots is what had been told at their moment,   *)
(* by the feeds that were fresh when the clock was read.                   *)
LEMMA ReadStep ==
  ASSUME LiveInv, Read
  PROVE  LiveInv'
<1>1. FeedsKeepUp /\ StillCounted /\ OneMoment BY DEF LiveInv
<1>2. UNCHANGED <<now, held, feeds, request, timetable, said, headers, moments, began>>
  BY DEF Read
<1>3. /\ stage = "copied" /\ stage' = "read"
      /\ rows' = UNION {Has(snaps[f]) : f \in Fresh}
      /\ asOf' = IF Fresh = {} THEN None ELSE Min({snaps[f].ts : f \in Fresh})
  BY DEF Read
<1>4. FeedsKeepUp' BY <1>1, <1>2 DEF FeedsKeepUp
<1>5. StillCounted' BY <1>1, <1>2 DEF StillCounted
<1>6. PICK m \in moments : \A f \in Feed : Keeps(snaps[f], m[f]) BY <1>1, <1>3 DEF OneMoment
<1>7. /\ m \in [Feed -> Polled \cup {None}] /\ request.kind \in {"line", "stop"}
      /\ began \in Nat /\ began <= now /\ now \in Nat
  BY <1>1, <1>3, <1>6, Parameters DEF OneMoment, FeedsKeepUp
<1>8. \A f \in Feed : m[f] # None => Has(snaps[f]) = Told(m[f]) /\ snaps[f].ts = m[f].ts
  <2>1. SUFFICES ASSUME NEW f \in Feed, m[f] # None
                 PROVE  Has(snaps[f]) = Told(m[f]) /\ snaps[f].ts = m[f].ts OBVIOUS
  <2>2. m[f] \in Polled /\ Keeps(snaps[f], m[f]) BY <1>6, <1>7, <2>1
  <2> QED BY <1>7, <2>1, <2>2, HasIsTold DEF Keeps
<1>. DEFINE telling == {f \in Feed : m[f] # None /\ now - m[f].ts <= TTL /\ Told(m[f]) # {}}
<1>9. \A f \in Feed : snaps[f] = None <=> m[f] = None BY <1>6 DEF Keeps
<1>10. Fresh = telling BY <1>8, <1>9 DEF Fresh
<1>11. \A f \in telling : m[f] # None /\ m[f] \in Polled BY <1>7
<1>12. rows' = UNION {Told(m[f]) : f \in telling} BY <1>3, <1>8, <1>10, <1>11
<1>13. asOf' = IF telling = {} THEN None ELSE Min({m[f].ts : f \in telling})
  <2>1. {snaps[f].ts : f \in telling} = {m[f].ts : f \in telling} BY <1>8, <1>11
  <2> QED BY <1>3, <1>10, <2>1
<1>14. IsFiniteSet(rows') /\ rows' \subseteq Observation
  <2>1. \A f \in telling : IsFiniteSet(Told(m[f])) /\ Told(m[f]) \subseteq Observation
    BY <1>11, ToldFinite
  <2>. DEFINE tellings == {Told(m[f]) : f \in telling}
  <2>2. IsFiniteSet(telling) BY LiveConstants, FS_Subset
  <2>3. [f \in telling |-> Told(m[f])] \in Surjection(telling, tellings) BY DEF Surjection
  <2>4. IsFiniteSet(tellings) BY <2>2, <2>3, FS_Surjection
  <2>5. \A t \in tellings : IsFiniteSet(t) BY <2>1
  <2>6. UNION tellings \subseteq Observation BY <2>1
  <2>7. rows' = UNION tellings BY <1>12
  <2>. HIDE DEF tellings
  <2> QED BY <2>4, <2>5, <2>6, <2>7, FS_UNION
<1>15. FoundAtOneMoment'
  <2>1. \A p : Told(p)' = Told(p) BY <1>2 DEF Told
  <2>2. FoundAt(m, now)' BY <1>2, <1>12, <1>13, <2>1 DEF FoundAt
  <2>3. now \in began .. now BY <1>7
  <2>. HIDE DEF telling
  <2>4. (\E k \in moments, n \in began..now : FoundAt(k, n))' BY <1>2, <1>6, <2>2, <2>3
  <2> QED BY <2>4 DEF FoundAtOneMoment, FoundAt
<1>16. OneMoment' BY <1>1, <1>2, <1>3, <1>14, <1>15 DEF OneMoment, Stages
<1> QED BY <1>4, <1>5, <1>16 DEF LiveInv

(* The other steps leave a request where it is, or end it.                 *)
LEMMA OtherSteps ==
  ASSUME LiveInv,
         \/ Answer \/ AskHistory \/ Done \/ Tick \/ (\E f \in Feed : Swap(f)) \/ UNCHANGED vars
  PROVE  LiveInv'
<1>1. FeedsKeepUp /\ StillCounted /\ OneMoment BY DEF LiveInv
<1>2. now \in Nat /\ began \in Nat /\ began <= now BY <1>1 DEF FeedsKeepUp, OneMoment
<1>3. UNCHANGED <<feeds, said, headers>> /\ now' \in {now, now + 1}
  BY DEF Answer, AskHistory, Done, Tick, Swap, vars
<1>4. DOMAIN held' = Feed /\ \A f \in Feed : held'[f] \in Timetables[f] \cup {None}
  <2>1. DOMAIN held = Feed /\ \A f \in Feed : held[f] \in Timetables[f] \cup {None} BY <1>1 DEF FeedsKeepUp
  <2>2. CASE \E f \in Feed : Swap(f) BY <2>1, <2>2 DEF Swap
  <2>3. CASE held' = held BY <2>1, <2>3
  <2> QED BY <2>2, <2>3 DEF Answer, AskHistory, Done, Tick, vars
<1>5. FeedsKeepUp' BY <1>1, <1>2, <1>3, <1>4 DEF FeedsKeepUp
<1>6. StillCounted' BY <1>1, <1>3 DEF StillCounted
<1>7. \/ UNCHANGED <<stage, request, timetable, snaps, rows, asOf, moments, began>>
      \/ /\ stage' \in {"idle", "refused", "history", "answered"}
         /\ began' \in {0, began} /\ moments' \in {{}, moments}
  BY DEF Answer, AskHistory, Done, Tick, Swap, vars, serving
<1>8. now' \in Nat /\ now <= now' BY <1>2, <1>3
<1>9. CASE UNCHANGED <<stage, request, timetable, snaps, rows, asOf, moments, began>>
  <2>1. stage = "read" => \E m \in moments, n \in began..now : FoundAt(m, n)
    BY <1>1 DEF OneMoment, FoundAtOneMoment, FoundAt
  <2>2. FoundAtOneMoment' BY <1>2, <1>8, <1>9, <2>1, FoundStays
  <2>3. began' \in Nat /\ began' <= now' BY <1>2, <1>8, <1>9
  <2>4. OneMoment' BY <1>1, <1>3, <1>9, <2>2, <2>3 DEF OneMoment
  <2> QED BY <1>5, <1>6, <2>4 DEF LiveInv
<1>10. CASE /\ stage' \in {"idle", "refused", "history", "answered"}
            /\ began' \in {0, began} /\ moments' \in {{}, moments}
  <2>1. began' \in Nat /\ began' <= now' BY <1>2, <1>8, <1>10
  <2>2. moments' \subseteq [Feed -> Polled \cup {None}] BY <1>1, <1>10 DEF OneMoment
  <2>3. OneMoment' BY <1>10, <2>1, <2>2 DEF OneMoment, Stages, FoundAtOneMoment
  <2> QED BY <1>5, <1>6, <2>3 DEF LiveInv
<1> QED BY <1>7, <1>9, <1>10

(* The invariant holds of every behaviour.                                 *)
LEMMA LiveHolds == Spec => []LiveInv
<1>1. LiveInv /\ [Next]_vars => LiveInv'
  BY PollStep, AskStep, CopyStep, ReadStep, OtherSteps DEF Next
<1> QED BY <1>1, LiveInit, PTL DEF Spec

(* Whatever is published, swapped and timed while a request is served,     *)
(* what it finds is what the feeds had said at one moment of it            *)
(* (latest.go:180-233).                                                    *)
THEOREM OneMomentFound == Spec => []FoundAtOneMoment
<1>1. LiveInv => FoundAtOneMoment BY DEF LiveInv, OneMoment
<1> QED BY <1>1, LiveHolds, PTL

(* A count of polls that stood still says what the timestamps say, of any  *)
(* number of polls (latest.go:132-150).                                    *)
THEOREM StuckIsStale == Spec => []StaleMeansStuck
<1>1. ASSUME LiveInv PROVE StaleMeansStuck
  <2>1. SUFFICES ASSUME NEW f \in Feed, NEW n \in 1..MaxPolls[f]
                 PROVE  Stale(f, n) <=> /\ n < Len(headers[f])
                                        /\ \A i \in Len(headers[f]) - n + 1 .. Len(headers[f]) :
                                             headers[f][i] <= headers[f][i - 1]
    BY DEF StaleMeansStuck
  <2>. DEFINE h == headers[f]
              u == feeds[f].unchanged
  <2>2. n \in Nat /\ n >= 1 BY <2>1, LiveConstants
  <2>3. h \in Seq(Nat) /\ Len(h) \in Nat /\ DOMAIN h = 1 .. Len(h) BY <1>1 DEF LiveInv, StillCounted
  <2>4. \A i \in 1 .. Len(h) : h[i] \in Nat BY <2>3
  <2>5. CASE feeds[f] = None
    <3>1. h = <<>> BY <1>1, <2>5 DEF LiveInv, StillCounted
    <3> QED BY <2>2, <2>5, <3>1 DEF Stale
  <2>6. CASE feeds[f] # None
    <3>1. Still(u, h) BY <1>1, <2>6 DEF LiveInv, StillCounted
    <3>2. Stale(f, n) <=> n <= u BY <2>2, <2>6, <3>1 DEF Stale, Still
    <3>. HIDE DEF h, u
    <3>3. /\ u \in Nat /\ u < Len(h)
          /\ \A i \in Len(h) - u + 1 .. Len(h) : h[i] <= h[i - 1]
          /\ u + 1 < Len(h) => h[Len(h) - u] > h[Len(h) - u - 1]
      BY <3>1 DEF Still
    <3>4. CASE n <= u
      <4>1. n < Len(h) /\ \A i \in Len(h) - n + 1 .. Len(h) : i \in Len(h) - u + 1 .. Len(h)
        BY <2>2, <2>3, <3>3, <3>4
      <4>2. \A i \in Len(h) - n + 1 .. Len(h) : h[i] <= h[i - 1] BY <3>3, <4>1
      <4>. USE DEF h
      <4> QED BY <3>2, <3>4, <4>1, <4>2
    <3>5. CASE ~(n <= u)
      <4>1. SUFFICES ASSUME n < Len(h), \A i \in Len(h) - n + 1 .. Len(h) : h[i] <= h[i - 1] PROVE FALSE
        BY <3>2, <3>5 DEF h
      <4>2. u + 1 < Len(h) /\ Len(h) - u \in Len(h) - n + 1 .. Len(h)
            /\ Len(h) - u \in 1 .. Len(h) /\ Len(h) - u - 1 \in 1 .. Len(h)
        BY <2>2, <2>3, <3>3, <3>5, <4>1
      <4> QED BY <2>4, <3>3, <4>1, <4>2
    <3> QED BY <3>4, <3>5
  <2> QED BY <2>5, <2>6
<1> QED BY <1>1, LiveHolds, PTL

-----------------------------------------------------------------------------
(* Answers.                                                                *)

(* What the timetable in hand says of a call is a time or nothing, and for *)
(* an observation matched with it what it was matched with.                *)
LEMMA CallIs ==
  ASSUME NEW o, Fits(o), timetable[o.feed] \in Timetables[o.feed] \cup {None}
  PROVE  /\ call(o) \in {None} \cup Int
         /\ timetable[o.feed] # None /\ o.version = timetable[o.feed].version => call(o) = o.scheduled
<1>. DEFINE sch == timetable[o.feed]
            calls == sch.trips[o.trip].calls
            at == {i \in DOMAIN calls : calls[i].seq = o.seq}
<1>1. o.feed \in Feed /\ o.date \in Int BY DEF Fits
<1>2. \A t \in Timetables[o.feed] : sch # None /\ o.version = t.version /\ t.version = sch.version => t = sch
  BY <1>1, Bundles
<1>3. CASE sch = None \/ o.trip \notin DOMAIN sch.trips
  <2>1. call(o) = None BY <1>3 DEF call
  <2>2. sch # None /\ o.version = sch.version => FALSE
    <3>1. SUFFICES ASSUME sch # None, o.version = sch.version PROVE FALSE OBVIOUS
    <3>2. sch \in Timetables[o.feed] BY <3>1
    <3>3. o.version # None BY <1>1, <3>1, <3>2, Bundles
    <3> QED BY <1>2, <1>3, <3>1, <3>3 DEF Fits
  <2> QED BY <2>1, <2>2
<1>4. CASE sch # None /\ o.trip \in DOMAIN sch.trips
  <2>1. sch \in Timetables[o.feed] BY <1>4
  <2>2. /\ calls \in Seq(Range(calls)) /\ sch.version # None
        /\ \A i \in DOMAIN calls : calls[i].seq \in Nat /\ calls[i].offset \in {None} \cup Int
        /\ \A i, j \in DOMAIN calls : i < j => calls[i].seq < calls[j].seq
    BY <1>1, <1>4, <2>1, Bundles
  <2>3. call(o) = IF at = {} THEN None ELSE Time(calls[Min(at)], o.date) BY <1>4 DEF call
  <2>. HIDE DEF calls
  <2>4. DOMAIN calls = 1 .. Len(calls) /\ Len(calls) \in Nat BY <2>2
  <2>5. ASSUME NEW i \in at
        PROVE  at = {i} /\ call(o) = Time(calls[i], o.date)
    <3>1. \A j \in DOMAIN calls : calls[j].seq = calls[i].seq => j = i
      <4>1. SUFFICES ASSUME NEW j \in DOMAIN calls, calls[j].seq = calls[i].seq, j # i PROVE FALSE OBVIOUS
      <4>2. i < j \/ j < i BY <2>4, <4>1
      <4>3. calls[i].seq \in Nat BY <2>2
      <4> QED BY <2>2, <4>1, <4>2, <4>3
    <3>2. at = {i} BY <3>1
    <3>3. Min(at) = i BY <2>4, <3>2, LeastOfOne
    <3> QED BY <2>3, <3>2, <3>3
  <2>6. call(o) \in {None} \cup Int
    <3>1. CASE at = {} BY <2>3, <3>1
    <3>2. CASE at # {}
      <4>1. PICK i \in at : TRUE BY <3>2
      <4> QED BY <1>1, <2>2, <2>5, <4>1, TimeTyped
    <3> QED BY <3>1, <3>2
  <2>7. ASSUME o.version = sch.version PROVE call(o) = o.scheduled
    <3>1. \/ o.seq = None /\ o.scheduled = None
          \/ \E i \in DOMAIN calls : o.seq = calls[i].seq /\ o.scheduled = Time(calls[i], o.date)
      <4>1. PICK t \in Timetables[o.feed] :
              /\ o.version = t.version /\ o.trip \in DOMAIN t.trips
              /\ \/ o.seq = None /\ o.scheduled = None
                 \/ \E i \in DOMAIN t.trips[o.trip].calls :
                      /\ o.seq = t.trips[o.trip].calls[i].seq
                      /\ o.scheduled = Time(t.trips[o.trip].calls[i], o.date)
        BY <2>2, <2>7 DEF Fits
      <4>2. t = sch BY <1>2, <1>4, <2>7, <4>1
      <4> QED BY <4>1, <4>2 DEF calls
    <3>2. CASE o.seq = None /\ o.scheduled = None
      <4>1. \A i \in DOMAIN calls : calls[i].seq # None BY <2>2, Absent
      <4>2. at = {} BY <3>2, <4>1
      <4> QED BY <2>3, <3>2, <4>2
    <3>3. CASE \E i \in DOMAIN calls : o.seq = calls[i].seq /\ o.scheduled = Time(calls[i], o.date)
      <4>1. PICK i \in DOMAIN calls : o.seq = calls[i].seq /\ o.scheduled = Time(calls[i], o.date) BY <3>3
      <4>2. i \in at BY <4>1
      <4> QED BY <2>5, <4>1, <4>2
    <3> QED BY <3>1, <3>2, <3>3
  <2> QED BY <2>6, <2>7
<1> QED BY <1>3, <1>4

\* The first n of N elements of S.
FirstFits(n, s, N, S) ==
  /\ Min({n, N}) = IF n <= N THEN n ELSE N
  /\ First(n, s) \in Seq(S) /\ Len(First(n, s)) = Min({n, N})
  /\ \A i \in 1 .. Min({n, N}) : First(n, s)[i] = s[i]

(* The first n of a list are n of it, or all of it.                        *)
LEMMA FirstOf ==
  ASSUME NEW S, NEW N \in Nat, NEW s \in [1 .. N -> S], NEW n \in Nat
  PROVE  FirstFits(n, s, N, S)
<1>1. Min({n, N}) = IF n <= N THEN n ELSE N BY DEF Min
<1>2. s \in Seq(S) /\ Len(s) = N OBVIOUS
<1>. DEFINE k == Min({n, N})
<1>3. k \in 0 .. N /\ k \in Int /\ First(n, s) = SubSeq(s, 1, k) BY <1>1, <1>2 DEF First
<1>. HIDE DEF k
<1>4. \A i \in 1 .. k : s[i] \in S /\ 1 + i - 1 = i BY <1>3
<1>5. /\ SubSeq(s, 1, k) \in Seq(S)
      /\ Len(SubSeq(s, 1, k)) = IF 1 <= k THEN k - 1 + 1 ELSE 0
      /\ \A i \in 1 .. k - 1 + 1 : SubSeq(s, 1, k)[i] = s[1 + i - 1]
  <2>1. 1 \in Int OBVIOUS
  <2> QED BY ONLY <1>3, <1>4, <2>1, SubSeqProperties
<1>6. k - 1 + 1 = k /\ k >= 0 BY <1>3
<1>7. Len(SubSeq(s, 1, k)) = k BY <1>3, <1>5, <1>6
<1>8. \A i \in 1 .. k : SubSeq(s, 1, k)[i] = s[i] BY <1>4, <1>5, <1>6
<1> QED BY <1>1, <1>3, <1>5, <1>7, <1>8 DEF k, FirstFits

(* The orders that answers are sorted by are orders.                       *)
LEMMA Orders ==
  ASSUME NEW S, \A o \in S : o.date \in Int /\ o.trip \in Int
  PROVE  /\ WeakOrder(S, ByTrip(S))
         /\ (\A o \in S : o.delay \in Int) => WeakOrder(S, ByDelay(S))
         /\ (\A o \in S : When(o) \in Int) => WeakOrder(S, Sooner(S))
<1>1. WeakOrder(S, ByTrip(S)) BY DEF WeakOrder, ByTrip
<1>2. (\A o \in S : o.delay \in Int) => WeakOrder(S, ByDelay(S)) BY DEF WeakOrder, ByDelay
<1>3. (\A o \in S : When(o) \in Int) => WeakOrder(S, Sooner(S)) BY DEF WeakOrder, Sooner
<1> QED BY <1>1, <1>2, <1>3

\* What answers are built from: rows found, and the timetables read.
Found ==
  /\ IsFiniteSet(rows) /\ rows \subseteq Observation
  /\ \A f \in Feed : timetable[f] \in Timetables[f] \cup {None}
  /\ request.limit \in Nat \ {0}

(* The lists that answers show.                                            *)
LEMMA AnswerLists ==
  ASSUME Found
  PROVE  /\ IsFiniteSet(Directed) /\ Sorts(Sorted(Directed, ByTrip(Directed)), Directed, ByTrip(Directed))
         /\ IsFiniteSet(Within) /\ Sorts(Sorted(Within, Sooner(Within)), Within, Sooner(Within))
         /\ \A o \in rows : call(o) # None => When(o) \in Int
<1>1. \A o \in rows : Fits(o) BY ObservationFits DEF Found
<1>2. \A o \in rows : call(o) \in {None} \cup Int BY <1>1, CallIs DEF Found, Fits
<1>3. \A o \in rows : o.date \in Int /\ o.trip \in Int /\ o.delay \in {None} \cup Int BY <1>1 DEF Fits
<1>4. \A o \in rows : call(o) # None => When(o) \in Int
  <2>1. SUFFICES ASSUME NEW o \in rows, call(o) # None PROVE When(o) \in Int OBVIOUS
  <2>2. call(o) \in Int /\ (IF o.delay = None THEN 0 ELSE o.delay) \in Int BY <1>2, <1>3, <2>1
  <2> QED BY <2>2 DEF When
<1>5. Directed \in SUBSET rows /\ Within \in SUBSET rows BY DEF Directed, Within
<1>6. IsFiniteSet(Directed) /\ IsFiniteSet(Within) BY <1>5, FS_Subset DEF Found
<1>7. WeakOrder(Directed, ByTrip(Directed))
  <2>1. \A o \in Directed : o.date \in Int /\ o.trip \in Int BY <1>3, <1>5
  <2> QED BY <2>1, Orders
<1>8. WeakOrder(Within, Sooner(Within))
  <2>1. \A o \in Within : o.date \in Int /\ o.trip \in Int /\ When(o) \in Int
    <3>1. \A o \in Within : o \in rows /\ call(o) # None BY DEF Within
    <3> QED BY <1>3, <1>4, <3>1
  <2> QED BY <2>1, Orders
<1> QED BY <1>4, <1>6, <1>7, <1>8, SortedSorts

\* shown is the first of a list of what is asked for.
ShowsFirst(shown, S, before) ==
  LET list == First(request.limit, Sorted(S, before))
  IN  shown = [i \in DOMAIN list |-> Shown(list[i])]

\* Each row shown is asked for, they are sorted, and what is not shown is
\* beyond the limit and before none of the shown.
ShownRight(shown, S, before) ==
  /\ Len(shown) = Min({request.limit, Cardinality(S)}) /\ DOMAIN shown = 1 .. Len(shown)
  /\ \A i \in DOMAIN shown : shown[i].row \in S /\ shown[i] = Shown(shown[i].row)
  /\ \A i, j \in DOMAIN shown : i < j => shown[j].row \notin before[shown[i].row]
  /\ \A o \in S : o \notin {shown[i].row : i \in DOMAIN shown} =>
           Len(shown) = request.limit /\ \A i \in DOMAIN shown : o \notin before[shown[i].row]

(* The first of a sorted list show what they should.                       *)
LEMMA FirstShown ==
  ASSUME NEW S, IsFiniteSet(S), NEW before, Sorts(Sorted(S, before), S, before),
         request.limit \in Nat \ {0}, NEW shown, ShowsFirst(shown, S, before)
  PROVE  ShownRight(shown, S, before)
<1>. DEFINE s == Sorted(S, before)
            N == Cardinality(S)
            k == Min({request.limit, N})
            list == First(request.limit, s)
<1>1. N \in Nat BY FS_CardinalityType
<1>2. /\ s \in [1 .. N -> S] /\ \A o \in S : \E i \in 1 .. N : s[i] = o
      /\ \A i, j \in 1 .. N : i < j => s[j] \notin before[s[i]]
  BY DEF Sorts, Lists
<1>3. shown = [i \in DOMAIN list |-> Shown(list[i])] BY DEF ShowsFirst
<1>. HIDE DEF s, N
<1>4. /\ k = IF request.limit <= N THEN request.limit ELSE N
      /\ list \in Seq(S) /\ Len(list) = k /\ \A i \in 1 .. k : list[i] = s[i]
  <2>1. request.limit \in Nat /\ s \in [1 .. N -> S] BY <1>2
  <2>2. FirstFits(request.limit, s, N, S) BY ONLY <1>1, <2>1, FirstOf
  <2> QED BY <2>2 DEF FirstFits
<1>5. k \in 0 .. N /\ k \in Nat BY <1>1, <1>4
<1>6. DOMAIN list = 1 .. k BY <1>4
<1>. HIDE DEF list, k
<1>7. shown = [i \in 1 .. k |-> Shown(s[i])] BY <1>3, <1>4, <1>6
<1>8. DOMAIN shown = 1 .. k /\ Len(shown) = k BY <1>5, <1>7
<1>9. \A i \in 1 .. k : i \in 1 .. N /\ shown[i] = Shown(s[i]) /\ shown[i].row = s[i]
  BY <1>1, <1>5, <1>7 DEF Shown
<1>10. \A i \in DOMAIN shown : shown[i].row \in S /\ shown[i] = Shown(shown[i].row)
  BY <1>2, <1>8, <1>9
<1>11. \A i, j \in DOMAIN shown : i < j => shown[j].row \notin before[shown[i].row]
  BY <1>2, <1>8, <1>9
<1>12. ASSUME NEW o \in S, o \notin {shown[i].row : i \in DOMAIN shown}
       PROVE  k = request.limit /\ \A i \in DOMAIN shown : o \notin before[shown[i].row]
  <2>1. PICK m \in 1 .. N : s[m] = o BY <1>2
  <2>2. m \notin 1 .. k BY <1>8, <1>9, <1>12, <2>1
  <2>3. k < m /\ k < N BY <1>1, <1>5, <2>2
  <2>4. k = request.limit BY <1>1, <1>4, <2>3
  <2>5. \A i \in 1 .. k : i < m BY <1>1, <1>5, <2>3
  <2> QED BY <1>2, <1>8, <1>9, <2>1, <2>4, <2>5
<1> QED BY <1>8, <1>10, <1>11, <1>12 DEF k, N, ShownRight

(* How many of a list's first are there.                                   *)
LEMMA FirstCounted ==
  ASSUME NEW S, IsFiniteSet(S), NEW s, Lists(s, S), NEW k \in 0 .. Cardinality(S)
  PROVE  IsFiniteSet({s[i] : i \in 1 .. k}) /\ Cardinality({s[i] : i \in 1 .. k}) = k
<1>. DEFINE T == {s[i] : i \in 1 .. k}
            g == [i \in 1 .. k |-> s[i]]
<1>1. Cardinality(S) \in Nat BY FS_CardinalityType
<1>2. k \in Nat /\ \A i \in 1 .. k : i \in 1 .. Cardinality(S) BY <1>1
<1>3. \A i, j \in 1 .. k : s[i] = s[j] => i = j BY <1>2 DEF Lists
<1>4. g \in Bijection(1 .. k, T) BY <1>3 DEF Bijection, Injection, Surjection, IsInjective
<1>5. ExistsBijection(1 .. k, T) BY <1>4 DEF ExistsBijection
<1>6. IsFiniteSet(1 .. k) /\ Cardinality(1 .. k) = k BY <1>2, FirstNumbers
<1> QED BY <1>5, <1>6, FS_Bijection

(* The lower middle of a list sorted by delay has less than half of the    *)
(* delays below it, and half of them not above.                            *)
LEMMA MedianOf ==
  ASSUME NEW S, IsFiniteSet(S), S # {}, \A o \in S : o.delay \in Int
  PROVE  LET s == Sorted(S, ByDelay(S))
             median == s[(Len(s) + 1) \div 2].delay
         IN  /\ s # <<>>
             /\ \E o \in S : o.delay = median
             /\ 2 * Cardinality({o \in S : o.delay < median}) < Cardinality(S)
             /\ 2 * Cardinality({o \in S : o.delay <= median}) >= Cardinality(S)
<1>. DEFINE s == Sorted(S, ByDelay(S))
            N == Cardinality(S)
            k == (N + 1) \div 2
<1>1. N \in Nat /\ N # 0 BY FS_CardinalityType, FS_EmptySet
<1>2. WeakOrder(S, ByDelay(S))
  <2>1. DOMAIN ByDelay(S) = S /\ \A o \in S : ByDelay(S)[o] = {p \in S : p.delay < o.delay} BY DEF ByDelay
  <2>2. ByDelay(S) \in [S -> SUBSET S] BY DEF ByDelay
  <2> QED BY <2>1, <2>2 DEF WeakOrder
<1>3. Sorts(s, S, ByDelay(S)) BY <1>2, SortedSorts
<1>4. /\ s \in [1 .. N -> S] /\ Lists(s, S) /\ \A o \in S : \E i \in 1 .. N : s[i] = o
      /\ \A i, j \in 1 .. N : i < j => ~(s[j].delay < s[i].delay)
  BY <1>3 DEF Sorts, Lists, ByDelay
<1>. HIDE DEF s, N
<1>5. Len(s) = N /\ DOMAIN s = 1 .. N BY <1>1, <1>4
<1>6. k \in 1 .. N /\ 2 * (k - 1) < N /\ 2 * k >= N BY <1>1
<1>. HIDE DEF k
<1>7. \A i \in 1 .. N : s[i] \in S /\ s[i].delay \in Int BY <1>4
<1>. DEFINE m == s[k].delay
            Below == {o \in S : o.delay < m}
            UpTo == {o \in S : o.delay <= m}
<1>8. Below \subseteq {s[i] : i \in 1 .. k - 1}
  <2>1. SUFFICES ASSUME NEW o \in S, o.delay < m PROVE \E i \in 1 .. k - 1 : s[i] = o OBVIOUS
  <2>2. PICK i \in 1 .. N : s[i] = o BY <1>4
  <2>3. ~(k < i) BY <1>4, <1>6, <2>1, <2>2
  <2>4. i # k BY <1>6, <1>7, <2>1, <2>2
  <2>5. i \in 1 .. k - 1 BY <1>1, <1>6, <2>3, <2>4
  <2> QED BY <2>2, <2>5
<1>9. {s[i] : i \in 1 .. k} \subseteq UpTo
  <2>1. SUFFICES ASSUME NEW i \in 1 .. k PROVE s[i] \in S /\ s[i].delay <= m OBVIOUS
  <2>2. i \in 1 .. N /\ k \in 1 .. N /\ (i < k \/ i = k) BY <1>1, <1>6
  <2>3. s[i].delay \in Int /\ m \in Int /\ s[i] \in S BY <1>7, <2>2
  <2>4. i < k => ~(m < s[i].delay) BY <1>4, <2>2
  <2> QED BY <2>2, <2>3, <2>4
<1>10. k - 1 \in 0 .. N /\ k \in 0 .. N BY <1>1, <1>6
<1>11. /\ IsFiniteSet({s[i] : i \in 1 .. k - 1}) /\ Cardinality({s[i] : i \in 1 .. k - 1}) = k - 1
       /\ IsFiniteSet({s[i] : i \in 1 .. k}) /\ Cardinality({s[i] : i \in 1 .. k}) = k
  <2>1. k - 1 \in 0 .. Cardinality(S) /\ k \in 0 .. Cardinality(S) /\ Lists(s, S) BY <1>4, <1>10 DEF N
  <2>2. \A j \in 0 .. Cardinality(S) :
          IsFiniteSet({s[i] : i \in 1 .. j}) /\ Cardinality({s[i] : i \in 1 .. j}) = j
    BY <2>1, FirstCounted
  <2> QED BY <2>1, <2>2
<1>12. IsFiniteSet(UpTo) /\ IsFiniteSet(Below) BY FS_Subset
<1>13. Cardinality(Below) <= k - 1 /\ Cardinality(Below) \in Nat
  BY <1>8, <1>11, <1>12, FS_Subset, FS_CardinalityType
<1>14. k <= Cardinality(UpTo) /\ Cardinality(UpTo) \in Nat
  BY <1>9, <1>11, <1>12, FS_Subset, FS_CardinalityType
<1>15. 2 * Cardinality(Below) < N BY <1>1, <1>6, <1>13
<1>16. 2 * Cardinality(UpTo) >= N BY <1>1, <1>6, <1>14
<1>17. s # <<>> BY <1>1, <1>5
<1>18. \E o \in S : o.delay = m BY <1>6, <1>7
<1> QED BY <1>5, <1>15, <1>16, <1>17, <1>18 DEF s, N, k

(* Two sets that share nothing.                                            *)
LEMMA Apart ==
  ASSUME NEW A, IsFiniteSet(A), NEW B, IsFiniteSet(B), A \cap B = {}
  PROVE  IsFiniteSet(A \cup B) /\ Cardinality(A \cup B) = Cardinality(A) + Cardinality(B)
<1>1. Cardinality(A \cap B) = 0 BY FS_EmptySet
<1>2. Cardinality(A) \in Nat /\ Cardinality(B) \in Nat BY FS_CardinalityType
<1>3. IsFiniteSet(A \cup B) /\ Cardinality(A \cup B) = Cardinality(A) + Cardinality(B) - Cardinality(A \cap B)
  BY FS_Union
<1>4. Cardinality(A \cup B) = Cardinality(A) + Cardinality(B) - 0 BY ONLY <1>1, <1>3
<1>5. Cardinality(A) + Cardinality(B) - 0 = Cardinality(A) + Cardinality(B) BY ONLY <1>2
<1> QED BY ONLY <1>3, <1>4, <1>5

(* A trip has one status.                                                  *)
LEMMA StatusesPart ==
  ASSUME NEW S, IsFiniteSet(S)
  PROVE  LET n(c) == Cardinality({o \in S : status(o) = c})
         IN  Cardinality(S) = n("cancelled") + n("unknown") + n("early") + n("on_time") + n("late") + n("very_late")
<1>. DEFINE A(c) == {o \in S : status(o) = c}
            n(c) == Cardinality(A(c))
<1>1. \A c : IsFiniteSet(A(c)) /\ n(c) \in Nat
  <2>1. \A c : A(c) \in SUBSET S OBVIOUS
  <2>. HIDE DEF A
  <2> QED BY <2>1, FS_Subset, FS_CardinalityType
<1>2. \A c, d : c # d => A(c) \cap A(d) = {} OBVIOUS
<1>3. \A o \in S : status(o) \in {"cancelled", "unknown", "early", "on_time", "late", "very_late"}
  BY DEF status
<1>4. S = A("cancelled") \cup A("unknown") \cup A("early") \cup A("on_time") \cup A("late") \cup A("very_late")
  BY <1>3
<1>. DEFINE B == A("cancelled") \cup A("unknown")
            C == B \cup A("early")
            D == C \cup A("on_time")
            E == D \cup A("late")
<1>5. /\ B \cap A("early") = {} /\ C \cap A("on_time") = {}
      /\ D \cap A("late") = {} /\ E \cap A("very_late") = {}
  OBVIOUS
<1>. HIDE DEF A
<1>6. IsFiniteSet(B) /\ Cardinality(B) = n("cancelled") + n("unknown") BY <1>1, <1>2, Apart
<1>. HIDE DEF B
<1>7. IsFiniteSet(C) /\ Cardinality(C) = Cardinality(B) + n("early") BY <1>1, <1>5, <1>6, Apart
<1>. HIDE DEF C
<1>8. IsFiniteSet(D) /\ Cardinality(D) = Cardinality(C) + n("on_time") BY <1>1, <1>5, <1>7, Apart
<1>. HIDE DEF D
<1>9. IsFiniteSet(E) /\ Cardinality(E) = Cardinality(D) + n("late") BY <1>1, <1>5, <1>8, Apart
<1>10. S = E \cup A("very_late") BY <1>4 DEF B, C, D
<1>. HIDE DEF E
<1>11. Cardinality(S) = Cardinality(E) + n("very_late") BY <1>1, <1>5, <1>9, <1>10, Apart
<1>12. Cardinality(S) = n("cancelled") + n("unknown") + n("early") + n("on_time") + n("late") + n("very_late")
  BY <1>1, <1>6, <1>7, <1>8, <1>9, <1>11
<1> QED BY <1>12 DEF A

(* An answer, as it is made.                                               *)
LEMMA AnswerIs ==
  ASSUME LiveInv, Answer
  PROVE  /\ Found /\ request \in Requests
         /\ UNCHANGED <<request, timetable, rows>> /\ stage' = "answered"
         /\ request.kind = "line" => /\ answer' = LineNow
                                     /\ ShowsFirst(answer'.shown, Directed, ByTrip(Directed))
         /\ request.kind = "stop" => /\ answer' = StopNow
                                     /\ ShowsFirst(answer'.shown, Within, Sooner(Within))
<1>1. stage = "read" /\ OneMoment BY DEF Answer, LiveInv
<1>2. request \in Requests /\ Found BY <1>1, Parameters DEF OneMoment, Found
<1>3. UNCHANGED <<request, timetable, rows>> /\ stage' = "answered"
      /\ answer' = IF request.kind = "line" THEN LineNow ELSE StopNow
  BY DEF Answer
<1>4. LineNow.shown = LET list == First(request.limit, Sorted(Directed, ByTrip(Directed)))
                      IN  [i \in DOMAIN list |-> Shown(list[i])]
  BY DEF LineNow
<1>5. StopNow.shown = LET list == First(request.limit, Sorted(Within, Sooner(Within)))
                      IN  [i \in DOMAIN list |-> Shown(list[i])]
  BY DEF StopNow
<1> QED BY <1>2, <1>3, <1>4, <1>5 DEF ShowsFirst

(* Every row shown is one that was found, with what the timetable says.    *)
LEMMA RowsShown ==
  ASSUME LiveInv, Answer
  PROVE  \A i \in DOMAIN answer'.shown :
           /\ answer'.shown[i].row \in rows
           /\ answer'.shown[i] = Shown(answer'.shown[i].row)
<1>1. /\ Found /\ request \in Requests
      /\ request.kind = "line" => ShowsFirst(answer'.shown, Directed, ByTrip(Directed))
      /\ request.kind = "stop" => ShowsFirst(answer'.shown, Within, Sooner(Within))
  BY AnswerIs
<1>2. request.kind \in {"line", "stop"} /\ request.limit \in Nat \ {0} BY <1>1, Parameters
<1>3. /\ IsFiniteSet(Directed) /\ Sorts(Sorted(Directed, ByTrip(Directed)), Directed, ByTrip(Directed))
      /\ IsFiniteSet(Within) /\ Sorts(Sorted(Within, Sooner(Within)), Within, Sooner(Within))
  BY <1>1, AnswerLists
<1>4. Directed \subseteq rows /\ Within \subseteq rows BY DEF Directed, Within
<1>5. CASE request.kind = "line"
  <2>1. \A i \in DOMAIN answer'.shown : /\ answer'.shown[i].row \in Directed
                                        /\ answer'.shown[i] = Shown(answer'.shown[i].row)
    <3>1. ShownRight(answer'.shown, Directed, ByTrip(Directed)) BY <1>1, <1>2, <1>3, <1>5, FirstShown
    <3> QED BY <3>1 DEF ShownRight
  <2> QED BY <1>4, <2>1
<1>6. CASE request.kind = "stop"
  <2>1. \A i \in DOMAIN answer'.shown : /\ answer'.shown[i].row \in Within
                                        /\ answer'.shown[i] = Shown(answer'.shown[i].row)
    <3>1. ShownRight(answer'.shown, Within, Sooner(Within)) BY <1>1, <1>2, <1>3, <1>6, FirstShown
    <3> QED BY <3>1 DEF ShownRight
  <2> QED BY <1>4, <2>1
<1> QED BY <1>2, <1>5, <1>6

(* The timetable the request read says of a row what the matcher did, if   *)
(* it is the same one.                                                     *)
LEMMA AnswerScheduled ==
  ASSUME LiveInv, Answer
  PROVE  ScheduledAsMatched'
<1>1. Found /\ UNCHANGED <<request, timetable, rows>> BY AnswerIs
<1>2. SUFFICES ASSUME NEW i \in DOMAIN answer'.shown,
                      timetable[answer'.shown[i].row.feed] # None,
                      answer'.shown[i].row.version = timetable[answer'.shown[i].row.feed].version
               PROVE  answer'.shown[i].scheduled = answer'.shown[i].row.scheduled
  BY <1>1 DEF ScheduledAsMatched
<1>. DEFINE o == answer'.shown[i].row
<1>3. o \in rows /\ answer'.shown[i] = Shown(o) BY RowsShown
<1>4. answer'.shown[i].scheduled = call(o) BY <1>3 DEF Shown
<1>5. Fits(o) BY <1>1, <1>3, ObservationFits DEF Found
<1>6. timetable[o.feed] \in Timetables[o.feed] \cup {None} BY <1>1, <1>5 DEF Found, Fits
<1> QED BY <1>2, <1>4, <1>5, <1>6, CallIs

(* A board shows the soonest.                                              *)
LEMMA BoardComplete ==
  ASSUME LiveInv, Answer, request.kind = "stop"
  PROVE  SoonestFirst'
<1>1. /\ Found /\ UNCHANGED <<request, timetable, rows>> /\ answer' = StopNow
      /\ ShowsFirst(answer'.shown, Within, Sooner(Within)) /\ request \in Requests
  BY AnswerIs
<1>. DEFINE shown == answer'.shown
<1>2. /\ IsFiniteSet(Within) /\ Sorts(Sorted(Within, Sooner(Within)), Within, Sooner(Within))
      /\ \A o \in rows : call(o) # None => When(o) \in Int
  BY <1>1, AnswerLists
<1>3. request.limit \in Nat \ {0} BY <1>1, Parameters
<1>4. /\ DOMAIN shown = 1 .. Len(shown)
      /\ \A i \in DOMAIN shown : shown[i].row \in Within
      /\ \A i, j \in DOMAIN shown : i < j => shown[j].row \notin Sooner(Within)[shown[i].row]
      /\ \A o \in Within : o \notin {shown[i].row : i \in DOMAIN shown} =>
           Len(shown) = request.limit /\ \A i \in DOMAIN shown : o \notin Sooner(Within)[shown[i].row]
  <2>1. ShownRight(shown, Within, Sooner(Within)) BY <1>1, <1>2, <1>3, FirstShown
  <2> QED BY <2>1 DEF ShownRight
<1>5. answer'.horizon = now + request.window BY <1>1 DEF StopNow
<1>6. \A o : o \in Within <=> o \in rows /\ call(o) # None /\ When(o) <= answer'.horizon
  BY <1>5 DEF Within
<1>7. \A o, p \in Within : o \notin Sooner(Within)[p] => When(p) <= When(o)
  <2>1. SUFFICES ASSUME NEW o \in Within, NEW p \in Within, ~(When(p) <= When(o))
                 PROVE  o \in Sooner(Within)[p] OBVIOUS
  <2>2. When(o) \in Int /\ When(p) \in Int BY <1>2, <1>6
  <2> QED BY <2>1, <2>2 DEF Sooner
<1>. HIDE DEF shown
<1>8. \A i, j \in DOMAIN shown : i <= j => When(shown[i].row) <= When(shown[j].row)
  <2>1. SUFFICES ASSUME NEW i \in DOMAIN shown, NEW j \in DOMAIN shown, i <= j
                 PROVE  When(shown[i].row) <= When(shown[j].row) OBVIOUS
  <2>2. i \in Int /\ j \in Int BY <1>4
  <2>3. When(shown[i].row) \in Int BY <1>2, <1>4, <1>6
  <2> QED BY <1>4, <1>7, <2>1, <2>2, <2>3
<1>9. \A i \in DOMAIN shown : When(shown[i].row) <= answer'.horizon BY <1>4, <1>6
<1>. DEFINE out == {o \in rows : call(o) # None} \ {shown[i].row : i \in DOMAIN shown}
<1>10. \A o \in out : When(o) <= answer'.horizon =>
         Len(shown) = request.limit /\ \A i \in DOMAIN shown : When(shown[i].row) <= When(o)
  BY <1>4, <1>6, <1>7
<1>11. /\ \A o : call(o)' = call(o)
       /\ \A o : When(o)' = When(o)
  BY <1>1 DEF call, When
<1>12. SoonestFirst' <=>
         /\ \A i, j \in DOMAIN shown : i <= j => When(shown[i].row) <= When(shown[j].row)
         /\ \A i \in DOMAIN shown : When(shown[i].row) <= answer'.horizon
         /\ \A o \in out : When(o) <= answer'.horizon =>
              Len(shown) = request.limit /\ \A i \in DOMAIN shown : When(shown[i].row) <= When(o)
  BY <1>1, <1>11 DEF SoonestFirst, shown
<1> QED BY <1>8, <1>9, <1>10, <1>12

(* A summary counts all trips asked for, shown or not.                     *)
LEMMA SummaryComplete ==
  ASSUME LiveInv, Answer, request.kind = "line"
  PROVE  SummaryCountsAll'
<1>1. /\ Found /\ UNCHANGED <<request, timetable, rows>> /\ answer' = LineNow
      /\ ShowsFirst(answer'.shown, Directed, ByTrip(Directed)) /\ request \in Requests
  BY AnswerIs
<1>2. IsFiniteSet(Directed) /\ Sorts(Sorted(Directed, ByTrip(Directed)), Directed, ByTrip(Directed))
  BY <1>1, AnswerLists
<1>3. request.limit \in Nat \ {0} BY <1>1, Parameters
<1>. DEFINE shown == answer'.shown
            trips == {o \in rows : request.direction \in {None, o.direction}}
            s == answer'.summary
            delayed == {o \in trips : o.rel # "CANCELED" /\ o.delay # None}
<1>4. trips = Directed BY DEF Directed
<1>5. Len(shown) = Min({request.limit, Cardinality(trips)})
  <2>1. ShownRight(shown, Directed, ByTrip(Directed)) BY <1>1, <1>2, <1>3, FirstShown
  <2> QED BY <1>4, <2>1 DEF ShownRight
<1>6. s = summarise(trips) BY <1>1, <1>4 DEF LineNow
<1>7. delayed = Delayed(trips) BY DEF Delayed, status
<1>8. \A c \in Statuses : s.count[c] = Cardinality({o \in trips : status(o) = c}) BY <1>6 DEF summarise
<1>9. Cardinality(trips) = s.count["cancelled"] + s.count["unknown"] + s.count["early"]
                           + s.count["on_time"] + s.count["late"] + s.count["very_late"]
  <2>1. LET n(c) == Cardinality({o \in trips : status(o) = c})
        IN  Cardinality(trips) = n("cancelled") + n("unknown") + n("early") + n("on_time") + n("late") + n("very_late")
    BY <1>2, <1>4, StatusesPart
  <2> QED BY <1>8, <2>1 DEF Statuses
<1>10. s.median = LET delays == Sorted(delayed, ByDelay(delayed))
                  IN  IF delays = <<>> THEN None ELSE delays[(Len(delays) + 1) \div 2].delay
  <2>1. summarise(trips).median =
          LET delays == Sorted(Delayed(trips), ByDelay(Delayed(trips)))
          IN  IF delays = <<>> THEN None ELSE delays[(Len(delays) + 1) \div 2].delay
    BY DEF summarise
  <2>. HIDE DEF trips, delayed, s
  <2> QED BY ONLY <1>6, <1>7, <2>1
<1>11. IsFiniteSet(delayed) /\ \A o \in delayed : o.delay \in Int
  <2>1. delayed \in SUBSET Directed /\ delayed \subseteq rows BY <1>4
  <2>2. \A o \in rows : o.delay \in {None} \cup Int BY <1>1, ObservationFits DEF Found, Fits
  <2> QED BY <1>2, <2>1, <2>2, FS_Subset
<1>. HIDE DEF s
<1>12. /\ (s.median = None) <=> (delayed = {})
       /\ delayed # {} =>
            /\ \E o \in delayed : o.delay = s.median
            /\ 2 * Cardinality({o \in delayed : o.delay < s.median}) < Cardinality(delayed)
            /\ 2 * Cardinality({o \in delayed : o.delay <= s.median}) >= Cardinality(delayed)
  <2>. HIDE DEF delayed
  <2>1. CASE delayed = {}
    <3>1. \A o \in delayed : o.date \in Int /\ o.trip \in Int BY <2>1
    <3>2. Sorts(Sorted(delayed, ByDelay(delayed)), delayed, ByDelay(delayed))
      BY <1>11, <3>1, Orders, SortedSorts
    <3>3. Cardinality(delayed) = 0 BY <2>1, FS_EmptySet
    <3>4. Sorted(delayed, ByDelay(delayed)) = <<>> BY <3>2, <3>3 DEF Sorts, Lists
    <3> QED BY <1>10, <2>1, <3>4
  <2>2. CASE delayed # {}
    <3>. DEFINE list == Sorted(delayed, ByDelay(delayed))
                median == list[(Len(list) + 1) \div 2].delay
    <3>1. /\ list # <<>>
          /\ \E o \in delayed : o.delay = median
          /\ 2 * Cardinality({o \in delayed : o.delay < median}) < Cardinality(delayed)
          /\ 2 * Cardinality({o \in delayed : o.delay <= median}) >= Cardinality(delayed)
      BY <1>11, <2>2, MedianOf
    <3>2. s.median = median BY <1>10, <3>1
    <3>. HIDE DEF list, median
    <3>3. median # None BY <1>11, <3>1, Absent
    <3> QED BY <2>2, <3>1, <3>2, <3>3
  <2> QED BY <2>1, <2>2
<1>13. SummaryCountsAll' <=>
         /\ Len(shown) = Min({request.limit, Cardinality(trips)})
         /\ Cardinality(trips) = s.count["cancelled"] + s.count["unknown"] + s.count["early"]
                                  + s.count["on_time"] + s.count["late"] + s.count["very_late"]
         /\ (s.median = None) <=> (delayed = {})
         /\ delayed # {} =>
              /\ \E o \in delayed : o.delay = s.median
              /\ 2 * Cardinality({o \in delayed : o.delay < s.median}) < Cardinality(delayed)
              /\ 2 * Cardinality({o \in delayed : o.delay <= s.median}) >= Cardinality(delayed)
  BY <1>1 DEF SummaryCountsAll, s
<1>. HIDE DEF shown, trips, delayed
<1> QED BY <1>5, <1>9, <1>12, <1>13

(* A step leads to an answer, or leaves one as it is.                      *)
LEMMA AnswersStep ==
  ASSUME LiveInv, ScheduledAsMatched /\ AnswersComplete, [Next]_vars
  PROVE  (ScheduledAsMatched /\ AnswersComplete)'
<1>1. CASE Answer
  <2>1. ScheduledAsMatched' BY <1>1, AnswerScheduled
  <2>2. request' = request BY <1>1 DEF Answer
  <2>3. AnswersComplete' BY <1>1, <2>2, BoardComplete, SummaryComplete DEF AnswersComplete
  <2> QED BY <2>1, <2>3
<1>2. CASE UNCHANGED vars
  <2>1. UNCHANGED <<stage, request, timetable, rows, answer>> BY <1>2 DEF vars, serving
  <2>2. \A o : call(o)' = call(o) /\ When(o)' = When(o) BY <2>1 DEF call, When
  <2>3. SoonestFirst' <=> SoonestFirst BY <2>1, <2>2 DEF SoonestFirst
  <2>4. SummaryCountsAll' <=> SummaryCountsAll BY <2>1 DEF SummaryCountsAll
  <2>5. ScheduledAsMatched' BY <2>1 DEF ScheduledAsMatched
  <2> QED BY <2>1, <2>3, <2>4, <2>5 DEF AnswersComplete
<1>3. CASE Next /\ ~Answer
  <2>1. stage' # "answered"
    BY <1>3 DEF Next, Poll, Swap, Ask, Copy, Read, AskHistory, Done, Tick, Overtakes, serving
  <2> QED BY <2>1 DEF ScheduledAsMatched, AnswersComplete
<1> QED BY <1>1, <1>2, <1>3

(* What is right of an answer when it is made stays so.                    *)
LEMMA AnswersHold == Spec => [](ScheduledAsMatched /\ AnswersComplete)
<1>1. Init => ScheduledAsMatched /\ AnswersComplete BY DEF Init, ScheduledAsMatched, AnswersComplete
<1> QED BY <1>1, AnswersStep, LiveHolds, PTL DEF Spec

(* A time shown is the one the matcher had, unless the timetable has been  *)
(* replaced since (handlers_now.go:131-149).                               *)
THEOREM TimesAgree == Spec => []ScheduledAsMatched
  BY AnswersHold, PTL

(* Boards leave out nothing sooner than what they show and summaries       *)
(* nothing at all, for any number of feeds, trips and calls                *)
(* (handlers_now.go:341-454).                                              *)
THEOREM NothingLeftOut == Spec => []AnswersComplete
  BY AnswersHold, PTL

-----------------------------------------------------------------------------
(* Finite sets grow by one element.                                        *)

(* Of some finite sets there is one that none of the others is part of.    *)
LEMMA LeastSet ==
  ASSUME NEW S, IsFiniteSet(S), NEW P, P \subseteq SUBSET S, P # {}
  PROVE  \E T \in P : \A U \in P : U \subseteq T => U = T
<1>1. IsWellFoundedOn(StrictSubsetOrdering(S), FiniteSubsetsOf(S)) BY FS_StrictSubsetOrderingWellFounded
<1>2. P \subseteq FiniteSubsetsOf(S) BY FS_Subset DEF FiniteSubsetsOf
<1>3. PICK T \in P : \A U \in P : ~(<<U, T>> \in StrictSubsetOrdering(S)) BY <1>1, <1>2, WFMin
<1>4. \A U \in P : U \subseteq T => U = T BY <1>3 DEF StrictSubsetOrdering
<1> QED BY <1>4

(* What is so of the empty set, and with a set of it and one element more, *)
(* is so of a finite set.                                                  *)
LEMMA SetsGrow ==
  ASSUME NEW S, IsFiniteSet(S), NEW P, {} \in P,
         \A T \in SUBSET S : \A x \in S \ T : T \in P => T \cup {x} \in P
  PROVE  S \in P
<1>1. SUFFICES ASSUME S \notin P PROVE FALSE OBVIOUS
<1>. DEFINE Bad == {T \in SUBSET S : T \notin P}
<1>2. Bad # {} /\ Bad \subseteq SUBSET S BY <1>1
<1>. HIDE DEF Bad
<1>3. PICK T \in Bad : \A U \in Bad : U \subseteq T => U = T BY <1>2, LeastSet
<1>. USE DEF Bad
<1>4. PICK x \in T : TRUE BY <1>3
<1>5. T \ {x} \in SUBSET S /\ T \ {x} # T /\ T \ {x} \subseteq T /\ x \in S \ (T \ {x}) BY <1>3, <1>4
<1>6. T \ {x} \in P BY <1>3, <1>5
<1>7. (T \ {x}) \cup {x} = T BY <1>4
<1>8. T \in P BY <1>5, <1>6, <1>7
<1> QED BY <1>3, <1>8

(* Of finitely many numbers there is a least and a greatest.               *)
LEMMA LeastAndGreatest ==
  ASSUME NEW S, IsFiniteSet(S), S # {}, S \subseteq Int
  PROVE  /\ Min(S) \in S /\ \A n \in S : Min(S) <= n
         /\ Max(S) \in S /\ \A n \in S : n <= Max(S)
<1>. DEFINE P == {T \in SUBSET S : T # {} => /\ \E m \in T : \A n \in T : m <= n
                                             /\ \E m \in T : \A n \in T : n <= m}
<1>1. {} \in P OBVIOUS
<1>2. ASSUME NEW T \in SUBSET S, NEW x \in S \ T, T \in P PROVE T \cup {x} \in P
  <2>1. CASE T = {}
    <3>1. T \cup {x} = {x} /\ x <= x BY <2>1
    <3> QED BY <3>1
  <2>2. CASE T # {}
    <3>1. PICK m \in T : \A n \in T : m <= n BY <1>2, <2>2
    <3>2. PICK k \in T : \A n \in T : n <= k BY <1>2, <2>2
    <3>3. \E l \in T \cup {x} : \A n \in T \cup {x} : l <= n
      <4>1. CASE m <= x BY <3>1, <4>1
      <4>2. CASE ~(m <= x)
        <5>1. \A n \in T \cup {x} : x <= n BY <3>1, <4>2
        <5> QED BY <5>1
      <4> QED BY <4>1, <4>2
    <3>4. \E l \in T \cup {x} : \A n \in T \cup {x} : n <= l
      <4>1. CASE x <= k BY <3>2, <4>1
      <4>2. CASE ~(x <= k)
        <5>1. \A n \in T \cup {x} : n <= x BY <3>2, <4>2
        <5> QED BY <5>1
      <4> QED BY <4>1, <4>2
    <3>5. T \cup {x} \in SUBSET S OBVIOUS
    <3> QED BY <3>3, <3>4, <3>5
  <2> QED BY <2>1, <2>2
<1>. HIDE DEF P
<1>3. S \in P BY <1>1, <1>2, SetsGrow
<1>. USE DEF P
<1>4. (\E m \in S : \A n \in S : m <= n) /\ (\E m \in S : \A n \in S : m >= n) BY <1>3
<1> QED BY <1>4 DEF Min, Max

-----------------------------------------------------------------------------
(* Sums over finite sets.                                                  *)

\* g sums f over the parts of S.
Sums(g, f, S) ==
  /\ g \in [SUBSET S -> Int]
  /\ g[{}] = 0
  /\ \A T \in SUBSET S : \A x \in T : g[T] = f[x] + g[T \ {x}]

(* A finite set's parts can be summed over.                                *)
LEMMA SumsExist ==
  ASSUME NEW S, IsFiniteSet(S), NEW f, \A x \in S : f[x] \in Int
  PROVE  \E g : Sums(g, f, S)
<1>. DEFINE P == {T \in SUBSET S : \E g : Sums(g, f, T)}
<1>1. {} \in P
  <2>1. Sums([T \in SUBSET {} |-> 0], f, {}) BY DEF Sums
  <2> QED BY <2>1
<1>2. \A T \in SUBSET S : \A x \in S \ T : T \in P => T \cup {x} \in P
  <2>1. SUFFICES ASSUME NEW T \in SUBSET S, NEW x \in S \ T, NEW g, Sums(g, f, T)
                 PROVE  \E h : Sums(h, f, T \cup {x})
    OBVIOUS
  <2>. DEFINE h == [U \in SUBSET (T \cup {x}) |-> g[U \ {x}] + (IF x \in U THEN f[x] ELSE 0)]
  <2>2. \A U \in SUBSET (T \cup {x}) : U \ {x} \in SUBSET T OBVIOUS
  <2>3. \A U \in SUBSET T : g[U] \in Int BY <2>1 DEF Sums
  <2>4. f[x] \in Int OBVIOUS
  <2>5. \A U \in SUBSET (T \cup {x}) : g[U \ {x}] \in Int BY <2>2, <2>3
  <2>6. h \in [SUBSET (T \cup {x}) -> Int] BY <2>4, <2>5
  <2>7. h[{}] = 0
    <3>1. {} \ {x} = {} /\ g[{}] = 0 BY <2>1 DEF Sums
    <3> QED BY <3>1
  <2>8. ASSUME NEW U \in SUBSET (T \cup {x}), NEW y \in U
        PROVE  h[U] = f[y] + h[U \ {y}]
    <3>1. U \ {y} \in SUBSET (T \cup {x}) OBVIOUS
    <3>2. h[U] = g[U \ {x}] + (IF x \in U THEN f[x] ELSE 0) OBVIOUS
    <3>3. h[U \ {y}] = g[(U \ {y}) \ {x}] + (IF x \in U \ {y} THEN f[x] ELSE 0) BY <3>1
    <3>4. g[U \ {x}] \in Int /\ g[(U \ {y}) \ {x}] \in Int /\ f[y] \in Int BY <2>5, <3>1
    <3>5. CASE y = x
      <4>1. (U \ {y}) \ {x} = U \ {x} /\ x \in U /\ x \notin U \ {y} BY <3>5
      <4>2. h[U] = g[U \ {x}] + f[x] BY <3>2, <4>1
      <4>3. h[U \ {y}] = g[U \ {x}] + 0 BY <3>3, <4>1
      <4>. HIDE DEF h
      <4> QED BY <2>4, <3>4, <3>5, <4>2, <4>3
    <3>6. CASE y # x
      <4>1. (U \ {y}) \ {x} = (U \ {x}) \ {y} /\ U \ {x} \in SUBSET T /\ y \in U \ {x} BY <3>6
      <4>2. g[U \ {x}] = f[y] + g[(U \ {x}) \ {y}] BY <2>1, <4>1 DEF Sums
      <4>3. x \in U \ {y} <=> x \in U BY <3>6
      <4>. DEFINE d == IF x \in U THEN f[x] ELSE 0
      <4>4. d \in Int BY <2>4
      <4>5. h[U] = g[U \ {x}] + d /\ h[U \ {y}] = g[(U \ {y}) \ {x}] + d BY <3>2, <3>3, <4>3
      <4>6. g[U \ {x}] = f[y] + g[(U \ {y}) \ {x}] BY <4>1, <4>2
      <4>. HIDE DEF h, d
      <4> QED BY <3>4, <4>4, <4>5, <4>6
    <3> QED BY <3>5, <3>6
  <2>. HIDE DEF h
  <2>9. Sums(h, f, T \cup {x}) BY <2>6, <2>7, <2>8 DEF Sums
  <2> QED BY <2>9
<1>. HIDE DEF P
<1>3. S \in P BY <1>1, <1>2, SetsGrow
<1> QED BY <1>3 DEF P

(* The library's sum is the one sum there is.                              *)
LEMMA SumIs ==
  ASSUME NEW S, IsFiniteSet(S), NEW f, NEW g, Sums(g, f, S), NEW T \in SUBSET S
  PROVE  SumFunctionOnSet(f, T) = g[T]
<1>. DEFINE Of(k) == [s \in SUBSET T |-> IF s = {} THEN 0 ELSE f[CHOOSE x \in s : TRUE]
                                                              + k[s \ {CHOOSE x \in s : TRUE}]]
            iter == CHOOSE k : k = Of(k)
            k0 == [s \in SUBSET T |-> g[s]]
<1>1. SumFunctionOnSet(f, T) = iter[T] BY DEF SumFunctionOnSet, FoldFunctionOnSet, MapThenFoldSet
<1>2. k0 = Of(k0)
  <2>1. ASSUME NEW s \in SUBSET T
        PROVE  g[s] = IF s = {} THEN 0 ELSE f[CHOOSE x \in s : TRUE] + k0[s \ {CHOOSE x \in s : TRUE}]
    <3>. DEFINE x == CHOOSE x \in s : TRUE
    <3>1. CASE s = {} BY <3>1 DEF Sums
    <3>2. CASE s # {}
      <4>1. x \in s BY <3>2
      <4>. HIDE DEF x
      <4>2. s \ {x} \in SUBSET T /\ s \in SUBSET S OBVIOUS
      <4>3. g[s] = f[x] + g[s \ {x}] BY <4>1, <4>2 DEF Sums
      <4>4. g[s] = f[x] + k0[s \ {x}] BY <4>2, <4>3
      <4> QED BY <3>2, <4>4 DEF x
    <3> QED BY <3>1, <3>2
  <2> QED BY <2>1
<1>3. iter = Of(iter)
  <2>. HIDE DEF k0, Of
  <2> QED BY <1>2
<1>4. \A s \in SUBSET T : iter[s] = IF s = {} THEN 0 ELSE f[CHOOSE x \in s : TRUE]
                                                        + iter[s \ {CHOOSE x \in s : TRUE}]
  <2>. HIDE DEF iter
  <2> QED BY <1>3
<1>. HIDE DEF iter
<1>5. SUFFICES ASSUME iter[T] # g[T] PROVE FALSE BY <1>1
<1>. DEFINE Bad == {s \in SUBSET T : iter[s] # g[s]}
<1>6. Bad # {} /\ Bad \subseteq SUBSET S BY <1>5
<1>. HIDE DEF Bad
<1>7. PICK s \in Bad : \A u \in Bad : u \subseteq s => u = s BY <1>6, LeastSet
<1>. USE DEF Bad
<1>. DEFINE x == CHOOSE x \in s : TRUE
<1>8. s # {} BY <1>4, <1>7 DEF Sums
<1>9. x \in s BY <1>8
<1>10. iter[s] = f[x] + iter[s \ {x}] BY <1>4, <1>7, <1>8
<1>. HIDE DEF x
<1>11. s \ {x} \in SUBSET T /\ s \ {x} # s /\ s \ {x} \subseteq s /\ s \in SUBSET S BY <1>7, <1>9
<1>12. iter[s \ {x}] = g[s \ {x}] BY <1>7, <1>11
<1>13. g[s] = f[x] + g[s \ {x}] BY <1>9, <1>11 DEF Sums
<1> QED BY <1>7, <1>10, <1>12, <1>13

(* A sum is a number: nought of nothing, and of others with each one more. *)
LEMMA SumOf ==
  ASSUME NEW S, IsFiniteSet(S), NEW f, \A x \in S : f[x] \in Int
  PROVE  /\ SumFunctionOnSet(f, S) \in Int
         /\ SumFunctionOnSet(f, {}) = 0
         /\ \A x \in S : SumFunctionOnSet(f, S) = f[x] + SumFunctionOnSet(f, S \ {x})
<1>1. PICK g : Sums(g, f, S) BY SumsExist
<1>2. \A T \in SUBSET S : SumFunctionOnSet(f, T) = g[T] BY <1>1, SumIs
<1>3. \A x \in S : S \ {x} \in SUBSET S OBVIOUS
<1>4. {} \in SUBSET S /\ S \in SUBSET S OBVIOUS
<1>5. \A x \in S : g[S] = f[x] + g[S \ {x}] BY <1>1, <1>4 DEF Sums
<1>6. g[S] \in Int /\ g[{}] = 0 BY <1>1, <1>4 DEF Sums
<1> QED BY <1>2, <1>3, <1>4, <1>5, <1>6

(* One element more adds its number.                                       *)
LEMMA SumMore ==
  ASSUME NEW S, IsFiniteSet(S), NEW f, \A x \in S : f[x] \in Int
  PROVE  /\ SumFunctionOnSet(f, {}) = 0
         /\ \A T \in SUBSET S : SumFunctionOnSet(f, T) \in Int
         /\ \A T \in SUBSET S : \A x \in S \ T :
              SumFunctionOnSet(f, T \cup {x}) = f[x] + SumFunctionOnSet(f, T)
<1>1. \A T \in SUBSET S : IsFiniteSet(T) /\ \A x \in T : f[x] \in Int BY FS_Subset
<1>2. \A T \in SUBSET S :
        /\ SumFunctionOnSet(f, T) \in Int /\ SumFunctionOnSet(f, {}) = 0
        /\ \A x \in T : SumFunctionOnSet(f, T) = f[x] + SumFunctionOnSet(f, T \ {x})
  BY <1>1, SumOf
<1>3. \A T \in SUBSET S : \A x \in S \ T :
        T \cup {x} \in SUBSET S /\ x \in T \cup {x} /\ (T \cup {x}) \ {x} = T
  OBVIOUS
<1>4. \A T \in SUBSET S : \A x \in S \ T :
        SumFunctionOnSet(f, T \cup {x}) = f[x] + SumFunctionOnSet(f, (T \cup {x}) \ {x})
  BY <1>2, <1>3
<1>5. {} \in SUBSET S OBVIOUS
<1> QED BY <1>2, <1>3, <1>4, <1>5

(* The sum of sums is the sum of both.                                     *)
LEMMA SumPlus ==
  ASSUME NEW S, IsFiniteSet(S), NEW f, NEW g, NEW h,
         \A x \in S : f[x] \in Int /\ g[x] \in Int /\ h[x] = f[x] + g[x]
  PROVE  SumFunctionOnSet(h, S) = SumFunctionOnSet(f, S) + SumFunctionOnSet(g, S)
<1>. DEFINE F(T) == SumFunctionOnSet(f, T)
            G(T) == SumFunctionOnSet(g, T)
            H(T) == SumFunctionOnSet(h, T)
            P == {T \in SUBSET S : H(T) = F(T) + G(T)}
<1>1. F({}) = 0 /\ \A T \in SUBSET S : F(T) \in Int /\ \A x \in S \ T : F(T \cup {x}) = f[x] + F(T)
  BY SumMore
<1>2. G({}) = 0 /\ \A T \in SUBSET S : G(T) \in Int /\ \A x \in S \ T : G(T \cup {x}) = g[x] + G(T)
  BY SumMore
<1>3. H({}) = 0 /\ \A T \in SUBSET S : \A x \in S \ T : H(T \cup {x}) = h[x] + H(T)
  <2>1. \A x \in S : h[x] \in Int OBVIOUS
  <2> QED BY <2>1, SumMore
<1>. HIDE DEF F, G, H
<1>4. {} \in P BY <1>1, <1>2, <1>3
<1>5. ASSUME NEW T \in SUBSET S, NEW x \in S \ T, T \in P PROVE T \cup {x} \in P
  <2>1. F(T \cup {x}) = f[x] + F(T) /\ G(T \cup {x}) = g[x] + G(T) /\ H(T \cup {x}) = h[x] + H(T)
    BY <1>1, <1>2, <1>3
  <2>2. F(T) \in Int /\ G(T) \in Int /\ f[x] \in Int /\ g[x] \in Int /\ h[x] = f[x] + g[x] BY <1>1, <1>2
  <2>3. H(T) = F(T) + G(T) BY <1>5
  <2>4. H(T \cup {x}) = F(T \cup {x}) + G(T \cup {x}) BY ONLY <2>1, <2>2, <2>3
  <2>5. T \cup {x} \in SUBSET S OBVIOUS
  <2> QED BY <2>4, <2>5
<1>. HIDE DEF P
<1>6. S \in P BY <1>4, <1>5, SetsGrow
<1> QED BY <1>6 DEF P, F, G, H

(* What is at most k times each is at most k times the sum.                *)
LEMMA SumAtMost ==
  ASSUME NEW S, IsFiniteSet(S), NEW f, NEW g, NEW k \in Int,
         \A x \in S : f[x] \in Int /\ g[x] \in Int /\ f[x] <= k * g[x]
  PROVE  SumFunctionOnSet(f, S) <= k * SumFunctionOnSet(g, S)
<1>. DEFINE F(T) == SumFunctionOnSet(f, T)
            G(T) == SumFunctionOnSet(g, T)
            P == {T \in SUBSET S : F(T) <= k * G(T)}
<1>1. F({}) = 0 /\ \A T \in SUBSET S : F(T) \in Int /\ \A x \in S \ T : F(T \cup {x}) = f[x] + F(T)
  BY SumMore
<1>2. G({}) = 0 /\ \A T \in SUBSET S : G(T) \in Int /\ \A x \in S \ T : G(T \cup {x}) = g[x] + G(T)
  BY SumMore
<1>. HIDE DEF F, G
<1>3. {} \in P BY <1>1, <1>2
<1>4. ASSUME NEW T \in SUBSET S, NEW x \in S \ T, T \in P PROVE T \cup {x} \in P
  <2>1. F(T \cup {x}) = f[x] + F(T) /\ G(T \cup {x}) = g[x] + G(T) BY <1>1, <1>2
  <2>2. F(T) \in Int /\ G(T) \in Int /\ f[x] \in Int /\ g[x] \in Int /\ f[x] <= k * g[x] BY <1>1, <1>2
  <2>3. F(T) <= k * G(T) BY <1>4
  <2>4. \A a, b, c, d \in Int : a <= k * b /\ c <= k * d => a + c <= k * (b + d) OBVIOUS
  <2>5. F(T \cup {x}) <= k * G(T \cup {x}) BY <2>1, <2>2, <2>3, <2>4
  <2>6. T \cup {x} \in SUBSET S OBVIOUS
  <2> QED BY <2>5, <2>6
<1>. HIDE DEF P
<1>5. S \in P BY <1>3, <1>4, SetsGrow
<1> QED BY <1>5 DEF P, F, G

(* And what is at least k times each is at least k times the sum.          *)
LEMMA SumAtLeast ==
  ASSUME NEW S, IsFiniteSet(S), NEW f, NEW g, NEW k \in Int,
         \A x \in S : f[x] \in Int /\ g[x] \in Int /\ f[x] >= k * g[x]
  PROVE  SumFunctionOnSet(f, S) >= k * SumFunctionOnSet(g, S)
<1>. DEFINE F(T) == SumFunctionOnSet(f, T)
            G(T) == SumFunctionOnSet(g, T)
            P == {T \in SUBSET S : F(T) >= k * G(T)}
<1>1. F({}) = 0 /\ \A T \in SUBSET S : F(T) \in Int /\ \A x \in S \ T : F(T \cup {x}) = f[x] + F(T)
  BY SumMore
<1>2. G({}) = 0 /\ \A T \in SUBSET S : G(T) \in Int /\ \A x \in S \ T : G(T \cup {x}) = g[x] + G(T)
  BY SumMore
<1>. HIDE DEF F, G
<1>3. {} \in P BY <1>1, <1>2
<1>4. ASSUME NEW T \in SUBSET S, NEW x \in S \ T, T \in P PROVE T \cup {x} \in P
  <2>1. F(T \cup {x}) = f[x] + F(T) /\ G(T \cup {x}) = g[x] + G(T) BY <1>1, <1>2
  <2>2. F(T) \in Int /\ G(T) \in Int /\ f[x] \in Int /\ g[x] \in Int /\ f[x] >= k * g[x] BY <1>1, <1>2
  <2>3. F(T) >= k * G(T) BY <1>4
  <2>4. \A a, b, c, d \in Int : a >= k * b /\ c >= k * d => a + c >= k * (b + d) OBVIOUS
  <2>5. F(T \cup {x}) >= k * G(T \cup {x}) BY <2>1, <2>2, <2>3, <2>4
  <2>6. T \cup {x} \in SUBSET S OBVIOUS
  <2> QED BY <2>5, <2>6
<1>. HIDE DEF P
<1>5. S \in P BY <1>3, <1>4, SetsGrow
<1> QED BY <1>5 DEF P, F, G

(* Sums of the same numbers are the same.                                  *)
LEMMA SumSame ==
  ASSUME NEW S, IsFiniteSet(S), NEW f, NEW g, \A x \in S : f[x] \in Int /\ g[x] = f[x]
  PROVE  SumFunctionOnSet(g, S) = SumFunctionOnSet(f, S)
<1>. DEFINE F == SumFunctionOnSet(f, S)
            G == SumFunctionOnSet(g, S)
<1>1. \A x \in S : f[x] \in Int /\ g[x] \in Int /\ g[x] <= 1 * f[x] /\ g[x] >= 1 * f[x] OBVIOUS
<1>2. G <= 1 * F BY <1>1, SumAtMost
<1>3. G >= 1 * F BY <1>1, SumAtLeast
<1>4. F \in Int /\ G \in Int BY <1>1, SumOf
<1>. HIDE DEF F, G
<1>5. F = G BY <1>2, <1>3, <1>4
<1> QED BY <1>5 DEF F, G

(* A set's parts add up.                                                   *)
LEMMA SumSplits ==
  ASSUME NEW S, IsFiniteSet(S), NEW f, \A x \in S : f[x] \in Int, NEW R \in SUBSET S
  PROVE  SumFunctionOnSet(f, S) = SumFunctionOnSet(f, R) + SumFunctionOnSet(f, S \ R)
<1>. DEFINE F(T) == SumFunctionOnSet(f, T)
            P == {T \in SUBSET (S \ R) : F(R \cup T) = F(R) + F(T)}
<1>1. F({}) = 0 /\ \A T \in SUBSET S : F(T) \in Int /\ \A x \in S \ T : F(T \cup {x}) = f[x] + F(T)
  BY SumMore
<1>. HIDE DEF F
<1>2. {} \in P
  <2>1. R \cup {} = R /\ F(R) \in Int BY <1>1
  <2> QED BY <1>1, <2>1
<1>3. ASSUME NEW T \in SUBSET (S \ R), NEW x \in (S \ R) \ T, T \in P PROVE T \cup {x} \in P
  <2>1. T \in SUBSET S /\ x \in S \ T /\ R \cup T \in SUBSET S /\ x \in S \ (R \cup T) OBVIOUS
  <2>2. F(T \cup {x}) = f[x] + F(T) /\ F((R \cup T) \cup {x}) = f[x] + F(R \cup T) BY <1>1, <2>1
  <2>3. R \cup (T \cup {x}) = (R \cup T) \cup {x} OBVIOUS
  <2>4. F(R \cup T) = F(R) + F(T) BY <1>3
  <2>5. F(R) \in Int /\ F(T) \in Int /\ f[x] \in Int BY <1>1, <2>1
  <2>6. F(R \cup (T \cup {x})) = F(R) + F(T \cup {x})
    <3>1. F(R \cup (T \cup {x})) = f[x] + (F(R) + F(T)) BY <2>2, <2>3, <2>4
    <3>2. \A a, b, c \in Int : a + (b + c) = b + (a + c) OBVIOUS
    <3>3. f[x] + (F(R) + F(T)) = F(R) + (f[x] + F(T)) BY <2>5, <3>2
    <3> QED BY <2>2, <3>1, <3>3
  <2>7. T \cup {x} \in SUBSET (S \ R) OBVIOUS
  <2> QED BY <2>6, <2>7
<1>4. IsFiniteSet(S \ R) BY FS_Subset
<1>. HIDE DEF P
<1>5. S \ R \in P BY <1>2, <1>3, <1>4, SetsGrow
<1>6. R \cup (S \ R) = S OBVIOUS
<1> QED BY <1>5, <1>6 DEF P, F

(* Counts add up to a count, a part's to no more than the whole's, and to  *)
(* nought when all are nought.                                             *)
LEMMA SumCounts ==
  ASSUME NEW S, IsFiniteSet(S), NEW f, \A x \in S : f[x] \in Nat
  PROVE  /\ \A T \in SUBSET S : /\ SumFunctionOnSet(f, T) \in Nat
                                /\ SumFunctionOnSet(f, T) <= SumFunctionOnSet(f, S)
         /\ SumFunctionOnSet(f, S) = 0 <=> \A x \in S : f[x] = 0
<1>. DEFINE F(T) == SumFunctionOnSet(f, T)
<1>1. ASSUME NEW T \in SUBSET S PROVE F(T) \in Nat
  <2>1. IsFiniteSet(T) /\ \A x \in T : f[x] \in Int /\ f[x] >= 0 * f[x] BY FS_Subset
  <2>2. F(T) \in Int BY SumMore
  <2>3. F(T) >= 0 * F(T) BY <2>1, SumAtLeast
  <2>. HIDE DEF F
  <2> QED BY <2>2, <2>3
<1>2. ASSUME NEW T \in SUBSET S PROVE F(T) <= F(S)
  <2>1. F(S) = F(T) + F(S \ T) BY SumSplits
  <2>2. S \ T \in SUBSET S OBVIOUS
  <2>3. F(T) \in Nat /\ F(S \ T) \in Nat BY <1>1, <2>2
  <2>. HIDE DEF F
  <2> QED BY <2>1, <2>3
<1>3. (\A x \in S : f[x] = 0) => F(S) = 0
  <2>1. SUFFICES ASSUME \A x \in S : f[x] = 0 PROVE F(S) = 0 OBVIOUS
  <2>2. \A x \in S : f[x] \in Int /\ f[x] <= 0 * f[x] BY <2>1
  <2>3. F(S) <= 0 * F(S) BY <2>2, SumAtMost
  <2>4. F(S) \in Nat BY <1>1
  <2>. HIDE DEF F
  <2> QED BY <2>3, <2>4
<1>4. ASSUME F(S) = 0, NEW x \in S PROVE f[x] = 0
  <2>1. F(S) = f[x] + F(S \ {x}) BY SumOf
  <2>2. S \ {x} \in SUBSET S OBVIOUS
  <2>3. F(S \ {x}) \in Nat /\ f[x] \in Nat BY <1>1, <2>2
  <2>. HIDE DEF F
  <2> QED BY <1>4, <2>1, <2>3
<1> QED BY <1>1, <1>2, <1>3, <1>4

(* The sums over the classes of a set add up to the sum over it.           *)
LEMMA SumOfClasses ==
  ASSUME NEW H, IsFiniteSet(H), NEW S, IsFiniteSet(S), NEW f, \A x \in S : f[x] \in Int,
         NEW G, \A h \in H : G[h] \in SUBSET S,
         \A h, i \in H : h # i => G[h] \cap G[i] = {},
         \A x \in S : \E h \in H : x \in G[h],
         NEW k, \A h \in H : k[h] = SumFunctionOnSet(f, G[h])
  PROVE  SumFunctionOnSet(k, H) = SumFunctionOnSet(f, S)
<1>. DEFINE F(T) == SumFunctionOnSet(f, T)
            K(T) == SumFunctionOnSet(k, T)
            Of(T) == {x \in S : \E h \in T : x \in G[h]}
            P == {T \in SUBSET H : K(T) = F(Of(T))}
<1>1. F({}) = 0 /\ \A T \in SUBSET S : F(T) \in Int BY SumMore
<1>2. \A h \in H : k[h] = F(G[h]) /\ k[h] \in Int BY <1>1
<1>3. K({}) = 0 /\ \A T \in SUBSET H : \A h \in H \ T : K(T \cup {h}) = k[h] + K(T) BY <1>2, SumMore
<1>4. \A T \in SUBSET S : \A R \in SUBSET T : F(T) = F(R) + F(T \ R)
  <2>1. \A T \in SUBSET S : IsFiniteSet(T) /\ \A x \in T : f[x] \in Int BY FS_Subset
  <2> QED BY <2>1, SumSplits
<1>. HIDE DEF F, K
<1>5. {} \in P
  <2>1. Of({}) = {} OBVIOUS
  <2> QED BY <1>1, <1>3, <2>1
<1>6. ASSUME NEW T \in SUBSET H, NEW h \in H \ T, T \in P PROVE T \cup {h} \in P
  <2>1. Of(T \cup {h}) \in SUBSET S /\ G[h] \in SUBSET Of(T \cup {h}) OBVIOUS
  <2>2. Of(T \cup {h}) \ G[h] = Of(T) OBVIOUS
  <2>3. F(Of(T \cup {h})) = F(G[h]) + F(Of(T)) BY <1>4, <2>1, <2>2
  <2>4. K(T \cup {h}) = k[h] + K(T) BY <1>3
  <2>5. K(T) = F(Of(T)) BY <1>6
  <2>6. T \cup {h} \in SUBSET H OBVIOUS
  <2>. HIDE DEF Of
  <2>7. K(T \cup {h}) = F(Of(T \cup {h})) BY <1>2, <2>3, <2>4, <2>5
  <2> QED BY <2>6, <2>7
<1>7. Of(H) = S OBVIOUS
<1>. HIDE DEF P
<1>8. H \in P BY <1>5, <1>6, SetsGrow
<1> QED BY <1>7, <1>8 DEF P, F, K

-----------------------------------------------------------------------------
(* Histories: rows weighed, grouped and combined.                          *)

(* Rounding to tenths moves by half of one at most.                        *)
LEMMA RoundsWithin ==
  ASSUME NEW n \in Int, NEW d \in Nat \ {0}
  PROVE  /\ round1(n, d) \in Int
         /\ 20 * n - d <= 2 * d * round1(n, d)
         /\ 2 * d * round1(n, d) <= 20 * n + d
<1>1. \A a \in Int : \A b \in Nat \ {0} :
        a \div b \in Int /\ b * (a \div b) <= a /\ a < b * (a \div b) + b
  OBVIOUS
<1>. DEFINE e == 2 * d
            a == 20 * n + d
            b == d - 20 * n
            up == a \div e
            down == b \div e
<1>2. e \in Nat \ {0} /\ a \in Int /\ b \in Int OBVIOUS
<1>3. up \in Int /\ e * up <= a /\ a < e * up + e BY <1>1, <1>2
<1>4. down \in Int /\ e * down <= b /\ b < e * down + e BY <1>1, <1>2
<1>5. round1(n, d) = IF n >= 0 THEN up ELSE -down BY DEF round1
<1>. HIDE DEF up, down
<1>6. e * up \in Int /\ e * down \in Int BY <1>2, <1>3, <1>4
<1>7. CASE n >= 0
  <2>1. round1(n, d) = up BY <1>5, <1>7
  <2>2. 20 * n - d <= e * up /\ e * up <= 20 * n + d BY <1>3, <1>6
  <2> QED BY <1>3, <2>1, <2>2
<1>8. CASE ~(n >= 0)
  <2>1. round1(n, d) = -down BY <1>5, <1>8
  <2>2. e * (-down) = -(e * down) BY <1>2, <1>4
  <2>3. 20 * n - d <= e * (-down) /\ e * (-down) <= 20 * n + d BY <1>4, <1>6, <2>2
  <2> QED BY <1>4, <2>1, <2>3
<1> QED BY <1>7, <1>8

(* A mean of seconds in fractions, rounded, is within what bounds the sum. *)
LEMMA RoundedMean ==
  ASSUME NEW sum \in Int, NEW W \in Nat \ {0}, NEW lo \in Int, NEW hi \in Int,
         lo * W <= sum, sum <= hi * W
  PROVE  LET m == round1(sum, Precision * W)
         IN  /\ m \in Int
             /\ 20 * lo - Precision <= 2 * Precision * m
             /\ 2 * Precision * m <= 20 * hi + Precision
<1>. DEFINE P == Precision
            d == P * W
            m == round1(sum, d)
            x == 2 * P * m
<1>1. P \in Nat \ {0} BY LiveConstants
<1>2. d \in Nat \ {0}
  <2>1. \A i, j \in Nat \ {0} : i * j \in Nat \ {0} OBVIOUS
  <2> QED BY <1>1, <2>1
<1>3. m \in Int /\ 20 * sum - d <= 2 * d * m /\ 2 * d * m <= 20 * sum + d
  <2>. HIDE DEF d, P
  <2> QED BY <1>2, RoundsWithin
<1>. HIDE DEF m
<1>4. x \in Int /\ 2 * d * m = x * W
  <2>1. \A i, j, k \in Int : 2 * (i * j) * k = (2 * i * k) * j /\ 2 * i * k \in Int OBVIOUS
  <2>. HIDE DEF P
  <2> QED BY <1>1, <1>3, <2>1
<1>. HIDE DEF x
<1>5. (20 * lo - P) * W = 20 * (lo * W) - d /\ (20 * hi + P) * W = 20 * (hi * W) + d
  <2>. HIDE DEF P
  <2> QED BY <1>1
<1>6. lo * W \in Int /\ hi * W \in Int OBVIOUS
<1>7. (20 * lo - P) * W <= x * W /\ x * W <= (20 * hi + P) * W
  <2>. DEFINE L == lo * W
              H == hi * W
  <2>1. L \in Int /\ H \in Int /\ L <= sum /\ sum <= H BY <1>6
  <2>2. (20 * lo - P) * W = 20 * L - d /\ (20 * hi + P) * W = 20 * H + d BY <1>5
  <2>3. 20 * sum - d <= x * W /\ x * W <= 20 * sum + d BY <1>3, <1>4
  <2>4. x * W \in Int BY <1>4
  <2>. DEFINE y == x * W
  <2>. HIDE DEF L, H, d, y
  <2>5. 20 * L - d <= y /\ y <= 20 * H + d BY <1>2, <2>1, <2>3, <2>4 DEF y
  <2> QED BY <2>2, <2>5 DEF y
<1>8. \A i, j \in Int : i * W <= j * W => i <= j OBVIOUS
<1>9. 20 * lo - P \in Int /\ 20 * hi + P \in Int BY <1>1
<1>10. 20 * lo - P <= x /\ x <= 20 * hi + P
  <2>. HIDE DEF P
  <2> QED BY <1>4, <1>7, <1>8, <1>9
<1> QED BY <1>3, <1>10 DEF m, x

\* What the rollup tables hold of a stop or a line, as a list of rows.
FromRollup(hours) ==
  /\ IsFiniteSet(DOMAIN hours) /\ DOMAIN hours \subseteq Nat
  /\ \A i, j \in DOMAIN hours : i <= j => hours[i].start <= hours[j].start
  /\ \A i \in DOMAIN hours :
       /\ hours[i].start \in Int /\ Weight(hours[i]) \in Nat
       /\ \A c \in Counters : hours[i].count[c] \in Nat
       /\ \A col \in {"p50", "p90", "mean"} :
            /\ hours[i][col] \in {None} \cup Int
            /\ hours[i][col] = None <=> Weight(hours[i]) = 0

(* The tables' rows are such.                                              *)
LEMMA HoursFit == ASSUME NEW hours \in Hourly PROVE FromRollup(hours)
<1>1. hours \in Seq(Range(hours)) BY Rollups
<1>2. DOMAIN hours = 1 .. Len(hours) /\ Len(hours) \in Nat BY ONLY <1>1
<1>3. IsFiniteSet(DOMAIN hours) /\ DOMAIN hours \subseteq Nat BY <1>2, FirstNumbers
<1>4. ASSUME NEW i \in DOMAIN hours
      PROVE  /\ hours[i].start \in Int /\ Weight(hours[i]) \in Nat
             /\ \A c \in Counters : hours[i].count[c] \in Nat
             /\ \A col \in {"p50", "p90", "mean"} :
                  /\ hours[i][col] \in {None} \cup Int
                  /\ hours[i][col] = None <=> Weight(hours[i]) = 0
  <2>. DEFINE r == hours[i]
  <2>1. r \in Range(hours) BY DEF Range
  <2>2. /\ r.start \in Int /\ r.count \in [Counters -> Nat]
        /\ {r.p50, r.p90, r.mean} \subseteq IF Weight(r) = 0 THEN {None} ELSE Int
    BY <2>1, Rollups
  <2>3. \A c \in Counters : r.count[c] \in Nat BY <2>2
  <2>4. Weight(r) \in Nat BY <2>3 DEF Weight, known, Counters, Delays
  <2>5. None \notin Int BY Absent
  <2>6. {r["p50"], r["p90"], r["mean"]} \subseteq IF Weight(r) = 0 THEN {None} ELSE Int BY <2>2
  <2>. HIDE DEF r
  <2>7. \A col \in {"p50", "p90", "mean"} :
          r[col] \in {None} \cup Int /\ (r[col] = None <=> Weight(r) = 0)
    BY <2>5, <2>6
  <2> QED BY <2>2, <2>3, <2>4, <2>7 DEF r
<1>5. \A i, j \in DOMAIN hours : i <= j => hours[i].start <= hours[j].start BY Rollups
<1> QED BY <1>3, <1>4, <1>5 DEF FromRollup

\* Of S sorted by v, the first that half of the weight w is found by.
MedianAt(S, w, v) ==
  LET order == Sorted(S, [i \in S |-> {j \in S : v[j] < v[i]}])
  IN  order[Min({n \in DOMAIN order :
                   2 * SumFunctionOnSet(w, {order[m] : m \in 1 .. n}) >= SumFunctionOnSet(w, S)})]

(* Half of the weight is of what goes up to the median, less of what is    *)
(* below it.                                                               *)
LEMMA HalfWay ==
  ASSUME NEW S, IsFiniteSet(S), S # {}, NEW w, \A i \in S : w[i] \in Nat \ {0},
         NEW v, \A i \in S : v[i] \in Int
  PROVE  /\ MedianAt(S, w, v) \in S
         /\ 2 * SumFunctionOnSet(w, {i \in S : v[i] < v[MedianAt(S, w, v)]}) < SumFunctionOnSet(w, S)
         /\ 2 * SumFunctionOnSet(w, {i \in S : v[i] <= v[MedianAt(S, w, v)]}) >= SumFunctionOnSet(w, S)
<1>. DEFINE before == [i \in S |-> {j \in S : v[j] < v[i]}]
            order == Sorted(S, before)
            half == {n \in DOMAIN order :
                       2 * SumFunctionOnSet(w, {order[m] : m \in 1 .. n}) >= SumFunctionOnSet(w, S)}
            N == Cardinality(S)
            W(T) == SumFunctionOnSet(w, T)
            Upto(n) == {order[m] : m \in 1 .. n}
            k == Min(half)
            at == order[k]
<1>1. N \in Nat /\ N # 0 BY FS_CardinalityType, FS_EmptySet
<1>2. WeakOrder(S, before)
  <2>1. before \in [S -> SUBSET S] OBVIOUS
  <2>2. \A o, p \in S : o \in before[p] <=> v[o] < v[p] OBVIOUS
  <2>3. \A o, p, q \in S : v[o] < v[p] => v[o] < v[q] \/ v[q] < v[p] OBVIOUS
  <2>4. \A o, p \in S : v[o] < v[p] => ~(v[p] < v[o]) OBVIOUS
  <2> QED BY <2>1, <2>2, <2>3, <2>4 DEF WeakOrder
<1>. HIDE DEF before
<1>3. Sorts(order, S, before) BY <1>2, SortedSorts
<1>4. /\ order \in [1 .. N -> S] /\ \A i \in S : \E n \in 1 .. N : order[n] = i
      /\ \A m, n \in 1 .. N : m < n => ~(v[order[n]] < v[order[m]])
  <2>1. \A o, p \in S : o \in before[p] <=> v[o] < v[p] BY DEF before
  <2>. HIDE DEF order
  <2> QED BY <1>3, <2>1 DEF Sorts, Lists
<1>. HIDE DEF order
<1>5. /\ W({}) = 0 /\ W(S) \in Nat /\ W(S) # 0
      /\ \A T, U \in SUBSET S : U \subseteq T => W(U) \in Nat /\ W(U) <= W(T)
  <2>1. \A T \in SUBSET S : IsFiniteSet(T) /\ \A i \in T : w[i] \in Nat BY FS_Subset
  <2>2. \A T \in SUBSET S : \A U \in SUBSET T : W(U) \in Nat /\ W(U) <= W(T) BY <2>1, SumCounts
  <2>3. W(S) = 0 <=> \A i \in S : w[i] = 0 BY <2>1, SumCounts
  <2>4. W({}) = 0 BY SumMore
  <2>. HIDE DEF W
  <2> QED BY <2>2, <2>3, <2>4
<1>. DEFINE total == W(S)
<1>6. half = {n \in 1 .. N : 2 * W(Upto(n)) >= total} BY <1>4
<1>. HIDE DEF W, N, half
<1>7. Upto(N) = S
  <2>1. \A m \in 1 .. N : order[m] \in S BY <1>4
  <2>2. \A i \in S : \E m \in 1 .. N : order[m] = i BY <1>4
  <2> QED BY ONLY <2>1, <2>2
<1>8. N \in half
  <2>. HIDE DEF Upto
  <2>1. 2 * W(Upto(N)) >= W(S) BY <1>5, <1>7
  <2>2. N \in 1 .. N BY <1>1
  <2> QED BY <1>6, <2>1, <2>2
<1>9. k \in half /\ \A n \in half : k <= n
  <2>1. IsFiniteSet(1 .. N) BY <1>1, FirstNumbers
  <2>2. half \in SUBSET (1 .. N) BY <1>6
  <2>3. IsFiniteSet(half) BY <2>1, <2>2, FS_Subset
  <2>4. half \subseteq Int /\ half # {} BY ONLY <1>1, <1>8, <2>2
  <2> QED BY <2>3, <2>4, LeastAndGreatest
<1>. HIDE DEF k
<1>10. k \in 1 .. N /\ 2 * W(Upto(k)) >= total BY <1>6, <1>9
<1>11. at \in S BY <1>4, <1>10
<1>12. Upto(k) \subseteq {i \in S : v[i] <= v[at]}
  <2>1. SUFFICES ASSUME NEW m \in 1 .. k PROVE order[m] \in S /\ v[order[m]] <= v[at] OBVIOUS
  <2>2. m \in 1 .. N /\ (m < k \/ m = k) BY <1>1, <1>10
  <2>3. order[m] \in S /\ v[order[m]] \in Int /\ v[at] \in Int BY <1>4, <1>11, <2>2
  <2>4. m < k => ~(v[at] < v[order[m]]) BY <1>4, <1>10, <2>2
  <2> QED BY <2>2, <2>3, <2>4
<1>13. {i \in S : v[i] < v[at]} \subseteq Upto(k - 1)
  <2>1. SUFFICES ASSUME NEW i \in S, v[i] < v[at] PROVE \E m \in 1 .. k - 1 : order[m] = i OBVIOUS
  <2>2. PICK m \in 1 .. N : order[m] = i BY <1>4
  <2>3. ~(k < m) BY <1>4, <1>10, <2>1, <2>2
  <2>4. m # k BY <1>11, <2>1, <2>2
  <2>5. m \in 1 .. k - 1 BY <1>1, <1>10, <2>3, <2>4
  <2> QED BY <2>2, <2>5
<1>14. 2 * W(Upto(k - 1)) < total /\ Upto(k - 1) \in SUBSET S
  <2>1. CASE k = 1
    <3>1. Upto(k - 1) = {} BY <2>1
    <3>. HIDE DEF Upto
    <3> QED BY <1>5, <3>1
  <2>2. CASE k # 1
    <3>1. k - 1 \in 1 .. N /\ ~(k <= k - 1) BY <1>1, <1>10, <2>2
    <3>2. k - 1 \notin half BY <1>9, <3>1
    <3>3. ~(2 * W(Upto(k - 1)) >= total) BY <1>6, <3>1, <3>2
    <3>4. \A m \in 1 .. k - 1 : m \in 1 .. N BY <1>1, <3>1
    <3>5. Upto(k - 1) \in SUBSET S
      <4>1. \A m \in 1 .. N : order[m] \in S BY <1>4
      <4> QED BY ONLY <3>4, <4>1
    <3>6. W(Upto(k - 1)) \in Nat BY <1>5, <3>5
    <3>. HIDE DEF Upto
    <3> QED BY <1>5, <3>3, <3>5, <3>6
  <2> QED BY <2>1, <2>2
<1>. DEFINE below == {i \in S : v[i] < v[at]}
            upTo == {i \in S : v[i] <= v[at]}
<1>15. below \in SUBSET S /\ upTo \in SUBSET S OBVIOUS
<1>16. Upto(k) \in SUBSET S BY <1>12
<1>. HIDE DEF Upto, below, upTo, at
<1>17. W(below) \in Nat /\ W(below) <= W(Upto(k - 1)) /\ W(Upto(k - 1)) \in Nat
  BY <1>5, <1>13, <1>14, <1>15 DEF below
<1>18. W(upTo) \in Nat /\ W(Upto(k)) <= W(upTo) /\ W(Upto(k)) \in Nat BY <1>5, <1>12, <1>15, <1>16 DEF upTo
<1>19. 2 * W(below) < total BY <1>5, <1>14, <1>17
<1>20. 2 * W(upTo) >= total BY <1>5, <1>10, <1>18
<1>21. at = MedianAt(S, w, v) BY DEF MedianAt, at, k, half, order, before
<1> QED BY <1>11, <1>19, <1>20, <1>21 DEF W, below, upTo

(* The weight of rows, and whether there is any.                           *)
LEMMA WeightsAdd ==
  ASSUME NEW hours, FromRollup(hours), NEW S \in SUBSET DOMAIN hours
  PROVE  /\ IsFiniteSet(S) /\ Weights(hours, S) \in Nat
         /\ Weights(hours, S) = 0 <=> \A i \in S : Weight(hours[i]) = 0
         /\ \A T \in SUBSET S : Weights(hours, T) = 0 => Weights(hours, S \ T) = Weights(hours, S)
<1>. DEFINE w == [i \in DOMAIN hours |-> Weight(hours[i])]
            W(T) == SumFunctionOnSet(w, T)
<1>1. \A T : Weights(hours, T) = W(T) BY DEF Weights
<1>2. \A i \in S : w[i] \in Nat /\ w[i] = Weight(hours[i]) BY DEF FromRollup
<1>3. IsFiniteSet(S) BY FS_Subset DEF FromRollup
<1>. HIDE DEF w
<1>4. /\ \A T \in SUBSET S : W(T) \in Nat
      /\ W(S) = 0 <=> \A i \in S : w[i] = 0
  BY <1>2, <1>3, SumCounts
<1>5. \A T \in SUBSET S : W(S) = W(T) + W(S \ T)
  <2>1. \A i \in S : w[i] \in Int BY <1>2
  <2> QED BY <1>3, <2>1, SumSplits
<1>. HIDE DEF W
<1>6. S \in SUBSET S /\ \A T \in SUBSET S : S \ T \in SUBSET S OBVIOUS
<1>7. ASSUME NEW T \in SUBSET S, W(T) = 0 PROVE W(S \ T) = W(S)
  <2>1. W(S \ T) \in Nat /\ W(S) = W(T) + W(S \ T) BY <1>4, <1>5, <1>6
  <2> QED BY <1>7, <2>1
<1>8. W(S) \in Nat BY <1>4, <1>6
<1>9. W(S) = 0 <=> \A i \in S : Weight(hours[i]) = 0 BY <1>2, <1>4
<1> QED BY <1>1, <1>3, <1>7, <1>8, <1>9

(* The percentile of one row is the row's.                                 *)
LEMMA PercentileOfOne ==
  ASSUME NEW hours, FromRollup(hours), NEW x \in DOMAIN hours, NEW pick \in {"p50", "p90"}
  PROVE  LET v == Percentile(hours, {x}, pick)
         IN  /\ (v = None) <=> (Weights(hours, {x}) = 0)
             /\ v # None => Halves(hours, {x}, pick, v)
<1>. DEFINE v == hours[x][pick]
            below == {i \in {x} : hours[i][pick] # None /\ hours[i][pick] < v}
            upTo == {i \in {x} : hours[i][pick] # None /\ hours[i][pick] <= v}
<1>1. Percentile(hours, {x}, pick) = v
  <2>1. Cardinality({x}) = 1 /\ (CHOOSE i \in {x} : TRUE) = x BY FS_Singleton
  <2> QED BY <2>1 DEF Percentile
<1>2. {x} \in SUBSET DOMAIN hours /\ {} \in SUBSET DOMAIN hours OBVIOUS
<1>3. /\ Weights(hours, {x}) \in Nat
      /\ Weights(hours, {x}) = 0 <=> Weight(hours[x]) = 0
      /\ Weights(hours, {}) = 0
  BY <1>2, WeightsAdd
<1>4. v \in {None} \cup Int /\ (v = None <=> Weight(hours[x]) = 0) BY DEF FromRollup
<1>5. ASSUME v # None PROVE Halves(hours, {x}, pick, v)
  <2>1. v \in Int BY <1>4, <1>5
  <2>2. below = {} /\ upTo = {x} BY <1>5, <2>1
  <2>3. Weights(hours, {x}) # 0 BY <1>3, <1>4, <1>5
  <2>4. Halves(hours, {x}, pick, v) <=>
          2 * Weights(hours, below) < Weights(hours, {x}) /\ 2 * Weights(hours, upTo) >= Weights(hours, {x})
    BY DEF Halves
  <2>. HIDE DEF below, upTo, v
  <2>5. Weights(hours, below) = 0 /\ Weights(hours, upTo) = Weights(hours, {x}) BY <1>3, <2>2
  <2> QED BY <1>3, <2>3, <2>4, <2>5
<1>. HIDE DEF v
<1> QED BY <1>1, <1>3, <1>4, <1>5

(* The weighted median of some rows' percentiles halves their weight.      *)
LEMMA MedianHalves ==
  ASSUME NEW hours, FromRollup(hours), NEW S \in SUBSET DOMAIN hours, NEW pick \in {"p50", "p90"}
  PROVE  LET v == weightedMedian(hours, S, pick)
         IN  /\ (v = None) <=> (Weights(hours, S) = 0)
             /\ v # None => Halves(hours, S, pick, v)
<1>. DEFINE vals == {i \in S : hours[i][pick] # None /\ Weight(hours[i]) > 0}
            w == [i \in DOMAIN hours |-> Weight(hours[i])]
            q == [i \in DOMAIN hours |-> hours[i][pick]]
            at == MedianAt(vals, w, q)
<1>1. \A T : Weights(hours, T) = SumFunctionOnSet(w, T) BY DEF Weights
<1>2. \A i \in S : /\ w[i] = Weight(hours[i]) /\ w[i] \in Nat /\ q[i] = hours[i][pick]
                   /\ q[i] \in {None} \cup Int /\ (q[i] = None <=> w[i] = 0)
  BY DEF FromRollup
<1>3. weightedMedian(hours, S, pick) = IF vals = {} THEN None ELSE hours[at][pick]
  <2>. DEFINE order == Sorted(vals, ByPick(hours, vals, pick))
              sorted == Sorted(vals, [i \in vals |-> {j \in vals : q[j] < q[i]}])
  <2>1. weightedMedian(hours, S, pick) =
          LET half == {n \in DOMAIN order :
                        2 * Weights(hours, {order[m] : m \in 1 .. n}) >= Weights(hours, vals)}
          IN  IF vals = {} THEN None ELSE hours[order[Min(half)]][pick]
    BY DEF weightedMedian
  <2>2. ByPick(hours, vals, pick) = [i \in vals |-> {j \in vals : q[j] < q[i]}] BY DEF ByPick
  <2>3. order = sorted BY <2>2
  <2>4. at = LET half == {n \in DOMAIN sorted : 2 * SumFunctionOnSet(w, {sorted[m] : m \in 1 .. n})
                                                >= SumFunctionOnSet(w, vals)}
             IN  sorted[Min(half)]
    BY DEF MedianAt
  <2>. HIDE DEF order, sorted, vals, w, q, at
  <2>5. \A n : Weights(hours, {order[m] : m \in 1 .. n}) = SumFunctionOnSet(w, {sorted[m] : m \in 1 .. n})
    BY <1>1, <2>3
  <2>6. {n \in DOMAIN order : 2 * Weights(hours, {order[m] : m \in 1 .. n}) >= Weights(hours, vals)}
        = {n \in DOMAIN sorted : 2 * SumFunctionOnSet(w, {sorted[m] : m \in 1 .. n})
                                  >= SumFunctionOnSet(w, vals)}
    BY <1>1, <2>3, <2>5
  <2> QED BY <2>1, <2>3, <2>4, <2>6
<1>4. vals \in SUBSET S /\ vals = {i \in S : q[i] # None}
  <2>1. \A i \in S : hours[i][pick] # None /\ Weight(hours[i]) > 0 <=> q[i] # None
    <3>. HIDE DEF q, w
    <3> QED BY <1>2
  <2> QED BY <2>1
<1>6. /\ Weights(hours, vals) = Weights(hours, S) /\ IsFiniteSet(vals) /\ Weights(hours, S) \in Nat
      /\ Weights(hours, S) = 0 <=> vals = {}
  <2>1. S \ vals \in SUBSET S /\ S \ vals \in SUBSET DOMAIN hours /\ S \ (S \ vals) = vals OBVIOUS
  <2>. HIDE DEF vals, q, w
  <2>2. \A i \in S \ vals : Weight(hours[i]) = 0 BY <1>2, <1>4
  <2>3. \A i \in vals : Weight(hours[i]) # 0 BY <1>2, <1>4
  <2>4. Weights(hours, S \ vals) = 0 BY <2>1, <2>2, WeightsAdd
  <2>5. Weights(hours, vals) = Weights(hours, S) BY <2>1, <2>4, WeightsAdd
  <2>6. Weights(hours, S) = 0 <=> \A i \in S : Weight(hours[i]) = 0 BY WeightsAdd
  <2>7. IsFiniteSet(S) /\ Weights(hours, S) \in Nat BY WeightsAdd
  <2>8. IsFiniteSet(vals) BY <1>4, <2>7, FS_Subset
  <2>9. Weights(hours, S) = 0 <=> vals = {} BY <1>4, <2>2, <2>3, <2>6
  <2> QED BY <2>5, <2>7, <2>8, <2>9
<1>7. ASSUME vals # {} PROVE hours[at][pick] \in Int /\ Halves(hours, S, pick, hours[at][pick])
  <2>. DEFINE below == {i \in vals : q[i] < q[at]}
              upTo == {i \in vals : q[i] <= q[at]}
  <2>1. \A i \in vals : w[i] \in Nat \ {0} /\ q[i] \in Int BY <1>2, <1>4
  <2>. HIDE DEF w, q, vals
  <2>2. /\ at \in vals
        /\ 2 * SumFunctionOnSet(w, below) < SumFunctionOnSet(w, vals)
        /\ 2 * SumFunctionOnSet(w, upTo) >= SumFunctionOnSet(w, vals)
    BY <1>6, <1>7, <2>1, HalfWay
  <2>. HIDE DEF at
  <2>3. q[at] = hours[at][pick] /\ q[at] \in Int BY <1>2, <1>4, <2>1, <2>2
  <2>4. below = {i \in S : hours[i][pick] # None /\ hours[i][pick] < q[at]} BY <1>2, <1>4
  <2>5. upTo = {i \in S : hours[i][pick] # None /\ hours[i][pick] <= q[at]} BY <1>2, <1>4
  <2>. HIDE DEF below, upTo
  <2>6. 2 * Weights(hours, below) < Weights(hours, S) /\ 2 * Weights(hours, upTo) >= Weights(hours, S)
    BY <1>1, <1>6, <2>2
  <2>7. Halves(hours, S, pick, q[at]) BY <2>4, <2>5, <2>6 DEF Halves
  <2> QED BY <2>3, <2>7
<1>8. None \notin Int BY Absent
<1>. HIDE DEF vals, at
<1> QED BY <1>3, <1>6, <1>7, <1>8

(* So do the percentiles of any rows.                                      *)
LEMMA PercentileHalves ==
  ASSUME NEW hours, FromRollup(hours), NEW S \in SUBSET DOMAIN hours, NEW pick \in {"p50", "p90"}
  PROVE  LET v == Percentile(hours, S, pick)
         IN  /\ (v = None) <=> (Weights(hours, S) = 0)
             /\ v # None => Halves(hours, S, pick, v)
<1>1. CASE Cardinality(S) = 1
  <2>1. IsFiniteSet(S) BY WeightsAdd
  <2>2. PICK x : S = {x} BY <1>1, <2>1, FS_Singleton
  <2> QED BY <2>2, PercentileOfOne
<1>2. CASE Cardinality(S) # 1
  <2>1. Percentile(hours, S, pick) = weightedMedian(hours, S, pick) BY <1>2 DEF Percentile
  <2> QED BY <2>1, MedianHalves
<1> QED BY <1>1, <1>2

(* The visits counted with a delay are what the rows weigh.                *)
LEMMA KnownIsWeight ==
  ASSUME NEW hours, FromRollup(hours), NEW S \in SUBSET DOMAIN hours
  PROVE  known([c \in Counters |-> Counted(hours, S, c)]) = Weights(hours, S)
<1>. DEFINE f(c) == [i \in DOMAIN hours |-> hours[i].count[c]]
            w == [i \in DOMAIN hours |-> Weight(hours[i])]
            eo == [i \in DOMAIN hours |-> f("early")[i] + f("on_time")[i]]
            eol == [i \in DOMAIN hours |-> eo[i] + f("late")[i]]
            N(c) == SumFunctionOnSet(f(c), S)
<1>1. IsFiniteSet(S) BY WeightsAdd
<1>2. \A c \in Counters : \A i \in S : f(c)[i] \in Int BY DEF FromRollup
<1>3. {"early", "on_time", "late", "very_late"} \subseteq Counters BY DEF Counters, Delays
<1>4. \A i \in S : eo[i] = f("early")[i] + f("on_time")[i] /\ eol[i] = eo[i] + f("late")[i]
  OBVIOUS
<1>5. \A i \in S : w[i] = eol[i] + f("very_late")[i] BY DEF Weight, known
<1>. HIDE DEF f, w, eo, eol
<1>6. \A i \in S : eo[i] \in Int /\ eol[i] \in Int BY <1>2, <1>3, <1>4
<1>7. SumFunctionOnSet(eo, S) = N("early") + N("on_time") BY <1>1, <1>2, <1>3, <1>4, SumPlus
<1>8. SumFunctionOnSet(eol, S) = SumFunctionOnSet(eo, S) + N("late")
  <2>1. \A i \in S : f("late")[i] \in Int BY <1>2, <1>3
  <2> QED BY <1>1, <1>4, <1>6, <2>1, SumPlus
<1>9. SumFunctionOnSet(w, S) = SumFunctionOnSet(eol, S) + N("very_late")
  <2>1. \A i \in S : f("very_late")[i] \in Int BY <1>2, <1>3
  <2> QED BY <1>1, <1>5, <1>6, <2>1, SumPlus
<1>10. SumFunctionOnSet(w, S) = N("early") + N("on_time") + N("late") + N("very_late")
  BY <1>7, <1>8, <1>9
<1>11. Weights(hours, S) = SumFunctionOnSet(w, S) BY DEF Weights, w
<1>12. \A c \in Counters : Counted(hours, S, c) = N(c) BY DEF Counted, f
<1>. HIDE DEF N
<1>13. known([c \in Counters |-> Counted(hours, S, c)]) = N("early") + N("on_time") + N("late") + N("very_late")
  BY <1>3, <1>12 DEF known
<1> QED BY <1>10, <1>11, <1>13

\* In tenths, between the means of two of the rows at S or half a tenth outside.
Between(hours, S, m) ==
  \E i, j \in {n \in S : hours[n].mean # None} :
    /\ 20 * hours[i].mean - Precision <= 2 * Precision * m
    /\ 2 * Precision * m <= 20 * hours[j].mean + Precision

(* The mean of rows, weighted and rounded, lies between theirs but for the *)
(* rounding.                                                               *)
LEMMA MeanBetween ==
  ASSUME NEW hours, FromRollup(hours), NEW S \in SUBSET DOMAIN hours, Weights(hours, S) # 0,
         NEW sum, sum = SumFunctionOnSet([i \in DOMAIN hours |-> IF hours[i].mean = None THEN 0
                                                                 ELSE hours[i].mean * Weight(hours[i])], S)
  PROVE  LET m == round1(sum, Precision * Weights(hours, S)) IN m \in Int /\ Between(hours, S, m)
<1>. DEFINE f == [i \in DOMAIN hours |-> IF hours[i].mean = None THEN 0 ELSE hours[i].mean * Weight(hours[i])]
            w == [i \in DOMAIN hours |-> Weight(hours[i])]
            with == {n \in S : hours[n].mean # None}
            means == {hours[n].mean : n \in with}
            lo == Min(means)
            hi == Max(means)
            W == SumFunctionOnSet(w, S)
<1>1. IsFiniteSet(S) /\ Weights(hours, S) \in Nat BY WeightsAdd
<1>2. Weights(hours, S) = W /\ sum = SumFunctionOnSet(f, S) BY DEF Weights
<1>3. \A i \in S : /\ w[i] \in Nat /\ hours[i].mean \in {None} \cup Int
                   /\ hours[i].mean = None <=> w[i] = 0
                   /\ f[i] = IF hours[i].mean = None THEN 0 ELSE hours[i].mean * w[i]
  <2>1. \A i \in DOMAIN hours : hours[i]["mean"] \in {None} \cup Int /\ Weight(hours[i]) \in Nat BY DEF FromRollup
  <2>2. \A i \in DOMAIN hours : hours[i]["mean"] = None <=> Weight(hours[i]) = 0 BY DEF FromRollup
  <2> QED BY <2>1, <2>2
<1>. HIDE DEF f, w
<1>4. \E i \in S : w[i] # 0 BY <1>1, <1>2, <1>3, SumCounts
<1>5. IsFiniteSet(means) /\ means \subseteq Int /\ means # {}
  <2>1. with \in SUBSET S /\ with # {} BY <1>3, <1>4
  <2>2. IsFiniteSet(with) BY <1>1, <2>1, FS_Subset
  <2>3. \A n \in with : hours[n].mean \in Int BY <1>3
  <2>. HIDE DEF with
  <2>. DEFINE col == [n \in with |-> hours[n].mean]
  <2>4. col \in Surjection(with, means) BY DEF Surjection
  <2>5. IsFiniteSet(means)
    <3>. HIDE DEF col, means
    <3> QED BY <2>2, <2>4, FS_Surjection
  <2> QED BY <2>1, <2>3, <2>5
<1>6. lo \in means /\ hi \in means /\ \A m \in means : lo <= m /\ m <= hi BY <1>5, LeastAndGreatest
<1>7. lo \in Int /\ hi \in Int BY <1>5, <1>6
<1>. HIDE DEF lo, hi
<1>8. \A i \in S : f[i] \in Int /\ w[i] \in Int /\ f[i] >= lo * w[i] /\ f[i] <= hi * w[i]
  <2>1. SUFFICES ASSUME NEW i \in S PROVE f[i] \in Int /\ w[i] \in Int /\ f[i] >= lo * w[i] /\ f[i] <= hi * w[i]
    OBVIOUS
  <2>2. CASE hours[i].mean = None
    <3>1. f[i] = 0 /\ w[i] = 0 BY <1>3, <2>2
    <3> QED BY <1>7, <3>1
  <2>3. CASE hours[i].mean # None
    <3>. DEFINE m == hours[i].mean
    <3>1. m \in means /\ m \in Int /\ w[i] \in Nat /\ f[i] = m * w[i] BY <1>3, <2>3
    <3>2. lo <= m /\ m <= hi BY <1>6, <3>1
    <3>. HIDE DEF m
    <3>3. \A a, b \in Int : \A c \in Nat : a <= b => a * c <= b * c OBVIOUS
    <3> QED BY <1>7, <3>1, <3>2, <3>3
  <2> QED BY <2>2, <2>3
<1>9. sum >= lo * W BY <1>1, <1>2, <1>7, <1>8, SumAtLeast
<1>10. sum <= hi * W BY <1>1, <1>2, <1>7, <1>8, SumAtMost
<1>11. sum \in Int BY <1>1, <1>2, <1>8, SumOf
<1>12. W \in Nat \ {0} BY <1>1, <1>2
<1>. HIDE DEF W
<1>. DEFINE r == round1(sum, Precision * W)
<1>13. r \in Int /\ 20 * lo - Precision <= 2 * Precision * r /\ 2 * Precision * r <= 20 * hi + Precision
  <2>1. lo * W <= sum /\ sum <= hi * W
    <3>1. lo * W \in Int /\ hi * W \in Int BY <1>7, <1>12
    <3>. DEFINE L == lo * W
                H == hi * W
    <3>2. L \in Int /\ H \in Int /\ sum >= L /\ sum <= H BY <1>9, <1>10, <3>1
    <3>. HIDE DEF L, H
    <3>3. L <= sum BY <1>11, <3>2
    <3> QED BY <3>2, <3>3 DEF L, H
  <2> QED BY <1>7, <1>11, <1>12, <2>1, RoundedMean
<1>. HIDE DEF r
<1>14. PICK i \in with : hours[i].mean = lo BY <1>6
<1>15. PICK j \in with : hours[j].mean = hi BY <1>6
<1>16. /\ 20 * hours[i].mean - Precision <= 2 * Precision * r
       /\ 2 * Precision * r <= 20 * hours[j].mean + Precision
  BY <1>13, <1>14, <1>15
<1>17. Between(hours, S, r) BY <1>16 DEF Between
<1> QED BY <1>2, <1>13, <1>17 DEF r

(* What combine makes of rows is what they come to.                        *)
LEMMA CombineRight ==
  ASSUME NEW hours, FromRollup(hours), NEW S \in SUBSET DOMAIN hours
  PROVE  ComeTo(hours, S, combine(hours, S))
<1>. DEFINE c == combine(hours, S)
            count == [k \in Counters |-> Counted(hours, S, k)]
            sum == SumFunctionOnSet([i \in DOMAIN hours |-> IF hours[i].mean = None THEN 0
                                                            ELSE hours[i].mean * Weight(hours[i])], S)
            n == known(count)
            W == Weights(hours, S)
<1>1. /\ c.count = count
      /\ c["p50"] = Percentile(hours, S, "p50") /\ c["p90"] = Percentile(hours, S, "p90")
      /\ c.mean = IF n = 0 THEN None ELSE round1(sum, Precision * n)
  BY DEF combine
<1>2. n = W BY KnownIsWeight
<1>3. W # 0 => /\ round1(sum, Precision * W) \in Int
               /\ Between(hours, S, round1(sum, Precision * W))
  BY MeanBetween
<1>4. None \notin Int BY Absent
<1>. HIDE DEF c, n, sum, W
<1>5. \A k \in Counters : c.count[k] = Counted(hours, S, k) BY <1>1
<1>6. ((c.mean = None) <=> (W = 0)) /\ (c.mean # None => Between(hours, S, c.mean))
  BY <1>1, <1>2, <1>3, <1>4
<1>7. ASSUME NEW pick \in {"p50", "p90"}
      PROVE  /\ (c[pick] = None) <=> (W = 0)
             /\ c[pick] # None => Halves(hours, S, pick, c[pick])
  <2>1. c[pick] = Percentile(hours, S, pick) BY <1>1
  <2> QED BY <2>1, PercentileHalves DEF W
<1>. USE DEF c
<1>. HIDE DEF c
<1>8. ComeTo(hours, S, c) BY <1>5, <1>6, <1>7 DEF ComeTo, W, Between
<1> QED BY <1>8 DEF c

(* A later row is of the same bucket or a later one.                       *)
LEMMA BucketsAscend ==
  ASSUME NEW hours, FromRollup(hours), NEW byDay \in BOOLEAN
  PROVE  \A i, j \in DOMAIN hours :
           /\ BucketOf(hours[i], byDay) \in Int
           /\ i <= j => BucketOf(hours[i], byDay) <= BucketOf(hours[j], byDay)
<1>1. DayLength \in Nat \ {0} BY LiveConstants
<1>2. \A a, b \in Int : /\ Midnight(a) \in Int
                        /\ a <= b => Midnight(a) <= Midnight(b)
  <2>1. \A d \in Nat \ {0} : \A a, b \in Int : a \div d \in Int /\ (a <= b => a \div d <= b \div d) OBVIOUS
  <2>2. \A d \in Nat \ {0} : \A a, b \in Int : a * d \in Int /\ (a <= b => a * d <= b * d) OBVIOUS
  <2> QED BY <1>1, <2>1, <2>2 DEF Midnight
<1>3. SUFFICES ASSUME NEW i \in DOMAIN hours, NEW j \in DOMAIN hours
               PROVE  /\ BucketOf(hours[i], byDay) \in Int
                      /\ i <= j => BucketOf(hours[i], byDay) <= BucketOf(hours[j], byDay)
  OBVIOUS
<1>4. hours[i].start \in Int /\ hours[j].start \in Int /\ (i <= j => hours[i].start <= hours[j].start)
  BY DEF FromRollup
<1> QED BY <1>2, <1>4 DEF BucketOf

\* The groups are the rows of each bucket, in order.
Grouped(hours, in, byDay) ==
  LET groups == groupRows(hours, in, byDay)
      B(i) == BucketOf(hours[i], byDay)
  IN  /\ DOMAIN groups \subseteq in
      /\ \A i \in DOMAIN groups : groups[i] = {j \in in : B(j) = B(i)}
      /\ \A i, j \in DOMAIN groups : i < j => B(i) < B(j)
      /\ \A j \in in : \E i \in DOMAIN groups : B(i) = B(j)

(* Rows that come in order are grouped by their buckets.                   *)
LEMMA GroupsRight ==
  ASSUME NEW hours, FromRollup(hours), NEW in \in SUBSET DOMAIN hours, NEW byDay \in BOOLEAN
  PROVE  Grouped(hours, in, byDay)
<1>. DEFINE B(i) == BucketOf(hours[i], byDay)
            Earlier(i) == {j \in in : j < i}
            opens == {i \in in : Earlier(i) = {} \/ B(Max(Earlier(i))) # B(i)}
            Opened(j) == {h \in opens : h <= j}
            groups == groupRows(hours, in, byDay)
<1>1. groups = [i \in opens |-> {j \in in : Max(Opened(j)) = i}] BY DEF groupRows
<1>2. IsFiniteSet(in) /\ in \subseteq Nat BY FS_Subset DEF FromRollup
<1>3. \A i, j \in in : B(i) \in Int /\ (i <= j => B(i) <= B(j)) BY BucketsAscend
<1>. HIDE DEF B
<1>4. ASSUME NEW i \in in, Earlier(i) # {}
      PROVE  Max(Earlier(i)) \in in /\ Max(Earlier(i)) < i /\ \A j \in in : j < i => j <= Max(Earlier(i))
  <2>1. Earlier(i) \in SUBSET in /\ Earlier(i) \subseteq Int BY <1>2
  <2>2. IsFiniteSet(Earlier(i)) BY <1>2, <2>1, FS_Subset
  <2>. DEFINE E == Earlier(i)
  <2>3. IsFiniteSet(E) /\ E \subseteq Int /\ E # {} BY <1>4, <2>1, <2>2
  <2>4. E \subseteq in /\ \A j : j \in E <=> j \in in /\ j < i OBVIOUS
  <2>. HIDE DEF E
  <2>5. Max(E) \in E /\ \A j \in E : j <= Max(E) BY <2>3, LeastAndGreatest
  <2>6. Max(E) \in in /\ Max(E) < i /\ \A j \in in : j < i => j <= Max(E) BY <2>4, <2>5
  <2> QED BY <2>6 DEF E
<1>5. opens \subseteq in /\ \A i \in in : i \in opens <=> Earlier(i) = {} \/ B(Max(Earlier(i))) # B(i) OBVIOUS
<1>6. \A i \in in : Earlier(i) = {} <=> \A j \in in : ~(j < i) OBVIOUS
<1>. HIDE DEF Earlier, opens
<1>7. ASSUME NEW i \in opens, NEW j \in in, j < i PROVE B(j) < B(i)
  <2>. DEFINE k == Max(Earlier(i))
  <2>1. i \in in /\ Earlier(i) # {} BY <1>5, <1>6, <1>7
  <2>2. k \in in /\ k < i /\ j <= k BY <1>4, <1>7, <2>1
  <2>3. B(k) # B(i) BY <1>5, <2>1
  <2>. HIDE DEF k
  <2>4. k <= i BY <1>2, <2>1, <2>2
  <2>5. B(j) <= B(k) /\ B(k) <= B(i) /\ B(j) \in Int /\ B(k) \in Int /\ B(i) \in Int BY <1>3, <2>1, <2>2, <2>4
  <2> QED BY <2>3, <2>5
<1>8. ASSUME NEW j \in in
      PROVE  /\ Max(Opened(j)) \in opens /\ Max(Opened(j)) <= j /\ B(Max(Opened(j))) = B(j)
             /\ \A h \in opens : h <= j => h <= Max(Opened(j))
  <2>. DEFINE same == {i \in in : B(i) = B(j)}
              m == Min(same)
              O == Opened(j)
  <2>1. same \in SUBSET in /\ j \in same BY <1>8
  <2>2. IsFiniteSet(same) /\ same \subseteq Int /\ same # {}
    <3>1. IsFiniteSet(same) BY <1>2, <2>1, FS_Subset
    <3> QED BY <1>2, <2>1, <3>1
  <2>3. m \in same /\ \A i \in same : m <= i
    <3>. HIDE DEF same
    <3> QED BY <2>2, LeastAndGreatest
  <2>. HIDE DEF m
  <2>4. m \in in /\ B(m) = B(j) /\ m <= j BY <2>1, <2>3
  <2>5. m \in opens
    <3>1. SUFFICES ASSUME m \notin opens PROVE FALSE OBVIOUS
    <3>. DEFINE k == Max(Earlier(m))
    <3>2. Earlier(m) # {} /\ B(k) = B(m) BY <1>5, <2>4, <3>1
    <3>3. k \in in /\ k < m BY <1>4, <2>4, <3>2
    <3>. HIDE DEF k
    <3>4. k \in same BY <2>4, <3>2, <3>3
    <3>5. m <= k BY <2>3, <3>4
    <3> QED BY <1>2, <2>4, <3>3, <3>5
  <2>6. m \in O /\ O \in SUBSET in /\ \A h : h \in O <=> h \in opens /\ h <= j BY <1>5, <2>4, <2>5
  <2>. HIDE DEF O
  <2>7. IsFiniteSet(O) BY <1>2, <2>6, FS_Subset
  <2>8. O \subseteq Int /\ O # {} BY <1>2, <2>6
  <2>9. Max(O) \in O /\ \A h \in O : h <= Max(O) BY <2>7, <2>8, LeastAndGreatest
  <2>10. m <= Max(O) /\ Max(O) \in in /\ Max(O) \in opens /\ Max(O) <= j BY <2>6, <2>9
  <2>11. B(m) <= B(Max(O)) /\ B(Max(O)) <= B(j) /\ B(j) \in Int /\ B(Max(O)) \in Int BY <1>3, <2>4, <2>10
  <2>12. B(Max(O)) = B(j) BY <2>4, <2>11
  <2>13. \A h \in opens : h <= j => h <= Max(O) BY <2>6, <2>9
  <2> QED BY <2>10, <2>12, <2>13 DEF O
<1>9. \A i, j \in opens : i < j => B(i) < B(j) BY <1>5, <1>7
<1>. DEFINE LastOpened(j) == Max(Opened(j))
<1>10. \A j \in in : LastOpened(j) \in opens /\ B(LastOpened(j)) = B(j) BY <1>8
<1>. HIDE DEF LastOpened
<1>11. ASSUME NEW i \in opens, NEW j \in in PROVE LastOpened(j) = i <=> B(j) = B(i)
  <2>1. LastOpened(j) = i => B(j) = B(i) BY <1>10
  <2>2. ASSUME B(j) = B(i), LastOpened(j) # i PROVE FALSE
    <3>. DEFINE l == LastOpened(j)
    <3>1. l \in opens /\ B(l) = B(i) /\ l # i BY <1>10, <2>2
    <3>. HIDE DEF l
    <3>2. l \in Int /\ i \in Int /\ l \in in /\ i \in in BY <1>2, <1>5, <3>1
    <3>3. l < i \/ i < l BY <3>1, <3>2
    <3>4. B(l) < B(i) \/ B(i) < B(l) BY <1>9, <3>1, <3>3
    <3>5. B(i) \in Int BY <1>3, <3>2
    <3> QED BY <3>1, <3>4, <3>5
  <2> QED BY <2>1, <2>2
<1>12. DOMAIN groups = opens /\ \A i \in opens : groups[i] = {j \in in : LastOpened(j) = i} BY <1>1 DEF LastOpened
<1>. HIDE DEF groups
<1>13. \A i \in opens : groups[i] = {j \in in : B(j) = B(i)} BY <1>11, <1>12
<1>14. \A j \in in : \E i \in opens : B(i) = B(j) BY <1>10
<1>15. Grouped(hours, in, byDay)
       <=> /\ DOMAIN groups \subseteq in
           /\ \A i \in DOMAIN groups : groups[i] = {j \in in : B(j) = B(i)}
           /\ \A i, j \in DOMAIN groups : i < j => B(i) < B(j)
           /\ \A j \in in : \E i \in DOMAIN groups : B(i) = B(j)
  BY DEF Grouped, groups, B
<1> QED BY <1>5, <1>9, <1>12, <1>13, <1>14, <1>15

\* What HistoryAddsUp says of an answer made of the rows of hours at in.
AddsUp(hours, in, byDay, history) ==
  LET b == history.buckets
      Of(start) == {i \in in : BucketOf(hours[i], byDay) = start}
  IN  /\ \A i, j \in DOMAIN b : i < j => b[i].start < b[j].start
      /\ \A i \in in : \E j \in DOMAIN b : b[j].start = BucketOf(hours[i], byDay)
      /\ \A i \in DOMAIN b : ComeTo(hours, Of(b[i].start), b[i].sums)
      /\ ComeTo(hours, in, history.totals)
      /\ \A k \in Counters :
           history.totals.count[k] = SumFunction([i \in DOMAIN b |-> b[i].sums.count[k]])

(* What the handler makes of rows adds up.                                 *)
LEMMA HistoryRight ==
  ASSUME NEW hours, FromRollup(hours), NEW in \in SUBSET DOMAIN hours, NEW byDay \in BOOLEAN
  PROVE  AddsUp(hours, in, byDay, HistoryOf(hours, in, byDay))
<1>. DEFINE B(i) == BucketOf(hours[i], byDay)
            Class(i) == {j \in in : B(j) = B(i)}
            groups == groupRows(hours, in, byDay)
            G == DOMAIN groups
            history == HistoryOf(hours, in, byDay)
            b == history.buckets
            Of(start) == {i \in in : B(i) = start}
<1>1. /\ G \subseteq in
      /\ \A i \in G : groups[i] = Class(i)
      /\ \A i, j \in G : i < j => B(i) < B(j)
      /\ \A j \in in : \E i \in G : B(i) = B(j)
  <2>1. Grouped(hours, in, byDay) BY GroupsRight
  <2> QED BY ONLY <2>1 DEF Grouped
<1>2. /\ DOMAIN b = G
      /\ \A i \in G : b[i].start = B(i) /\ b[i].sums = combine(hours, groups[i])
      /\ history.totals = combine(hours, in)
  BY DEF HistoryOf
<1>. HIDE DEF groups, history
<1>3. \A i, j \in DOMAIN b : i < j => b[i].start < b[j].start BY <1>1, <1>2
<1>4. \A i \in in : \E j \in DOMAIN b : b[j].start = B(i) BY <1>1, <1>2
<1>5. \A i \in G : Of(b[i].start) = Class(i) BY <1>2
<1>6. \A i \in G : ComeTo(hours, Class(i), b[i].sums)
  <2>1. \A i \in G : Class(i) \in SUBSET DOMAIN hours OBVIOUS
  <2>2. \A i \in G : b[i].sums = combine(hours, Class(i)) BY <1>1, <1>2
  <2>. HIDE DEF Class
  <2> QED BY <2>1, <2>2, CombineRight
<1>7. \A i \in DOMAIN b : ComeTo(hours, Of(b[i].start), b[i].sums)
  <2>. HIDE DEF Of, Class
  <2> QED BY <1>2, <1>5, <1>6
<1>8. ComeTo(hours, in, history.totals) BY <1>2, CombineRight
<1>9. ASSUME NEW k \in Counters
      PROVE  history.totals.count[k] = SumFunction([i \in DOMAIN b |-> b[i].sums.count[k]])
  <2>. DEFINE f == [i \in DOMAIN hours |-> hours[i].count[k]]
              classes == [i \in G |-> Class(i)]
              counts == [i \in DOMAIN b |-> b[i].sums.count[k]]
  <2>1. \A T : Counted(hours, T, k) = SumFunctionOnSet(f, T) BY DEF Counted
  <2>2. \A x \in in : f[x] \in Int BY DEF FromRollup
  <2>. HIDE DEF f
  <2>3. history.totals.count[k] = SumFunctionOnSet(f, in) BY <1>8, <2>1 DEF ComeTo
  <2>4. \A i \in G : counts[i] = SumFunctionOnSet(f, classes[i])
    <3>1. \A i \in G : b[i].sums.count[k] = Counted(hours, Class(i), k) BY <1>6 DEF ComeTo
    <3>2. \A i \in G : counts[i] = b[i].sums.count[k] /\ classes[i] = Class(i) BY <1>2
    <3>. HIDE DEF counts, classes, Class
    <3> QED BY <2>1, <3>1, <3>2
  <2>5. DOMAIN counts = G BY <1>2
  <2>. HIDE DEF counts
  <2>6. \A i \in G : classes[i] \in SUBSET in OBVIOUS
  <2>7. \A i, j \in G : i # j => classes[i] \cap classes[j] = {}
    <3>1. \A i \in in : B(i) \in Int /\ i \in Nat BY BucketsAscend DEF FromRollup
    <3>2. SUFFICES ASSUME NEW i \in G, NEW j \in G, i # j PROVE B(i) # B(j) OBVIOUS
    <3>3. i \in in /\ j \in in BY <1>1
    <3>4. i \in Nat /\ j \in Nat /\ B(i) \in Int /\ B(j) \in Int BY <3>1, <3>3
    <3>5. i < j \/ j < i BY <3>2, <3>4
    <3>6. B(i) < B(j) \/ B(j) < B(i) BY <1>1, <3>5
    <3>. HIDE DEF B
    <3> QED BY <3>4, <3>6
  <2>8. \A x \in in : \E i \in G : x \in classes[i] BY <1>1
  <2>9. IsFiniteSet(in) /\ IsFiniteSet(G)
    <3>1. IsFiniteSet(in) BY FS_Subset DEF FromRollup
    <3>2. G \in SUBSET in BY <1>1
    <3> QED BY <3>1, <3>2, FS_Subset
  <2>. HIDE DEF classes, G
  <2>10. SumFunctionOnSet(counts, G) = SumFunctionOnSet(f, in)
    BY <2>2, <2>4, <2>6, <2>7, <2>8, <2>9, SumOfClasses
  <2>11. SumFunction(counts) = SumFunctionOnSet(counts, G) BY <2>5 DEF SumFunction
  <2> QED BY <2>3, <2>10, <2>11 DEF counts
<1>. HIDE DEF b
<1>10. AddsUp(hours, in, byDay, history) BY <1>3, <1>4, <1>7, <1>8, <1>9 DEF AddsUp, b
<1> QED BY <1>10 DEF history

\* A history's answer is what the handler makes of the rows in its range.
HistoryAnswered ==
  stage = "history" =>
    /\ request.rows \in Hourly /\ request.range \in Ranges /\ request.byDay \in BOOLEAN
    /\ answer = HistoryOf(request.rows, Selected(request.rows, request.range), request.byDay)

(* A step leads to a history's answer, or leaves one as it is.             *)
LEMMA HistoryStep == HistoryAnswered /\ [Next]_vars => HistoryAnswered'
<1>1. SUFFICES ASSUME HistoryAnswered, [Next]_vars PROVE HistoryAnswered' OBVIOUS
<1>2. CASE AskHistory
  <2>1. SUFFICES ASSUME stage' = "history"
                 PROVE  /\ request'.rows \in Hourly /\ request'.range \in Ranges /\ request'.byDay \in BOOLEAN
                        /\ answer' = HistoryOf(request'.rows, Selected(request'.rows, request'.range),
                                               request'.byDay)
    BY DEF HistoryAnswered, HistoryOf, Selected
  <2>2. PICK hours \in Hourly, range \in Ranges, byDay \in BOOLEAN :
          /\ request' = [kind |-> "history", rows |-> hours, range |-> range, byDay |-> byDay]
          /\ answer' = HistoryOf(hours, Selected(hours, range), byDay)
    BY <1>2, <2>1 DEF AskHistory
  <2>3. request'.rows = hours /\ request'.range = range /\ request'.byDay = byDay BY <2>2
  <2> QED BY <2>2, <2>3
<1>3. CASE UNCHANGED <<stage, request, answer>> BY <1>1, <1>3 DEF HistoryAnswered
<1>4. CASE stage' # "history" BY <1>4 DEF HistoryAnswered
<1>5. CASE UNCHANGED vars BY <1>3, <1>5 DEF vars, serving
<1>6. CASE Next /\ ~AskHistory
  <2>1. stage' # "history" \/ UNCHANGED <<stage, request, answer>>
    BY <1>6 DEF Next, Poll, Swap, Ask, Copy, Read, Answer, Done, Tick, Overtakes, serving
  <2> QED BY <1>3, <1>4, <2>1
<1> QED BY <1>1, <1>2, <1>5, <1>6

(* Histories add up.                                                       *)
LEMMA AnsweredAddsUp == HistoryAnswered => HistoryAddsUp
<1>1. SUFFICES ASSUME HistoryAnswered, stage = "history" PROVE HistoryAddsUp BY DEF HistoryAddsUp
<1>. DEFINE hours == request.rows
            range == request.range
            in == {i \in DOMAIN hours : hours[i].start \in range[1] .. range[2] - 1}
<1>2. hours \in Hourly /\ range \in Ranges /\ request.byDay \in BOOLEAN
      /\ answer = HistoryOf(hours, Selected(hours, range), request.byDay)
  BY <1>1 DEF HistoryAnswered
<1>3. FromRollup(hours) BY <1>2, HoursFit
<1>4. Selected(hours, range) = in
  <2>1. range[1] \in Int /\ range[2] \in Int BY <1>2, Rollups
  <2>2. \A i \in DOMAIN hours : hours[i].start \in Int BY <1>3 DEF FromRollup
  <2>. HIDE DEF hours, range
  <2>3. \A i \in DOMAIN hours : range[1] <= hours[i].start /\ hours[i].start < range[2]
                                <=> hours[i].start \in range[1] .. range[2] - 1
    BY <2>1, <2>2
  <2> QED BY <2>3 DEF Selected
<1>5. in \in SUBSET DOMAIN hours OBVIOUS
<1>6. AddsUp(hours, in, request.byDay, answer)
  <2>. HIDE DEF in, hours, range
  <2> QED BY <1>2, <1>3, <1>4, <1>5, HistoryRight
<1> QED BY <1>6 DEF HistoryAddsUp, AddsUp

(* Whatever rows the rollup holds, one to an hour or many, and whatever the*)
(* range, the buckets of a history are those of its rows, in order, they   *)
(* add up to its totals, its percentiles halve the visits' weight, and its *)
(* means lie among the rows', to half a tenth (handlers_history.go:189-292)*)
THEOREM HistoriesAddUp == Spec => []HistoryAddsUp
<1>1. Init => HistoryAnswered BY DEF Init, HistoryAnswered
<1> QED BY <1>1, HistoryStep, AnsweredAddsUp, PTL DEF Spec
=============================================================================
