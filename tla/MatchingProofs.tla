--------------------------- MODULE MatchingProofs ---------------------------
(***************************************************************************)
(* Service dates, for every time zone whose clock changes by less than a   *)
(* third of half a day, every overlap and every tolerance; and one poll's  *)
(* matching, for every message and timetable the types allow.              *)
(***************************************************************************)
EXTENDS Matching, FiniteSetTheorems, WellFoundedInduction, TLAPS

(* A set of naturals has a least element (needed for LocalDate).           *)
LEMMA LeastNatural ==
  ASSUME NEW S, S \subseteq Nat, S # {}
  PROVE  \E n \in S : \A m \in S : n <= m
<1>. DEFINE Below(n) == 0 .. n
            Segments == {Below(n) : n \in S}
<1>1. IsWellFoundedOn(StrictSubsetOrdering(Nat), FiniteSubsetsOf(Nat))
  BY FS_StrictSubsetOrderingWellFounded
<1>2. \A n \in Nat : Below(n) \in FiniteSubsetsOf(Nat)
  <2>1. \A n \in Nat : IsFiniteSet(Below(n)) BY FS_Interval
  <2> QED BY <2>1 DEF FiniteSubsetsOf
<1>3. Segments \subseteq FiniteSubsetsOf(Nat) /\ Segments # {}
  <2>1. \A n \in S : Below(n) \in FiniteSubsetsOf(Nat) BY <1>2
  <2>2. PICK n \in S : TRUE OBVIOUS
  <2>3. Below(n) \in Segments BY <2>2
  <2> HIDE DEF Below
  <2> QED BY <2>1, <2>3
<1>4. PICK A \in Segments : \A B \in Segments : ~(<<B, A>> \in StrictSubsetOrdering(Nat))
  BY <1>1, <1>3, WFMin
<1>5. PICK n \in S : A = Below(n) BY <1>4
<1>6. \A m \in S : n <= m
  <2>1. SUFFICES ASSUME NEW m \in S, m < n PROVE FALSE OBVIOUS
  <2>2. m \in Nat /\ n \in Nat OBVIOUS
  <2>3. Below(m) \subseteq Below(n) /\ n \in Below(n) /\ n \notin Below(m) BY <2>1, <2>2
  <2>4. Below(m) \in SUBSET Nat /\ Below(n) \in SUBSET Nat BY <2>2
  <2>5. <<Below(m), Below(n)>> \in StrictSubsetOrdering(Nat)
    BY <2>3, <2>4 DEF StrictSubsetOrdering
  <2> QED BY <1>4, <1>5, <2>5
<1> QED BY <1>6

-----------------------------------------------------------------------------
(* Days.                                                                   *)

LEMMA Starts ==
  /\ \A d \in Day : /\ d \in Int /\ Midnight(d) \in Int /\ ServiceDayStart(d) \in Int
                    /\ ServiceDayStart(d) - Midnight(d) <= Hour
                    /\ Midnight(d) - ServiceDayStart(d) <= Hour
  /\ \A d \in Day \ {LastDay + 2} : ServiceDayStart(d + 1) - ServiceDayStart(d) >= 2 * HalfDay - Hour
BY Zone DEF Day, ServiceDayStart

(* Midnights are in order too, and more than two clock changes apart.      *)
LEMMA MidnightsApart ==
  \A d \in Day \ {LastDay + 2} : Midnight(d + 1) - Midnight(d) > 2 * Hour
<1>1. SUFFICES ASSUME NEW d \in Day \ {LastDay + 2} PROVE Midnight(d + 1) - Midnight(d) > 2 * Hour
  OBVIOUS
<1>2. d \in Day /\ d + 1 \in Day BY Zone DEF Day
<1>3. ServiceDayStart(d + 1) - ServiceDayStart(d) >= 2 * HalfDay - Hour BY Starts
<1>4. /\ Midnight(d) - ServiceDayStart(d) <= Hour
      /\ ServiceDayStart(d + 1) - Midnight(d + 1) <= Hour
      /\ Midnight(d) \in Int /\ Midnight(d + 1) \in Int
      /\ ServiceDayStart(d) \in Int /\ ServiceDayStart(d + 1) \in Int
  BY <1>2, Starts
<1> QED BY <1>3, <1>4, Zone

(* Every instant looked at is on a calendar day.                           *)
LEMMA LocalDates ==
  \A t \in Instant : /\ LocalDate(t) \in FirstDay .. LastDay
                     /\ Midnight(LocalDate(t)) <= t /\ t < Midnight(LocalDate(t) + 1)
<1>1. SUFFICES ASSUME NEW t \in Instant
               PROVE \E d \in FirstDay .. LastDay : Midnight(d) <= t /\ t < Midnight(d + 1)
  BY DEF LocalDate
<1>. DEFINE After == {n \in Nat : FirstDay + n <= LastDay + 1 /\ t < Midnight(FirstDay + n)}
<1>2. FirstDay \in Day /\ LastDay + 1 \in Day BY Zone DEF Day
<1>3. t \in Int /\ Midnight(FirstDay) <= t /\ t < Midnight(LastDay + 1)
  BY Starts, <1>2 DEF Instant
<1>4. (LastDay + 1) - FirstDay \in After
  <2>1. FirstDay + ((LastDay + 1) - FirstDay) = LastDay + 1 BY Zone
  <2> QED BY <1>3, <2>1, Zone
<1>5. PICK n \in After : \A m \in After : n <= m BY <1>4, LeastNatural
<1>6. n # 0
  <2>1. SUFFICES ASSUME n = 0 PROVE FALSE OBVIOUS
  <2>2. FirstDay + n = FirstDay BY <2>1, Zone
  <2>3. Midnight(FirstDay) \in Int BY Starts, <1>2
  <2> QED BY <1>3, <1>5, <2>2, <2>3
<1>7. n - 1 \notin After /\ n - 1 \in Nat BY <1>5, <1>6
<1>8. FirstDay + (n - 1) \in FirstDay .. LastDay BY <1>5, <1>7, Zone
<1>9. Midnight(FirstDay + (n - 1)) \in Int BY <1>8, Zone DEF Day
<1>10. Midnight(FirstDay + (n - 1)) <= t BY <1>3, <1>7, <1>8, <1>9, Zone
<1>11. (FirstDay + (n - 1)) + 1 = FirstDay + n BY <1>5, Zone
<1> QED BY <1>5, <1>8, <1>10, <1>11

-----------------------------------------------------------------------------
(* Owners and candidates.                                                  *)

(* The owner is one of the three days the loop looks at, it has begun and  *)
(* the next has not.                                                       *)
LEMMA Owners ==
  ASSUME NEW t \in Instant
  PROVE  /\ Owner(t) \in FirstDay - 1 .. LastDay + 1
         /\ ServiceDayStart(Owner(t)) <= t /\ t < ServiceDayStart(Owner(t) + 1)
<1>. DEFINE today == LocalDate(t)
            near == today - 1 .. today + 1
            begun == {d \in near : ServiceDayStart(d) <= t}
<1>1. /\ today \in FirstDay .. LastDay /\ today \in Int
      /\ Midnight(today) <= t /\ t < Midnight(today + 1)
  BY LocalDates, Zone
<1>. HIDE DEF today
<1>2. today - 1 \in Day /\ today \in Day /\ today + 1 \in Day /\ today + 2 \in Day
  BY <1>1, Zone DEF Day
<1>3. t \in Int BY Starts, <1>1, Zone DEF Instant, Day
<1>4. ServiceDayStart(today - 1) <= t
  <2>1. Midnight(today) - Midnight(today - 1) > 2 * Hour
    <3>1. (today - 1) \in Day \ {LastDay + 2} /\ (today - 1) + 1 = today BY <1>1, <1>2, Zone
    <3> QED BY <3>1, MidnightsApart
  <2>2. ServiceDayStart(today - 1) - Midnight(today - 1) <= Hour BY <1>2, Starts
  <2>3. Midnight(today) \in Int /\ Midnight(today - 1) \in Int /\ ServiceDayStart(today - 1) \in Int
    BY <1>2, Starts
  <2> QED BY <1>1, <1>3, <2>1, <2>2, <2>3, Zone
<1>5. t < ServiceDayStart(today + 2)
  <2>1. Midnight(today + 2) - Midnight(today + 1) > 2 * Hour
    <3>1. (today + 1) \in Day \ {LastDay + 2} /\ (today + 1) + 1 = today + 2 BY <1>1, <1>2, Zone
    <3> QED BY <3>1, MidnightsApart
  <2>2. Midnight(today + 2) - ServiceDayStart(today + 2) <= Hour BY <1>2, Starts
  <2>3. Midnight(today + 2) \in Int /\ Midnight(today + 1) \in Int /\ ServiceDayStart(today + 2) \in Int
    BY <1>2, Starts
  <2> QED BY <1>1, <1>3, <2>1, <2>2, <2>3, Zone
<1>6. \E d \in begun : \A e \in begun : e <= d
  <2>1. CASE ServiceDayStart(today + 1) <= t
    <3>1. today + 1 \in begun BY <1>1, <2>1
    <3> QED BY <1>1, <3>1
  <2>2. CASE ~(ServiceDayStart(today + 1) <= t) /\ ServiceDayStart(today) <= t
    <3>1. today \in begun BY <1>1, <2>2
    <3>2. \A e \in begun : e <= today BY <1>1, <2>2
    <3> QED BY <3>1, <3>2
  <2>3. CASE ~(ServiceDayStart(today + 1) <= t) /\ ~(ServiceDayStart(today) <= t)
    <3>1. today - 1 \in begun BY <1>1, <1>4
    <3>2. \A e \in begun : e <= today - 1 BY <1>1, <2>3
    <3> QED BY <3>1, <3>2
  <2> QED BY <2>1, <2>2, <2>3
<1>7. Owner(t) \in begun /\ \A e \in begun : e <= Owner(t)
  BY <1>6 DEF Owner, Newest, today
<1>8. t < ServiceDayStart(Owner(t) + 1)
  <2>1. CASE Owner(t) = today + 1
    <3>1. Owner(t) + 1 = today + 2 BY <1>1, <2>1
    <3> QED BY <1>5, <3>1
  <2>2. CASE Owner(t) \in today - 1 .. today
    <3>1. Owner(t) + 1 \in near /\ Owner(t) + 1 > Owner(t) BY <1>1, <2>2
    <3>2. Owner(t) + 1 \notin begun BY <1>7, <1>1, <3>1
    <3>3. ServiceDayStart(Owner(t) + 1) \in Int BY <1>1, <1>2, <2>2, Zone, Starts DEF Day
    <3> QED BY <1>3, <3>1, <3>2, <3>3
  <2> QED BY <1>1, <1>7, <2>1, <2>2
<1> QED BY <1>1, <1>7, <1>8, Zone

(* The candidates of an instant are the service day that began last and    *)
(* the one before while it is young (servicetime.go:74-82).                *)
THEOREM LatestOwner == OwnersBeganLast
<1>1. SUFFICES ASSUME NEW t \in Instant
               PROVE  /\ ServiceDayStart(Owner(t)) <= t /\ t < ServiceDayStart(Owner(t) + 1)
                      /\ CandidateServiceDates(t) \subseteq {Owner(t), Owner(t) - 1}
                      /\ Owner(t) - 1 \in CandidateServiceDates(t)
                           <=> t < ServiceDayStart(Owner(t)) + Overlap
  BY DEF OwnersBeganLast
<1>2. /\ Owner(t) \in FirstDay - 1 .. LastDay + 1
      /\ ServiceDayStart(Owner(t)) <= t /\ t < ServiceDayStart(Owner(t) + 1)
  BY Owners
<1>3. Owner(t) \in Int /\ Owner(t) - 1 # Owner(t) BY <1>2, Zone
<1>4. t \in Int BY Zone DEF Instant, Day
<1>5. ServiceDayStart(Owner(t)) \in Int BY <1>2, Starts, Zone DEF Day
<1>6. t - ServiceDayStart(Owner(t)) < Overlap <=> t < ServiceDayStart(Owner(t)) + Overlap
  BY <1>4, <1>5, Settings
<1> QED BY <1>2, <1>3, <1>6 DEF CandidateServiceDates

(* Of two candidates a day apart at most one is within the tolerance, so   *)
(* the date an update is about is the one picked (matcher.go:278-284).     *)
THEOREM LastNight == LastNightTold
<1>1. SUFFICES ASSUME 2 * DateTolerance < 2 * HalfDay - Hour,
                      NEW t \in Instant, NEW service \in Services, NEW s \in Offsets,
                      NEW d \in CandidateServiceDates(t),
                      NEW delay \in -DateTolerance .. DateTolerance,
                      RunsOn(service, d)
               PROVE PickDate(service, CandidateServiceDates(t), <<s, s>>,
                              AtServiceOffset(d, s) + delay) = d
  BY DEF LastNightTold
<1>. DEFINE cands == CandidateServiceDates(t)
            ref == AtServiceOffset(d, s) + delay
            running == {e \in cands : RunsOn(service, e)}
            near == {e \in running : <<s, s>> = <<>> \/ Near(e, <<s, s>>[1], <<s, s>>[2], ref)}
            o == Owner(t)
<1>2. o \in Int /\ o - 1 \in Int /\ o \in Day /\ (o - 1) \in Day \ {LastDay + 2} /\ cands \subseteq {o, o - 1}
  BY Owners, LatestOwner, Zone DEF OwnersBeganLast, Day
<1>3. \A e \in cands : e \in Int /\ ServiceDayStart(e) \in Int
  BY <1>2, Starts
<1>4. ServiceDayStart(o) - ServiceDayStart(o - 1) >= 2 * HalfDay - Hour
  <2>1. (o - 1) + 1 = o BY <1>2
  <2> QED BY <1>2, <2>1, Starts
<1>5. s \in Int /\ delay \in Int /\ DateTolerance \in Int /\ HalfDay \in Int /\ Hour \in Int
  BY Settings, Zone
<1>6. Near(d, s, s, ref)
  BY <1>3, <1>5 DEF Near, AtServiceOffset
<1>7. \A e \in cands : e # d => ~Near(e, s, s, ref)
  <2>1. ASSUME NEW e \in cands, e # d, Near(e, s, s, ref) PROVE FALSE
    <3>1. /\ ServiceDayStart(d) + s + delay >= ServiceDayStart(e) + s - DateTolerance
          /\ ServiceDayStart(d) + s + delay <= ServiceDayStart(e) + s + DateTolerance
      BY <1>1, <1>3, <1>5, <2>1 DEF Near, AtServiceOffset
    <3>2. ServiceDayStart(d) - ServiceDayStart(e) <= 2 * DateTolerance
      BY <1>3, <1>5, <3>1
    <3>3. ServiceDayStart(e) - ServiceDayStart(d) <= 2 * DateTolerance
      BY <1>3, <1>5, <3>1
    <3>4. (d = o /\ e = o - 1) \/ (d = o - 1 /\ e = o)
      <4>1. d \in cands /\ e \in cands BY <1>1, <2>1
      <4>2. d \in {o, o - 1} /\ e \in {o, o - 1} BY <1>2, <4>1
      <4> QED BY <2>1, <4>2
    <3> QED BY <1>1, <1>2, <1>3, <1>4, <1>5, <3>2, <3>3, <3>4
  <2> QED BY <2>1
<1>8. near = {d}
  BY <1>1, <1>6, <1>7
<1>9. Newest({d}) = d
  BY <1>3 DEF Newest
<1> QED BY <1>8, <1>9 DEF PickDate

-----------------------------------------------------------------------------
(* As every poll begins, whatever has been published meanwhile, its dates  *)
(* are the ones above (matcher.go:265-301).                                *)
THEOREM DatesTold == Spec => []DatesAreTold
<1>1. DatesAreTold /\ DatesAreTold' BY LatestOwner, LastNight DEF DatesAreTold
<1> QED BY <1>1, PTL
-----------------------------------------------------------------------------
(* Folds.                                                                  *)

(* The largest of some of the first n numbers.                             *)
LEMMA MaxOf ==
  ASSUME NEW n \in Nat, NEW t \in SUBSET (1..n), t # {}
  PROVE  Max(t) \in t /\ \A y \in t : Max(t) >= y
<1>. DEFINE below == {n - y : y \in t}
<1>1. below \subseteq Nat /\ below # {}
  <2>1. \A y \in t : y \in 1..n OBVIOUS
  <2>2. \A y \in 1..n : n - y \in Nat OBVIOUS
  <2>3. PICK y \in t : TRUE OBVIOUS
  <2> QED BY <2>1, <2>2, <2>3
<1>. HIDE DEF below
<1>2. PICK b \in below : \A c \in below : b <= c BY <1>1, LeastNatural
<1>3. PICK x \in t : b = n - x BY <1>2 DEF below
<1>4. \A y \in t : x >= y
  <2>1. \A y \in t : n - x <= n - y BY <1>2, <1>3 DEF below
  <2> QED BY <2>1
<1> QED BY <1>4 DEF Max

(* The largest of some that n is among.                                    *)
LEMMA MaxLast ==
  ASSUME NEW n \in Nat, NEW t \in SUBSET (1..n), n \in t PROVE Max(t) = n
<1>1. Max(t) \in t /\ Max(t) >= n BY MaxOf
<1>2. Max(t) \in 1..n BY <1>1
<1> QED BY <1>1, <1>2

(* Some of the first m, the last not among them, are some before it.       *)
LEMMA WithoutLast ==
  ASSUME NEW m \in Nat, NEW t \in SUBSET (1..m), m \notin t
  PROVE  t \in SUBSET (1..(m-1)) /\ \A x : t \ {x} \in SUBSET (1..(m-1))
<1>1. \A y \in 1..m : y # m => y \in 1..(m-1) OBVIOUS
<1> QED BY <1>1

\* h is the fold, for every set of indices, of the steps F.
Folds(h, n, V, zero, F) ==
  /\ h \in [SUBSET (1..n) -> V]
  /\ \A t \in SUBSET (1..n) :
       h[t] = IF t = {} THEN zero ELSE F[Max(t)][h[t \ {Max(t)}]]

(* There is such a function, so the one a fold chooses is one.             *)
LEMMA FoldExists ==
  ASSUME NEW n \in Nat, NEW V, NEW zero \in V, NEW F, \A i \in 1..n, v \in V : F[i][v] \in V
  PROVE  \E h : Folds(h, n, V, zero, F)
<1>. DEFINE Fold(m, h) == Folds(h, m, V, zero, F)
            Has(m) == \E h : Fold(m, h)
            Missing == {m \in 0..n : ~Has(m)}
<1>1. ASSUME NEW m \in Missing, \A k \in Missing : m <= k PROVE FALSE
  <2>1. CASE m = 0
    <3>. DEFINE h == [t \in SUBSET (1..0) |-> zero]
    <3>1. h \in [SUBSET (1..m) -> V] BY <2>1
    <3>2. \A t \in SUBSET (1..m) : t = {} /\ h[t] = zero BY <2>1
    <3>3. Fold(m, h) BY <3>1, <3>2 DEF Folds
    <3>. HIDE DEF h, Fold
    <3>4. Has(m) BY <3>3
    <3> QED BY <1>1, <3>4
  <2>2. CASE m # 0
    <3>1. Has(m - 1)
      <4>. HIDE DEF Has
      <4>1. m \in 1..n BY <1>1, <2>2
      <4>2. m - 1 \in 0..n /\ ~(m <= m - 1) BY <4>1
      <4> QED BY <1>1, <4>2
    <3>2. PICK g : Fold(m - 1, g) BY <3>1
    <3>3. 1..(m-1) \subseteq 1..m /\ m \in 1..n BY <2>2
    <3>. DEFINE h == [t \in SUBSET (1..m) |-> IF m \in t THEN F[m][g[t \ {m}]] ELSE g[t]]
    <3>4. ASSUME NEW t \in SUBSET (1..m)
          PROVE  h[t] = (IF t = {} THEN zero ELSE F[Max(t)][h[t \ {Max(t)}]]) /\ h[t] \in V
      <4>1. CASE m \in t
        <5>1. Max(t) = m BY <4>1, MaxLast
        <5>2. t \ {m} \in SUBSET (1..(m-1)) /\ t \ {m} \in SUBSET (1..m) OBVIOUS
        <5>3. h[t \ {m}] = g[t \ {m}] BY <5>2
        <5>4. g[t \ {m}] \in V BY <5>2, <3>2 DEF Folds
        <5>5. h[t] = F[m][g[t \ {m}]] BY <4>1
        <5> QED BY <4>1, <5>1, <5>3, <5>4, <5>5, <3>3
      <4>2. CASE m \notin t
        <5>1. t \in SUBSET (1..(m-1)) /\ \A x : t \ {x} \in SUBSET (1..(m-1))
          BY ONLY <4>2, m \in Nat, t \in SUBSET (1..m), WithoutLast
        <5>2. h[t] = g[t] BY <4>2
        <5>3. \A x : h[t \ {x}] = g[t \ {x}] BY <4>2, <5>1, <3>3
        <5>4. g[t] = (IF t = {} THEN zero ELSE F[Max(t)][g[t \ {Max(t)}]]) /\ g[t] \in V
          BY <5>1, <3>2 DEF Folds
        <5> HIDE DEF h, Fold
        <5> QED BY <5>2, <5>3, <5>4
      <4> QED BY <4>1, <4>2
    <3>5. h \in [SUBSET (1..m) -> V] BY <3>4
    <3>. HIDE DEF h
    <3>6. Fold(m, h) BY <3>4, <3>5 DEF Folds
    <3>. HIDE DEF Fold
    <3>7. Has(m) BY <3>6
    <3> QED BY <1>1, <3>7
  <2> QED BY <2>1, <2>2
<1>2. Missing \subseteq Nat OBVIOUS
<1>3. Missing = {}
  <2>. HIDE DEF Missing
  <2> QED BY <1>1, <1>2, LeastNatural
<1>4. Has(n)
  <2>. HIDE DEF Has
  <2> QED BY <1>3
<1> QED BY <1>4

(* Folding add is adding one observation after the other.                  *)
LEMMA AddFolds ==
  ASSUME NEW T, NEW s \in Seq(T), NEW obs \in Seq(T),
         \A v \in Seq(T), o \in T : add(v, o) \in Seq(T)
  PROVE  \E g : /\ g[0] = s /\ FoldLeft(add, s, obs) = g[Len(obs)]
                /\ \A i \in 1..Len(obs) : g[i] = add(g[i - 1], obs[i]) /\ g[i - 1] \in Seq(T)
<1>. DEFINE n == Len(obs)
            F == [i \in 1..n |-> [v \in Seq(T) |-> add(v, obs[i])]]
            IsFold(h) == h = [t \in SUBSET DOMAIN obs |->
                                IF t = {} THEN s ELSE add(h[t \ {Max(t)}], obs[Max(t)])]
            iter == CHOOSE h : IsFold(h)
<1>1. FoldLeft(add, s, obs) = iter[DOMAIN obs]
  BY DEF FoldLeft, MapThenFoldSet
<1>2. DOMAIN obs = 1..n /\ n \in Nat OBVIOUS
<1>. HIDE DEF n
<1>3. PICK h : Folds(h, n, Seq(T), s, F)
  <2>1. \A i \in 1..n, v \in Seq(T) : F[i][v] \in Seq(T) BY <1>2
  <2>. HIDE DEF F
  <2>2. s \in Seq(T) OBVIOUS
  <2> QED BY ONLY <1>2, <2>1, <2>2, FoldExists
<1>4. \A t \in SUBSET (1..n) : t # {} => Max(t) \in t
  BY <1>2, MaxOf
<1>5. IsFold(h)
  <2>1. \A t \in SUBSET (1..n) : t # {} =>
          F[Max(t)][h[t \ {Max(t)}]] = add(h[t \ {Max(t)}], obs[Max(t)])
    BY <1>3, <1>4 DEF Folds
  <2> HIDE DEF F
  <2> QED BY <1>2, <1>3, <2>1 DEF Folds
<1>. HIDE DEF F
<1>6. IsFold(iter)
  <2>1. \E f : IsFold(f) BY <1>5
  <2>. HIDE DEF IsFold
  <2> QED BY <2>1
<1>7. iter[{}] = s /\ \A t \in SUBSET (1..n) : t # {} => iter[t] = add(iter[t \ {Max(t)}], obs[Max(t)])
  BY <1>2, <1>6
<1>. HIDE DEF iter
<1>. DEFINE g == [i \in 0..n |-> iter[1..i]]
<1>8. g[0] = s
  <2>1. 1..0 = {} /\ 0 \in 0..n BY <1>2
  <2> QED BY <1>7, <2>1
<1>9. g[n] = FoldLeft(add, s, obs) BY <1>1, <1>2
<1>10. ASSUME NEW i \in 1..n PROVE g[i] = add(g[i - 1], obs[i])
  <2>1. i \in Nat /\ 1..i \subseteq 1..n /\ i \in 1..i BY <1>2
  <2>2. Max(1..i) = i
    <3>1. 1..i \in SUBSET (1..i) OBVIOUS
    <3> QED BY <2>1, <3>1, MaxLast
  <2>3. i - 1 \in 0..n /\ i \in 0..n BY <1>2
  <2>4. (1..i) \ {i} = 1..(i-1) BY <2>1
  <2>5. iter[1..i] = add(iter[(1..i) \ {Max(1..i)}], obs[Max(1..i)]) BY <1>7, <2>1
  <2> QED BY <2>2, <2>3, <2>4, <2>5
<1>. HIDE DEF g
<1>11. \A i \in 0..n : g[i] \in Seq(T)
  <2>. DEFINE Bad == {i \in 0..n : g[i] \notin Seq(T)}
  <2>1. SUFFICES ASSUME Bad # {} PROVE FALSE OBVIOUS
  <2>2. Bad \subseteq Nat BY <1>2
  <2>3. PICK i \in Bad : \A j \in Bad : i <= j 
    <3>. HIDE DEF Bad
    <3> QED BY <2>1, <2>2, LeastNatural
  <2>4. i \in 1..n BY <1>2, <1>8, <2>3
  <2>5. i - 1 \in 0..n /\ ~(i <= i - 1) BY <1>2, <2>4
  <2>6. g[i - 1] \in Seq(T) BY <2>3, <2>5
  <2>7. obs[i] \in T BY <1>2, <2>4
  <2> QED BY <1>10, <2>3, <2>4, <2>6, <2>7
<1>12. \A i \in 1..n : i - 1 \in 0..n BY <1>2
<1> QED BY <1>8, <1>9, <1>10, <1>11, <1>12 DEF n

\* A key is there once.
Once(s) == \A i, j \in DOMAIN s : Key(s[i]) = Key(s[j]) => i = j

(* What add does to a batch.                                               *)
LEMMA AddOne ==
  ASSUME NEW T, NEW s \in Seq(T), NEW o \in T
  PROVE  /\ add(s, o) \in Seq(T)
         /\ Len(add(s, o)) \in {Len(s), Len(s) + 1}
         /\ Range(add(s, o)) \subseteq Range(s) \cup {o}
         /\ o \in Range(add(s, o))
         /\ \A p \in Range(add(s, o)) : Key(p) = Key(o) => p = o
         /\ \A p \in Range(s) : \E q \in Range(add(s, o)) : Key(q) = Key(p)
         /\ Once(s) => Once(add(s, o))
<1>. DEFINE a == add(s, o)
<1>1. CASE \E i \in DOMAIN s : Key(s[i]) = Key(o)
  <2>1. PICK i0 \in DOMAIN s : Key(s[i0]) = Key(o) BY <1>1
  <2>2. a = [i \in DOMAIN s |-> IF Key(s[i]) = Key(o) THEN o ELSE s[i]] BY <1>1 DEF add
  <2>. HIDE DEF a
  <2>3. a \in Seq(T) /\ Len(a) = Len(s) /\ DOMAIN a = DOMAIN s BY <2>2
  <2>4. \A i \in DOMAIN s : a[i] \in {o, s[i]} /\ Key(a[i]) = Key(s[i])
    BY <2>2
  <2>5. a[i0] = o BY <2>1, <2>2
  <2>6. \A i \in DOMAIN s : Key(a[i]) = Key(o) => a[i] = o
    BY <2>2
  <2>. QED BY <2>1, <2>3, <2>4, <2>5, <2>6 DEF a, Range, Once
<1>2. CASE ~\E i \in DOMAIN s : Key(s[i]) = Key(o)
  <2>2. a = Append(s, o) BY <1>2 DEF add
  <2>. HIDE DEF a
  <2>3. a \in Seq(T) /\ Len(a) = Len(s) + 1 /\ DOMAIN a = DOMAIN s \cup {Len(s) + 1} BY <2>2
  <2>4. \A i \in DOMAIN s : a[i] = s[i] BY <2>2
  <2>5. a[Len(s) + 1] = o BY <2>2
  <2>6. Range(a) = Range(s) \cup {o}
    BY <2>3, <2>4, <2>5 DEF Range
  <2>7. \A p \in Range(s) : Key(p) # Key(o) BY <1>2 DEF Range
  <2>8. Once(s) => Once(a) BY <1>2, <2>3, <2>4, <2>5 DEF Once
  <2>. QED BY <2>3, <2>6, <2>7, <2>8 DEF a
<1> QED BY <1>1, <1>2

(* It keeps a batch one.                                                   *)
LEMMA AddTyped ==
  ASSUME NEW T PROVE \A v \in Seq(T), o \in T : add(v, o) \in Seq(T)
BY AddOne

(* What a list of observations does: the last word on each key it speaks   *)
(* of is one of them, the other keys stay, and nothing else is added.      *)
LEMMA AddAll ==
  ASSUME NEW T, NEW s \in Seq(T), NEW obs \in Seq(T), NEW r, r = FoldLeft(add, s, obs)
  PROVE  /\ r \in Seq(T)
         /\ Len(r) <= Len(s) + Len(obs)
         /\ Range(r) \subseteq Range(s) \cup Range(obs)
         /\ \A o \in Range(obs) : \E q \in Range(r) : Key(q) = Key(o) 
         /\ \A p \in Range(r), o \in Range(obs) : Key(p) = Key(o) => p \in Range(obs)
         /\ \A p \in Range(s) : \E q \in Range(r) : Key(q) = Key(p)
         /\ Once(s) => Once(r)
<1>1. PICK g : /\ g[0] = s /\ FoldLeft(add, s, obs) = g[Len(obs)]
               /\ \A i \in 1..Len(obs) : g[i] = add(g[i - 1], obs[i]) /\ g[i - 1] \in Seq(T)
  BY AddTyped, AddFolds
<1>. DEFINE n == Len(obs)
            Good(i) == /\ g[i] \in Seq(T)
                       /\ Len(g[i]) <= Len(s) + i
                       /\ Range(g[i]) \subseteq Range(s) \cup Range(obs)
                       /\ \A k \in 1..i : \E q \in Range(g[i]) : Key(q) = Key(obs[k])
                       /\ \A p \in Range(g[i]), k \in 1..i : Key(p) = Key(obs[k]) => p \in Range(obs)
                       /\ \A p \in Range(s) : \E q \in Range(g[i]) : Key(q) = Key(p)
                       /\ Once(s) => Once(g[i])
            Bad == {i \in 0..n : ~Good(i)}
<1>2. n \in Nat /\ DOMAIN obs = 1..n OBVIOUS
<1>. HIDE DEF n
<1>3. Good(0)
  <2>1. 1..0 = {} OBVIOUS
  <2>2. Len(s) <= Len(s) + 0 OBVIOUS
  <2> QED BY <1>1, <2>1, <2>2
<1>4. ASSUME NEW i \in 1..n, Good(i - 1) PROVE Good(i)
  <2>. DEFINE v == g[i - 1]
              a == add(v, obs[i])
  <2>1. i \in 1..Len(obs) /\ obs[i] \in T /\ obs[i] \in Range(obs) BY <1>2 DEF n, Range
  <2>2. g[i] = a /\ v \in Seq(T) BY <1>1, <2>1
  <2>. HIDE DEF v
  <2>3. /\ a \in Seq(T)
        /\ Len(a) \in {Len(v), Len(v) + 1}
        /\ Range(a) \subseteq Range(v) \cup {obs[i]}
        /\ obs[i] \in Range(a)
        /\ \A p \in Range(a) : Key(p) = Key(obs[i]) => p = obs[i]
        /\ \A p \in Range(v) : \E q \in Range(a) : Key(q) = Key(p)
        /\ Once(v) => Once(a)
    BY <2>1, <2>2, AddOne
  <2>. USE DEF v
  <2>4. /\ Len(v) <= Len(s) + (i - 1)
        /\ Range(v) \subseteq Range(s) \cup Range(obs)
        /\ \A k \in 1..(i - 1) : \E q \in Range(v) : Key(q) = Key(obs[k])
        /\ \A p \in Range(v), k \in 1..(i - 1) : Key(p) = Key(obs[k]) => p \in Range(obs)
        /\ \A p \in Range(s) : \E q \in Range(v) : Key(q) = Key(p)
        /\ Once(s) => Once(v)
    BY <1>4
  <2>. HIDE DEF a, v
  <2>5. Len(a) <= Len(s) + i
    <3>1. Len(v) \in Nat /\ Len(s) \in Nat /\ i \in Nat /\ Len(v) <= Len(s) + (i - 1)
      BY <2>2, <2>4, <1>2
    <3> QED BY <2>3, <3>1
  <2>6. \A k \in 1..i : k = i \/ k \in 1..(i - 1) BY <1>2
  <2>7. Range(a) \subseteq Range(s) \cup Range(obs) BY <2>1, <2>3, <2>4
  <2>8. \A k \in 1..i : \E q \in Range(a) : Key(q) = Key(obs[k])
    BY <2>3, <2>4, <2>6
  <2>9. \A p \in Range(a), k \in 1..i : Key(p) = Key(obs[k]) => p \in Range(obs)
    BY <2>1, <2>3, <2>4, <2>6
  <2>10. \A p \in Range(s) : \E q \in Range(a) : Key(q) = Key(p)
    BY <2>3, <2>4
  <2> QED BY <2>2, <2>3, <2>4, <2>5, <2>7, <2>8, <2>9, <2>10
<1>5. Good(n)
  <2>1. SUFFICES ASSUME ~Good(n) PROVE FALSE OBVIOUS
  <2>. HIDE DEF Good
  <2>2. Bad \subseteq Nat /\ Bad # {} BY <1>2, <2>1
  <2>3. PICK i \in Bad : \A j \in Bad : i <= j
    <3>. HIDE DEF Bad
    <3> QED BY <2>2, LeastNatural
  <2>4. i \in 1..n BY <1>2, <1>3, <2>3
  <2>5. i - 1 \in 0..n /\ ~(i <= i - 1) BY <1>2, <2>4
  <2>6. Good(i - 1) BY <2>3, <2>5
  <2> QED BY <1>4, <2>3, <2>4, <2>6
<1>6. r = g[n] BY <1>1 DEF n
<1>7. \A o \in Range(obs) : \E k \in 1..n : o = obs[k] BY <1>2 DEF Range
<1>8. \A k \in 1..n : obs[k] \in Range(obs) BY <1>2 DEF Range
<1>. HIDE DEF Bad
<1>9. /\ r \in Seq(T) /\ Len(r) <= Len(s) + n
      /\ Range(r) \subseteq Range(s) \cup Range(obs)
      /\ \A p \in Range(s) : \E q \in Range(r) : Key(q) = Key(p)
      /\ Once(s) => Once(r)
  BY <1>5, <1>6
<1>10. \A o \in Range(obs) : \E q \in Range(r) : Key(q) = Key(o) BY <1>5, <1>6, <1>7
<1>11. \A p \in Range(r), o \in Range(obs) : Key(p) = Key(o) => p \in Range(obs) BY <1>5, <1>6, <1>7
<1> QED BY <1>9, <1>10, <1>11 DEF n

-----------------------------------------------------------------------------
(* Sequences of sequences.                                                 *)

(* What is in one or the other.                                            *)
LEMMA RangeConcat ==
  ASSUME NEW T, NEW s \in Seq(T), NEW t \in Seq(T)
  PROVE  Range(s \o t) = Range(s) \cup Range(t)
<1>1. /\ DOMAIN (s \o t) = 1..(Len(s) + Len(t)) /\ DOMAIN s = 1..Len(s) /\ DOMAIN t = 1..Len(t)
      /\ Len(s) \in Nat /\ Len(t) \in Nat
  OBVIOUS
<1>2. \A i \in DOMAIN s : i \in DOMAIN (s \o t) /\ (s \o t)[i] = s[i] BY <1>1
<1>3. \A i \in DOMAIN t : Len(s) + i \in DOMAIN (s \o t) /\ (s \o t)[Len(s) + i] = t[i] BY <1>1
<1>4. \A i \in DOMAIN (s \o t) : i \in DOMAIN s \/ i - Len(s) \in DOMAIN t BY <1>1
<1>5. \A i \in DOMAIN (s \o t) : i \notin DOMAIN s => (s \o t)[i] = t[i - Len(s)] BY <1>1
<1>6. ASSUME NEW x \in Range(s \o t) PROVE x \in Range(s) \cup Range(t)
  <2>1. PICK i \in DOMAIN (s \o t) : x = (s \o t)[i] BY DEF Range
  <2>2. CASE i \in DOMAIN s BY <1>2, <2>1, <2>2 DEF Range
  <2>3. CASE i \notin DOMAIN s BY <1>4, <1>5, <2>1, <2>3 DEF Range
  <2> QED BY <2>2, <2>3
<1>7. Range(s) \subseteq Range(s \o t) BY <1>2 DEF Range
<1>8. Range(t) \subseteq Range(s \o t) BY <1>3 DEF Range
<1> QED BY <1>6, <1>7, <1>8

\* f joins what came so far.
IsFlat(f, ss, T) ==
  /\ f \in [1..Len(ss) -> Seq(T)]
  /\ \A i \in 1..Len(ss) : f[i] = IF i = 1 THEN ss[i] ELSE f[i - 1] \o ss[i]

(* There is such a function, as above.                                     *)
LEMMA FlattenExists ==
  ASSUME NEW T, NEW ss \in Seq(Seq(T)) PROVE \E f : IsFlat(f, ss, T)
<1>. DEFINE n == Len(ss)
            Flat(m, f) == /\ f \in [1..m -> Seq(T)]
                          /\ \A i \in 1..m : f[i] = IF i = 1 THEN ss[i] ELSE f[i - 1] \o ss[i]
            Has(m) == \E f : Flat(m, f)
            Missing == {m \in 0..n : ~Has(m)}
<1>1. n \in Nat /\ \A i \in 1..n : ss[i] \in Seq(T) OBVIOUS
<1>. HIDE DEF n
<1>2. Has(0)
  <2>. DEFINE f == [i \in 1..0 |-> <<>>]
  <2>1. Flat(0, f) OBVIOUS
  <2>. HIDE DEF Flat, f
  <2>. QED BY <2>1
<1>3. ASSUME NEW m \in 1..n, Has(m - 1) PROVE Has(m)
  <2>1. PICK g : Flat(m - 1, g) BY <1>3
  <2>. DEFINE f == [i \in 1..m |-> IF i = m THEN IF m = 1 THEN ss[m] ELSE g[m - 1] \o ss[m] ELSE g[i]]
  <2>0. \A i \in 1..(m - 1) : i # m /\ i \in 1..m BY <1>1
  <2>2. \A i \in 1..(m - 1) : f[i] = g[i] /\ f[i] \in Seq(T) BY <2>0, <2>1
  <2>3. m # 1 => m - 1 \in 1..(m - 1) BY <1>1
  <2>4. f[m] = (IF m = 1 THEN ss[m] ELSE f[m - 1] \o ss[m]) /\ f[m] \in Seq(T)
    <3>1. m \in 1..m /\ ss[m] \in Seq(T) BY <1>1
    <3>2. f[m] = IF m = 1 THEN ss[m] ELSE g[m - 1] \o ss[m] BY <3>1
    <3>. HIDE DEF f
    <3>3. CASE m = 1 BY <3>1, <3>2, <3>3
    <3>4. CASE m # 1
      <4>1. g[m - 1] = f[m - 1] /\ g[m - 1] \in Seq(T) BY <2>2, <2>3, <3>4
      <4> QED BY <3>1, <3>2, <3>4, <4>1
    <3> QED BY <3>3, <3>4
  <2>5. \A i \in 1..m : i = m \/ i \in 1..(m - 1) BY <1>1
  <2>6. \A i \in 1..(m - 1) : i # 1 => i - 1 \in 1..(m - 1) BY <1>1
  <2>7. \A i \in 1..(m - 1) : f[i] = (IF i = 1 THEN ss[i] ELSE f[i - 1] \o ss[i])
    <3>1. \A i \in 1..(m - 1) : g[i] = IF i = 1 THEN ss[i] ELSE g[i - 1] \o ss[i] BY <2>1
    <3>. HIDE DEF f, Flat
    <3> QED BY <2>2, <2>6, <3>1
  <2>8. f \in [1..m -> Seq(T)] BY <2>2, <2>4, <2>5
  <2>. HIDE DEF f
  <2>9. Flat(m, f) BY <2>4, <2>5, <2>7, <2>8
  <2>. HIDE DEF Flat
  <2> QED BY <2>9
<1>4. Missing = {}
  <2>1. SUFFICES ASSUME Missing # {} PROVE FALSE OBVIOUS
  <2>. HIDE DEF Has
  <2>2. Missing \subseteq Nat BY <1>1
  <2>3. PICK m \in Missing : \A k \in Missing : m <= k
    <3>. HIDE DEF Missing
    <3> QED BY <2>1, <2>2, LeastNatural
  <2>4. m \in 1..n BY <1>1, <1>2, <2>3
  <2>5. m - 1 \in 0..n /\ ~(m <= m - 1) BY <1>1, <2>4
  <2> QED BY <1>3, <2>3, <2>4, <2>5
<1>5. Has(n)
  <2>. HIDE DEF Has
  <2> QED BY <1>1, <1>4
<1> QED BY <1>5 DEF n, IsFlat

(* Flattening keeps what there is, and adds nothing.                       *)
LEMMA Flattened ==
  ASSUME NEW T, NEW ss \in Seq(Seq(T))
  PROVE  /\ FlattenSeq(ss) \in Seq(T)
         /\ \A x \in Range(FlattenSeq(ss)) : \E i \in DOMAIN ss : x \in Range(ss[i])
         /\ \A i \in DOMAIN ss : Range(ss[i]) \subseteq Range(FlattenSeq(ss))
<1>. DEFINE n == Len(ss)
            IsIt(f) == f = [i \in 1..n |-> IF i = 1 THEN ss[i] ELSE f[i - 1] \o ss[i]]
            flatten == CHOOSE f : IsIt(f)
<1>1. n \in Nat /\ DOMAIN ss = 1..n /\ \A i \in 1..n : ss[i] \in Seq(T) OBVIOUS
<1>2. CASE n = 0
  <2>1. FlattenSeq(ss) = ss BY <1>2 DEF FlattenSeq
  <2>2. ss = <<>> BY <1>2
  <2> QED BY <2>1, <2>2 DEF Range
<1>3. CASE n # 0
  <2>1. FlattenSeq(ss) = flatten[n] BY <1>3 DEF FlattenSeq
  <2>2. PICK f : IsFlat(f, ss, T) BY FlattenExists
  <2>3. IsIt(f) BY <2>2 DEF IsFlat
  <2>. HIDE DEF n
  <2>4. IsIt(flatten)
    <3>1. \E g : IsIt(g) BY <2>3
    <3>. HIDE DEF IsIt
    <3> QED BY <3>1
  <2>5. \A i \in 1..n : flatten[i] = IF i = 1 THEN ss[i] ELSE flatten[i - 1] \o ss[i]
    BY <2>4
  <2>. HIDE DEF flatten
  <2>. DEFINE Good(i) == /\ flatten[i] \in Seq(T)
                         /\ \A x \in Range(flatten[i]) : \E k \in 1..i : x \in Range(ss[k])
                         /\ \A k \in 1..i : Range(ss[k]) \subseteq Range(flatten[i])
              Bad == {i \in 1..n : ~Good(i)}
  <2>6. Good(1)
    <3>1. flatten[1] = ss[1] /\ 1 \in 1..n BY <1>1, <1>3, <2>5
    <3>2. \A k \in 1..1 : k = 1 OBVIOUS
    <3> QED BY <1>1, <3>1, <3>2
  <2>7. ASSUME NEW i \in 1..n, i # 1, Good(i - 1) PROVE Good(i)
    <3>1. flatten[i] = flatten[i - 1] \o ss[i] BY <2>5, <2>7
    <3>2. flatten[i - 1] \in Seq(T) /\ ss[i] \in Seq(T) BY <1>1, <2>7
    <3>3. Range(flatten[i - 1] \o ss[i]) = Range(flatten[i - 1]) \cup Range(ss[i])
      BY <3>2, RangeConcat
    <3>4. \A k \in 1..i : k = i \/ k \in 1..(i - 1) BY <1>1
    <3>5. \A k \in 1..(i - 1) : k \in 1..i BY <1>1
    <3>6. flatten[i] \in Seq(T) BY <3>1, <3>2
    <3>7. i \in 1..i BY <1>1
    <3>8. \A x \in Range(flatten[i]) : \E k \in 1..i : x \in Range(ss[k])
      BY <2>7, <3>1, <3>3, <3>5, <3>7
    <3>9. \A k \in 1..i : Range(ss[k]) \subseteq Range(flatten[i])
      BY <2>7, <3>1, <3>3, <3>4
    <3> QED BY <3>6, <3>8, <3>9
  <2>8. Good(n)
    <3>1. SUFFICES ASSUME ~Good(n) PROVE FALSE OBVIOUS
    <3>. HIDE DEF Good
    <3>2. Bad \subseteq Nat /\ Bad # {} BY <1>1, <1>3, <3>1
    <3>3. PICK i \in Bad : \A j \in Bad : i <= j
      <4>. HIDE DEF Bad
      <4> QED BY <3>2, LeastNatural
    <3>4. i \in 1..n /\ i # 1 BY <2>6, <3>3
    <3>5. i - 1 \in 1..n /\ ~(i <= i - 1) BY <1>1, <3>4
    <3>6. Good(i - 1) BY <3>3, <3>5
    <3> QED BY <2>7, <3>3, <3>4, <3>6
  <2>. HIDE DEF Bad
  <2> QED BY <1>1, <2>1, <2>8
<1> QED BY <1>2, <1>3

-----------------------------------------------------------------------------
(* Decode.                                                                 *)

\* What the protobuf's types leave of an update; what becomes of a stop.
EventTyped(v) == v = None \/ (v.delay \in {None} \cup Delay /\ v.time \in {None} \cup Int)
UpdateTyped(u) == u.start \in {None, BadDate} \cup Day /\ EventTyped(u.arr) /\ EventTyped(u.dep)
StopOutcome(e, s) == [why |-> Dropped(e, s), update |-> RawUpdate(e, s, FALSE)]
Says(e) == e.kind = "trip_update" /\ e.trip # ""

(* Each outcome of an entity, and each of its stops among them.            *)
LEMMA OutcomesOf ==
  ASSUME NEW m \in Messages, NEW e \in Range(m.entities)
  PROVE  /\ Outcomes(e) \in Seq(Range(Outcomes(e)))
         /\ \A o \in Range(Outcomes(e)) : o.why = "kept" => UpdateTyped(o.update)
         /\ Says(e) => \A s \in Range(e.stops) : StopOutcome(e, s) \in Range(Outcomes(e))
<1>. DEFINE Whole == [why |-> "kept", update |-> RawUpdate(e, NoStopTime, TRUE)]
<1>0. \A x : Range(<<x>>) = {x} /\ <<x>> \in Seq({x}) BY DEF Range
<1>1. CASE e.kind # "trip_update"
  <2>. DEFINE x == [why |-> "not_trip_update"]
  <2>1. Outcomes(e) = <<x>> BY <1>1 DEF Outcomes
  <2>2. x.why # "kept" OBVIOUS
  <2>. HIDE DEF x
  <2>3. Range(Outcomes(e)) = {x} /\ Outcomes(e) \in Seq({x}) BY <1>0, <2>1
  <2>4. ~Says(e) BY <1>1 DEF Says
  <2> QED BY <2>2, <2>3, <2>4
<1>2. CASE e.kind = "trip_update" /\ e.trip = ""
  <2>. DEFINE x == [why |-> "no_trip_id"]
  <2>1. Outcomes(e) = <<x>> BY <1>2 DEF Outcomes
  <2>2. x.why # "kept" OBVIOUS
  <2>. HIDE DEF x
  <2>3. Range(Outcomes(e)) = {x} /\ Outcomes(e) \in Seq({x}) BY <1>0, <2>1
  <2>4. ~Says(e) BY <1>2 DEF Says
  <2> QED BY <2>2, <2>3, <2>4
<1>3. CASE e.kind = "trip_update" /\ e.trip # ""
  <2>1. /\ e.start \in {None, BadDate} \cup Day
        /\ e.stops \in Seq(Range(e.stops))
        /\ \A s \in Range(e.stops) : EventTyped(s.arr) /\ EventTyped(s.dep)
    BY <1>3, Protobuf DEF EventTyped
  <2>2. CASE e.stops = <<>>
    <3>1. Outcomes(e) = <<Whole>> BY <1>3, <2>2 DEF Outcomes
    <3>2. UpdateTyped(Whole.update)
      BY <2>1 DEF UpdateTyped, EventTyped, RawUpdate, NoStopTime
    <3>3. Range(e.stops) = {} BY <2>2 DEF Range
    <3>. HIDE DEF Whole
    <3> QED BY <1>0, <3>1, <3>2, <3>3
  <2>3. CASE e.stops # <<>>
    <3>1. Outcomes(e) = [i \in DOMAIN e.stops |-> StopOutcome(e, e.stops[i])]
      BY <1>3, <2>3 DEF Outcomes, StopOutcome
    <3>2. DOMAIN e.stops = 1..Len(e.stops) /\ Len(e.stops) \in Nat BY <2>1
    <3>3. Outcomes(e) \in Seq(Range(Outcomes(e))) BY <3>1, <3>2 DEF Range
    <3>4. ASSUME NEW s \in Range(e.stops) PROVE UpdateTyped(StopOutcome(e, s).update)
      BY <2>1 DEF UpdateTyped, RawUpdate, StopOutcome
    <3>5. Range(Outcomes(e)) = {StopOutcome(e, s) : s \in Range(e.stops)} BY <3>1 DEF Range
    <3> QED BY <3>3, <3>4, <3>5
  <2> QED BY <2>2, <2>3
<1> QED BY <1>1, <1>2, <1>3

(* A feed is made of the message's updates that were kept, and every stop  *)
(* that was kept is in it (decode.go:18-122).                              *)
LEMMA Decoded ==
  ASSUME NEW m \in Messages
  PROVE  /\ Decode(m).updates \in Seq(Range(Decode(m).updates))
         /\ Decode(m).header_ts \in Instant
         /\ \A u \in Range(Decode(m).updates) : UpdateTyped(u)
         /\ \A e \in Range(m.entities) : Says(e) =>
              \A s \in Range(e.stops) :
                Dropped(e, s) = "kept" => RawUpdate(e, s, FALSE) \in Range(Decode(m).updates)
<1>. DEFINE T == UNION {Range(Outcomes(e)) : e \in Range(m.entities)}
            per == [i \in DOMAIN m.entities |-> Outcomes(m.entities[i])]
            all == FlattenSeq(per)
            U == {o.update : o \in {p \in T : p.why = "kept"}}
            one == [i \in DOMAIN all |-> kept(all[i])]
            flat == FlattenSeq(one)
<1>1. DOMAIN m.entities = 1..Len(m.entities) /\ Len(m.entities) \in Nat
  BY Protobuf
<1>2. \A i \in DOMAIN m.entities : m.entities[i] \in Range(m.entities) BY DEF Range
<1>3. \A e \in Range(m.entities) : Outcomes(e) \in Seq(T)
  <2>1. ASSUME NEW e \in Range(m.entities) PROVE Outcomes(e) \in Seq(T)
    <3>1. Outcomes(e) \in Seq(Range(Outcomes(e))) BY OutcomesOf
    <3>2. Range(Outcomes(e)) \subseteq T OBVIOUS
    <3>. HIDE DEF T
    <3> QED BY <3>1, <3>2
  <2> QED BY <2>1
<1>4. per \in Seq(Seq(T)) BY <1>1, <1>2, <1>3
<1>5. /\ all \in Seq(T)
      /\ \A i \in DOMAIN per : Range(per[i]) \subseteq Range(all)
  <2>. HIDE DEF T, per
  <2> QED BY <1>4, Flattened
<1>6. \A e \in Range(m.entities) : Range(Outcomes(e)) \subseteq Range(all)
  <2>1. \A e \in Range(m.entities) : \E i \in DOMAIN per : per[i] = Outcomes(e) BY DEF Range
  <2>. HIDE DEF per, all
  <2> QED BY <1>5, <2>1
<1>. HIDE DEF all, per
<1>7. one \in Seq(Seq(U))
  <2>1. DOMAIN all = 1..Len(all) /\ Len(all) \in Nat BY <1>5
  <2>2. \A i \in DOMAIN all : kept(all[i]) \in Seq(U)
    <3>1. ASSUME NEW o \in T PROVE kept(o) \in Seq(U)
      <4>1. o.why = "kept" => o.update \in U BY <3>1
      <4>. HIDE DEF U
      <4> QED BY <4>1 DEF kept
    <3>2. \A i \in DOMAIN all : all[i] \in T BY <1>5
    <3>. HIDE DEF T, U
    <3> QED BY <3>1, <3>2
  <2>. HIDE DEF U
  <2> QED BY <2>1, <2>2
<1>8. /\ flat \in Seq(U)
      /\ \A i \in DOMAIN one : Range(one[i]) \subseteq Range(flat)
  <2>. HIDE DEF one, U
  <2> QED BY <1>7, Flattened
<1>9. \A o \in Range(all) : o.why = "kept" => o.update \in Range(flat)
  <2>1. ASSUME NEW o \in Range(all), o.why = "kept" PROVE o.update \in Range(flat)
    <3>1. PICK i \in DOMAIN all : all[i] = o BY DEF Range
    <3>2. one[i] = <<o.update>> /\ i \in DOMAIN one BY <2>1, <3>1 DEF kept
    <3>3. o.update \in Range(<<o.update>>) BY DEF Range
    <3>. HIDE DEF one, flat
    <3> QED BY <1>8, <3>2, <3>3
  <2> QED BY <2>1
<1>. HIDE DEF one, flat
<1>10. Decode(m).updates = flat
  BY DEF Decode, AllOutcomes, flat, one, all, per
<1>11. Decode(m).header_ts \in Instant BY Protobuf DEF Decode
<1>12. \A u \in U : UpdateTyped(u) BY OutcomesOf
<1>13. flat \in Seq(Range(flat)) /\ Range(flat) \subseteq U
  <2>. HIDE DEF U
  <2> QED BY <1>8 DEF Range
<1>14. ASSUME NEW e \in Range(m.entities), Says(e), NEW s \in Range(e.stops), Dropped(e, s) = "kept"
       PROVE  RawUpdate(e, s, FALSE) \in Range(flat)
  <2>1. StopOutcome(e, s) \in Range(all) BY <1>6, <1>14, OutcomesOf
  <2>2. StopOutcome(e, s).why = "kept" /\ StopOutcome(e, s).update = RawUpdate(e, s, FALSE)
    BY <1>14 DEF StopOutcome
  <2> QED BY <1>9, <2>1, <2>2
<1>. HIDE DEF U
<1> QED BY <1>10, <1>11, <1>12, <1>13, <1>14

-----------------------------------------------------------------------------
(* Dates and widths.                                                       *)

(* The newest of a day and the one before.                                 *)
LEMMA NewestIn ==
  ASSUME NEW a \in Int, NEW S, S \subseteq {a, a - 1}, S # {} PROVE Newest(S) \in S
<1>1. CASE a \in S
  <2>1. \A e \in S : e <= a OBVIOUS
  <2> QED BY <1>1, <2>1 DEF Newest
<1>2. CASE a \notin S
  <2>1. S = {a - 1} BY <1>2
  <2> QED BY <2>1 DEF Newest
<1> QED BY <1>1, <1>2

\* An update with a date that is one, at a poll of the days looked at.
Ready(u) ==
  /\ feed.header_ts \in Instant /\ using \in Timetables \cup {None}
  /\ UpdateTyped(u) /\ u.start # BadDate

(* The date of an observation is one of its update's candidates.           *)
LEMMA Picked ==
  ASSUME NEW u, Ready(u)
  PROVE  /\ candidates(u) \subseteq Day
         /\ Newest(candidates(u)) \in candidates(u)
         /\ \A ref, scheduled : pickDate(u, ref, scheduled) \in candidates(u)
<1>1. \E a \in Int : candidates(u) \subseteq {a, a - 1} /\ candidates(u) # {} /\ candidates(u) \subseteq Day
  <2>1. CASE u.start = None
    <3>. DEFINE t == feed.header_ts
                o == Owner(t)
    <3>1. t \in Instant BY DEF Ready
    <3>2. o \in FirstDay - 1 .. LastDay + 1 BY <3>1, Owners
    <3>3. o \in Int /\ o \in Day /\ o - 1 \in Day BY <3>2, Zone DEF Day
    <3>4. candidates(u) = {o, o - 1} \/ candidates(u) = {o}
      BY <2>1 DEF candidates, CandidateServiceDates
    <3>. HIDE DEF o
    <3> QED BY <3>3, <3>4
  <2>2. CASE u.start # None
    <3>1. u.start \in Day /\ u.start \in Int BY <2>2, Zone DEF Ready, UpdateTyped, Day
    <3>2. candidates(u) = {u.start} BY <2>2 DEF candidates
    <3> QED BY <3>1, <3>2
  <2> QED BY <2>1, <2>2
<1>2. PICK a \in Int : candidates(u) \subseteq {a, a - 1} /\ candidates(u) # {} BY <1>1
<1>3. \A S : S \subseteq candidates(u) /\ S # {} => Newest(S) \in candidates(u)
  <2>1. ASSUME NEW S, S \subseteq candidates(u), S # {} PROVE Newest(S) \in candidates(u)
    <3>1. S \subseteq {a, a - 1} BY <1>2, <2>1
    <3>2. Newest(S) \in S BY <1>2, <2>1, <3>1, NewestIn
    <3> QED BY <2>1, <3>2
  <2> QED BY <2>1
<1>4. ASSUME NEW ref, NEW scheduled PROVE pickDate(u, ref, scheduled) \in candidates(u)
  <2>1. \A service, sp : PickDate(service, candidates(u), sp, ref) \in candidates(u)
    BY <1>2, <1>3 DEF PickDate
  <2> QED BY <2>1 DEF pickDate
<1> QED BY <1>1, <1>2, <1>3, <1>4

(* A delay is cut to its width, by a multiple of it.                       *)
LEMMA Cut ==
  ASSUME NEW n \in Int
  PROVE  Int32(n) \in Delay /\ \E q \in Int : Int32(n) = n - IntRange * q
<1>. DEFINE h == IntRange \div 2
            m == n + h
<1>1. IntRange \in Nat /\ IntRange > 0 /\ h \in Nat /\ IntRange = 2 * h BY Widths
<1>2. Int32(n) = (m % IntRange) - h BY DEF Int32
<1>. HIDE DEF h
<1>3. m \in Int BY <1>1
<1>. HIDE DEF m
<1>4. m % IntRange \in 0 .. IntRange - 1 BY <1>1, <1>3
<1>5. PICK q \in Int : m = IntRange * q + (m % IntRange) BY <1>1, <1>3, SMT
<1>6. IntRange * q \in Int BY <1>1, <1>5
<1>7. Int32(n) \in Delay
  <2>1. Delay = -h .. h - 1 BY DEF Delay, h
  <2> QED BY <1>1, <1>2, <1>4, <2>1
<1>8. Int32(n) = n - IntRange * q
  <2>. DEFINE p == IntRange * q
  <2>1. p \in Int BY <1>6
  <2>2. m = p + (m % IntRange) BY <1>5
  <2>. HIDE DEF p
  <2>3. Int32(n) = n - p
    <3>. DEFINE r == m % IntRange
    <3>1. m = n + h BY DEF m
    <3>2. r \in Int /\ h \in Int /\ m = p + r /\ Int32(n) = r - h BY <1>1, <1>2, <1>4, <2>2
    <3>. HIDE DEF r
    <3>3. r - h = n - p BY <2>1, <3>1, <3>2
    <3> QED BY <3>2, <3>3
  <2> QED BY <2>3 DEF p
<1> QED BY <1>5, <1>7, <1>8

(* A multiple of the width.                                                *)
LEMMA Multiple ==
  ASSUME NEW q \in Int PROVE (IntRange * q) % IntRange = 0
<1>1. IntRange \in Nat /\ IntRange > 0 BY Widths
<1> QED BY <1>1

(* The scheduled time and the delay that is derived from it add up to the  *)
(* predicted time, to the width of the delay (matcher.go:368-376).         *)
LEMMA AddsUp ==
  ASSUME NEW a \in Int, NEW t \in Int PROVE (a + Int32(t - a) - t) % IntRange = 0
<1>1. t - a \in Int OBVIOUS
<1>2. PICK q \in Int : Int32(t - a) = (t - a) - IntRange * q BY <1>1, Cut
<1>3. IntRange * q \in Int /\ IntRange * (-q) \in Int /\ -q \in Int /\ IntRange * (-q) = -(IntRange * q)
  BY Widths
<1>4. a + Int32(t - a) - t = IntRange * (-q)
  <2>. DEFINE p == IntRange * q
  <2>. HIDE DEF p
  <2>1. p \in Int /\ Int32(t - a) = (t - a) - p /\ IntRange * (-q) = -p BY <1>2, <1>3 DEF p
  <2>2. a + ((t - a) - p) - t = -p BY <2>1
  <2> QED BY <2>1, <2>2
<1> QED BY <1>3, <1>4, Multiple

-----------------------------------------------------------------------------
(* Observations.                                                           *)

(* A cancellation that is carried out, and an update at a stop its trip    *)
(* calls at.                                                               *)
Cancels(u) == u.trip_level /\ u.rel = "CANCELED" /\ u.start # BadDate /\ KnownTrip(u)
Calls(u) == ~u.trip_level /\ u.start # BadDate /\ KnownTrip(u) /\ resolveStop(Trip(u), u) # {}

(* What an observation made for an update holds, and what it says.         *)
RowTyped(o) ==
  /\ o.date \in Day /\ o.stop # ""
  /\ o.direction \in {None, 0, 1}
  /\ o.arr \in {None} \cup Delay /\ o.dep \in {None} \cup Delay /\ o.observed \in {None} \cup Delay
RowMeets(o, u) ==
  o.matched /\ o.dep # None /\ DelayOf(u.dep) = None =>
    (o.scheduled + o.observed - TimeOf(u.dep)) % IntRange = 0
RowOf(o, u) ==
  /\ RowTyped(o) /\ RowMeets(o, u)
  /\ o.version = (IF InUse = None THEN None ELSE InUse.version)
  /\ o.rel = u.rel /\ o.srel = u.srel
  /\ Cancels(u) \/ Calls(u) => o.matched

(* The keys an update that says something by its relationship must reach.  *)
Reaches(u, K) ==
  /\ Cancels(u) => \E d \in candidates(u) : \A st \in Range(Trip(u).stops) : <<d, u.trip, st.stop>> \in K
  /\ Calls(u) => \E d \in candidates(u), i \in resolveStop(Trip(u), u) :
                   <<d, u.trip, Trip(u).stops[i].stop>> \in K

Keys(R) == {Key(o) : o \in R}

\* An update's list of observations.
Produces(u, observations) ==
  /\ observations \in Seq(Range(observations))
  /\ \A o \in Range(observations) : o.from = next /\ RowOf(o, u)
  /\ Reaches(u, Keys(Range(observations)))

(* Lists of one observation, and of none.                                  *)
LEMMA Singles ==
  \A x : Range(<<x>>) = {x} /\ <<x>> \in Seq({x}) /\ Len(<<x>>) = 1 /\ Keys(Range(<<x>>)) = {Key(x)}
BY DEF Range, Keys

(* One observation that fits its update and reaches its key.               *)
LEMMA OneProduced ==
  ASSUME NEW u, NEW o, o.from = next, RowOf(o, u), Reaches(u, {Key(o)})
  PROVE  Produces(u, <<o>>)
<1>. DEFINE s == <<o>>
<1>1. Range(s) = {o} /\ s \in Seq({o}) /\ Keys(Range(s)) = {Key(o)} BY Singles
<1>. HIDE DEF s
<1>2. s \in Seq(Range(s)) BY <1>1
<1>3. \A p \in Range(s) : p.from = next /\ RowOf(p, u) BY <1>1
<1>4. Reaches(u, Keys(Range(s))) BY <1>1
<1>5. Produces(u, s) BY <1>2, <1>3, <1>4 DEF Produces
<1> QED BY <1>5 DEF s

(* What the feed alone says of a stop.                                     *)
LEMMA Based ==
  ASSUME NEW u, Ready(u), NEW d \in Day
  PROVE  LET o == base(u, d)
         IN  /\ o.date = d /\ o.trip = u.trip /\ o.stop = u.stop /\ o.from = next /\ o.rel = u.rel /\ o.srel = u.srel
             /\ o.direction \in {None, 0, 1} /\ o.matched = FALSE
             /\ o.arr = DelayOf(u.arr) /\ o.dep = DelayOf(u.dep)
             /\ o.arr \in {None} \cup Delay /\ o.dep \in {None} \cup Delay
             /\ o.observed \in {None} \cup Delay
             /\ o.version = (IF InUse = None THEN None ELSE InUse.version)
<1>1. DelayOf(u.arr) \in {None} \cup Delay /\ DelayOf(u.dep) \in {None} \cup Delay
  BY DEF Ready, UpdateTyped, EventTyped, DelayOf
<1>2. observed(DelayOf(u.arr), DelayOf(u.dep)) \in {None} \cup Delay BY <1>1 DEF observed
<1> QED BY <1>1, <1>2 DEF base

(* What is published of a trip.                                            *)
LEMMA TripTyped ==
  ASSUME NEW u, Ready(u), KnownTrip(u)
  PROVE  /\ Trip(u).direction \in {None, 0, 1}
         /\ Trip(u).stops \in Seq(Range(Trip(u).stops))
         /\ \A st \in Range(Trip(u).stops) :
              st.stop # "" /\ st.arr \in Nat \cup {NoTime} /\ st.dep \in Nat \cup {NoTime}
BY Published DEF Ready, KnownTrip, Trip, InUse, Range

(* Each kind of update yields observations that fit it.                    *)
LEMMA WithoutTripProduces ==
  ASSUME NEW u, Ready(u), ~KnownTrip(u), u.stop # ""
  PROVE  Produces(u, <<base(u, Newest(candidates(u)))>>)
<1>. DEFINE o == base(u, Newest(candidates(u)))
<1>1. Newest(candidates(u)) \in Day BY Picked
<1>2. o.from = next /\ RowOf(o, u)
  <2>1. o.date \in Day /\ o.stop = u.stop /\ o.from = next /\ o.direction \in {None, 0, 1} /\ o.matched = FALSE
        /\ o.rel = u.rel /\ o.srel = u.srel
        /\ o.arr \in {None} \cup Delay /\ o.dep \in {None} \cup Delay /\ o.observed \in {None} \cup Delay
        /\ o.version = (IF InUse = None THEN None ELSE InUse.version)
    BY <1>1, Based
  <2>. HIDE DEF o
  <2> QED BY <2>1 DEF RowOf, RowTyped, RowMeets, Cancels, Calls
<1>3. Reaches(u, {Key(o)}) BY DEF Reaches, Cancels, Calls
<1>. HIDE DEF o
<1>4. Produces(u, <<o>>) BY <1>2, <1>3, OneProduced
<1> QED BY <1>4 DEF o

(* Of a trip at a stop it does not call at.                                *)
LEMMA TripOnlyProduces ==
  ASSUME NEW u, Ready(u), KnownTrip(u), ~u.trip_level, u.stop # "", resolveStop(Trip(u), u) = {},
         NEW ref
  PROVE  Produces(u, <<matched(base(u, pickDate(u, ref, NoTime)), Trip(u))>>)
<1>. DEFINE b == base(u, pickDate(u, ref, NoTime))
            o == matched(b, Trip(u))
<1>1. pickDate(u, ref, NoTime) \in Day BY Picked
<1>2. o.from = next /\ RowOf(o, u)
  <2>. DEFINE t == Trip(u)
  <2>1. t.direction \in {None, 0, 1} BY TripTyped
  <2>. HIDE DEF t
  <2>2. b.date \in Day /\ b.stop = u.stop /\ b.from = next /\ b.direction \in {None, 0, 1}
        /\ b.arr \in {None} \cup Delay /\ b.dep \in {None} \cup Delay /\ b.observed \in {None} \cup Delay
        /\ b.dep = DelayOf(u.dep) /\ b.rel = u.rel /\ b.srel = u.srel
        /\ b.version = (IF InUse = None THEN None ELSE InUse.version)
    BY <1>1, Based
  <2>3. matched(b, t).date = b.date /\ matched(b, t).stop = b.stop /\ matched(b, t).from = b.from
        /\ matched(b, t).arr = b.arr /\ matched(b, t).dep = b.dep /\ matched(b, t).observed = b.observed
        /\ matched(b, t).version = b.version /\ matched(b, t).rel = b.rel /\ matched(b, t).srel = b.srel
        /\ matched(b, t).direction = IF t.direction # None THEN t.direction ELSE b.direction
    BY DEF matched, base
  <2>. HIDE DEF b
  <2>4. o = matched(b, t) BY DEF t
  <2>. HIDE DEF o
  <2> QED BY <2>1, <2>2, <2>3, <2>4 DEF RowOf, RowTyped, RowMeets, Cancels, Calls
<1>3. Reaches(u, {Key(o)}) BY DEF Reaches, Cancels, Calls
<1>. HIDE DEF o
<1>4. Produces(u, <<o>>) BY <1>2, <1>3, OneProduced
<1> QED BY <1>4 DEF o

(* A row of a trip that is cancelled, or of a stop it calls at.            *)
LEMMA CancelRowFits ==
  ASSUME NEW u, Ready(u), KnownTrip(u), u.rel = "CANCELED", NEW d \in Day, NEW st \in Range(Trip(u).stops),
         NEW o, o = CancelRow(u, d, st)
  PROVE  o.from = next /\ RowOf(o, u) /\ Key(o) = <<d, u.trip, st.stop>>
<1>. DEFINE b == base(u, d)
<1>1. b.date = d /\ b.trip = u.trip /\ b.from = next /\ b.rel = u.rel /\ b.srel = u.srel
      /\ b.direction \in {None, 0, 1}
      /\ b.version = (IF InUse = None THEN None ELSE InUse.version)
  BY Based
<1>2. Trip(u).direction \in {None, 0, 1} /\ st.stop # "" BY TripTyped
<1>3. o.date = b.date /\ o.trip = b.trip /\ o.stop = st.stop /\ o.from = b.from /\ o.rel = b.rel /\ o.srel = b.srel
      /\ o.arr = None /\ o.dep = None /\ o.observed = None /\ o.version = b.version /\ o.matched
      /\ o.direction = IF Trip(u).direction # None THEN Trip(u).direction ELSE b.direction
  BY DEF CancelRow, matched, AtStop, base
<1>. HIDE DEF b
<1> QED BY <1>1, <1>2, <1>3 DEF RowOf, RowTyped, RowMeets, Key

(* Of a trip that is cancelled.                                            *)
LEMMA CancelProduces ==
  ASSUME NEW u, Ready(u), KnownTrip(u), u.trip_level, u.rel = "CANCELED", NEW d, d \in candidates(u),
         NEW rows, rows = [i \in DOMAIN Trip(u).stops |-> CancelRow(u, d, Trip(u).stops[i])]
  PROVE  Produces(u, rows) /\ Len(rows) \in Nat
<1>. DEFINE calls == Trip(u).stops
<1>1. DOMAIN calls = 1..Len(calls) /\ Len(calls) \in Nat
  <2>1. calls \in Seq(Range(calls)) BY TripTyped
  <2>. HIDE DEF calls
  <2> QED BY <2>1
<1>2. DOMAIN rows = DOMAIN calls /\ \A i \in DOMAIN calls : rows[i] = CancelRow(u, d, calls[i])
  BY DEF calls
<1>3. \A i \in DOMAIN calls : calls[i] \in Range(calls) BY DEF Range
<1>4. d \in Day BY Picked
<1>5. \A i \in DOMAIN calls : /\ rows[i].from = next /\ RowOf(rows[i], u)
                              /\ Key(rows[i]) = <<d, u.trip, calls[i].stop>>
  BY <1>2, <1>3, <1>4, CancelRowFits
<1>6. rows \in Seq(Range(rows)) /\ Len(rows) = Len(calls)
  <2>. DEFINE n == Len(calls)
              row(i) == CancelRow(u, d, calls[i])
              R == Range(rows)
  <2>1. rows = [i \in 1..n |-> row(i)] BY <1>1
  <2>2. \A i \in 1..n : row(i) \in R BY <1>1 DEF Range
  <2>3. n \in Nat BY <1>1
  <2>. HIDE DEF n, row, R
  <2>4. rows \in Seq(R) /\ Len(rows) = n BY <2>1, <2>2, <2>3
  <2> QED BY <2>4 DEF R, n
<1>7. \A o \in Range(rows) : o.from = next /\ RowOf(o, u) BY <1>2, <1>5 DEF Range
<1>8. \A st \in Range(calls) : <<d, u.trip, st.stop>> \in Keys(Range(rows))
  <2>1. ASSUME NEW st \in Range(calls) PROVE <<d, u.trip, st.stop>> \in Keys(Range(rows))
    <3>1. PICK i \in DOMAIN calls : st = calls[i] BY DEF Range
    <3>2. rows[i] \in Range(rows) BY <1>2, <3>1 DEF Range
    <3>3. Key(rows[i]) \in Keys(Range(rows)) BY <3>2 DEF Keys
    <3>. HIDE DEF calls
    <3> QED BY <1>5, <3>1, <3>3
  <2> QED BY <2>1
<1>9. Reaches(u, Keys(Range(rows)))
  <2>1. ~Calls(u) BY DEF Calls
  <2> QED BY <1>8, <2>1 DEF Reaches
<1> QED BY <1>1, <1>6, <1>7, <1>9 DEF Produces

(* A delay that was sent is passed on; one derived is of its width, and    *)
(* adds up (matcher.go:368-376).                                           *)
LEMMA Derived ==
  ASSUME NEW e, EventTyped(e), NEW d \in Day, NEW s, s \in Nat \cup {NoTime}
  PROVE  /\ derive(e, d, s) \in {None} \cup Delay
         /\ derive(e, d, s) # None /\ DelayOf(e) = None =>
              /\ s # NoTime
              /\ (AtServiceOffset(d, s) + derive(e, d, s) - TimeOf(e)) % IntRange = 0
<1>1. DelayOf(e) \in {None} \cup Delay /\ TimeOf(e) \in {None} \cup Int
  BY DEF EventTyped, DelayOf, TimeOf
<1>2. CASE DelayOf(e) # None \/ TimeOf(e) = None \/ s = NoTime
  BY <1>1, <1>2 DEF derive
<1>3. CASE DelayOf(e) = None /\ TimeOf(e) # None /\ s # NoTime
  <2>. DEFINE a == AtServiceOffset(d, s)
              t == TimeOf(e)
  <2>1. a \in Int /\ t \in Int BY <1>1, <1>3, Starts DEF AtServiceOffset
  <2>2. derive(e, d, s) = Int32(t - a) BY <1>3 DEF derive, Computed
  <2>. HIDE DEF a, t
  <2>3. t - a \in Int BY <2>1
  <2>4. Int32(t - a) \in Delay /\ (a + Int32(t - a) - t) % IntRange = 0 BY <2>1, <2>3, Cut, AddsUp
  <2> QED BY <1>3, <2>2, <2>4 DEF a, t
<1> QED BY <1>2, <1>3

(* Of a stop that is matched.                                              *)
LEMMA FullMatchProduces ==
  ASSUME NEW u, Ready(u), KnownTrip(u), ~u.trip_level, NEW i \in resolveStop(Trip(u), u),
         NEW d \in candidates(u)
  PROVE  Produces(u, <<StopRow(u, d, Trip(u).stops[i])>>)
<1>. DEFINE st == Trip(u).stops[i]
            b == base(u, d)
            o == StopRow(u, d, st)
            arr == derive(u.arr, d, st.arr)
            dep == derive(u.dep, d, st.dep)
<1>1. d \in Day BY Picked
<1>2. i \in DOMAIN Trip(u).stops BY DEF resolveStop, BySequence, ByStop
<1>3. /\ st.stop # "" /\ st.arr \in Nat \cup {NoTime} /\ st.dep \in Nat \cup {NoTime}
      /\ Trip(u).direction \in {None, 0, 1}
  BY <1>2, TripTyped DEF Range
<1>4. EventTyped(u.arr) /\ EventTyped(u.dep) BY DEF Ready, UpdateTyped
<1>5. b.date = d /\ b.trip = u.trip /\ b.from = next /\ b.rel = u.rel /\ b.srel = u.srel
      /\ b.direction \in {None, 0, 1}
      /\ b.version = (IF InUse = None THEN None ELSE InUse.version)
  BY <1>1, Based
<1>6. o.date = b.date /\ o.trip = b.trip /\ o.stop = st.stop /\ o.from = b.from /\ o.rel = b.rel
      /\ o.srel = b.srel /\ o.matched /\ o.arr = arr /\ o.dep = dep /\ o.observed = observed(arr, dep) /\ o.version = b.version
      /\ o.scheduled = scheduledAt(d, st)
      /\ o.direction = IF Trip(u).direction # None THEN Trip(u).direction ELSE b.direction
  BY DEF StopRow, matched, AtStop, base
<1>. HIDE DEF b, o, st
<1>7. arr \in {None} \cup Delay BY <1>1, <1>3, <1>4, Derived
<1>8. /\ dep \in {None} \cup Delay
      /\ dep # None /\ DelayOf(u.dep) = None =>
           st.dep # NoTime /\ (AtServiceOffset(d, st.dep) + dep - TimeOf(u.dep)) % IntRange = 0
  BY <1>1, <1>3, <1>4, Derived
<1>. HIDE DEF arr, dep
<1>9. RowTyped(o) BY <1>1, <1>3, <1>5, <1>6, <1>7, <1>8 DEF RowTyped, observed
<1>10. RowMeets(o, u)
  <2>1. SUFFICES ASSUME o.dep # None, DelayOf(u.dep) = None
                 PROVE  (o.scheduled + o.observed - TimeOf(u.dep)) % IntRange = 0
    BY DEF RowMeets
  <2>2. st.dep # NoTime /\ o.observed = dep BY <1>6, <1>8, <2>1 DEF observed
  <2>3. o.scheduled = AtServiceOffset(d, st.dep) BY <1>6, <2>2 DEF scheduledAt, ScheduledS
  <2> QED BY <1>6, <1>8, <2>1, <2>2, <2>3
<1>11. ~Cancels(u) BY DEF Cancels
<1>12. o.from = next /\ RowOf(o, u) BY <1>5, <1>6, <1>9, <1>10, <1>11 DEF RowOf
<1>13. Key(o) = <<d, u.trip, st.stop>> BY <1>5, <1>6 DEF Key
<1>14. Reaches(u, {Key(o)}) BY <1>11, <1>13 DEF Reaches, st
<1> QED BY <1>12, <1>14, OneProduced DEF o, st

-----------------------------------------------------------------------------
(* The inductive invariant.                                                *)

\* Where the poll is.  A feed is the message decoded and does not change while
\* it is matched; nor does the timetable in use.
Phases ==
  /\ held \in Timetables \cup {None} /\ using \in Timetables \cup {None}
  /\ at \in {"idle", "matching", "matched"}
  /\ at = "idle" => feed = NoFeed /\ out = <<>> /\ said = <<>> /\ counts = Zero
  /\ at # "idle" => message \in Messages /\ feed = Decode(message)
  /\ at # "matched" => last = None
  /\ at = "matched" => last = counts /\ Len(said) = Len(feed.updates)
\* One step of the loop is one entry of said.
Logs ==
  /\ out \in Seq(Range(out)) /\ said \in Seq(Range(said)) /\ next = Len(said) + 1
  /\ Len(said) <= Len(feed.updates)
  /\ counts \in [Counter -> Nat]
\* Each observation fits the update it is from, and that update said its key.
RowsFit ==
  \A o \in Range(out) :
    o.from \in 1 .. Len(said) /\ Key(o) \in said[o.from] /\ RowOf(o, feed.updates[o.from])
\* A key that was said stays, in one observation, by that update or a later one.
WordsKept ==
  /\ Once(out)
  /\ \A j \in DOMAIN said : \A k \in said[j] : \E o \in Range(out) : Key(o) = k /\ o.from >= j
  /\ \A j \in DOMAIN said : Reaches(feed.updates[j], said[j])
\* The counters come to the updates so far and to the observations made.
Tallied ==
  /\ Len(said) = Observed(counts) + Unobserved(counts) + Cardinality(Cancelled)
  /\ Len(out) + counts["Duplicates"] = Observed(counts) + counts["CancelledStops"]
  /\ counts["BySequence"] <= counts["FullMatch"] /\ counts["AmbiguousStop"] <= counts["TripOnly"]

MatchInv == Phases /\ Logs /\ RowsFit /\ WordsKept /\ Tallied

(* A sequence is one of its own elements.                                  *)
LEMMA SeqRange == ASSUME NEW T, NEW s \in Seq(T) PROVE s \in Seq(Range(s)) /\ Range(s) \subseteq T
<1>. DEFINE R == Range(s)
            n == Len(s)
<1>1. n \in Nat /\ s = [i \in 1..n |-> s[i]] OBVIOUS
<1>2. \A i \in 1..n : s[i] \in R /\ s[i] \in T BY DEF Range
<1>3. R \subseteq T BY <1>2 DEF Range
<1>. HIDE DEF R, n
<1>4. s \in Seq(R) BY <1>1, <1>2
<1> QED BY <1>3, <1>4 DEF R

(* What appending leaves.                                                  *)
LEMMA RangeOfAppend ==
  ASSUME NEW s, s \in Seq(Range(s)), NEW x
  PROVE  /\ Append(s, x) \in Seq(Range(Append(s, x)))
         /\ Len(Append(s, x)) = Len(s) + 1
         /\ DOMAIN Append(s, x) = DOMAIN s \cup {Len(s) + 1}
         /\ \A i \in DOMAIN s : Append(s, x)[i] = s[i] /\ i # Len(s) + 1
         /\ Append(s, x)[Len(s) + 1] = x
<1>. DEFINE T == Range(s) \cup {x}
<1>1. s \in Seq(T) /\ x \in T OBVIOUS
<1>. HIDE DEF T
<1>2. Append(s, x) \in Seq(T) BY <1>1
<1>3. Append(s, x) \in Seq(Range(Append(s, x))) BY <1>2, SeqRange
<1> QED BY <1>1, <1>3

\* What the counters of an update come to.
One(c, bumped) == IF c \in bumped THEN 1 ELSE 0
Bumps(u, n, bumped) ==
  /\ 1 = One("FullMatch", bumped) + One("TripOnly", bumped) + One("UnknownTrip", bumped)
           + One("Added", bumped) + One("NoSchedule", bumped) + One("NoStopID", bumped)
           + One("BadStartDate", bumped) + One("TripLevelSkipped", bumped)
           + (IF Cancels(u) THEN 1 ELSE 0)
  /\ n = One("FullMatch", bumped) + One("TripOnly", bumped) + One("UnknownTrip", bumped)
           + One("Added", bumped) + One("NoSchedule", bumped) + (IF u.trip_level THEN n ELSE 0)
  /\ One("BySequence", bumped) <= One("FullMatch", bumped)
  /\ One("AmbiguousStop", bumped) <= One("TripOnly", bumped)

(* One update taken is one entry of said, and its observations are among   *)
(* the batch's, which holds no other that it did not.                      *)
LEMMA DoneLogs ==
  ASSUME MatchInv, NEW u, Taken(u), NEW obs, Produces(u, obs), NEW bumped, Done(u, obs, bumped)
  PROVE  /\ Phases' /\ Logs'
         /\ Len(out') \in Nat /\ Len(obs) \in Nat /\ Len(out) \in Nat /\ Len(out') <= Len(out) + Len(obs)
         /\ Range(out') \subseteq Range(out) \cup Range(obs)
         /\ \A o \in Range(obs) : \E q \in Range(out') : Key(q) = Key(o)
         /\ \A p \in Range(out'), o \in Range(obs) : Key(p) = Key(o) => p \in Range(obs)
         /\ \A p \in Range(out) : \E q \in Range(out') : Key(q) = Key(p)
         /\ Once(out')
         /\ said' \in Seq(Range(said')) /\ Len(said') = Len(said) + 1 /\ next = Len(said) + 1
         /\ DOMAIN said' = DOMAIN said \cup {next} /\ Len(said) \in Nat /\ DOMAIN said = 1 .. Len(said)
         /\ \A i \in DOMAIN said : said'[i] = said[i] /\ i # next
         /\ said'[next] = Keys(Range(obs)) /\ feed.updates[next] = u
<1>. DEFINE T == Range(out) \cup Range(obs)
<1>1. /\ out \in Seq(Range(out)) /\ said \in Seq(Range(said)) /\ next = Len(said) + 1
      /\ counts \in [Counter -> Nat] /\ Once(out)
  BY DEF MatchInv, Logs, WordsKept
<1>2. obs \in Seq(Range(obs)) BY DEF Produces
<1>3. out \in Seq(T) /\ obs \in Seq(T) BY <1>1, <1>2
<1>4. out' = FoldLeft(add, out, obs) BY DEF Done
<1>. HIDE DEF T
<1>5. /\ out' \in Seq(T)
      /\ Len(out') <= Len(out) + Len(obs)
      /\ Range(out') \subseteq Range(out) \cup Range(obs)
      /\ \A o \in Range(obs) : \E q \in Range(out') : Key(q) = Key(o)
      /\ \A p \in Range(out'), o \in Range(obs) : Key(p) = Key(o) => p \in Range(obs)
      /\ \A p \in Range(out) : \E q \in Range(out') : Key(q) = Key(p)
      /\ Once(out')
  <2>1. /\ FoldLeft(add, out, obs) \in Seq(T)
        /\ Len(FoldLeft(add, out, obs)) <= Len(out) + Len(obs)
        /\ Range(FoldLeft(add, out, obs)) \subseteq Range(out) \cup Range(obs)
        /\ \A o \in Range(obs) : \E q \in Range(FoldLeft(add, out, obs)) : Key(q) = Key(o)
        /\ \A p \in Range(FoldLeft(add, out, obs)), o \in Range(obs) : Key(p) = Key(o) => p \in Range(obs)
        /\ \A p \in Range(out) : \E q \in Range(FoldLeft(add, out, obs)) : Key(q) = Key(p)
        /\ Once(FoldLeft(add, out, obs))
    BY <1>1, <1>3, AddAll
  <2> QED BY <1>4, <2>1
<1>6. said' = Append(said, Keys(Range(obs))) BY DEF Done, Keys
<1>7. /\ said' \in Seq(Range(said')) /\ Len(said') = Len(said) + 1
      /\ DOMAIN said' = DOMAIN said \cup {next}
      /\ \A i \in DOMAIN said : said'[i] = said[i] /\ i # next
      /\ said'[next] = Keys(Range(obs))
  BY <1>1, <1>6, RangeOfAppend
<1>8. /\ at = "matching" /\ next <= Len(feed.updates) /\ u = feed.updates[next] /\ next' = next + 1
      /\ UNCHANGED <<held, using, at, feed, message, last>>
  BY DEF Taken, Done
<1>9. Len(out') \in Nat /\ Len(out) \in Nat /\ Len(obs) \in Nat /\ Len(said) \in Nat /\ DOMAIN said = 1 .. Len(said)
  BY <1>1, <1>2, <1>5
<1>10. counts' \in [Counter -> Nat]
  <2>1. Len(out) + Len(obs) - Len(out') \in Nat BY <1>5, <1>9
  <2>. DEFINE dup == Len(out) + Len(obs) - Len(out')
              n == Len(obs)
  <2>2. n \in Nat /\ dup \in Nat BY <1>9, <2>1
  <2>3. counts' = [c \in Counter |->
          counts[c] + CASE c = "CancelledStops" -> IF u.trip_level THEN n ELSE 0
                        [] c = "Duplicates" -> dup
                        [] c = "UnknownStop" -> IF UnknownStop(u) THEN 1 ELSE 0
                        [] OTHER -> IF c \in bumped THEN 1 ELSE 0]
    BY DEF Done
  <2>. HIDE DEF n, dup
  <2>4. \A c \in Counter : counts[c] \in Nat BY <1>1
  <2> QED BY <2>2, <2>3, <2>4
<1>11. Phases' BY <1>8 DEF MatchInv, Phases, InUse
<1>12. out' \in Seq(Range(out')) BY <1>5, SeqRange
<1>13. Logs' BY <1>1, <1>7, <1>8, <1>10, <1>12 DEF Logs
<1> QED BY <1>1, <1>5, <1>7, <1>8, <1>9, <1>11, <1>13

(* The rows keep fitting their updates, and the words are kept.            *)
LEMMA DoneWords ==
  ASSUME MatchInv, NEW u, Taken(u), NEW obs, Produces(u, obs), NEW bumped, Done(u, obs, bumped)
  PROVE  RowsFit' /\ WordsKept'
<1>1. using' = using /\ feed' = feed BY DEF Done
<1>2. \A o, v : RowOf(o, v)' <=> RowOf(o, v)
  BY <1>1 DEF RowOf, RowTyped, RowMeets, Cancels, Calls, KnownTrip, Trip, resolveStop, BySequence, ByStop, InUse
<1>3. \A v, K : Reaches(v, K)' <=> Reaches(v, K)
  BY <1>1 DEF Reaches, Cancels, Calls, KnownTrip, InUse, Trip, candidates
<1>4. /\ Range(out') \subseteq Range(out) \cup Range(obs)
      /\ \A o \in Range(obs) : \E q \in Range(out') : Key(q) = Key(o)
      /\ \A p \in Range(out'), o \in Range(obs) : Key(p) = Key(o) => p \in Range(obs)
      /\ \A p \in Range(out) : \E q \in Range(out') : Key(q) = Key(p)
      /\ Once(out')
      /\ Len(said') = Len(said) + 1 /\ next = Len(said) + 1 /\ Len(said) \in Nat
      /\ DOMAIN said' = DOMAIN said \cup {next} /\ DOMAIN said = 1 .. Len(said)
      /\ \A i \in DOMAIN said : said'[i] = said[i] /\ i # next
      /\ said'[next] = Keys(Range(obs)) /\ feed.updates[next] = u
  BY DoneLogs
<1>5. \A o \in Range(obs) : o.from = next /\ RowOf(o, u) BY DEF Produces
<1>6. \A o \in Range(out) : o.from \in 1 .. Len(said) /\ Key(o) \in said[o.from] /\ RowOf(o, feed.updates[o.from])
  BY DEF MatchInv, RowsFit
<1>7. RowsFit'
  <2>1. ASSUME NEW o \in Range(out')
        PROVE  o.from \in 1 .. Len(said') /\ Key(o) \in said'[o.from] /\ RowOf(o, feed.updates[o.from])'
    <3>1. CASE o \in Range(out)
      <4>1. o.from \in DOMAIN said /\ o.from \in 1 .. Len(said') BY <1>4, <1>6, <3>1
      <4> QED BY <1>1, <1>2, <1>4, <1>6, <3>1, <4>1
    <3>2. CASE o \in Range(obs)
      <4>1. o.from = next /\ next \in 1 .. Len(said') BY <1>4, <1>5, <3>2
      <4>2. Key(o) \in said'[next] BY <1>4, <3>2 DEF Keys
      <4> QED BY <1>1, <1>2, <1>4, <1>5, <3>2, <4>1, <4>2
    <3> QED BY <1>4, <2>1, <3>1, <3>2
  <2> QED BY <2>1 DEF RowsFit
<1>8. ASSUME NEW j \in DOMAIN said', NEW k \in said'[j]
      PROVE  \E o \in Range(out') : Key(o) = k /\ o.from >= j
  <2>1. CASE j = next
    <3>1. PICK o \in Range(obs) : Key(o) = k BY <1>4, <2>1, <1>8 DEF Keys
    <3>2. PICK q \in Range(out') : Key(q) = Key(o) BY <1>4, <3>1
    <3>3. q \in Range(obs) BY <1>4, <3>1, <3>2
    <3>4. q.from = next BY <1>5, <3>3
    <3> QED BY <1>4, <2>1, <3>1, <3>2, <3>4
  <2>2. CASE j # next
    <3>1. j \in DOMAIN said /\ k \in said[j] BY <1>4, <1>8, <2>2
    <3>2. PICK o \in Range(out) : Key(o) = k /\ o.from >= j BY <3>1 DEF MatchInv, WordsKept
    <3>3. PICK q \in Range(out') : Key(q) = Key(o) BY <1>4, <3>2
    <3>4. CASE q \in Range(obs)
      <4>1. q.from = next /\ next >= j BY <1>4, <1>5, <3>1, <3>4
      <4> QED BY <3>2, <3>3, <4>1
    <3>5. CASE q \in Range(out)
      <4>1. q = o BY <3>2, <3>3, <3>5 DEF MatchInv, WordsKept, Once, Range
      <4> QED BY <3>2, <3>3, <4>1
    <3> QED BY <1>4, <3>3, <3>4, <3>5
  <2> QED BY <2>1, <2>2
<1>9. ASSUME NEW j \in DOMAIN said' PROVE Reaches(feed.updates[j], said[j])'
  <2>1. CASE j = next
    <3>1. Reaches(u, Keys(Range(obs))) BY DEF Produces
    <3> QED BY <1>1, <1>3, <1>4, <2>1, <3>1
  <2>2. CASE j # next
    <3>1. j \in DOMAIN said /\ said'[j] = said[j] BY <1>4, <1>9, <2>2
    <3>2. Reaches(feed.updates[j], said[j]) BY <3>1 DEF MatchInv, WordsKept
    <3> QED BY <1>1, <1>3, <3>1, <3>2
  <2> QED BY <2>1, <2>2
<1> QED BY <1>4, <1>7, <1>8, <1>9 DEF WordsKept

(* The cancellations carried out so far can be counted.                    *)
LEMMA CancelledFinite ==
  ASSUME said \in Seq(Range(said))
  PROVE  IsFiniteSet(Cancelled) /\ Cardinality(Cancelled) \in Nat
<1>1. IsFiniteSet(DOMAIN said)
  <2>1. DOMAIN said = 1 .. Len(said) /\ Len(said) \in Nat OBVIOUS
  <2> QED BY <2>1, FS_Interval
<1>2. Cancelled \subseteq DOMAIN said BY DEF Cancelled
<1>3. IsFiniteSet(Cancelled) BY <1>1, <1>2, FS_Subset
<1> QED BY <1>3, FS_CardinalityType

(* The counters go up by what the update was.                              *)
LEMMA DoneTallied ==
  ASSUME MatchInv, NEW u, Taken(u), NEW obs, Produces(u, obs), NEW bumped, Done(u, obs, bumped),
         Bumps(u, Len(obs), bumped)
  PROVE  Tallied'
<1>. DEFINE n == Len(obs)
            old == Len(out)
            cs == counts'
            len == Len(said')
            new == Len(out')
            b(c) == One(c, bumped)
            can == Cardinality(Cancelled)
            one == IF Cancels(u) THEN 1 ELSE 0
            stops == IF u.trip_level THEN n ELSE 0
<1>1. /\ n \in Nat /\ old \in Nat /\ new \in Nat
      /\ Len(said') = Len(said) + 1 /\ next = Len(said) + 1 /\ Len(said) \in Nat
      /\ DOMAIN said' = DOMAIN said \cup {next} /\ DOMAIN said = 1 .. Len(said)
      /\ feed.updates[next] = u
  BY DoneLogs
<1>2. using' = using /\ feed' = feed BY DEF Done
<1>3. said \in Seq(Range(said)) /\ counts \in [Counter -> Nat] BY DEF MatchInv, Logs
<1>4. \A c \in Counter \ {"CancelledStops", "Duplicates", "UnknownStop"} : cs[c] = counts[c] + b(c)
  BY DEF Done, One
<1>5. /\ cs["CancelledStops"] = counts["CancelledStops"] + stops
      /\ cs["Duplicates"] = counts["Duplicates"] + (old + n - new)
  <2>1. "CancelledStops" \in Counter /\ "Duplicates" \in Counter BY DEF Counter
  <2> QED BY <2>1 DEF Done
<1>6. Cardinality(Cancelled') = can + one
  <2>1. Cancelled = {j \in DOMAIN said : Cancels(feed.updates[j])} BY DEF Cancelled, Cancels
  <2>2. Cancelled' = {j \in DOMAIN said' : Cancels(feed.updates[j])'} BY DEF Cancelled, Cancels
  <2>3. \A v : Cancels(v)' <=> Cancels(v) BY <1>2 DEF Cancels, KnownTrip, InUse
  <2>4. next \notin DOMAIN said BY <1>1
  <2>5. IsFiniteSet(Cancelled) /\ can \in Nat /\ next \notin Cancelled
    BY <1>3, <2>1, <2>4, CancelledFinite
  <2>6. CASE Cancels(u)
    <3>1. Cancelled' = Cancelled \cup {next} BY <1>1, <1>2, <2>1, <2>2, <2>3, <2>6
    <3>2. Cardinality(Cancelled \cup {next}) = can + 1 BY <2>5, FS_AddElement
    <3> QED BY <2>6, <3>1, <3>2
  <2>7. CASE ~Cancels(u)
    <3>1. Cancelled' = Cancelled BY <1>1, <1>2, <2>1, <2>2, <2>3, <2>7
    <3> QED BY <2>5, <2>7, <3>1
  <2> QED BY <2>6, <2>7
<1>7. can \in Nat BY <1>3, CancelledFinite
<1>8. one \in Nat /\ stops \in Nat /\ \A c : b(c) \in Nat BY <1>1 DEF One
<1>9. /\ 1 = b("FullMatch") + b("TripOnly") + b("UnknownTrip") + b("Added") + b("NoSchedule") + b("NoStopID")
             + b("BadStartDate") + b("TripLevelSkipped") + one
      /\ n = b("FullMatch") + b("TripOnly") + b("UnknownTrip") + b("Added") + b("NoSchedule") + stops
      /\ b("BySequence") <= b("FullMatch") /\ b("AmbiguousStop") <= b("TripOnly")
  BY DEF Bumps
<1>10. /\ Len(said) = Observed(counts) + Unobserved(counts) + can
       /\ old + counts["Duplicates"] = Observed(counts) + counts["CancelledStops"]
       /\ counts["BySequence"] <= counts["FullMatch"] /\ counts["AmbiguousStop"] <= counts["TripOnly"]
  BY DEF MatchInv, Tallied
<1>11. \A c \in Counter : counts[c] \in Nat BY <1>3
<1>12. \A c \in {"Duplicates", "CancelledStops"} : counts[c] \in Nat BY <1>11 DEF Counter
<1>13. \A c \in {"FullMatch", "TripOnly", "UnknownTrip", "Added", "NoSchedule", "NoStopID",
                 "BadStartDate", "TripLevelSkipped", "BySequence", "AmbiguousStop"} :
        cs[c] = counts[c] + b(c) /\ counts[c] \in Nat /\ b(c) \in Nat
  BY <1>4, <1>8, <1>11 DEF Counter
<1>. DEFINE nowCan == Cardinality(Cancelled')
            was == Len(said)
<1>14. len = was + 1 /\ was \in Nat /\ nowCan = can + one BY <1>1, <1>6
<1>15. was = Observed(counts) + Unobserved(counts) + can BY <1>10
<1>. HIDE DEF n, old, new, b, can, one, stops, cs, len, nowCan, was
<1>16. /\ counts["FullMatch"] \in Nat /\ counts["TripOnly"] \in Nat /\ counts["UnknownTrip"] \in Nat
      /\ counts["Added"] \in Nat /\ counts["NoSchedule"] \in Nat /\ counts["NoStopID"] \in Nat
      /\ counts["BadStartDate"] \in Nat /\ counts["TripLevelSkipped"] \in Nat /\ counts["BySequence"] \in Nat
      /\ counts["AmbiguousStop"] \in Nat
  BY <1>13
<1>17. /\ b("FullMatch") \in Nat /\ b("TripOnly") \in Nat /\ b("UnknownTrip") \in Nat
      /\ b("Added") \in Nat /\ b("NoSchedule") \in Nat
      /\ b("NoStopID") \in Nat /\ b("BadStartDate") \in Nat /\ b("TripLevelSkipped") \in Nat
      /\ b("BySequence") \in Nat /\ b("AmbiguousStop") \in Nat
  BY <1>13
<1>18. /\ cs["FullMatch"] = counts["FullMatch"] + b("FullMatch") /\ cs["TripOnly"] = counts["TripOnly"] + b("TripOnly")
      /\ cs["UnknownTrip"] = counts["UnknownTrip"] + b("UnknownTrip") /\ cs["Added"] = counts["Added"] + b("Added")
      /\ cs["NoSchedule"] = counts["NoSchedule"] + b("NoSchedule") /\ cs["NoStopID"] = counts["NoStopID"] + b("NoStopID")
      /\ cs["BadStartDate"] = counts["BadStartDate"] + b("BadStartDate")
      /\ cs["TripLevelSkipped"] = counts["TripLevelSkipped"] + b("TripLevelSkipped")
      /\ cs["BySequence"] = counts["BySequence"] + b("BySequence")
      /\ cs["AmbiguousStop"] = counts["AmbiguousStop"] + b("AmbiguousStop")
  BY <1>13
<1>19. Observed(cs) = Observed(counts) + b("FullMatch") + b("TripOnly") + b("UnknownTrip") + b("Added") + b("NoSchedule")
  BY ONLY <1>16, <1>17, <1>18 DEF Observed
<1>20. Unobserved(cs) = Unobserved(counts) + b("NoStopID") + b("BadStartDate") + b("TripLevelSkipped")
  BY ONLY <1>16, <1>17, <1>18 DEF Unobserved
<1>21. Observed(counts) \in Nat /\ Unobserved(counts) \in Nat
  BY ONLY <1>16, <1>17, <1>18 DEF Observed, Unobserved
<1>22. len = Observed(cs) + Unobserved(cs) + nowCan
  BY ONLY <1>14, <1>15, <1>16, <1>17, <1>18, <1>7, <1>8, <1>9, <1>19, <1>20, <1>21
<1>23. new + cs["Duplicates"] = Observed(cs) + cs["CancelledStops"]
  <2>1. n \in Nat /\ old \in Nat /\ new \in Nat /\ stops \in Nat BY <1>1, <1>8
  <2>2. n = b("FullMatch") + b("TripOnly") + b("UnknownTrip") + b("Added") + b("NoSchedule") + stops
    BY <1>9
  <2>3. old + counts["Duplicates"] = Observed(counts) + counts["CancelledStops"] BY <1>10
  <2>4. counts["Duplicates"] \in Nat /\ counts["CancelledStops"] \in Nat BY <1>12
  <2>5. /\ cs["CancelledStops"] = counts["CancelledStops"] + stops
        /\ cs["Duplicates"] = counts["Duplicates"] + (old + n - new)
    BY <1>5
  <2>. DEFINE f == b("FullMatch") + b("TripOnly") + b("UnknownTrip") + b("Added") + b("NoSchedule")
              oc == Observed(counts)
              nc == Observed(cs)
              dup == counts["Duplicates"]
              stopped == counts["CancelledStops"]
  <2>6. f \in Nat /\ nc = oc + f BY ONLY <1>19, <1>21, <1>17
  <2>7. n = f + stops /\ oc \in Nat /\ dup \in Nat /\ stopped \in Nat BY <1>21, <2>2, <2>4
  <2>8. old + dup = oc + stopped BY <2>3
  <2>9. cs["CancelledStops"] = stopped + stops /\ cs["Duplicates"] = dup + (old + n - new) BY <2>5
  <2>. HIDE DEF f, oc, nc, dup, stopped
  <2>10. new + (dup + (old + n - new)) = nc + (stopped + stops) BY ONLY <2>1, <2>6, <2>7, <2>8
  <2> QED BY <2>9, <2>10 DEF nc
<1>24. cs["BySequence"] <= cs["FullMatch"] /\ cs["AmbiguousStop"] <= cs["TripOnly"]
  <2>1. b("BySequence") <= b("FullMatch") /\ b("AmbiguousStop") <= b("TripOnly") BY <1>9
  <2>2. counts["BySequence"] <= counts["FullMatch"] /\ counts["AmbiguousStop"] <= counts["TripOnly"] BY <1>10
  <2> QED BY ONLY <1>16, <1>17, <1>18, <2>1, <2>2
<1> QED BY <1>22, <1>23, <1>24 DEF Tallied, new, nowCan, cs, len

(* Each action makes such a list, and counts it once.                      *)
LEMMA EmptyProduced ==
  ASSUME NEW u, ~Cancels(u), ~Calls(u) PROVE Produces(u, <<>>)
BY DEF Produces, Reaches, Range

(* An update that is passed over.                                          *)
LEMMA SkipCounted ==
  ASSUME NEW u, Skip(u)
  PROVE  \E bumped : Done(u, <<>>, bumped) /\ Bumps(u, 0, bumped) /\ Produces(u, <<>>)
<1>1. CASE u.start = BadDate /\ Done(u, <<>>, {"BadStartDate"})
  <2>1. ~Cancels(u) /\ ~Calls(u) BY <1>1 DEF Cancels, Calls
  <2>2. Bumps(u, 0, {"BadStartDate"}) BY <2>1 DEF Bumps, One
  <2> QED BY <1>1, <2>1, <2>2, EmptyProduced
<1>2. CASE u.start # BadDate /\ u.trip_level /\ (~KnownTrip(u) \/ u.rel # "CANCELED")
           /\ Done(u, <<>>, {"TripLevelSkipped"})
  <2>1. ~Cancels(u) /\ ~Calls(u) BY <1>2 DEF Cancels, Calls
  <2>2. Bumps(u, 0, {"TripLevelSkipped"}) BY <2>1 DEF Bumps, One
  <2> QED BY <1>2, <2>1, <2>2, EmptyProduced
<1>3. CASE u.start # BadDate /\ ~u.trip_level /\ (KnownTrip(u) => resolveStop(Trip(u), u) = {})
           /\ Done(u, <<>>, {"NoStopID"})
  <2>1. ~Cancels(u) /\ ~Calls(u) BY <1>3 DEF Cancels, Calls
  <2>2. Bumps(u, 0, {"NoStopID"}) BY <2>1 DEF Bumps, One
  <2> QED BY <1>3, <2>1, <2>2, EmptyProduced
<1> QED BY <1>1, <1>2, <1>3 DEF Skip

(* One counter for one observation.                                        *)
LEMMA WithoutTripCounted ==
  ASSUME NEW u, ~KnownTrip(u), ~u.trip_level,
         NEW name \in {"NoSchedule", "Added", "UnknownTrip"}
  PROVE  Bumps(u, 1, {name})
<1>1. ~Cancels(u) BY DEF Cancels
<1>2. CASE name = "NoSchedule" BY <1>1, <1>2 DEF Bumps, One
<1>3. CASE name = "Added" BY <1>1, <1>3 DEF Bumps, One
<1>4. CASE name = "UnknownTrip" BY <1>1, <1>4 DEF Bumps, One
<1> QED BY <1>2, <1>3, <1>4

(* One counter, and others that go with it.                                *)
LEMMA MatchCounted ==
  ASSUME NEW u, ~u.trip_level, NEW name, NEW with, NEW bumped, bumped = {name} \cup with,
         \/ name = "TripOnly" /\ with \subseteq {"AmbiguousStop"}
         \/ name = "FullMatch" /\ with \subseteq {"BySequence", "DelayDisagreements"}
  PROVE  Bumps(u, 1, bumped)
<1>1. ~Cancels(u) BY DEF Cancels
<1>2. \A c \in {"UnknownTrip", "Added", "NoSchedule", "NoStopID", "BadStartDate", "TripLevelSkipped"} :
        One(c, bumped) = 0
  BY DEF One
<1>3. One("FullMatch", bumped) + One("TripOnly", bumped) = 1 
  <2>1. CASE name = "TripOnly" /\ with \subseteq {"AmbiguousStop"}
    <3>1. "TripOnly" \in bumped /\ "FullMatch" \notin bumped BY <2>1
    <3> QED BY <3>1 DEF One
  <2>2. CASE name = "FullMatch" /\ with \subseteq {"BySequence", "DelayDisagreements"}
    <3>1. "FullMatch" \in bumped /\ "TripOnly" \notin bumped BY <2>2
    <3> QED BY <3>1 DEF One
  <2> QED BY <2>1, <2>2
<1>4. ("BySequence" \in bumped => "FullMatch" \in bumped) /\ ("AmbiguousStop" \in bumped => "TripOnly" \in bumped)
  OBVIOUS
<1>5. /\ One("BySequence", bumped) <= One("FullMatch", bumped)
      /\ One("AmbiguousStop", bumped) <= One("TripOnly", bumped)
  BY <1>4 DEF One
<1>6. \A c : One(c, bumped) \in Nat BY DEF One
<1>. DEFINE f == One("FullMatch", bumped)
            t == One("TripOnly", bumped)
<1>7. f \in Nat /\ t \in Nat /\ f + t = 1 BY <1>3, <1>6
<1>. HIDE DEF f, t
<1>8. /\ 1 = f + t + 0 + 0 + 0 + 0 + 0 + 0 + 0
      /\ 1 = f + t + 0 + 0 + 0 + 0
  BY <1>7
<1> QED BY <1>1, <1>2, <1>5, <1>8 DEF Bumps, f, t

(* A cancellation is under no label of its own.                            *)
LEMMA CancelCounted ==
  ASSUME NEW u, Cancels(u), NEW n \in Nat PROVE Bumps(u, n, {})
BY DEF Bumps, One, Cancels

(* The update taken is of a decoded feed.                                  *)
LEMMA ReadyTaken ==
  ASSUME MatchInv, NEW u, Taken(u), u.start # BadDate PROVE Ready(u)
<1>1. at = "matching" /\ next <= Len(feed.updates) /\ u = feed.updates[next] BY DEF Taken
<1>2. message \in Messages /\ feed = Decode(message) /\ using \in Timetables \cup {None}
  BY <1>1 DEF MatchInv, Phases
<1>3. next \in Nat \ {0}
  <2>1. next = Len(said) + 1 /\ said \in Seq(Range(said)) BY DEF MatchInv, Logs
  <2> QED BY <2>1
<1>4. feed.updates \in Seq(Range(feed.updates)) /\ feed.header_ts \in Instant
      /\ \A v \in Range(feed.updates) : UpdateTyped(v)
  BY <1>2, Decoded
<1>5. next \in DOMAIN feed.updates BY <1>1, <1>3, <1>4
<1>6. u \in Range(feed.updates) BY <1>1, <1>5 DEF Range
<1> QED BY <1>2, <1>4, <1>6 DEF Ready

(* The five ways an update is dealt with keep the invariant.               *)
LEMMA UpdateStep ==
  ASSUME MatchInv, NEW u, Skip(u) \/ WithoutTrip(u) \/ Cancel(u) \/ TripOnly(u) \/ FullMatch(u)
  PROVE  MatchInv'
<1>1. \E obs, bumped : Taken(u) /\ Produces(u, obs) /\ Done(u, obs, bumped) /\ Bumps(u, Len(obs), bumped)
  <2>1. CASE Skip(u)
    <3>1. Taken(u) BY <2>1 DEF Skip
    <3>2. Len(<<>>) = 0 OBVIOUS
    <3> QED BY <2>1, <3>1, <3>2, SkipCounted
  <2>2. CASE WithoutTrip(u)
    <3>. DEFINE o == base(u, Newest(candidates(u)))
                name == IF InUse = None THEN "NoSchedule" ELSE IF u.rel = "ADDED" THEN "Added" ELSE "UnknownTrip"
    <3>1. Taken(u) /\ u.start # BadDate /\ ~KnownTrip(u) /\ ~u.trip_level /\ u.stop # ""
          /\ Done(u, <<o>>, {name})
      BY <2>2 DEF WithoutTrip
    <3>2. Produces(u, <<o>>) BY <3>1, ReadyTaken, WithoutTripProduces
    <3>3. Bumps(u, 1, {name}) BY <3>1, WithoutTripCounted
    <3>. HIDE DEF o, name
    <3>4. Len(<<o>>) = 1 OBVIOUS
    <3> QED BY <3>1, <3>2, <3>3, <3>4
  <2>3. CASE Cancel(u)
    <3>. DEFINE d == pickDate(u, feed.header_ts, NoTime)
                rows == [i \in DOMAIN Trip(u).stops |-> CancelRow(u, d, Trip(u).stops[i])]
    <3>1. Taken(u) /\ u.start # BadDate /\ KnownTrip(u) /\ u.trip_level /\ u.rel = "CANCELED"
          /\ Done(u, rows, {})
      BY <2>3 DEF Cancel
    <3>2. Ready(u) BY <3>1, ReadyTaken
    <3>3. d \in candidates(u) BY <3>2, Picked
    <3>. HIDE DEF d
    <3>4. Produces(u, rows) /\ Len(rows) \in Nat BY <3>1, <3>2, <3>3, CancelProduces
    <3>. HIDE DEF rows
    <3>5. Bumps(u, Len(rows), {}) BY <3>1, <3>4, CancelCounted DEF Cancels
    <3> QED BY <3>1, <3>4, <3>5
  <2>4. CASE TripOnly(u)
    <3>. DEFINE o == matched(base(u, pickDate(u, reference(u), NoTime)), Trip(u))
                with == IF ByStop(Trip(u), u) # {} THEN {"AmbiguousStop"} ELSE {}
                bumped == {"TripOnly"} \cup with
    <3>1. Taken(u) /\ u.start # BadDate /\ KnownTrip(u) /\ ~u.trip_level /\ u.stop # ""
          /\ resolveStop(Trip(u), u) = {} /\ Done(u, <<o>>, bumped)
      BY <2>4 DEF TripOnly
    <3>2. Produces(u, <<o>>) BY <3>1, ReadyTaken, TripOnlyProduces
    <3>3. with \subseteq {"AmbiguousStop"} OBVIOUS
    <3>. HIDE DEF o, with
    <3>4. Bumps(u, 1, bumped) BY <3>1, <3>3, MatchCounted
    <3>5. Len(<<o>>) = 1 OBVIOUS
    <3> QED BY <3>1, <3>2, <3>4, <3>5
  <2>5. CASE FullMatch(u)
    <3>1. Taken(u) /\ u.start # BadDate /\ KnownTrip(u) /\ ~u.trip_level BY <2>5 DEF FullMatch
    <3>. DEFINE st(i) == Trip(u).stops[i]
                d(i) == pickDate(u, reference(u), ScheduledS(st(i)))
                with(i) == (IF st(i).seq = u.seq THEN {"BySequence"} ELSE {})
                           \cup (IF Disagrees(u.arr, d(i), st(i).arr) \/ Disagrees(u.dep, d(i), st(i).dep)
                                 THEN {"DelayDisagreements"} ELSE {})
    <3>2. PICK i \in resolveStop(Trip(u), u) :
            Done(u, <<StopRow(u, d(i), st(i))>>, {"FullMatch"} \cup with(i))
      <4>1. \A i : {"FullMatch"} \cup with(i) =
              {"FullMatch"} \cup (IF st(i).seq = u.seq THEN {"BySequence"} ELSE {})
              \cup (IF Disagrees(u.arr, d(i), st(i).arr) \/ Disagrees(u.dep, d(i), st(i).dep)
                    THEN {"DelayDisagreements"} ELSE {})
        OBVIOUS
      <4> QED BY <2>5, <4>1 DEF FullMatch
    <3>3. Ready(u) BY <3>1, ReadyTaken
    <3>4. d(i) \in candidates(u) BY <3>3, Picked
    <3>5. with(i) \subseteq {"BySequence", "DelayDisagreements"} OBVIOUS
    <3>. HIDE DEF d, with
    <3>6. Produces(u, <<StopRow(u, d(i), st(i))>>) BY <3>1, <3>2, <3>3, <3>4, FullMatchProduces
    <3>7. Bumps(u, 1, {"FullMatch"} \cup with(i)) BY <3>1, <3>5, MatchCounted
    <3>8. Len(<<StopRow(u, d(i), st(i))>>) = 1 OBVIOUS
    <3> QED BY <3>1, <3>2, <3>6, <3>7, <3>8
  <2> QED BY <2>1, <2>2, <2>3, <2>4, <2>5
<1>2. PICK obs, bumped : Taken(u) /\ Produces(u, obs) /\ Done(u, obs, bumped) /\ Bumps(u, Len(obs), bumped)
  BY <1>1
<1>3. Phases' /\ Logs' BY <1>2, DoneLogs
<1>4. RowsFit' /\ WordsKept' BY <1>2, DoneWords
<1>5. Tallied' BY <1>2, DoneTallied
<1> QED BY <1>3, <1>4, <1>5 DEF MatchInv

(* A poll begins and ends, and timetables are published, without harm.     *)
LEMMA OthersStep ==
  ASSUME MatchInv, Poll \/ MatchEnds \/ Swap \/ UNCHANGED vars PROVE MatchInv'
<1>1. CASE Poll
  <2>1. /\ at = "idle" /\ message' \in Messages /\ feed' = Decode(message') /\ using' = held /\ at' = "matching"
        /\ UNCHANGED <<held, next, out, said, counts, last>>
    BY <1>1 DEF Poll
  <2>2. out = <<>> /\ said = <<>> /\ counts = Zero /\ last = None BY <2>1 DEF MatchInv, Phases
  <2>3. Phases' BY <2>1, <2>2 DEF MatchInv, Phases
  <2>4. Len(feed'.updates) \in Nat BY <2>1, Decoded
  <2>5. Range(out') = {} /\ DOMAIN out' = {} /\ DOMAIN said' = {} /\ Len(said') = 0
    BY <2>1, <2>2 DEF Range
  <2>6. Logs' BY <2>1, <2>4, <2>5 DEF MatchInv, Logs
  <2>7. RowsFit' /\ WordsKept' BY <2>5 DEF RowsFit, WordsKept, Once
  <2>8. Cancelled = {} /\ Cancelled' = {} BY <2>2, <2>5 DEF Cancelled
  <2>9. Tallied' BY <2>1, <2>8 DEF MatchInv, Tallied
  <2> QED BY <2>3, <2>6, <2>7, <2>9 DEF MatchInv
<1>2. CASE MatchEnds
  <2>1. /\ at = "matching" /\ next > Len(feed.updates) /\ at' = "matched" /\ last' = counts
        /\ UNCHANGED <<held, using, feed, message, next, out, said, counts>>
    BY <1>2 DEF MatchEnds
  <2>2. Len(said) = Len(feed.updates)
    <3>1. next = Len(said) + 1 /\ Len(said) <= Len(feed.updates) /\ said \in Seq(Range(said))
      BY DEF MatchInv, Logs
    <3>2. message \in Messages /\ feed = Decode(message) BY <2>1 DEF MatchInv, Phases
    <3>3. Len(feed.updates) \in Nat /\ Len(said) \in Nat BY <3>1, <3>2, Decoded
    <3> QED BY <2>1, <3>1, <3>3
  <2>3. Phases' BY <2>1, <2>2 DEF MatchInv, Phases
  <2>4. Logs' /\ RowsFit' /\ WordsKept' /\ Tallied'
    BY <2>1 DEF MatchInv, Logs, RowsFit, WordsKept, Tallied, RowOf, RowTyped, RowMeets, Reaches, Cancels, Calls,
                Cancelled, KnownTrip, InUse, Trip, candidates
  <2> QED BY <2>3, <2>4 DEF MatchInv
<1>3. CASE Swap \/ UNCHANGED vars
  <2>1. held' \in Timetables \cup {None} /\ UNCHANGED <<using, at, feed, message, next, out, said, counts, last>>
    BY <1>3 DEF MatchInv, Phases, Swap, vars
  <2>2. Phases' BY <2>1 DEF MatchInv, Phases
  <2>3. Logs' /\ RowsFit' /\ WordsKept' /\ Tallied'
    BY <2>1 DEF MatchInv, Logs, RowsFit, WordsKept, Tallied, RowOf, RowTyped, RowMeets, Reaches, Cancels, Calls,
                Cancelled, KnownTrip, InUse, Trip, candidates
  <2> QED BY <2>2, <2>3 DEF MatchInv
<1> QED BY <1>1, <1>2, <1>3

(* Nothing has been matched at first.                                      *)
LEMMA Initially == Init => MatchInv
<1>1. SUFFICES ASSUME Init PROVE MatchInv OBVIOUS
<1>2. /\ held \in Timetables \cup {None} /\ using = None /\ at = "idle" /\ feed = NoFeed
      /\ next = 1 /\ out = <<>> /\ said = <<>> /\ counts = Zero /\ last = None
  BY <1>1 DEF Init
<1>3. Range(out) = {} /\ DOMAIN out = {} /\ DOMAIN said = {} /\ Len(said) = 0 /\ Len(out) = 0
  BY <1>2 DEF Range
<1>4. Phases BY <1>2 DEF Phases
<1>5. Logs
  <2>1. Len(feed.updates) = 0 BY <1>2 DEF NoFeed
  <2>2. counts \in [Counter -> Nat] BY <1>2 DEF Zero
  <2> QED BY <1>2, <1>3, <2>1, <2>2 DEF Logs
<1>6. RowsFit /\ WordsKept BY <1>3 DEF RowsFit, WordsKept, Once
<1>7. Tallied
  <2>1. Cancelled = {} BY <1>3 DEF Cancelled
  <2>2. Cardinality(Cancelled) = 0 BY <2>1, FS_EmptySet
  <2>3. \A c \in Counter : counts[c] = 0 BY <1>2 DEF Zero
  <2>4. Observed(counts) = 0 /\ Unobserved(counts) = 0
    BY <2>3 DEF Observed, Unobserved, Counter
  <2>5. \A c \in {"Duplicates", "CancelledStops", "BySequence", "FullMatch", "AmbiguousStop", "TripOnly"} : counts[c] = 0
    BY <2>3 DEF Counter
  <2> QED BY <1>3, <2>2, <2>4, <2>5 DEF Tallied
<1> QED BY <1>4, <1>5, <1>6, <1>7 DEF MatchInv

(* The invariant is inductive.                                             *)
LEMMA Inductive == MatchInv /\ [Next]_vars => MatchInv'
<1>1. SUFFICES ASSUME MatchInv, [Next]_vars PROVE MatchInv' OBVIOUS
<1>2. \/ Poll \/ MatchEnds \/ Swap \/ UNCHANGED vars
      \/ \E u : Skip(u) \/ WithoutTrip(u) \/ Cancel(u) \/ TripOnly(u) \/ FullMatch(u)
  BY <1>1 DEF Next
<1> QED BY <1>1, <1>2, OthersStep, UpdateStep

(* The invariant holds of every behaviour.                                 *)
LEMMA MatchHolds == Spec => []MatchInv
BY Initially, Inductive, PTL DEF Spec

(* Whatever is received and published, and whenever the timetable is       *)
(* swapped, the columns hold what they can hold (matcher.go:411-416).      *)
THEOREM Typed == Spec => []TypeOK
<1>1. MatchInv => TypeOK
  <2>1. SUFFICES ASSUME MatchInv PROVE TypeOK OBVIOUS
  <2>2. /\ held \in Timetables \cup {None} /\ using \in Timetables \cup {None}
        /\ at \in {"idle", "matching", "matched"} /\ last \in {None, counts}
    BY <2>1 DEF MatchInv, Phases
  <2>3. counts \in [Counter -> Nat] /\ next = Len(said) + 1 /\ Len(said) \in Nat
    BY <2>1 DEF MatchInv, Logs
  <2>4. ASSUME NEW o \in Range(out)
        PROVE /\ o.date \in Int /\ o.stop # "" /\ o.from < next
              /\ o.direction \in {None, 0, 1}
              /\ {o.arr, o.dep, o.observed} \subseteq {None} \cup Delay
    <3>1. o.from \in 1 .. Len(said) /\ RowTyped(o) BY <2>1 DEF MatchInv, RowsFit, RowOf
    <3>2. Day \subseteq Int BY Zone DEF Day
    <3>3. o.from \in Nat /\ o.from < next BY <2>3, <3>1
    <3> QED BY <3>1, <3>2, <3>3 DEF RowTyped
  <2> QED BY <2>2, <2>3, <2>4 DEF TypeOK
<1> QED BY <1>1, MatchHolds, PTL

(* A poll's observations are of one timetable (matcher.go:66-67).          *)
THEOREM AgainstOneTimetable == Spec => []OneTimetable
<1>1. MatchInv => OneTimetable BY DEF MatchInv, RowsFit, RowOf, OneTimetable
<1> QED BY <1>1, MatchHolds, PTL

(* A delay that is derived meets the departure that was predicted          *)
(* (matcher.go:368-376).                                                   *)
THEOREM PredictionsMet == Spec => []DelayMeetsPrediction
<1>1. MatchInv => DelayMeetsPrediction
  BY DEF MatchInv, RowsFit, RowOf, RowMeets, DelayMeetsPrediction
<1> QED BY <1>1, MatchHolds, PTL

(* The batch has one observation for a key, by the last update that spoke  *)
(* of it (matcher.go:131-143).                                             *)
THEOREM LastWords == Spec => []LastWordWins
<1>1. MatchInv => LastWordWins
  <2>1. SUFFICES ASSUME MatchInv PROVE LastWordWins OBVIOUS
  <2>2. Once(out) BY <2>1 DEF MatchInv, WordsKept
  <2>3. said \in Seq(Range(said)) /\ DOMAIN said = 1 .. Len(said) /\ Len(said) \in Nat
    <3>1. said \in Seq(Range(said)) BY <2>1 DEF MatchInv, Logs
    <3> QED BY <3>1
  <2>4. ASSUME NEW k \in UNION Range(said)
        PROVE  \E o \in Range(out) : Key(o) = k /\ o.from = Max({j \in DOMAIN said : k \in said[j]})
    <3>. DEFINE S == {j \in DOMAIN said : k \in said[j]}
    <3>1. PICK j0 \in DOMAIN said : k \in said[j0] BY DEF Range
    <3>2. S \in SUBSET (1 .. Len(said)) /\ S # {} BY <2>3, <3>1
    <3>3. \A j \in S : \E o \in Range(out) : Key(o) = k /\ o.from >= j /\ o.from \in S
      <4>1. ASSUME NEW j \in S PROVE \E o \in Range(out) : Key(o) = k /\ o.from >= j /\ o.from \in S
        <5>1. PICK o \in Range(out) : Key(o) = k /\ o.from >= j BY <2>1 DEF MatchInv, WordsKept
        <5>2. o.from \in 1 .. Len(said) /\ Key(o) \in said[o.from] BY <2>1 DEF MatchInv, RowsFit
        <5> QED BY <2>3, <5>1, <5>2
      <4> QED BY <4>1
    <3>. HIDE DEF S
    <3>4. Max(S) \in S /\ \A y \in S : Max(S) >= y BY <2>3, <3>2, MaxOf
    <3>5. PICK o \in Range(out) : Key(o) = k /\ o.from >= Max(S) /\ o.from \in S BY <3>3, <3>4
    <3>6. o.from \in Nat /\ Max(S) \in Nat /\ Max(S) >= o.from
      <4>1. \A y \in S : y \in Nat BY <2>3, <3>2
      <4> QED BY <3>4, <3>5, <4>1
    <3>7. o.from = Max(S) BY <3>5, <3>6
    <3> QED BY <3>5, <3>7 DEF S
  <2> QED BY <2>2, <2>4 DEF LastWordWins, Once
<1> QED BY <1>1, MatchHolds, PTL

(* Every update of a poll is counted once, and every observation is in the *)
(* batch or was replaced (matcher.go:17-55).                               *)
THEOREM AllCounted == Spec => []EveryUpdateCounted
<1>1. MatchInv => EveryUpdateCounted
  <2>1. SUFFICES ASSUME MatchInv, last # None PROVE EveryUpdateCounted BY DEF EveryUpdateCounted
  <2>2. last = counts /\ Len(said) = Len(feed.updates) BY <2>1 DEF MatchInv, Phases
  <2> QED BY <2>1, <2>2 DEF MatchInv, Tallied, EveryUpdateCounted
<1> QED BY <1>1, MatchHolds, PTL

(* A cancellation reaches every stop of its trip, and a stop named by a    *)
(* skip reaches the batch and says so, or what a later update of the       *)
(* message says of it (matcher.go:188-201, decode.go:124-131).             *)
THEOREM RelationshipsKept == Spec => []RelationshipsArrive
<1>1. MatchInv => RelationshipsArrive
  <2>1. SUFFICES ASSUME MatchInv, at = "matched" PROVE EveryStopCancelled /\ EveryStopSkipped
    BY DEF RelationshipsArrive
  <2>2. \A j \in DOMAIN said : Reaches(feed.updates[j], said[j])
    BY <2>1 DEF MatchInv, WordsKept
  <2>3. \A j \in DOMAIN said : \A k \in said[j] : \E o \in Range(out) : Key(o) = k /\ o.from >= j
    BY <2>1 DEF MatchInv, WordsKept
  <2>4. EveryStopCancelled
    <3>1. ASSUME NEW j \in Cancelled
          PROVE  \E d \in candidates(feed.updates[j]) : \A st \in Range(Trip(feed.updates[j]).stops) :
                   \E o \in Range(out) :
                     /\ Key(o) = <<d, feed.updates[j].trip, st.stop>>
                     /\ o.from >= j
                     /\ o.from = j => o.rel = "CANCELED" /\ o.matched
      <4>1. j \in DOMAIN said /\ Cancels(feed.updates[j]) BY DEF Cancelled, Cancels
      <4>2. PICK d \in candidates(feed.updates[j]) :
              \A st \in Range(Trip(feed.updates[j]).stops) : <<d, feed.updates[j].trip, st.stop>> \in said[j]
        BY <2>2, <4>1 DEF Reaches
      <4>3. \A o \in Range(out) : o.from = j => o.rel = "CANCELED" /\ o.matched
        BY <2>1, <4>1 DEF MatchInv, RowsFit, RowOf, Cancels
      <4> QED BY <2>3, <4>1, <4>2, <4>3
    <3> QED BY <3>1 DEF EveryStopCancelled
  <2>5. EveryStopSkipped
    <3>1. message \in Messages /\ feed = Decode(message) /\ Len(said) = Len(feed.updates)
          /\ using \in Timetables \cup {None}
      BY <2>1 DEF MatchInv, Phases
    <3>2. feed.updates \in Seq(Range(feed.updates)) BY <3>1, Decoded
    <3>3. DOMAIN said = DOMAIN feed.updates
      <4>1. said \in Seq(Range(said)) BY <2>1 DEF MatchInv, Logs
      <4>2. DOMAIN said = 1 .. Len(said) BY <4>1
      <4>3. DOMAIN feed.updates = 1 .. Len(feed.updates) BY <3>2
      <4> QED BY <3>1, <4>2, <4>3
    <3>. DEFINE Arrives(e, s, u) ==
           \E j \in DOMAIN feed.updates, o \in Range(out), i \in resolveStop(Trip(u), u) :
             /\ feed.updates[j] = u
             /\ o.trip = e.trip /\ o.stop = Trip(u).stops[i].stop /\ o.date \in candidates(u)
             /\ o.from >= j
             /\ o.from = j => o.rel = e.rel /\ o.srel = s.rel /\ o.matched
    <3>4. ASSUME NEW e \in Range(message.entities), e.kind = "trip_update", e.trip # "", e.start # BadDate,
                 NEW s \in Range(e.stops), NEW u, u = RawUpdate(e, s, FALSE),
                 s.rel = "SKIPPED" \/ e.rel = "CANCELED", KnownTrip(u), resolveStop(Trip(u), u) # {}
          PROVE  Arrives(e, s, u)
      <4>1. u.start = e.start /\ u.trip = e.trip /\ u.seq = s.seq /\ u.stop = s.stop /\ u.trip_level = FALSE
            /\ u.rel = e.rel /\ u.srel = s.rel
        BY <3>4 DEF RawUpdate
      <4>2. ~(s.seq = None /\ s.stop = "")
        <5>1. SUFFICES ASSUME s.seq = None, s.stop = "" PROVE resolveStop(Trip(u), u) = {} BY <3>4
        <5>2. BySequence(Trip(u), u) = {} BY <4>1, <5>1 DEF BySequence
        <5>3. \A i \in DOMAIN Trip(u).stops : Trip(u).stops[i].stop # ""
          <6>1. Trip(u) \in Range(InUse.trips) /\ InUse \in Timetables
            BY <3>1, <3>4 DEF KnownTrip, Trip, InUse, Range
          <6>2. \A st \in Range(Trip(u).stops) : st.stop # "" BY <6>1, Published
          <6> QED BY <6>2 DEF Range
        <5>4. ByStop(Trip(u), u) = {} BY <4>1, <5>1, <5>3 DEF ByStop
        <5>5. Cardinality({}) = 0 BY FS_EmptySet
        <5> QED BY <5>2, <5>4, <5>5 DEF resolveStop
      <4>3. carriesMeaningWithoutATime(e, s) BY <3>4 DEF carriesMeaningWithoutATime
      <4>4. Dropped(e, s) = "kept" BY <4>2, <4>3 DEF Dropped
      <4>5. u \in Range(feed.updates) BY <3>1, <3>4, <4>4, Decoded DEF Says
      <4>6. PICK j \in DOMAIN said : feed.updates[j] = u BY <3>3, <4>5 DEF Range
      <4>7. Calls(u) BY <3>4, <4>1 DEF Calls
      <4>8. PICK d \in candidates(u), i \in resolveStop(Trip(u), u) :
              <<d, u.trip, Trip(u).stops[i].stop>> \in said[j]
        BY <2>2, <4>6, <4>7 DEF Reaches
      <4>9. PICK o \in Range(out) : Key(o) = <<d, u.trip, Trip(u).stops[i].stop>> /\ o.from >= j
        BY <2>3, <4>6, <4>8
      <4>10. o.date = d /\ o.trip = u.trip /\ o.stop = Trip(u).stops[i].stop BY <4>9 DEF Key
      <4>11. o.from = j => o.rel = e.rel /\ o.srel = s.rel /\ o.matched
        BY <2>1, <4>1, <4>6, <4>7 DEF MatchInv, RowsFit, RowOf
      <4> QED BY <3>3, <4>1, <4>6, <4>8, <4>9, <4>10, <4>11
    <3>. HIDE DEF Arrives
    <3>5. ASSUME NEW e \in Range(message.entities), e.kind = "trip_update", e.trip # "", e.start # BadDate,
                 NEW s \in Range(e.stops), s.rel = "SKIPPED" \/ e.rel = "CANCELED",
                 KnownTrip(RawUpdate(e, s, FALSE)),
                 resolveStop(Trip(RawUpdate(e, s, FALSE)), RawUpdate(e, s, FALSE)) # {}
          PROVE  Arrives(e, s, RawUpdate(e, s, FALSE))
      <4>. DEFINE u == RawUpdate(e, s, FALSE)
      <4>. HIDE DEF u
      <4>1. u = RawUpdate(e, s, FALSE) BY DEF u
      <4>2. KnownTrip(u) /\ resolveStop(Trip(u), u) # {} BY <3>5, <4>1
      <4>3. Arrives(e, s, u) BY <3>4, <3>5, <4>1, <4>2
      <4> QED BY <4>1, <4>3
    <3> QED BY <3>5 DEF EveryStopSkipped, Arrives
  <2> QED BY <2>4, <2>5
<1> QED BY <1>1, MatchHolds, PTL
=============================================================================
