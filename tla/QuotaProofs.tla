---------------------------- MODULE QuotaProofs ----------------------------
(***************************************************************************)
(* What holds of the limiter for any number of pollers, any budget, burst, *)
(* interval and day length, and any number of restarts.                    *)
(***************************************************************************)
EXTENDS Quota, FiniteSetTheorems, TLAPS

(* Days and midnights. *)
LEMMA Division ==
  \A t \in Nat : /\ DayOf(t) \in Nat
                 /\ DayOf(t) * DayLength <= t /\ t < DayOf(t) * DayLength + DayLength
BY QuotaConstants DEF DayOf

LEMMA Midnights == \A m, n \in Int : m <= n => m * DayLength <= n * DayLength
BY QuotaConstants

LEMMA DaysInOrder == \A t, u \in Nat : t <= u => DayOf(t) <= DayOf(u)
<1>1. SUFFICES ASSUME NEW t \in Nat, NEW u \in Nat, t <= u, DayOf(t) > DayOf(u)
               PROVE  FALSE
  BY Division
<1>2. DayOf(t) \in Nat /\ DayOf(u) \in Nat /\ DayOf(u) + 1 <= DayOf(t)
  BY <1>1, Division
<1>3. (DayOf(u) + 1) * DayLength <= DayOf(t) * DayLength
  BY <1>2, Midnights
<1>4. (DayOf(u) + 1) * DayLength = DayOf(u) * DayLength + DayLength
  BY <1>2, QuotaConstants
<1>5. /\ DayOf(u) * DayLength \in Int /\ DayOf(t) * DayLength \in Int
      /\ DayLength \in Int
  BY <1>2, QuotaConstants
<1>6. DayOf(t) * DayLength <= t /\ u < DayOf(u) * DayLength + DayLength
  BY Division
<1>. QED
  BY <1>1, <1>3, <1>4, <1>5, <1>6

LEMMA DayTyped == \A t \in 0..Horizon : t \in Nat /\ DayOf(t) \in Day
<1>1. SUFFICES ASSUME NEW t \in 0..Horizon PROVE t \in Nat /\ DayOf(t) \in Day
  OBVIOUS
<1>2. Horizon \in Nat /\ DayOf(Horizon) = Days
  BY QuotaConstants DEF Horizon, DayOf
<1>3. t \in Nat /\ t <= Horizon
  BY <1>2
<1>. QED
  BY <1>2, <1>3, DaysInOrder, Division, QuotaConstants DEF Day

-----------------------------------------------------------------------------
(* Each action writes values of the right type. *)
LEMMA Windows ==
  ASSUME TypeOK, NEW t \in 0..Horizon
  PROVE  WindowAt(t).day \in Day /\ WindowAt(t).used \in 0..Budget
BY DayTyped, QuotaConstants DEF TypeOK, WindowAt

LEMMA RefillTyped ==
  ASSUME TypeOK, NEW t \in 0..Horizon
  PROVE  Refill(t) \in Int
BY DayTyped, QuotaConstants DEF TypeOK, Refill, Smaller

LEMMA HorizonNat == Horizon \in Nat
BY QuotaConstants DEF Horizon

LEMMA Zeros ==
  /\ 0 \in Day /\ 0 \in 0..Horizon /\ 0 \in 0..MaxDoublings
  /\ 0 \in 0..Budget /\ Burst \in Int
BY HorizonNat, QuotaConstants DEF Day

LEMMA ZeroFunctions ==
  /\ [c \in Caller |-> 0] \in [Caller -> 0..Horizon]
  /\ [c \in Caller |-> 0] \in [Caller -> Int]
  /\ [c \in Caller |-> 0] \in [Caller -> Day]
  /\ [c \in Caller |-> 0] \in [Caller -> 0..MaxDoublings]
  /\ [d \in Day |-> 0] \in [Day -> Nat]
  /\ [s \in Slot |-> 0] \in [Slot -> Nat]
BY Zeros

LEMMA DayInts == \A d \in Day : d \in Int
BY DEF Day

LEMMA KeptTyped == \A h : Kept(h) \in {0, 1}
BY DEF Kept

LEMMA Counted ==
  ASSUME NEW S, NEW f \in [S -> Nat], NEW k \in Nat, NEW x
  PROVE  [f EXCEPT ![x] = @ + k] \in [S -> Nat]
<1>1. CASE x \in S
  BY <1>1
<1>2. CASE x \notin S
  BY <1>2
<1>. QED
  BY <1>1, <1>2

LEMMA CallerStepTyped ==
  ASSUME TypeOK, NEW c \in Caller,
         PollerStep(c) \/ LoaderStep(c)
  PROVE  TypeOK'
<1>. USE HorizonNat
<1>1. CASE ReadClock(c)
  BY <1>1 DEF ReadClock, TypeOK, At, limiterVars, history
<1>2. CASE Grant(c)
  <2>1. /\ WindowAt(read[c]).day \in Day /\ WindowAt(read[c]).used \in 0..Budget
        /\ Refill(read[c]) \in Int /\ read[c] \in 0..Horizon
    BY Windows, RefillTyped DEF TypeOK
  <2>2. day' \in Day /\ used' \in 0..Budget
    BY <1>2, <2>1, QuotaConstants DEF Grant, HasBudget
  <2>3. tokens' \in Int /\ last' \in 0..Horizon /\ until' \in [Caller -> Int]
    BY <1>2, <2>1 DEF Grant, TypeOK, Larger
  <2>4. granted' \in [Day -> Nat] /\ slots' \in [Slot -> Nat]
    <3>1. Kept("sent") \in Nat /\ Kept("slots") \in Nat
      BY KeptTyped
    <3>2. /\ granted' = [granted EXCEPT ![day'] = @ + Kept("sent")]
          /\ slots' = [s \in Slot |-> slots[s] + (IF s >= until'[c] THEN Kept("slots") ELSE 0)]
      BY <1>2 DEF Grant
    <3>3. slots' \in [Slot -> Nat]
      BY <3>1, <3>2 DEF TypeOK
    <3>. QED
      BY <3>1, <3>2, <3>3, Counted DEF TypeOK
  <2>. QED
    BY <1>2, <2>2, <2>3, <2>4 DEF Grant, TypeOK, At
<1>3. CASE Refuse(c)
  <2>1. WindowAt(read[c]).day \in Day /\ WindowAt(read[c]).used \in 0..Budget
    BY Windows DEF TypeOK
  <2>. QED
    BY <1>3, <2>1 DEF Refuse, Rollover, TypeOK, At, history
<1>4. CASE Exhaust(c)
  <2>1. /\ WindowAt(now).day \in Day /\ Budget \in 0..Budget /\ Today \in Day
    BY Windows, DayTyped, QuotaConstants DEF TypeOK, Today
  <2>. QED
    BY <1>4, <2>1 DEF Exhaust, TypeOK, At
<1>5. CASE Send(c)
  <2>1. Today \in Day /\ Kept("sent") \in Nat /\ 0 \in Day
    BY DayTyped, Zeros, KeptTyped DEF TypeOK, Today
  <2>. QED
    BY <1>5, <2>1 DEF Send, TypeOK, At, limiterVars
<1>6. CASE Wake(c)
  BY <1>6, Zeros DEF Wake, TypeOK, At, limiterVars, history
<1>7. CASE Return(c)
  BY <1>7, Zeros DEF Return, TypeOK, At, limiterVars, history
<1>8. ASSUME NEW n \in 0..MaxDoublings, PollEnds(c, n), UNCHANGED told PROVE TypeOK'
  <2>1. PICK d \in NextDelays(n) : SleepUntil(c, now + d)
    BY <1>8 DEF PollEnds
  <2>2. now + d \in Int
    BY DEF NextDelays, TypeOK
  <2>. QED
    BY <1>8, <2>1, <2>2 DEF PollEnds, SleepUntil, TypeOK, At, limiterVars
<1>9. CASE Succeed(c) \/ Panic(c) \/ Fail(c)
  <2>1. /\ 0 \in 0..MaxDoublings /\ Smaller(1, MaxDoublings) \in 0..MaxDoublings
        /\ Smaller(failures[c] + 1, MaxDoublings) \in 0..MaxDoublings
    <3>1. failures[c] \in 0..MaxDoublings
      BY <1>9 DEF TypeOK, Succeed, Panic, Fail, PollEnds, SleepUntil, At
    <3>. QED
      BY <3>1, QuotaConstants DEF Smaller
  <2>. QED
    BY <1>8, <1>9, <2>1 DEF Succeed, Panic, Fail
<1>10. CASE OverQuota(c)
  <2>1. Today \in Day
    BY DayTyped DEF TypeOK, Today
  <2>. QED
    BY <1>10, <2>1 DEF OverQuota, TypeOK, At, limiterVars, ToldNow
<1>11. CASE Pause(c)
  <2>1. (day + 1) * DayLength \in Int
    BY QuotaConstants DEF TypeOK, Day
  <2>. QED
    BY <1>11, <2>1 DEF Pause, TypeOK, At, limiterVars, history
<1>12. CASE LoadEnds(c)
  <2>1. PICK d \in LoadGaps : SleepUntil(c, now + d)
    BY <1>12 DEF LoadEnds
  <2>2. now + d \in Int /\ Today \in Day
    BY QuotaConstants, DayTyped DEF TypeOK, Today
  <2>. QED
    BY <1>12, <2>1, <2>2 DEF LoadEnds, SleepUntil, TypeOK, At, limiterVars, ToldNow
<1>13. CASE LoadRefused(c)
  <2>1. PICK d \in LoadGaps : until' = [until EXCEPT ![c] = now + d]
    BY <1>13 DEF LoadRefused
  <2>2. now + d \in Int
    BY QuotaConstants DEF TypeOK
  <2>. QED
    BY <1>13, <2>1, <2>2 DEF LoadRefused, TypeOK, At, limiterVars, history
<1>. QED
  BY <1>1, <1>2, <1>3, <1>4, <1>5, <1>6, <1>7, <1>9, <1>10, <1>11, <1>12, <1>13
     DEF PollerStep, LoaderStep

(* Every variable keeps its type, the spent count stays within the budget, *)
(* and no caller is ever anywhere but where the code can put it            *)
(* (limiter.go:25-37, poller.go:78-127).                                   *)
THEOREM Typed == Spec => []TypeOK
<1>1. Init => TypeOK
  BY Zeros, ZeroFunctions DEF Init, TypeOK
<1>2. TypeOK /\ [Next]_vars => TypeOK'
  <2>. SUFFICES ASSUME TypeOK, [Next]_vars PROVE TypeOK'
    OBVIOUS
  <2>. USE HorizonNat
  <2>1. CASE \E c \in Poller : PollerStep(c)
    BY <2>1, CallerStepTyped DEF Caller
  <2>2. CASE \E c \in Loader : LoaderStep(c)
    BY <2>2, CallerStepTyped DEF Caller
  <2>3. CASE Used
    <3>1. WindowAt(now).day \in Day /\ WindowAt(now).used \in 0..Budget
      BY Windows DEF TypeOK
    <3>. QED
      BY <2>3, <3>1 DEF Used, Rollover, TypeOK, callerVars, history
  <2>4. CASE Tick
    BY <2>4 DEF Tick, TypeOK, limiterVars, callerVars, history
  <2>5. CASE Shutdown
    BY <2>5 DEF Shutdown, TypeOK, limiterVars, callerVars, history
  <2>6. CASE Restart
    <3>1. Today \in Day
      BY DayTyped DEF TypeOK, Today
    <3>2. now' \in 0..Horizon /\ last' \in 0..Horizon /\ restarts' \in Nat
      BY <2>6 DEF Restart, TypeOK
    <3>3. tokens' \in Int /\ used' \in 0..Budget /\ day' \in Day /\ stopping' \in BOOLEAN
      BY <2>6, <3>1, Zeros DEF Restart
    <3>4. /\ pc' \in [Caller -> {"due", "reserving", "waiting", "flying", "overQuota", "refused",
                                 "asleep", "paused", "stopped"}]
          /\ read' \in [Caller -> 0..Horizon] /\ until' \in [Caller -> Int]
          /\ window' \in [Caller -> Day] /\ failures' \in [Caller -> 0..MaxDoublings]
      BY <2>6, ZeroFunctions DEF Restart
    <3>5. /\ granted' \in [Day -> Nat] /\ sent' \in [Day -> Nat] /\ late' \subseteq Caller \X Day
          /\ spent' \subseteq Day /\ told' \subseteq Day /\ slots' \in [Slot -> Nat]
      BY <2>6, ZeroFunctions DEF Restart, TypeOK
    <3>. QED
      BY <3>2, <3>3, <3>4, <3>5 DEF TypeOK
  <2>7. CASE UNCHANGED vars
    BY <2>7 DEF TypeOK, vars, limiterVars, callerVars, history
  <2>. QED
    BY <2>1, <2>2, <2>3, <2>4, <2>5, <2>6, <2>7 DEF Next, Over
<1>. QED
  BY <1>1, <1>2, PTL DEF Spec

-----------------------------------------------------------------------------
(* Inductive invariants.  No clock is ahead of the present; what has been  *)
(* granted on the limiter's day is counted in used, and nothing has been   *)
(* granted on a day it has yet to reach; a spent day is over, or is the    *)
(* limiter's day with nothing left of it.                                  *)
ClocksBehind == day <= Today /\ \A c \in Caller : read[c] <= now

GrantsCounted ==
  /\ granted[day] <= used
  /\ \A d \in Day : d > day => granted[d] = 0

SpentDaysOver == \A d \in spent : d < day \/ (d = day /\ used = Budget)

LimiterInv == ClocksBehind /\ GrantsCounted /\ BudgetKept /\ SpentDaysOver

(* What a step that leaves the limiter alone preserves. *)
LEMMA LimiterUntouched ==
  ASSUME TypeOK, TypeOK', LimiterInv, UNCHANGED <<now, day, used, granted, spent>>,
         \A c \in Caller : read'[c] <= now'
  PROVE  LimiterInv'
BY DEF LimiterInv, ClocksBehind, GrantsCounted, BudgetKept, SpentDaysOver, Today

(* Turning the day to a clock that is not ahead of the present. *)
LEMMA DayTurned ==
  ASSUME TypeOK, ClocksBehind, NEW t \in 0..Horizon, t <= now
  PROVE  /\ WindowAt(t).day \in Day /\ WindowAt(t).used \in 0..Budget
         /\ day <= WindowAt(t).day /\ WindowAt(t).day <= Today
         /\ WindowAt(t).day = day => WindowAt(t).used = used
         /\ WindowAt(t).day # day => WindowAt(t).used = 0
         /\ WindowAt(now).day = Today
<1>1. DayOf(t) \in Day /\ Today \in Day /\ DayOf(t) <= Today
  BY DaysInOrder, DayTyped DEF TypeOK, Today
<1>2. WindowAt(t).day \in Day /\ WindowAt(t).used \in 0..Budget
  BY Windows
<1>. QED
  BY <1>1, <1>2 DEF WindowAt, TypeOK, ClocksBehind, Today, Day

LEMMA CallerKeepsLimiterInv ==
  ASSUME TypeOK, TypeOK', LimiterInv, NEW c \in Caller, PollerStep(c) \/ LoaderStep(c)
  PROVE  /\ LimiterInv'
         /\ \A d \in spent : granted'[d] = granted[d]
<1>. DEFINE W == WindowAt(read[c])
<1>1. CASE Grant(c)
  <2>1. /\ W.day \in Day /\ W.used \in 0..Budget /\ day <= W.day /\ W.day <= Today
        /\ W.day = day => W.used = used
        /\ W.day # day => W.used = 0
    BY DayTurned DEF LimiterInv, ClocksBehind, TypeOK
  <2>2. /\ day' = W.day /\ used' = W.used + 1 /\ W.used < Budget /\ now' = now
        /\ granted' = [granted EXCEPT ![W.day] = @ + Kept("sent")]
        /\ spent' = spent
        /\ read' = [read EXCEPT ![c] = 0]
    BY <1>1 DEF Grant, HasBudget
  <2>3. Kept("sent") \in {0, 1} /\ day \in Day /\ used \in 0..Budget /\ Budget \in Nat
        /\ granted \in [Day -> Nat] /\ spent \subseteq Day /\ read \in [Caller -> 0..Horizon]
        /\ now \in 0..Horizon
    BY KeptTyped, QuotaConstants DEF TypeOK
  <2>4. \A d \in Day : d \in Int
    BY DayInts
  <2>5. granted[W.day] <= W.used
    BY <2>1, <2>3, <2>4 DEF LimiterInv, GrantsCounted
  <2>6. GrantsCounted' /\ BudgetKept'
    BY <2>1, <2>2, <2>3, <2>4, <2>5 DEF LimiterInv, GrantsCounted, BudgetKept
  <2>7. ClocksBehind'
    BY <2>1, <2>2, <2>3 DEF LimiterInv, ClocksBehind, Today
  <2>8. \A d \in spent : d < W.day
    BY <2>1, <2>2, <2>3, <2>4 DEF LimiterInv, SpentDaysOver
  <2>9. SpentDaysOver' /\ \A d \in spent : granted'[d] = granted[d]
    BY <2>2, <2>3, <2>4, <2>8 DEF SpentDaysOver
  <2>. QED
    BY <2>6, <2>7, <2>9 DEF LimiterInv
<1>2. CASE Refuse(c)
  <2>1. /\ W.day \in Day /\ W.used \in 0..Budget /\ day <= W.day /\ W.day <= Today
        /\ W.day = day => W.used = used
        /\ W.day # day => W.used = 0
    BY DayTurned DEF LimiterInv, ClocksBehind, TypeOK
  <2>2. /\ day' = W.day /\ used' = W.used /\ now' = now /\ granted' = granted /\ spent' = spent
        /\ read' = [read EXCEPT ![c] = 0]
    BY <1>2 DEF Refuse, Rollover, history
  <2>3. /\ granted \in [Day -> Nat] /\ spent \subseteq Day /\ read \in [Caller -> 0..Horizon]
        /\ now \in Nat /\ day \in Day /\ \A d \in Day : d \in Int
    BY HorizonNat, DayInts DEF TypeOK
  <2>4. ClocksBehind'
    BY <2>1, <2>2, <2>3 DEF LimiterInv, ClocksBehind, Today
  <2>5. GrantsCounted' /\ BudgetKept'
    BY <2>1, <2>2, <2>3 DEF LimiterInv, GrantsCounted, BudgetKept
  <2>6. SpentDaysOver'
    BY <2>1, <2>2, <2>3 DEF LimiterInv, SpentDaysOver
  <2>. QED
    BY <2>2, <2>4, <2>5, <2>6 DEF LimiterInv
<1>3. CASE Exhaust(c)
  <2>1. WindowAt(now).day = Today /\ Today \in Day /\ day <= Today
    BY DayTurned DEF LimiterInv, ClocksBehind, TypeOK
  <2>2. /\ day' = Today /\ used' = Budget /\ now' = now /\ granted' = granted
        /\ spent' = spent \cup {Today} /\ read' = read
    BY <1>3, <2>1 DEF Exhaust
  <2>3. /\ granted \in [Day -> Nat] /\ spent \subseteq Day /\ used \in 0..Budget
        /\ day \in Day /\ \A d \in Day : d \in Int
    BY DayInts DEF TypeOK
  <2>4. ClocksBehind'
    BY <2>1, <2>2, <2>3 DEF LimiterInv, ClocksBehind, Today
  <2>5. GrantsCounted' /\ BudgetKept'
    BY <2>1, <2>2, <2>3, QuotaConstants DEF LimiterInv, GrantsCounted, BudgetKept
  <2>6. SpentDaysOver'
    BY <2>1, <2>2, <2>3 DEF LimiterInv, SpentDaysOver
  <2>. QED
    BY <2>2, <2>4, <2>5, <2>6 DEF LimiterInv
<1>4. CASE ReadClock(c)
  <2>1. UNCHANGED <<now, day, used, granted, spent>> /\ read' = [read EXCEPT ![c] = now]
    BY <1>4 DEF ReadClock, limiterVars, history
  <2>. QED
    BY <2>1, LimiterUntouched DEF LimiterInv, ClocksBehind, TypeOK
<1>5. CASE ~(Grant(c) \/ Refuse(c) \/ Exhaust(c) \/ ReadClock(c))
  <2>1. UNCHANGED <<now, day, used, granted, spent, read>>
    BY <1>5 DEF PollerStep, LoaderStep, Send, Succeed, Panic, Fail, OverQuota, Pause, Wake, Return,
                LoadEnds, LoadRefused, PollEnds, SleepUntil, limiterVars, history
  <2>. QED
    BY <2>1, LimiterUntouched DEF LimiterInv, ClocksBehind
<1>. QED
  BY <1>1, <1>2, <1>3, <1>4, <1>5

LEMMA LimiterInvInductive ==
  ASSUME TypeOK, TypeOK', LimiterInv, [Next]_vars
  PROVE  /\ LimiterInv'
         /\ restarts' = restarts => \A d \in spent : granted'[d] = granted[d]
<1>1. CASE \E c \in Poller : PollerStep(c)
  BY <1>1, CallerKeepsLimiterInv DEF Caller
<1>2. CASE \E c \in Loader : LoaderStep(c)
  BY <1>2, CallerKeepsLimiterInv DEF Caller
<1>3. CASE Used
  <2>1. /\ WindowAt(now).day = Today /\ Today \in Day /\ WindowAt(now).used = 0 /\ Today > day
    BY <1>3, DayTurned DEF LimiterInv, ClocksBehind, TypeOK, Used, WindowAt, Today
  <2>2. /\ day' = Today /\ used' = 0 /\ now' = now /\ granted' = granted /\ spent' = spent
        /\ read' = read
    BY <1>3, <2>1 DEF Used, Rollover, history, callerVars
  <2>. QED
    BY <2>1, <2>2
       DEF LimiterInv, ClocksBehind, GrantsCounted, BudgetKept, SpentDaysOver, TypeOK, Today, Day
<1>4. CASE Tick
  <2>1. /\ now' = now + 1 /\ UNCHANGED <<day, used, granted, spent, read>>
    BY <1>4 DEF Tick, limiterVars, callerVars, history
  <2>2. Today' \in Day /\ Today \in Day /\ Today <= Today'
    <3>1. now \in Nat /\ now' \in Nat /\ now <= now'
      BY <2>1, HorizonNat DEF TypeOK
    <3>. QED
      BY <3>1, DaysInOrder, DayTyped DEF TypeOK, Today
  <2>3. day' <= Today'
    <3>1. day' = day /\ day <= Today /\ day \in Int
      BY <2>1 DEF LimiterInv, ClocksBehind, TypeOK, Day
    <3>2. Today \in Int /\ Today' \in Int
      BY <2>2 DEF Day
    <3>. QED
      BY ONLY <2>2, <3>1, <3>2
  <2>4. \A c \in Caller : read'[c] <= now'
    <3>1. \A c \in Caller : read'[c] = read[c] /\ read[c] <= now /\ read[c] \in Int
      BY <2>1, HorizonNat DEF LimiterInv, ClocksBehind, TypeOK
    <3>2. now \in Int /\ now' = now + 1
      BY <2>1, HorizonNat DEF TypeOK
    <3>. QED
      BY ONLY <3>1, <3>2
  <2>5. GrantsCounted' /\ BudgetKept' /\ SpentDaysOver'
    BY <2>1 DEF LimiterInv, GrantsCounted, BudgetKept, SpentDaysOver
  <2>. QED
    BY <2>1, <2>3, <2>4, <2>5 DEF LimiterInv, ClocksBehind
<1>5. CASE Shutdown \/ UNCHANGED vars
  <2>1. UNCHANGED <<now, day, used, granted, spent, read>>
    BY <1>5 DEF Shutdown, vars, limiterVars, callerVars, history
  <2>. QED
    BY <2>1, LimiterUntouched DEF LimiterInv, ClocksBehind
<1>6. CASE Restart
  <2>1. /\ now' = now /\ day' = Today /\ used' = 0 /\ spent' = {} /\ restarts' = restarts + 1
        /\ granted' = [d \in Day |-> 0] /\ read' = [c \in Caller |-> 0]
    BY <1>6 DEF Restart
  <2>2. Today \in Day /\ Today' = Today
    BY <2>1, DayTyped DEF TypeOK, Today
  <2>. QED
    BY <2>1, <2>2, QuotaConstants, HorizonNat
       DEF LimiterInv, ClocksBehind, GrantsCounted, BudgetKept, SpentDaysOver, TypeOK, Day
<1>. QED
  BY <1>1, <1>2, <1>3, <1>4, <1>5, <1>6 DEF Next, Over

LEMMA LimiterAlways == Spec => []LimiterInv
<1>1. Init => LimiterInv
  BY QuotaConstants, Zeros, DayTyped
     DEF Init, LimiterInv, ClocksBehind, GrantsCounted, BudgetKept, SpentDaysOver, Today, Day
<1>2. TypeOK /\ TypeOK' /\ LimiterInv /\ [Next]_vars => LimiterInv'
  BY LimiterInvInductive
<1>. QED
  BY <1>1, <1>2, Typed, PTL DEF Spec

(* No limiter day grants more than the budget, however the callers with    *)
(* older and newer clocks take the lock (limiter.go:84-116).               *)
THEOREM BudgetHolds == Spec => []BudgetKept
<1>1. LimiterInv => BudgetKept
  BY DEF LimiterInv
<1>. QED
  BY <1>1, LimiterAlways, PTL

(* A day marked spent stays spent in the process that marked it            *)
(* (limiter.go:129-138).                                                   *)
THEOREM SpentHolds == Spec => SpentStaysSpent
<1>1. TypeOK /\ TypeOK' /\ LimiterInv /\ [Next]_vars
      => [restarts' = restarts => \A d \in spent : granted'[d] = granted[d]]_vars
  BY LimiterInvInductive
<1>. QED
  BY <1>1, Typed, LimiterAlways, PTL DEF Spec, SpentStaysSpent

-----------------------------------------------------------------------------
(* A pause computed from the limiter's day ends by the coming midnight,    *)
(* because that day is never ahead of the clock.                           *)
LEMMA PausesInductive ==
  ASSUME TypeOK, TypeOK', LimiterInv, PausesEndByMidnight, [Next]_vars
  PROVE  PausesEndByMidnight'
<1>1. SUFFICES ASSUME NEW x \in Poller, pc'[x] = "paused"
               PROVE  until'[x] <= (Today' + 1) * DayLength
  BY DEF PausesEndByMidnight
<1>2. x \in Caller /\ pc = [y \in Caller |-> pc[y]] /\ until \in [Caller -> Int] /\ day \in Int
      /\ Today \in Int /\ day <= Today
  BY DayTyped, DayInts DEF Caller, TypeOK, LimiterInv, ClocksBehind, Today
<1>3. pc[x] = "paused" => until[x] <= (Today + 1) * DayLength
  BY DEF PausesEndByMidnight
<1>4. ASSUME NEW c \in Caller, PollerStep(c) \/ LoaderStep(c)
      PROVE  until'[x] <= (Today' + 1) * DayLength
  <2>1. Today' = Today
    BY <1>4 DEF PollerStep, LoaderStep, ReadClock, Grant, Refuse, Send, Exhaust, Succeed, Panic, Fail,
                OverQuota, Pause, Wake, Return, LoadEnds, LoadRefused, PollEnds, SleepUntil, Today
  <2>2. CASE x = c /\ Pause(c)
    <3>1. until'[x] = (day + 1) * DayLength
      BY <2>2, <1>2 DEF Pause
    <3>2. (day + 1) * DayLength <= (Today + 1) * DayLength
      BY <1>2, Midnights
    <3>. QED
      BY <2>1, <3>1, <3>2
  <2>3. CASE ~(x = c /\ Pause(c))
    <3>1. pc[x] = "paused" /\ until'[x] = until[x]
      BY <1>1, <1>2, <1>4, <2>3
         DEF PollerStep, LoaderStep, ReadClock, Grant, Refuse, Send, Exhaust, Succeed, Panic, Fail,
             OverQuota, Pause, Wake, Return, LoadEnds, LoadRefused, PollEnds, SleepUntil, At
    <3>. QED
      BY <1>3, <2>1, <3>1
  <2>. QED
    BY <2>2, <2>3
<1>5. CASE Used \/ Shutdown \/ UNCHANGED vars
  BY <1>1, <1>3, <1>5 DEF Used, Shutdown, vars, callerVars, Today
<1>6. CASE Tick
  <2>1. now \in Nat /\ now' \in Nat /\ now <= now' /\ UNCHANGED <<pc, until>>
    BY <1>6, HorizonNat DEF Tick, TypeOK, callerVars
  <2>2. Today \in Int /\ Today' \in Int /\ Today <= Today'
    BY <2>1, DaysInOrder, Division DEF Today
  <2>3. (Today + 1) * DayLength <= (Today' + 1) * DayLength
    BY <2>2, Midnights
  <2>4. (Today + 1) * DayLength \in Int /\ (Today' + 1) * DayLength \in Int /\ until[x] \in Int
    BY <1>2, <2>2, QuotaConstants
  <2>. QED
    BY <1>1, <1>3, <2>1, <2>3, <2>4
<1>7. CASE Restart
  BY <1>1, <1>2, <1>7 DEF Restart
<1>. QED
  BY <1>4, <1>5, <1>6, <1>7 DEF Next, Over, Caller

(* A paused poller is due again by the coming midnight, when a new budget  *)
(* opens (poller.go:192-199).                                              *)
THEOREM PausesHold == Spec => []PausesEndByMidnight
<1>1. Init => PausesEndByMidnight
  BY DEF Init, PausesEndByMidnight, Caller
<1>2. TypeOK /\ TypeOK' /\ LimiterInv /\ PausesEndByMidnight /\ [Next]_vars => PausesEndByMidnight'
  BY PausesInductive
<1>. QED
  BY <1>1, <1>2, Typed, LimiterAlways, PTL DEF Spec

-----------------------------------------------------------------------------
(* What was sent on a day and what is still held of it never exceed what   *)
(* was granted for it and what came late from the day before.              *)
Held(d) == {c \in Caller : pc[c] = "waiting" /\ window[c] = d}
LateOn(d) == {c \in Caller : <<c, d>> \in late}

(* A caller that was late today has since read today's clock, so it is not *)
(* late a second time.                                                     *)
LateOnce ==
  /\ \A c \in Caller : pc[c] = "waiting" => window[c] <= Today
  /\ \A c \in Caller : \A e \in Day : <<c, e>> \in late =>
       /\ e <= Today
       /\ pc[c] = "reserving" => e <= DayOf(read[c])
       /\ pc[c] = "waiting" => e <= window[c]

SentCovered ==
  restarts = 0 =>
    \A d \in Day : IF "sent" \in Traced
                    THEN sent[d] + Cardinality(Held(d)) <= granted[d] + Cardinality(LateOn(d))
                    ELSE sent[d] = 0

LEMMA CallersFinite ==
  /\ IsFiniteSet(Caller)
  /\ \A d : IsFiniteSet(Held(d)) /\ Cardinality(Held(d)) \in Nat
  /\ \A d : IsFiniteSet(LateOn(d)) /\ Cardinality(LateOn(d)) \in Nat
<1>1. IsFiniteSet(Caller)
  BY QuotaConstants, FS_Union DEF Caller
<1>. QED
  BY <1>1, FS_Subset, FS_CardinalityType DEF Held, LateOn

LEMMA CallersFiniteNext == \A d : IsFiniteSet(Held(d)') /\ Cardinality(Held(d)') \in Nat
BY CallersFinite, FS_Subset, FS_CardinalityType DEF Held

(* A step that only ends holds, or none. *)
LEMMA HoldsEnd ==
  ASSUME TypeOK, SentCovered, UNCHANGED <<restarts, sent, granted, late>>,
         \A x \in Caller : pc'[x] = "waiting" => pc[x] = "waiting" /\ window'[x] = window[x]
  PROVE  SentCovered'
<1>1. \A d \in Day : Held(d)' \subseteq Held(d) /\ LateOn(d)' = LateOn(d)
  BY DEF Held, LateOn
<1>2. \A d \in Day : Cardinality(Held(d)') <= Cardinality(Held(d))
  BY <1>1, CallersFinite, FS_Subset
<1>3. \A d \in Day : sent[d] \in Nat /\ granted[d] \in Nat
  BY DEF TypeOK
<1>. QED
  BY <1>1, <1>2, <1>3, CallersFinite, CallersFiniteNext DEF SentCovered

LEMMA GrantCovered ==
  ASSUME TypeOK, TypeOK', SentCovered, NEW c \in Caller, Grant(c)
  PROVE  SentCovered'
<1>1. /\ granted' = [granted EXCEPT ![day'] = @ + Kept("sent")]
      /\ pc[c] = "reserving" /\ pc' = [pc EXCEPT ![c] = "waiting"]
      /\ window' = [window EXCEPT ![c] = day']
      /\ UNCHANGED <<restarts, sent, late>>
  BY DEF Grant, At
<1>2. day' \in Day /\ granted \in [Day -> Nat] /\ sent \in [Day -> Nat]
      /\ pc = [x \in Caller |-> pc[x]] /\ window \in [Caller -> Day]
  BY DEF TypeOK
<1>3. SUFFICES ASSUME restarts = 0, NEW d \in Day, "sent" \in Traced
               PROVE  sent[d] + Cardinality(Held(d)') <= granted'[d] + Cardinality(LateOn(d))
  BY <1>1 DEF SentCovered, LateOn
<1>4. sent[d] + Cardinality(Held(d)) <= granted[d] + Cardinality(LateOn(d))
  BY <1>3 DEF SentCovered
<1>5. CASE d = day'
  <2>1. Held(d)' = Held(d) \cup {c} /\ c \notin Held(d)
    BY <1>1, <1>2, <1>5 DEF Held
  <2>2. Cardinality(Held(d)') = Cardinality(Held(d)) + 1
    BY <2>1, CallersFinite, FS_AddElement
  <2>3. granted'[d] = granted[d] + 1
    BY <1>1, <1>2, <1>3, <1>5 DEF Kept
  <2>. QED
    BY <1>2, <1>4, <2>2, <2>3, CallersFinite
<1>6. CASE d # day'
  <2>1. Held(d)' = Held(d) /\ granted'[d] = granted[d]
    BY <1>1, <1>2, <1>6 DEF Held
  <2>. QED
    BY <1>4, <2>1
<1>. QED
  BY <1>5, <1>6

LEMMA SendCovered ==
  ASSUME TypeOK, TypeOK', SentCovered, LateOnce, NEW c \in Caller, Send(c)
  PROVE  SentCovered'
<1>1. /\ sent' = [sent EXCEPT ![Today] = @ + Kept("sent")]
      /\ pc[c] = "waiting" /\ pc' = [pc EXCEPT ![c] = "flying"]
      /\ window' = [window EXCEPT ![c] = 0]
      /\ UNCHANGED <<restarts, granted>>
      /\ late' = IF window[c] < Today /\ "sent" \in Traced THEN late \cup {<<c, Today>>} ELSE late
  BY DEF Send, At, history
<1>2. Today \in Day /\ granted \in [Day -> Nat] /\ sent \in [Day -> Nat]
      /\ pc = [x \in Caller |-> pc[x]] /\ window \in [Caller -> Day]
  BY DayTyped DEF TypeOK, Today
<1>3. SUFFICES ASSUME restarts = 0, NEW d \in Day
               PROVE  IF "sent" \in Traced
                      THEN sent'[d] + Cardinality(Held(d)') <= granted[d] + Cardinality(LateOn(d)')
                      ELSE sent'[d] = 0
  BY <1>1 DEF SentCovered
<1>4. CASE "sent" \notin Traced
  BY <1>1, <1>2, <1>3, <1>4 DEF SentCovered, Kept
<1>5. CASE "sent" \in Traced
  <2>1. sent[d] + Cardinality(Held(d)) <= granted[d] + Cardinality(LateOn(d))
    BY <1>3, <1>5 DEF SentCovered
  <2>2. Held(d)' = Held(d) \ {c}
    BY <1>1, <1>2 DEF Held
  <2>3. window[c] \in Int /\ Today \in Int /\ window[c] <= Today /\ sent[d] \in Nat /\ granted[d] \in Nat
    BY <1>1, <1>2, DayInts DEF LateOnce
  <2>4. Cardinality(Held(d)') <= Cardinality(Held(d))
    BY <2>2, CallersFinite, FS_Subset
  <2>5. CASE d # Today
    <3>1. LateOn(d)' = LateOn(d) /\ sent'[d] = sent[d]
      BY <1>1, <1>2, <2>5 DEF LateOn
    <3>. QED
      BY <1>5, <2>1, <2>3, <2>4, <3>1, CallersFinite, CallersFiniteNext
  <2>6. CASE d = Today /\ window[c] = Today
    <3>1. LateOn(d)' = LateOn(d) /\ sent'[d] = sent[d] + 1 /\ c \in Held(d)
      BY <1>1, <1>2, <1>5, <2>3, <2>6 DEF LateOn, Held, Kept
    <3>2. Cardinality(Held(d)') = Cardinality(Held(d)) - 1
      BY <2>2, <3>1, CallersFinite, FS_RemoveElement
    <3>. QED
      BY <1>5, <2>1, <2>3, <3>1, <3>2, CallersFinite
  <2>7. CASE d = Today /\ window[c] < Today
    <3>1. LateOn(d)' = LateOn(d) \cup {c} /\ sent'[d] = sent[d] + 1
      BY <1>1, <1>2, <1>5, <2>7 DEF LateOn, Kept
    <3>2. c \notin LateOn(d)
      BY <1>1, <1>2, <2>3, <2>7 DEF LateOn, LateOnce
    <3>3. Cardinality(LateOn(d)') = Cardinality(LateOn(d)) + 1
      BY <3>1, <3>2, CallersFinite, FS_AddElement
    <3>. QED
      BY <1>5, <2>1, <2>3, <2>4, <3>1, <3>3, CallersFinite, CallersFiniteNext
  <2>. QED
    BY <2>3, <2>5, <2>6, <2>7
<1>. QED
  BY <1>4, <1>5

(* A step after which every waiting or reserving caller is as it was. *)
LEMMA LateOnceUntouched ==
  ASSUME TypeOK, LateOnce, Today <= Today', Today' \in Int, late' = late,
         \A x \in Caller : pc'[x] \in {"waiting", "reserving"} =>
           pc'[x] = pc[x] /\ window'[x] = window[x] /\ read'[x] = read[x]
  PROVE  LateOnce'
<1>1. Today \in Int /\ \A d \in Day : d \in Int
  BY DayTyped, DayInts DEF TypeOK, Today
<1>2. \A x \in Caller : window[x] \in Int
  BY DayInts DEF TypeOK
<1>. QED
  BY <1>1, <1>2 DEF LateOnce

LEMMA CallerKeepsSent ==
  ASSUME TypeOK, TypeOK', LimiterInv, LateOnce, SentCovered,
         NEW c \in Caller, PollerStep(c) \/ LoaderStep(c)
  PROVE  LateOnce' /\ SentCovered'
<1>1. /\ pc = [x \in Caller |-> pc[x]] /\ window \in [Caller -> Day] /\ read \in [Caller -> 0..Horizon]
      /\ Today \in Day /\ Today \in Int /\ now \in 0..Horizon
      /\ \A d \in Day : d \in Int
  BY DayTyped, DayInts DEF TypeOK, Today
<1>2. Today' = Today
  BY DEF PollerStep, LoaderStep, ReadClock, Grant, Refuse, Send, Exhaust, Succeed, Panic, Fail,
         OverQuota, Pause, Wake, Return, LoadEnds, LoadRefused, PollEnds, SleepUntil, Today
<1>3. CASE ReadClock(c)
  <2>1. /\ pc' = [pc EXCEPT ![c] = "reserving"] /\ read' = [read EXCEPT ![c] = now] /\ pc[c] = "due"
        /\ UNCHANGED <<restarts, sent, granted, late, window>>
    BY <1>3 DEF ReadClock, At, history
  <2>2. SentCovered'
    BY <1>1, <2>1, HoldsEnd
  <2>3. LateOnce'
    BY <1>1, <1>2, <2>1 DEF LateOnce, Today
  <2>. QED
    BY <2>2, <2>3
<1>4. CASE Grant(c)
  <2>1. /\ pc' = [pc EXCEPT ![c] = "waiting"] /\ pc[c] = "reserving"
        /\ window' = [window EXCEPT ![c] = day'] /\ read' = [read EXCEPT ![c] = 0]
        /\ late' = late /\ day' = WindowAt(read[c]).day
    BY <1>4 DEF Grant, At
  <2>2. /\ day' \in Int /\ day' <= Today /\ DayOf(read[c]) <= day' /\ DayOf(read[c]) \in Int
    <3>1. day' <= Today
      BY <1>1, <2>1, DayTurned DEF LimiterInv, ClocksBehind
    <3>2. DayOf(read[c]) \in Int /\ day \in Int /\ day' \in Int
      BY <1>1, DayTyped, DayInts DEF TypeOK
    <3>. QED
      BY <2>1, <3>1, <3>2 DEF WindowAt
  <2>3. LateOnce'
    BY <1>1, <1>2, <2>1, <2>2 DEF LateOnce
  <2>. QED
    BY <1>4, <2>3, GrantCovered
<1>5. CASE Send(c)
  <2>1. /\ pc' = [pc EXCEPT ![c] = "flying"]
        /\ window' = [window EXCEPT ![c] = 0] /\ read' = read
        /\ late' \subseteq late \cup {<<c, Today>>}
    BY <1>5 DEF Send, At
  <2>2. LateOnce'
    BY <1>1, <1>2, <2>1 DEF LateOnce
  <2>. QED
    BY <1>5, <2>2, SendCovered
<1>6. CASE ~(ReadClock(c) \/ Grant(c) \/ Send(c))
  <2>1. UNCHANGED <<restarts, sent, granted, late>>
    BY <1>6 DEF PollerStep, LoaderStep, Refuse, Exhaust, Succeed, Panic, Fail, OverQuota, Pause, Wake,
                Return, LoadEnds, LoadRefused, PollEnds, SleepUntil, history
  <2>2. \A x \in Caller : pc'[x] \in {"waiting", "reserving"} =>
           pc'[x] = pc[x] /\ window'[x] = window[x] /\ read'[x] = read[x]
    BY <1>1, <1>6 DEF PollerStep, LoaderStep, Refuse, Exhaust, Succeed, Panic, Fail, OverQuota, Pause,
                      Wake, Return, LoadEnds, LoadRefused, PollEnds, SleepUntil, At
  <2>3. SentCovered'
    BY <2>1, <2>2, HoldsEnd
  <2>. QED
    BY <1>1, <1>2, <2>1, <2>2, <2>3, LateOnceUntouched
<1>. QED
  BY <1>3, <1>4, <1>5, <1>6

LEMMA SentInductive ==
  ASSUME TypeOK, TypeOK', LimiterInv, LateOnce, SentCovered, [Next]_vars
  PROVE  LateOnce' /\ SentCovered'
<1>1. Today \in Int /\ Today' \in Int
  BY DayTyped, DayInts DEF TypeOK, Today
<1>2. CASE \E c \in Caller : PollerStep(c) \/ LoaderStep(c)
  BY <1>2, CallerKeepsSent
<1>3. CASE Used \/ Tick \/ Shutdown \/ UNCHANGED vars
  <2>1. UNCHANGED <<restarts, sent, granted, late, pc, window, read>>
    BY <1>3 DEF Used, Tick, Shutdown, vars, callerVars, history
  <2>2. now \in Nat /\ now' \in Nat /\ now <= now'
    <3>1. now \in Nat
      BY HorizonNat DEF TypeOK
    <3>. QED
      BY <1>3, <3>1 DEF Used, Tick, Shutdown, vars
  <2>3. Today <= Today'
    BY <2>2, DaysInOrder DEF Today
  <2>4. SentCovered'
    BY <2>1, HoldsEnd
  <2>. QED
    BY <1>1, <2>1, <2>3, <2>4, LateOnceUntouched
<1>4. CASE Restart
  <2>1. /\ restarts' = restarts + 1 /\ restarts \in Nat /\ Today' = Today /\ late' = late
        /\ \A x \in Caller : pc'[x] = "due"
    BY <1>4 DEF Restart, Today, TypeOK
  <2>2. SentCovered'
    BY <2>1 DEF SentCovered
  <2>. QED
    BY <1>1, <2>1, <2>2, LateOnceUntouched
<1>. QED
  BY <1>2, <1>3, <1>4 DEF Next, Over, Caller

LEMMA SentAlways == Spec => [](LateOnce /\ SentCovered)
<1>1. Init => LateOnce
  BY DEF Init, LateOnce
<1>2. Init => SentCovered
  <2>. SUFFICES ASSUME Init PROVE SentCovered
    OBVIOUS
  <2>1. \A d \in Day : sent[d] = 0 /\ granted[d] = 0 /\ Held(d) = {} /\ LateOn(d) = {}
    BY DEF Init, Held, LateOn
  <2>. QED
    BY <2>1, FS_EmptySet DEF SentCovered
<1>3. TypeOK /\ TypeOK' /\ LimiterInv /\ LateOnce /\ SentCovered /\ [Next]_vars
      => (LateOnce /\ SentCovered)'
  BY SentInductive
<1>. QED
  BY <1>1, <1>2, <1>3, Typed, LimiterAlways, PTL DEF Spec

(* As long as the process is not restarted, what goes out on a UTC day     *)
(* exceeds the budget by at most one request for each caller that came     *)
(* late from the day before (limiter.go:63-79).                            *)
THEOREM SentHolds == Spec => []SentWithinBudget
<1>1. TypeOK /\ LimiterInv /\ SentCovered => SentWithinBudget
  <2>. SUFFICES ASSUME TypeOK, LimiterInv, SentCovered, restarts = 0, NEW d \in Day
                PROVE  sent[d] <= Budget + Cardinality(LateOn(d))
    BY DEF SentWithinBudget, LateOn
  <2>1. /\ sent[d] \in Nat /\ granted[d] \in Nat /\ granted[d] <= Budget /\ Budget \in Nat
        /\ Cardinality(Held(d)) \in Nat /\ Cardinality(LateOn(d)) \in Nat
    BY CallersFinite, QuotaConstants DEF TypeOK, LimiterInv, BudgetKept
  <2>. QED
    BY <2>1 DEF SentCovered
<1>. QED
  BY <1>1, Typed, LimiterAlways, SentAlways, PTL

-----------------------------------------------------------------------------
(* The callers whose next reservation will carry a clock beyond t: those   *)
(* who wait beyond it, who have read such a clock, or who are to read one. *)
(* One that has stopped reserves no more.                                  *)
Beyond(c, t) ==
  \/ pc[c] = "waiting" /\ until[c] > t
  \/ pc[c] = "reserving" /\ read[c] > t
  \/ pc[c] \notin {"waiting", "reserving", "stopped"} /\ now > t
  \/ pc[c] = "stopped"

Coming(t) == {c \in Caller : Beyond(c, t)}

(* What the bucket is overdrawn by, at its clock or a later one, belongs   *)
(* to as many callers who will only come back after that.                  *)
DeficitCovered == \A j \in Nat : -tokens - j <= Cardinality(Coming(last + j))

WaitInv == last <= now /\ DeficitCovered /\ WaitBounded

LEMMA ComingFinite ==
  /\ \A t : /\ IsFiniteSet(Coming(t)) /\ Cardinality(Coming(t)) \in Nat
            /\ Cardinality(Coming(t)) <= Cardinality(Caller)
  /\ \A t : /\ IsFiniteSet(Coming(t)') /\ Cardinality(Coming(t)') \in Nat
            /\ Cardinality(Coming(t)') <= Cardinality(Caller)
  /\ Cardinality(Caller) \in Nat
<1>1. \A t : Coming(t) \subseteq Caller /\ Coming(t)' \subseteq Caller
  BY DEF Coming
<1>. QED
  BY <1>1, CallersFinite, FS_Subset, FS_CardinalityType

(* A step that grants nothing keeps everybody beyond where they were.      *)
LEMMA NobodyComesEarlier ==
  ASSUME TypeOK, TypeOK', WaitInv, UNCHANGED <<tokens, last>>, now <= now',
         \A x \in Caller : \A t \in Nat : Beyond(x, t) => Beyond(x, t)',
         \A x \in Caller : pc'[x] = "waiting" => pc[x] = "waiting" /\ until'[x] = until[x]
  PROVE  WaitInv'
<1>1. last \in Nat /\ now \in Nat /\ now' \in Nat /\ tokens \in Int /\ \A x \in Caller : until[x] \in Int
  BY HorizonNat DEF TypeOK
<1>2. ASSUME NEW j \in Nat PROVE -tokens' - j <= Cardinality(Coming(last + j)')
  <2>1. Coming(last + j) \subseteq Coming(last + j)'
    BY <1>1 DEF Coming
  <2>2. Cardinality(Coming(last + j)) <= Cardinality(Coming(last + j)')
    BY <2>1, ComingFinite, FS_Subset
  <2>3. -tokens - j <= Cardinality(Coming(last + j))
    BY DEF WaitInv, DeficitCovered
  <2>. QED
    BY <1>1, <2>2, <2>3, ComingFinite
<1>3. DeficitCovered'
  BY <1>2 DEF DeficitCovered, Coming, Beyond
<1>4. WaitBounded'
  BY <1>1, ComingFinite DEF WaitInv, WaitBounded
<1>. QED
  BY <1>1, <1>3, <1>4 DEF WaitInv

(* A grant makes the bucket's clock that of the caller, who is no longer   *)
(* beyond it, and makes the caller wait beyond all that is overdrawn.      *)
LEMMA GrantIsCovered ==
  ASSUME TypeOK, TypeOK', LimiterInv, WaitInv, NEW c \in Caller, Grant(c)
  PROVE  WaitInv'
<1>. DEFINE r == read[c]
            clock == Larger(last, r)
            left == Refill(r) - 1
<1>1. /\ last \in Nat /\ now \in Nat /\ r \in Nat /\ tokens \in Int /\ Refill(r) \in Int
      /\ Burst \in Nat /\ Burst > 0 /\ r <= now /\ last <= now
      /\ until \in [Caller -> Int] /\ pc[c] = "reserving"
  BY HorizonNat, RefillTyped, QuotaConstants DEF TypeOK, LimiterInv, ClocksBehind, WaitInv, Grant, At
<1>2. /\ now' = now /\ tokens' = left /\ last' = clock
      /\ until'[c] = now + Larger(0, -left) /\ pc'[c] = "waiting"
      /\ \A x \in Caller \ {c} : pc'[x] = pc[x] /\ until'[x] = until[x] /\ read'[x] = read[x]
  BY <1>1 DEF Grant, At, TypeOK
<1>3. clock \in Nat /\ clock >= last /\ clock >= r /\ clock <= now /\ left \in Int
  BY <1>1 DEF Larger
<1>4. ASSUME NEW j \in Nat PROVE -left - j <= Cardinality(Coming(last + j)')
  <2>1. PICK t \in Nat, k \in Nat : t = clock + j /\ k = clock - last + j /\ t = last + k
    <3>1. clock + j \in Nat /\ clock - last + j \in Nat /\ clock + j = last + (clock - last + j)
      <4>. HIDE DEF clock
      <4>. QED BY <1>1, <1>3
    <3>. QED BY <3>1
  <2>. DEFINE after == Coming(t)'
  <2>2. Coming(last + j)' = after
    <3>1. (last + j)' = t
      BY <1>2, <2>1
    <3>. QED BY <3>1 DEF Coming, Beyond
  <2>3. IsFiniteSet(after) /\ Cardinality(after) \in Nat
    BY ComingFinite
  <2>4. CASE -left - j > 0
    <3>1. Refill(r) < Burst
      <4>. HIDE DEF clock
      <4>. QED BY <1>1, <2>4
    <3>2. Refill(r) = tokens + (clock - last)
      BY <1>1, <3>1 DEF Refill, Smaller, Larger
    <3>3. -tokens - k <= Cardinality(Coming(t))
      BY <2>1 DEF WaitInv, DeficitCovered
    <3>4. c \notin Coming(t)
      <4>1. ~(r > t)
        <5>. HIDE DEF clock
        <5>. QED BY <1>1, <1>3, <2>1
      <4>. QED BY <1>1, <4>1 DEF Coming, Beyond
    <3>5. now + Larger(0, -left) > t
      <4>1. now - left > t
        <5>. HIDE DEF clock, left
        <5>. QED BY <1>1, <1>3, <2>1, <2>4
      <4>. HIDE DEF left
      <4>. QED BY <1>1, <1>3, <2>1, <2>4, <4>1 DEF Larger
    <3>6. c \in after
      BY <1>2, <3>5 DEF Coming, Beyond
    <3>7. Coming(t) \subseteq after
      BY <1>2, <3>4 DEF Coming, Beyond
    <3>8. Cardinality(Coming(t) \cup {c}) = Cardinality(Coming(t)) + 1
      BY <3>4, ComingFinite, FS_AddElement
    <3>9. Cardinality(Coming(t) \cup {c}) <= Cardinality(after)
      BY <2>3, <3>6, <3>7, FS_Subset
    <3>10. Cardinality(Coming(t)) \in Nat
      BY ComingFinite
    <3>11. -left - j = -tokens - k + 1
      BY <1>1, <1>3, <2>1, <3>2
    <3>. HIDE DEF after, left
    <3>12. -left - j <= Cardinality(after)
      BY <1>1, <1>3, <2>1, <2>3, <3>3, <3>8, <3>9, <3>10, <3>11
    <3>. QED
      BY <2>2, <3>12
  <2>. HIDE DEF after, left
  <2>5. CASE ~(-left - j > 0)
    <3>1. -left - j <= Cardinality(after)
      BY <1>3, <2>3, <2>5
    <3>. QED
      BY <2>2, <3>1
  <2>. QED
    BY <2>4, <2>5
<1>5. DeficitCovered'
  BY <1>2, <1>4 DEF DeficitCovered
<1>6. WaitBounded'
  <2>5. PICK t \in Nat : t = clock + 0
    BY <1>3
  <2>. DEFINE after == Coming(t)'
  <2>1. -left <= Cardinality(Caller)
    <3>1. Cardinality(after) \in Nat /\ Cardinality(after) <= Cardinality(Caller)
      BY ComingFinite
    <3>2. Coming(last + 0)' = after
      <4>1. (last + 0)' = t
        BY <1>2, <2>5
      <4>. QED BY <4>1 DEF Coming, Beyond
    <3>3. -left - 0 <= Cardinality(after)
      BY <1>4, <3>2
    <3>. HIDE DEF after, left
    <3>. QED
      BY <1>3, <3>1, <3>3, ComingFinite
  <2>2. now + Larger(0, -left) - now <= Cardinality(Caller)
    <3>. HIDE DEF left
    <3>. QED BY <1>1, <1>3, <2>1, ComingFinite DEF Larger
  <2>3. until'[c] - now' <= Cardinality(Caller)
    <3>1. until'[c] = now + Larger(0, -left) /\ now' = now
      BY <1>2
    <3>2. ASSUME NEW u, NEW n, u = now + Larger(0, -left), n = now
          PROVE  u - n <= Cardinality(Caller)
      <4>1. Larger(0, -left) \in Int /\ now \in Int
        BY <1>1, <1>3 DEF Larger
      <4>. HIDE DEF left
      <4>. QED BY <2>2, <3>2, <4>1
    <3>. QED BY <3>1, <3>2
  <2>4. \A x \in Caller \ {c} : pc'[x] = "waiting" => until'[x] - now' <= Cardinality(Caller)
    BY <1>2 DEF WaitInv, WaitBounded
  <2>. QED
    BY <2>3, <2>4 DEF WaitBounded
<1>. QED
  BY <1>2, <1>3, <1>5, <1>6 DEF WaitInv

LEMMA CallerKeepsWaits ==
  ASSUME TypeOK, TypeOK', LimiterInv, WaitInv, NEW c \in Caller, PollerStep(c) \/ LoaderStep(c)
  PROVE  WaitInv'
<1>1. CASE Grant(c)
  BY <1>1, GrantIsCovered
<1>2. CASE ~Grant(c)
  <2>1. UNCHANGED <<tokens, last, now>>
    BY <1>2
    DEF PollerStep, LoaderStep, ReadClock, Refuse, Exhaust, Send, Succeed, Panic, Fail, OverQuota, Pause,
        Wake, Return, LoadEnds, LoadRefused, PollEnds, SleepUntil, limiterVars, history
  <2>2. now \in Nat /\ (\A x \in Caller : read[x] \in Nat /\ until[x] \in Int) /\ read[c] <= now
    BY HorizonNat DEF TypeOK, LimiterInv, ClocksBehind
  <2>3. \A x \in Caller \ {c} : pc'[x] = pc[x] /\ until'[x] = until[x] /\ read'[x] = read[x]
    BY <1>2
    DEF PollerStep, LoaderStep, ReadClock, Refuse, Exhaust, Send, Succeed, Panic, Fail, OverQuota, Pause,
        Wake, Return, LoadEnds, LoadRefused, PollEnds, SleepUntil, limiterVars, history, At, TypeOK
  <2>4. pc'[c] # "waiting"
    BY <1>2
    DEF PollerStep, LoaderStep, ReadClock, Refuse, Exhaust, Send, Succeed, Panic, Fail, OverQuota, Pause,
        Wake, Return, LoadEnds, LoadRefused, PollEnds, SleepUntil, At, TypeOK
  <2>5. ASSUME NEW t \in Nat, Beyond(c, t) PROVE Beyond(c, t)'
    <3>1. pc'[c] = "stopped" \/ (pc'[c] = "reserving" /\ read'[c] = now /\ pc[c] = "due")
          \/ (pc'[c] \notin {"waiting", "reserving", "stopped"} /\ pc[c] # "stopped"
              /\ (pc[c] = "waiting" => now >= until[c]))
      BY <1>2
      DEF PollerStep, LoaderStep, ReadClock, Refuse, Exhaust, Send, Succeed, Panic, Fail, OverQuota, Pause,
          Wake, Return, LoadEnds, LoadRefused, PollEnds, SleepUntil, At, TypeOK
    <3>. QED
      BY <2>1, <2>2, <2>5, <3>1 DEF Beyond
  <2>6. \A x \in Caller : \A t \in Nat : Beyond(x, t) => Beyond(x, t)'
    BY <2>1, <2>3, <2>5 DEF Beyond
  <2>. QED
    BY <2>1, <2>2, <2>3, <2>4, <2>6, NobodyComesEarlier
<1>. QED
  BY <1>1, <1>2

LEMMA WaitInductive ==
  ASSUME TypeOK, TypeOK', LimiterInv, WaitInv, [Next]_vars
  PROVE  WaitInv'
<1>1. CASE \E c \in Caller : PollerStep(c) \/ LoaderStep(c)
  BY <1>1, CallerKeepsWaits
<1>2. CASE Used \/ Tick \/ Shutdown \/ UNCHANGED vars
  <2>1. UNCHANGED <<tokens, last, pc, until, read>> /\ now' \in {now, now + 1} /\ now \in Nat
    BY <1>2, HorizonNat DEF Used, Tick, Shutdown, vars, limiterVars, callerVars, TypeOK
  <2>2. \A x \in Caller : \A t \in Nat : Beyond(x, t) => Beyond(x, t)'
    BY <2>1 DEF Beyond
  <2>. QED
    BY <2>1, <2>2, NobodyComesEarlier
<1>3. CASE Restart
  <2>1. /\ tokens' = Burst /\ last' = now /\ now' = now /\ now \in Nat /\ Burst \in Nat
        /\ \A x \in Caller : pc'[x] = "due"
    BY <1>3, HorizonNat, QuotaConstants DEF Restart, TypeOK
  <2>2. ASSUME NEW j \in Nat PROVE -tokens' - j <= Cardinality(Coming(last + j)')
    <3>1. Coming(last + j)' \subseteq Caller
      BY DEF Coming
    <3>2. Cardinality(Coming(last + j)') \in Nat
      BY <3>1, CallersFinite, FS_Subset, FS_CardinalityType
    <3>. QED
      BY <2>1, <3>2
  <2>3. DeficitCovered'
    BY <2>2 DEF DeficitCovered, Coming, Beyond
  <2>4. WaitBounded' /\ last' <= now'
    BY <2>1 DEF WaitBounded
  <2>. QED
    BY <2>3, <2>4 DEF WaitInv
<1>. QED
  BY <1>1, <1>2, <1>3 DEF Next, Over, Caller

(* However late callers take the lock with old clocks, and whoever else    *)
(* waits, nobody waits longer than one token's time per caller             *)
(* (limiter.go:95-105).                                                    *)
THEOREM WaitsBounded == Spec => []WaitBounded
<1>1. Init => WaitInv
  <2>. SUFFICES ASSUME Init PROVE WaitInv
    OBVIOUS
  <2>1. tokens = Burst /\ Burst \in Nat /\ last = 0 /\ now = 0 /\ \A x \in Caller : pc[x] = "due"
    BY QuotaConstants DEF Init
  <2>2. \A j \in Nat : -tokens - j <= Cardinality(Coming(last + j))
    BY <2>1, ComingFinite
  <2>3. DeficitCovered BY <2>2 DEF DeficitCovered
  <2>4. WaitBounded /\ last <= now BY <2>1 DEF WaitBounded
  <2>. QED BY <2>3, <2>4 DEF WaitInv
<1>2. TypeOK /\ TypeOK' /\ LimiterInv /\ WaitInv /\ [Next]_vars => WaitInv'
  BY WaitInductive
<1>. QED
  BY <1>1, <1>2, Typed, LimiterAlways, PTL DEF Spec, WaitInv
-----------------------------------------------------------------------------
(* The pace.  A caller on time carries the present to the limiter.  What   *)
(* has been granted for a moment up to the bucket's clock or for a later   *)
(* one is paid for by the burst, the time since, and what is overdrawn;    *)
(* beyond the clock one token's time lies between two grants.              *)
OnTime == \A c \in Caller : pc[c] = "reserving" => read[c] = now

LastSlot == Horizon + Cardinality(Caller)

SlotsOrdered == \A s, e \in Slot : s <= e => slots[s] <= slots[e]

PaidFor ==
  \A s \in Slot : s <= last => GrantedFor(s, LastSlot) <= Burst + (last - s) - tokens

Spaced ==
  \A s \in Slot : s > last =>
    \/ GrantedFor(s, LastSlot) <= 0
    \/ GrantedFor(s, LastSlot) <= last - tokens - s + 1

PaceInv == OnTime /\ last <= now /\ SlotsOrdered /\ PaidFor /\ Spaced /\ Paced

(* The moments are numbers up to the last.                                 *)
LEMMA SlotsTyped ==
  ASSUME TypeOK
  PROVE  /\ LastSlot \in Slot /\ \A s \in Slot : s \in Nat /\ s <= LastSlot
         /\ \A s \in Slot : s # 0 => s - 1 \in Slot
         /\ \A s, e \in Slot : GrantedFor(s, e) \in Int
<1>1. LastSlot \in Nat BY HorizonNat, CallersFinite, FS_CardinalityType, QuotaConstants DEF LastSlot
<1>2. LastSlot \in Slot /\ \A s \in Slot : s \in Nat /\ s <= LastSlot BY <1>1 DEF Slot, LastSlot
<1>3. \A s \in Slot : s # 0 => s - 1 \in Slot
  <2>1. Slot = 0 .. LastSlot BY DEF Slot, LastSlot
  <2> QED BY <1>1, <2>1
<1>4. slots \in [Slot -> Nat] BY DEF TypeOK
<1>5. ASSUME NEW s \in Slot, NEW e \in Slot PROVE GrantedFor(s, e) \in Int
  <2>1. slots[e] \in Int /\ (s # 0 => slots[s - 1] \in Int) BY <1>3, <1>4
  <2> QED BY <2>1 DEF GrantedFor
<1> QED BY <1>2, <1>3, <1>5

(* A step that leaves the bucket and the histories alone keeps the pace.   *)
LEMMA NobodyGranted ==
  ASSUME TypeOK, PaceInv, UNCHANGED <<tokens, last, slots>>, OnTime', last <= now'
  PROVE  PaceInv'
<1>1. \A s, e : GrantedFor(s, e)' = GrantedFor(s, e) BY DEF GrantedFor
<1> QED BY <1>1 DEF PaceInv, SlotsOrdered, PaidFor, Spaced, Paced

(* A grant adds at most one, for the moment it waits until.                *)
LEMMA GrantAdds ==
  ASSUME TypeOK, TypeOK', NEW c \in Caller, Grant(c), NEW s \in Slot, NEW e \in Slot, s <= e
  PROVE  LET u == now + Larger(0, -tokens')
         IN  GrantedFor(s, e)' = GrantedFor(s, e) + (IF s <= u /\ u <= e THEN Kept("slots") ELSE 0)
<1>. DEFINE u == now + Larger(0, -tokens')
            k == Kept("slots")
<1>1. /\ slots \in [Slot -> Nat] /\ now \in Nat /\ tokens' \in Int /\ k \in Nat
      /\ s \in Nat /\ e \in Nat /\ (s # 0 => s - 1 \in Slot)
  BY SlotsTyped, HorizonNat, KeptTyped DEF TypeOK
<1>2. u \in Nat
  <2>1. \A n \in Int : Larger(0, -n) \in Nat BY DEF Larger
  <2>2. Larger(0, -tokens') \in Nat BY <1>1, <2>1
  <2> QED BY <1>1, <2>2
<1>3. until'[c] = u BY DEF Grant, TypeOK
<1>4. \A t \in Slot : slots'[t] = slots[t] + (IF t >= u THEN k ELSE 0)
  BY <1>3 DEF Grant
<1>. HIDE DEF u, k
<1>5. CASE s = 0
  <2>1. GrantedFor(s, e) = slots[e] - 0 /\ GrantedFor(s, e)' = slots'[e] - 0 BY <1>5 DEF GrantedFor
  <2>2. slots[e] \in Nat BY <1>1
  <2>3. slots'[e] = slots[e] + (IF e >= u THEN k ELSE 0) BY <1>4
  <2>. DEFINE after == slots'[e]
  <2>. HIDE DEF after
  <2>4. after - 0 = slots[e] - 0 + (IF s <= u /\ u <= e THEN k ELSE 0)
    BY <1>1, <1>2, <1>5, <2>2, <2>3 DEF after
  <2> QED BY <2>1, <2>4 DEF after, u, k
<1>6. CASE s # 0
  <2>1. GrantedFor(s, e) = slots[e] - slots[s - 1] /\ GrantedFor(s, e)' = slots'[e] - slots'[s - 1]
    BY <1>6 DEF GrantedFor
  <2>2. slots[e] \in Nat /\ slots[s - 1] \in Nat BY <1>1, <1>6
  <2>3. /\ slots'[e] = slots[e] + (IF e >= u THEN k ELSE 0)
        /\ slots'[s - 1] = slots[s - 1] + (IF s - 1 >= u THEN k ELSE 0)
    BY <1>1, <1>4, <1>6
  <2>. DEFINE after == slots'[e]
              before == slots'[s - 1]
  <2>. HIDE DEF after, before
  <2>4. after - before = slots[e] - slots[s - 1] + (IF s <= u /\ u <= e THEN k ELSE 0)
    BY <1>1, <1>2, <1>6, <2>2, <2>3 DEF after, before
  <2> QED BY <2>1, <2>4 DEF after, before, u, k
<1> QED BY <1>5, <1>6

(* A caller on time takes a token that is there, or the next to come.      *)
LEMMA GrantPaced ==
  ASSUME TypeOK, TypeOK', PaceInv, NEW c \in Caller, Grant(c)
  PROVE  PaceInv'
<1>. DEFINE tok == Refill(now)
            left == tok - 1
            u == now + Larger(0, -left)
            k == Kept("slots")
            More(s, e) == IF s <= u /\ u <= e THEN k ELSE 0
<1>1. /\ last \in Nat /\ now \in Nat /\ tokens \in Int /\ Burst \in Nat /\ Burst > 0
      /\ last <= now /\ read[c] = now /\ k \in {0, 1}
  BY HorizonNat, KeptTyped, QuotaConstants DEF TypeOK, PaceInv, OnTime, Grant, At
<1>2. /\ tok \in Int /\ tok <= tokens + (now - last)
      /\ tok < Burst => tok = tokens + (now - last)
      /\ last < now => tok <= Burst
  BY <1>1 DEF Refill, Smaller
<1>3. now' = now /\ tokens' = left /\ last' = now
  BY <1>1 DEF Grant, Larger
<1>4. u \in Nat /\ u >= now /\ u >= now - left /\ (u = now \/ u = now - left)
  <2>. HIDE DEF tok
  <2> QED BY <1>1, <1>2 DEF Larger
<1>5. /\ LastSlot \in Slot /\ \A s \in Slot : s \in Nat /\ s <= LastSlot
      /\ \A s, e \in Slot : GrantedFor(s, e) \in Int
  BY SlotsTyped
<1>6. \A s, e \in Slot : s <= e => GrantedFor(s, e)' = GrantedFor(s, e) + More(s, e)
  <2>1. u = now + Larger(0, -tokens') BY <1>3
  <2> QED BY <2>1, GrantAdds
<1>7. \A s, e \in Slot : More(s, e) \in Int /\ More(s, e) <= 1 /\ (~(s <= u /\ u <= e) => More(s, e) = 0)
  BY <1>1
<1>8. OnTime'
  BY DEF PaceInv, OnTime, Grant, At, TypeOK
<1>9. SlotsOrdered'
  <2>1. /\ until'[c] = u /\ \A t \in Slot : slots'[t] = slots[t] + (IF t >= u THEN k ELSE 0)
    BY <1>3 DEF Grant, TypeOK
  <2>2. SUFFICES ASSUME NEW s \in Slot, NEW e \in Slot, s <= e PROVE slots'[s] <= slots'[e]
    BY DEF SlotsOrdered
  <2>3. slots[s] \in Nat /\ slots[e] \in Nat /\ slots[s] <= slots[e]
    BY <2>2 DEF TypeOK, PaceInv, SlotsOrdered
  <2>. HIDE DEF u, k
  <2> QED BY <1>1, <1>4, <1>5, <2>1, <2>2, <2>3
<1>. DEFINE G(s) == GrantedFor(s, LastSlot)
<1>10. \A s \in Slot : s <= last => G(s) <= Burst + (last - s) - tokens
  BY DEF PaceInv, PaidFor
<1>11. \A s \in Slot : s > last => G(s) <= 0 \/ G(s) <= last - tokens - s + 1
  BY DEF PaceInv, Spaced
<1>12. \A s, e \in Slot : s <= e => GrantedFor(s, e) <= Burst + (e - s)
  BY DEF PaceInv, Paced
<1>13. \A s, e \in Slot : s <= e => GrantedFor(s, e) <= G(s)
  <2>1. SUFFICES ASSUME NEW s \in Slot, NEW e \in Slot PROVE GrantedFor(s, e) <= G(s) OBVIOUS
  <2>2. slots[e] <= slots[LastSlot] /\ slots[e] \in Nat /\ slots[LastSlot] \in Nat
    BY <1>5 DEF PaceInv, SlotsOrdered, TypeOK
  <2>3. (IF s = 0 THEN 0 ELSE slots[s - 1]) \in Nat BY SlotsTyped DEF TypeOK
  <2>. DEFINE b == IF s = 0 THEN 0 ELSE slots[s - 1]
  <2>4. GrantedFor(s, e) = slots[e] - b /\ G(s) = slots[LastSlot] - b BY DEF GrantedFor
  <2>. HIDE DEF b, G
  <2> QED BY <2>2, <2>3, <2>4 DEF b
<1>14. \A s \in Slot : G(s) \in Int /\ G(s)' = G(s) + More(s, LastSlot) BY <1>5, <1>6
<1>. HIDE DEF G, More, tok
<1>15. ASSUME NEW s \in Slot, s <= now
       PROVE  G(s) + More(s, LastSlot) <= Burst + (now - s) - left
  <2>1. /\ G(s) \in Int /\ s \in Nat /\ More(s, LastSlot) \in Int /\ More(s, LastSlot) <= 1
    BY <1>5, <1>7, <1>14
  <2>2. CASE s <= last
    <3>1. G(s) <= Burst + (last - s) - tokens BY <1>10, <2>2
    <3> QED BY <1>1, <1>2, <2>1, <3>1
  <2>3. CASE s > last
    <3>1. G(s) <= 0 \/ G(s) <= last - tokens - s + 1 BY <1>11, <2>3
    <3>2. tok <= Burst BY <1>1, <1>15, <2>1, <2>3, <1>2
    <3> QED BY <1>1, <1>2, <1>15, <2>1, <3>1, <3>2
  <2> QED BY <1>1, <2>1, <2>2, <2>3
<1>16. ASSUME NEW s \in Slot, s > now
       PROVE  \/ G(s) + More(s, LastSlot) <= 0
              \/ G(s) + More(s, LastSlot) <= now - left - s + 1
  <2>1. /\ G(s) \in Int /\ s \in Nat /\ More(s, LastSlot) \in Int /\ More(s, LastSlot) <= 1
        /\ ~(s <= u) => More(s, LastSlot) = 0
    BY <1>5, <1>7, <1>14
  <2>2. G(s) <= 0 \/ G(s) <= last - tokens - s + 1 BY <1>1, <1>11, <1>16, <2>1
  <2>3. CASE s <= u
    <3>1. u = now - left BY <1>1, <1>4, <1>16, <2>1, <2>3
    <3>2. tok = tokens + (now - last) BY <1>1, <1>2, <1>4, <1>16, <2>1, <2>3, <3>1
    <3>. HIDE DEF u
    <3> QED BY <1>1, <1>2, <1>4, <2>1, <2>2, <2>3, <3>1, <3>2
  <2>4. CASE ~(s <= u)
    <3>1. More(s, LastSlot) = 0 BY <2>1, <2>4
    <3> QED BY <1>1, <1>2, <2>1, <2>2, <3>1
  <2> QED BY <2>3, <2>4
<1>17. ASSUME NEW s \in Slot, NEW e \in Slot, s <= e
       PROVE  GrantedFor(s, e) + More(s, e) <= Burst + (e - s)
  <2>1. /\ GrantedFor(s, e) \in Int /\ G(s) \in Int /\ s \in Nat /\ e \in Nat /\ More(s, e) \in Int
        /\ GrantedFor(s, e) <= G(s) /\ GrantedFor(s, e) <= Burst + (e - s)
        /\ (~(s <= u /\ u <= e) => More(s, e) = 0)
    BY <1>5, <1>7, <1>12, <1>13, <1>14, <1>17
  <2>2. CASE ~(s <= u /\ u <= e) BY <1>1, <2>1, <2>2
  <2>3. CASE s <= u /\ u <= e
    <3>1. More(s, e) = More(s, LastSlot) BY <1>5, <2>3 , <1>4, <2>1 DEF More
    <3>. HIDE DEF u
    <3>2. CASE s <= now BY <1>1, <1>2, <1>4, <1>15, <2>1, <2>3, <3>1, <3>2
    <3>3. CASE s > now BY <1>1, <1>2, <1>4, <1>16, <2>1, <2>3, <3>1, <3>3
    <3> QED BY <1>1, <2>1, <3>2, <3>3
  <2> QED BY <2>2, <2>3
<1>18. PaidFor'
  <2>1. SUFFICES ASSUME NEW s \in Slot, s <= now PROVE G(s)' <= Burst + (now - s) - left
    BY <1>3 DEF PaidFor, G
  <2> QED BY <1>14, <1>15, <2>1
<1>19. Spaced'
  <2>1. SUFFICES ASSUME NEW s \in Slot, s > now
                 PROVE  G(s)' <= 0 \/ G(s)' <= now - left - s + 1
    BY <1>3 DEF Spaced, G
  <2> QED BY <1>14, <1>16, <2>1
<1>20. Paced' BY <1>6, <1>17 DEF Paced
<1> QED BY <1>1, <1>3, <1>8, <1>9, <1>18, <1>19, <1>20 DEF PaceInv

(* Every step keeps the pace, if time passes only when nobody has         *)
(* anything to do.                                                         *)
LEMMA PaceInductive ==
  ASSUME Prompt, TypeOK, TypeOK', PaceInv, [Next]_vars
  PROVE  PaceInv'
<1>1. now \in Nat /\ last \in Nat /\ last <= now BY HorizonNat DEF TypeOK, PaceInv
<1>2. ASSUME NEW c \in Caller, PollerStep(c) \/ LoaderStep(c) PROVE PaceInv'
  <2>1. CASE Grant(c) BY <2>1, GrantPaced
  <2>2. CASE ~Grant(c)
    <3>1. UNCHANGED <<tokens, last, now, slots>>
      BY <1>2, <2>2
      DEF PollerStep, LoaderStep, ReadClock, Refuse, Exhaust, Send, Succeed, Panic, Fail, OverQuota, Pause,
          Wake, Return, LoadEnds, LoadRefused, PollEnds, SleepUntil, limiterVars, history
    <3>2. \A x \in Caller \ {c} : pc'[x] = pc[x] /\ read'[x] = read[x]
      BY <1>2, <2>2
      DEF PollerStep, LoaderStep, ReadClock, Refuse, Exhaust, Send, Succeed, Panic, Fail, OverQuota, Pause,
          Wake, Return, LoadEnds, LoadRefused, PollEnds, SleepUntil, limiterVars, history, At, TypeOK
    <3>3. pc'[c] = "reserving" => read'[c] = now
      BY <1>2, <2>2
      DEF PollerStep, LoaderStep, ReadClock, Refuse, Exhaust, Send, Succeed, Panic, Fail, OverQuota, Pause,
          Wake, Return, LoadEnds, LoadRefused, PollEnds, SleepUntil, At, TypeOK
    <3>4. OnTime' BY <3>1, <3>2, <3>3 DEF PaceInv, OnTime
    <3> QED BY <1>1, <3>1, <3>4, NobodyGranted
  <2> QED BY <2>1, <2>2
<1>3. CASE Used \/ Shutdown \/ UNCHANGED vars
  <2>1. UNCHANGED <<tokens, last, now, slots, pc, read>>
    BY <1>3 DEF Used, Shutdown, vars, limiterVars, callerVars, history
  <2>2. OnTime' BY <2>1 DEF PaceInv, OnTime
  <2> QED BY <1>1, <2>1, <2>2, NobodyGranted
<1>4. CASE Tick
  <2>1. UNCHANGED <<tokens, last, slots, pc, read>> /\ now' = now + 1
    BY <1>4 DEF Tick, limiterVars, callerVars, history
  <2>2. \A c \in Caller : pc[c] # "reserving" BY <1>4 DEF Tick, CanAct
  <2>3. OnTime' BY <2>1, <2>2 DEF OnTime
  <2>4. last <= now' BY <1>1, <2>1
  <2> QED BY <2>1, <2>3, <2>4, NobodyGranted
<1>5. CASE Restart
  <2>1. /\ tokens' = Burst /\ last' = now /\ now' = now /\ Burst \in Nat
        /\ \A c \in Caller : pc'[c] = "due"
        /\ slots' = [s \in Slot |-> 0]
    BY <1>5, QuotaConstants DEF Restart
  <2>2. \A s, e \in Slot : GrantedFor(s, e)' = 0
    <3>1. SUFFICES ASSUME NEW s \in Slot, NEW e \in Slot PROVE GrantedFor(s, e)' = 0 OBVIOUS
    <3>2. slots'[e] = 0 /\ (s # 0 => slots'[s - 1] = 0) BY <2>1, SlotsTyped
    <3> QED BY <3>2 DEF GrantedFor
  <2>3. LastSlot \in Slot /\ \A s \in Slot : s \in Nat BY SlotsTyped
  <2>4. PaidFor' BY <1>1, <2>1, <2>2, <2>3 DEF PaidFor
  <2>5. Spaced' BY <1>1, <2>1, <2>2, <2>3 DEF Spaced
  <2>6. Paced' BY <2>1, <2>2, <2>3 DEF Paced
  <2>7. SlotsOrdered' BY <2>1 DEF SlotsOrdered
  <2> QED BY <1>1, <2>1, <2>4, <2>5, <2>6, <2>7 DEF PaceInv, OnTime
<1> QED BY <1>2, <1>3, <1>4, <1>5 DEF Next, Over, Caller

(* With callers on time, whatever they ask and whenever the day turns, any *)
(* span of n ticks has at most n requests and a burst                      *)
(* (limiter.go:39-42, 95-105).                                             *)
THEOREM PaceHolds == ASSUME Prompt PROVE Spec => []Paced
<1>1. Init => PaceInv
  <2>. SUFFICES ASSUME Init PROVE PaceInv OBVIOUS
  <2>0. TypeOK BY Zeros, ZeroFunctions DEF Init, TypeOK
  <2>1. /\ tokens = Burst /\ last = 0 /\ now = 0 /\ Burst \in Nat
        /\ (\A c \in Caller : pc[c] = "due") /\ slots = [s \in Slot |-> 0]
    BY QuotaConstants DEF Init
  <2>2. \A s, e \in Slot : GrantedFor(s, e) = 0 BY <2>0, <2>1, SlotsTyped DEF GrantedFor
  <2>3. LastSlot \in Slot /\ \A s \in Slot : s \in Nat BY <2>0, SlotsTyped
  <2> QED BY <2>1, <2>2, <2>3 DEF PaceInv, OnTime, SlotsOrdered, PaidFor, Spaced, Paced
<1>2. TypeOK /\ TypeOK' /\ PaceInv /\ [Next]_vars => PaceInv'
  BY PaceInductive
<1>3. PaceInv => Paced BY DEF PaceInv
<1> QED BY <1>1, <1>2, <1>3, Typed, PTL DEF Spec
=============================================================================
