------------------------------- MODULE Quota -------------------------------
(***************************************************************************)
(* internal/feed: the account-wide limiter and who spends it, the pollers  *)
(* (poller.go) and the timetable loader (gtfsstatic/load.go, refresh.go).  *)
(*                                                                         *)
(* Time is counted in ticks of 1/rps of a second, so one tick refills one  *)
(* token.  A caller reads the clock before it takes the limiter's lock     *)
(* (limiter.go:64), and asks when the budget resets under a second lock    *)
(* (poller.go:195): each is a step of its own.                             *)
(***************************************************************************)
EXTENDS Integers, FiniteSets

CONSTANTS
  Poller,       \* the pollers, one per feed
  Loader,       \* the timetable loader, if any: a set of at most one
  Budget,       \* FEED_DAILY_BUDGET
  Burst,        \* the bucket's capacity: one second's worth, at least 1
  Interval,     \* FEED_POLL_INTERVAL
  Jitter,       \* FEED_POLL_JITTER
  MaxBackoff,   \* five minutes
  MaxDoublings, \* how often the interval is doubled at most: 4
  LoadGaps,     \* how long the loader may sleep between two downloads; 0 between feeds
  DayLength,    \* ticks in a UTC day
  Days,         \* bound on the days the model lives through
  MaxRestarts,  \* bound on restarts of the process
  Prompt,       \* whether a caller that can act does before time passes
  Traced        \* the histories that are kept, of "sent", "told" and "slots"

Caller == Poller \cup Loader
Horizon == Days * DayLength
DayOf(t) == t \div DayLength
Day == 0..Days
Slot == 0..(Horizon + Cardinality(Caller))

ASSUME QuotaConstants ==
  /\ IsFiniteSet(Poller) /\ IsFiniteSet(Loader) /\ Poller \cap Loader = {}
  /\ Budget \in Nat \ {0} /\ Burst \in Nat \ {0}
  /\ Interval \in Nat \ {0} /\ Jitter \in Nat /\ MaxBackoff \in Nat /\ MaxDoublings \in Nat
  /\ LoadGaps \subseteq Nat
  /\ DayLength \in Nat \ {0} /\ Days \in Nat \ {0} /\ MaxRestarts \in Nat
  /\ Prompt \in BOOLEAN

VARIABLES
  now,                      \* the wall clock
  tokens, last, used, day,  \* Limiter
  pc,        \* where a caller is
  read,      \* the clock a caller read before taking the lock
  until,     \* when a caller's timer fires
  window,    \* the limiter's day when it granted or refused what a caller holds
  failures,  \* Poller.failures, as far as the backoff reads it
  stopping,  \* the context is cancelled
  restarts,  \* restarts so far, counted only to bound them
  granted,   \* history: requests granted by this process for each limiter day
  sent,      \* history: requests sent on each UTC day
  late,      \* history: <<c, d>> when c sent on day d a request granted before
  spent,     \* history: the days on which this process called Exhaust
  told,      \* history: the days on which the upstream said 403 over quota
  slots      \* history: how many requests this process granted for each moment or before it

limiterVars == <<tokens, last, used, day>>
callerVars  == <<pc, read, until, window, failures>>
history     == <<granted, sent, late, spent, told, slots>>

vars == <<now, limiterVars, callerVars, stopping, restarts, history>>

TypeOK ==
  /\ now \in 0..Horizon
  /\ tokens \in Int /\ last \in 0..Horizon /\ used \in 0..Budget /\ day \in Day
  /\ pc \in [Caller -> {"due", "reserving", "waiting", "flying", "overQuota", "refused",
                        "asleep", "paused", "stopped"}]
  /\ read \in [Caller -> 0..Horizon]
  /\ until \in [Caller -> Int]
  /\ window \in [Caller -> Day]
  /\ failures \in [Caller -> 0..MaxDoublings]
  /\ stopping \in BOOLEAN /\ restarts \in Nat
  /\ granted \in [Day -> Nat] /\ sent \in [Day -> Nat]
  /\ late \subseteq Caller \X Day
  /\ spent \subseteq Day /\ told \subseteq Day
  /\ slots \in [Slot -> Nat]

Today == DayOf(now)
Larger(m, n) == IF m > n THEN m ELSE n
Smaller(m, n) == IF m < n THEN m ELSE n

Kept(h) == IF h \in Traced THEN 1 ELSE 0
ToldNow == IF "told" \in Traced THEN told \cup {Today} ELSE told

At(c, from, to) == pc[c] = from /\ pc' = [pc EXCEPT ![c] = to]

-----------------------------------------------------------------------------
(* The limiter.                                                            *)

\* The budget window at time t: a new day opens it, an older clock does not.
WindowAt(t) ==
  IF DayOf(t) > day THEN [day |-> DayOf(t), used |-> 0] ELSE [day |-> day, used |-> used]

Rollover(t) == day' = WindowAt(t).day /\ used' = WindowAt(t).used

\* Mutant: the bucket is not capped at the burst.
RefillUncapped(t) == IF t > last THEN tokens + (t - last) ELSE tokens

\* Mutant: no refill.
RefillNever(t) == IF t > last THEN Smaller(tokens, Burst) ELSE tokens

Refill(t) == IF t > last THEN Smaller(tokens + (t - last), Burst) ELSE tokens

\* Mutant: off by one.
HasBudgetOrOneMore(c) == WindowAt(read[c]).used <= Budget

HasBudget(c) == WindowAt(read[c]).used < Budget

ReadClock(c) ==
  /\ At(c, "due", "reserving")
  /\ read' = [read EXCEPT ![c] = now]
  /\ UNCHANGED <<now, limiterVars, until, window, failures, stopping, restarts, history>>

Grant(c) ==
  /\ At(c, "reserving", "waiting")
  /\ HasBudget(c)
  /\ day' = WindowAt(read[c]).day
  /\ used' = WindowAt(read[c]).used + 1
  /\ tokens' = Refill(read[c]) - 1
  /\ last' = Larger(last, read[c])
  /\ until' = [until EXCEPT ![c] = now + Larger(0, -tokens')]
  /\ window' = [window EXCEPT ![c] = day']
  /\ read' = [read EXCEPT ![c] = 0]
  /\ granted' = [granted EXCEPT ![day'] = @ + Kept("sent")]
  /\ slots' = [s \in Slot |-> slots[s] + (IF s >= until'[c] THEN Kept("slots") ELSE 0)]
  /\ UNCHANGED <<now, failures, stopping, restarts, sent, late, spent, told>>

Refuse(c) ==
  /\ At(c, "reserving", "refused")
  /\ ~HasBudget(c)
  /\ Rollover(read[c])
  /\ window' = [window EXCEPT ![c] = day']
  /\ read' = [read EXCEPT ![c] = 0]
  /\ UNCHANGED <<now, tokens, last, until, failures, stopping, restarts, history>>

\* Mutant: the day is not turned before the budget is marked spent.
ExhaustOldDay(c) ==
  /\ At(c, "overQuota", "refused")
  /\ used' = Budget
  /\ window' = [window EXCEPT ![c] = day]
  /\ spent' = spent \cup {Today}
  /\ UNCHANGED <<now, tokens, last, day, read, until, failures, stopping, restarts,
                 granted, sent, late, told, slots>>

\* Exhaust, called by a poller that was told it is over quota.
Exhaust(c) ==
  /\ At(c, "overQuota", "refused")
  /\ day' = WindowAt(now).day
  /\ used' = Budget
  /\ window' = [window EXCEPT ![c] = day']
  /\ spent' = spent \cup {Today}
  /\ UNCHANGED <<now, tokens, last, read, until, failures, stopping, restarts,
                 granted, sent, late, told, slots>>

\* Used, called by the stats page: a reader that also turns the day.
Used ==
  /\ Today > day
  /\ Rollover(now)
  /\ UNCHANGED <<now, tokens, last, callerVars, stopping, restarts, history>>

-----------------------------------------------------------------------------
(* What every caller does with its reservation.                            *)

Send(c) ==
  /\ At(c, "waiting", "flying")
  /\ now >= until[c] /\ ~stopping
  /\ sent' = [sent EXCEPT ![Today] = @ + Kept("sent")]
  /\ late' = IF window[c] < Today /\ "sent" \in Traced THEN late \cup {<<c, Today>>} ELSE late
  /\ until' = [until EXCEPT ![c] = 0]
  /\ window' = [window EXCEPT ![c] = 0]
  /\ UNCHANGED <<now, limiterVars, read, failures, stopping, restarts,
                 granted, spent, told, slots>>

Wake(c) ==
  /\ \/ At(c, "asleep", "due")
     \/ At(c, "paused", "due")
  /\ now >= until[c]
  /\ until' = [until EXCEPT ![c] = 0]
  /\ window' = [window EXCEPT ![c] = 0]
  /\ UNCHANGED <<now, limiterVars, read, failures, stopping, restarts, history>>

\* Mutant: a cancelled wait ends the poll but not the loop.
ReturnToLoop(c) ==
  /\ stopping
  /\ pc[c] \in {"due", "waiting", "flying", "asleep", "paused"}
  /\ pc' = [pc EXCEPT ![c] = "due"]
  /\ until' = [until EXCEPT ![c] = 0] /\ window' = [window EXCEPT ![c] = 0]
  /\ UNCHANGED <<now, limiterVars, read, failures, stopping, restarts, history>>

\* Every wait ends with the context.
Return(c) ==
  /\ stopping
  /\ pc[c] \in {"due", "waiting", "flying", "asleep", "paused"}
  /\ pc' = [pc EXCEPT ![c] = "stopped"]
  /\ until' = [until EXCEPT ![c] = 0] /\ window' = [window EXCEPT ![c] = 0]
  /\ UNCHANGED <<now, limiterVars, read, failures, stopping, restarts, history>>

SleepUntil(c, t) ==
  /\ At(c, "flying", "asleep")
  /\ until' = [until EXCEPT ![c] = t]
  /\ UNCHANGED <<now, limiterVars, read, window, stopping, restarts,
                 granted, sent, late, spent, slots>>

-----------------------------------------------------------------------------
(* Pollers.                                                                *)

\* nextDelay after n failures: the interval, and jitter over what the backoff adds.
NextDelays(n) ==
  LET backoff == IF n = 0 THEN Interval ELSE Smaller(Interval * 2^n, MaxBackoff)
  IN  Interval..Larger(Interval, backoff + Jitter)

PollEnds(c, n) ==
  /\ failures' = [failures EXCEPT ![c] = n]
  /\ \E d \in NextDelays(n) : SleepUntil(c, now + d)

\* A body the handler deals with, or 304; a panic in the handler is recovered.
Succeed(c) == PollEnds(c, 0) /\ UNCHANGED told
Panic(c) == PollEnds(c, Smaller(1, MaxDoublings)) /\ UNCHANGED told

\* 403 over rate, 401, an empty body, a timeout, any other status or error.
\* An error is only looked at while the context lives.
Fail(c) == ~stopping /\ PollEnds(c, Smaller(failures[c] + 1, MaxDoublings)) /\ UNCHANGED told

OverQuota(c) ==
  /\ At(c, "flying", "overQuota")
  /\ ~stopping
  /\ told' = ToldNow
  /\ UNCHANGED <<now, limiterVars, read, until, window, failures, stopping, restarts,
                 granted, sent, late, spent, slots>>

\* Mutant: a whole day from now, whenever that is.
PauseADay(c) ==
  /\ At(c, "refused", "paused")
  /\ until' = [until EXCEPT ![c] = now + DayLength]
  /\ UNCHANGED <<now, limiterVars, read, window, failures, stopping, restarts, history>>

\* Mutant: a spent budget ends the poller.
PauseForGood(c) ==
  /\ At(c, "refused", "stopped")
  /\ UNCHANGED <<now, limiterVars, read, until, window, failures, stopping, restarts, history>>

\* budgetPause: ResetsIn from now is the end of the day the limiter is in.
Pause(c) ==
  /\ At(c, "refused", "paused")
  /\ until' = [until EXCEPT ![c] = (day + 1) * DayLength]
  /\ UNCHANGED <<now, limiterVars, read, window, failures, stopping, restarts, history>>

PollerStep(c) ==
  \/ ReadClock(c) \/ Grant(c) \/ Refuse(c) \/ Send(c)
  \/ Succeed(c) \/ Panic(c) \/ Fail(c) \/ OverQuota(c)
  \/ Exhaust(c) \/ Pause(c) \/ Wake(c) \/ Return(c)

-----------------------------------------------------------------------------
(* The loader: every answer but a bundle is an error, logged and retried.  *)

LoadEnds(c) ==
  /\ \E d \in LoadGaps : SleepUntil(c, now + d)
  /\ told' \in {told, ToldNow}
  /\ UNCHANGED failures

LoadRefused(c) ==
  /\ At(c, "refused", "asleep")
  /\ \E d \in LoadGaps : until' = [until EXCEPT ![c] = now + d]
  /\ UNCHANGED <<now, limiterVars, read, window, failures, stopping, restarts, history>>

LoaderStep(c) ==
  \/ ReadClock(c) \/ Grant(c) \/ Refuse(c) \/ Send(c)
  \/ LoadEnds(c) \/ LoadRefused(c) \/ Wake(c) \/ Return(c)

-----------------------------------------------------------------------------
CanAct(c) ==
  \/ pc[c] \in {"due", "reserving", "overQuota", "refused"}
  \/ pc[c] \in {"waiting", "asleep", "paused"} /\ now >= until[c]
  \/ pc[c] # "stopped" /\ stopping

Tick ==
  /\ now < Horizon
  /\ Prompt => \A c \in Caller : ~CanAct(c)
  /\ now' = now + 1
  /\ UNCHANGED <<limiterVars, callerVars, stopping, restarts, history>>

Shutdown ==
  /\ ~stopping
  /\ stopping' = TRUE
  /\ UNCHANGED <<now, limiterVars, callerVars, restarts, history>>

\* A new process: nothing of the limiter is kept anywhere.
Restart ==
  /\ restarts < MaxRestarts
  /\ restarts' = restarts + 1
  /\ stopping' = FALSE
  /\ tokens' = Burst /\ last' = now /\ used' = 0 /\ day' = Today
  /\ pc' = [c \in Caller |-> "due"]
  /\ read' = [c \in Caller |-> 0] /\ until' = [c \in Caller |-> 0]
  /\ window' = [c \in Caller |-> 0] /\ failures' = [c \in Caller |-> 0]
  /\ granted' = [d \in Day |-> 0] /\ spent' = {} /\ slots' = [s \in Slot |-> 0]
  /\ UNCHANGED <<now, sent, late, told>>

Over == now = Horizon /\ UNCHANGED vars

Init ==
  /\ now = 0
  /\ tokens = Burst /\ last = 0 /\ used = 0 /\ day = 0
  /\ pc = [c \in Caller |-> "due"]
  /\ read = [c \in Caller |-> 0] /\ until = [c \in Caller |-> 0]
  /\ window = [c \in Caller |-> 0] /\ failures = [c \in Caller |-> 0]
  /\ stopping = FALSE /\ restarts = 0
  /\ granted = [d \in Day |-> 0] /\ sent = [d \in Day |-> 0]
  /\ late = {} /\ spent = {} /\ told = {}
  /\ slots = [s \in Slot |-> 0]

Next ==
  \/ \E c \in Poller : PollerStep(c)
  \/ \E c \in Loader : LoaderStep(c)
  \/ Used \/ Tick \/ Shutdown \/ Restart \/ Over

Spec == Init /\ [][Next]_vars

(* Callers run and time passes; nothing else must happen. *)
FairSpec ==
  /\ Spec
  /\ \A c \in Poller : WF_vars(PollerStep(c))
  /\ \A c \in Loader : WF_vars(LoaderStep(c))
  /\ WF_vars(Tick)
-----------------------------------------------------------------------------
(* Properties.                                                             *)

(* However callers with older and newer clocks take the lock, and whoever  *)
(* turns the day, no limiter day grants more than the budget               *)
(* (limiter.go:84-116).                                                    *)
BudgetKept == \A d \in Day : granted[d] <= Budget

(* What really goes out on a UTC day exceeds the budget only by requests   *)
(* granted before midnight and sent after it, one for each caller at most  *)
(* (limiter.go:63-79).                                                     *)
SentWithinBudget ==
  restarts = 0 => \A d \in Day : sent[d] <= Budget + Cardinality({c \in Caller : <<c, d>> \in late})

(* Once a poller has marked a day spent, the limiter grants nothing more   *)
(* on it, whatever day it was in before (limiter.go:129-138).              *)
SpentStaysSpent ==
  [][restarts' = restarts => \A d \in spent : granted'[d] = granted[d]]_vars

(* A pause never outlasts the coming midnight, so a paused poller is there *)
(* when a new budget opens (poller.go:192-199).                            *)
PausesEndByMidnight ==
  \A c \in Poller : pc[c] = "paused" => until[c] <= (Today + 1) * DayLength

(* Nobody waits for a token longer than one token's time per caller: the   *)
(* bucket is never overdrawn by more than the callers can hold             *)
(* (limiter.go:95-105).                                                    *)
WaitBounded == \A c \in Caller : pc[c] = "waiting" => until[c] - now <= Cardinality(Caller)

\* How many were granted for the moments from s to e.
GrantedFor(s, e) == slots[e] - (IF s = 0 THEN 0 ELSE slots[s - 1])

(* Over any span of n ticks at most n requests and a burst are granted,    *)
(* with callers on time (limiter.go:39-42, 95-105).                        *)
Paced == \A s, e \in Slot : s <= e => GrantedFor(s, e) <= Burst + (e - s)

(* A poller refused for the day is back at the limiter once it has turned, *)
(* unless the process is stopping: no failure is an exit (poller.go:97-100).*)
BackAtMidnight ==
  \A c \in Poller : (pc[c] = "refused" /\ Today < Days) ~> (pc[c] = "reserving" \/ stopping)

(* After the context is cancelled every caller returns, from whatever wait *)
(* it was in: main waits for all of them (main.go:337-338).                *)
AllReturn == stopping ~> ((\A c \in Caller : pc[c] = "stopped") \/ ~stopping)

(* Once the upstream has said the quota is spent, nothing more is granted  *)
(* that day: "every feed must stop" (limiter.go:130-132).                  *)
QuotaAnswerStopsAll ==
  [][(\A c \in Caller : pc[c] # "overQuota") => \A d \in told : granted'[d] = granted[d]]_vars
=============================================================================
