---------------------------- MODULE CircuitBreaker ----------------------------
(***************************************************************************)
(* The circuit breaker of routing/adaptive_router.rs, shared by the shard  *)
(* workers: record_rst and record_success are called for the packets they  *)
(* see, decide() for the connections they route.  The state and the RST    *)
(* count are independent relaxed atomics; record_rst holds the mutex of    *)
(* the window from its first look at the window to its return, while       *)
(* record_success holds nothing.  Each access to an atomic is a step.      *)
(*                                                                         *)
(* record_rst reads the clock once, after taking the mutex, and uses that  *)
(* reading for every comparison and for the time it stores: the clock may  *)
(* have moved on by then.  Times are in abstract ticks.                    *)
(***************************************************************************)
EXTENDS Integers, FiniteSets

CONSTANTS Workers,           \* shard workers
          BreakerThreshold,  \* circuit_breaker_rst_threshold (50)
          BreakerWindow,     \* circuit_breaker_window_secs (60)
          BreakerTimeout,    \* circuit_breaker_timeout_secs (300)
          RstBound,          \* bound: RSTs counted
          RouteBound,        \* bound: connections routed while half open
          ClockBound,        \* bound: time
          NoWorker

ASSUME BreakerAssumption ==
  /\ BreakerThreshold \in Nat \ {0} /\ BreakerWindow \in Nat /\ BreakerTimeout \in Nat
  /\ RstBound \in Nat /\ RouteBound \in Nat /\ ClockBound \in Nat /\ NoWorker \notin Workers

VARIABLES
  state,        \* of the breaker
  count,        \* rst_count
  clock,        \* the monotonic clock
  windowStart,  \* window_start
  openedAt,     \* the time in opened_at
  opened,       \* FALSE as long as opened_at is None
  mutex,        \* the worker that holds the mutex of window_start
  now,          \* the clock as that worker read it
  at,           \* where each worker is in its call
  seen,         \* the count that worker read
  openRead,     \* history: the reading of the call that opened the breaker last
  openSince,    \* history: the clock when it did
  tested        \* history: connections sent through desync while half open

history == <<openRead, openSince, tested>>
breakerVars ==
  <<state, count, clock, windowStart, openedAt, opened, mutex, now, at, seen, history>>

BreakerInit ==
  /\ state = "Closed" /\ count = 0
  /\ clock = 0 /\ windowStart = 0 /\ openedAt = 0 /\ opened = FALSE
  /\ mutex = NoWorker /\ now = 0
  /\ at = [w \in Workers |-> "idle"]
  /\ seen = [w \in Workers |-> 0]
  /\ openRead = 0 /\ openSince = 0 /\ tested = 0

\* Bound: ClockBound.
BreakerTick ==
  /\ clock < ClockBound
  /\ clock' = clock + 1
  /\ UNCHANGED <<state, count, windowStart, openedAt, opened, mutex, now, at, seen>>
  /\ UNCHANGED history

Goto(w, step) == at' = [at EXCEPT ![w] = step]

SetState(s) ==
  /\ state' = s
  /\ openRead' = IF s = "Open" THEN now ELSE openRead
  /\ openSince' = IF s = "Open" THEN clock ELSE openSince
  /\ tested' = IF s = "HalfOpen" THEN 0 ELSE tested
SameState == UNCHANGED <<state, history>>

-----------------------------------------------------------------------------
(* record_rst.                                                             *)

RstCount(w) ==
  /\ at[w] = "idle" /\ count < RstBound
  /\ count' = count + 1
  /\ Goto(w, "lock")
  /\ SameState
  /\ UNCHANGED <<clock, windowStart, openedAt, opened, mutex, now, seen>>

RstLock(w) ==
  /\ at[w] = "lock" /\ mutex = NoWorker
  /\ mutex' = w /\ now' = clock
  /\ Goto(w, "window")
  /\ SameState
  /\ UNCHANGED <<count, clock, windowStart, openedAt, opened, seen>>

Return(w) == mutex' = NoWorker /\ now' = 0 /\ Goto(w, "idle")
Keep == UNCHANGED <<mutex, now>>

FirstOfWindowAgain == count + 1  \* variant: the RST is counted a second time
FirstOfWindow == 1

\* An expired window starts over with this RST, and nothing else is examined.
RstNewWindow(w) ==
  /\ at[w] = "window" /\ now - windowStart > BreakerWindow
  /\ windowStart' = now /\ count' = FirstOfWindow
  /\ Return(w)
  /\ SameState
  /\ UNCHANGED <<clock, openedAt, opened, seen>>

RstSameWindow(w) ==
  /\ at[w] = "window" /\ now - windowStart <= BreakerWindow
  /\ seen' = [seen EXCEPT ![w] = count]
  /\ Goto(w, "trip")
  /\ SameState /\ Keep
  /\ UNCHANGED <<count, clock, windowStart, openedAt, opened>>

Tripping(w) == seen[w] >= BreakerThreshold /\ state = "Closed"

AfterTripUnstamped == "probe"  \* variant: the time of the opening is not stored
AfterTrip == "stamp"

RstTrip(w) ==
  /\ at[w] = "trip"
  /\ IF Tripping(w) THEN SetState("Open") /\ Goto(w, AfterTrip)
                    ELSE SameState /\ Goto(w, "probe")
  /\ Keep /\ UNCHANGED <<count, clock, windowStart, openedAt, opened, seen>>

StampFirstOnly == IF opened THEN openedAt ELSE now  \* variant: keeps an older stamp
Stamp == now

RstStamp(w) ==
  /\ at[w] = "stamp"
  /\ opened' = TRUE /\ openedAt' = Stamp
  /\ Goto(w, "probe")
  /\ SameState /\ Keep
  /\ UNCHANGED <<count, clock, windowStart, seen>>

RstProbe(w) ==
  /\ at[w] = "probe"
  /\ IF state = "Open" /\ opened /\ now - openedAt > BreakerTimeout
     THEN Goto(w, "half") /\ Keep
     ELSE Return(w)
  /\ SameState
  /\ UNCHANGED <<count, clock, windowStart, openedAt, opened, seen>>

RstHalfOpen(w) ==
  /\ at[w] = "half"
  /\ SetState("HalfOpen")
  /\ Return(w)
  /\ UNCHANGED <<count, clock, windowStart, openedAt, opened, seen>>

-----------------------------------------------------------------------------
(* record_success.                                                         *)

Closable == state = "HalfOpen"

SuccessLook(w) ==
  /\ at[w] = "idle" /\ Closable
  /\ Goto(w, "close")
  /\ SameState /\ Keep
  /\ UNCHANGED <<count, clock, windowStart, openedAt, opened, seen>>

SuccessClose(w) ==
  /\ at[w] = "close"
  /\ SetState("Closed")
  /\ Goto(w, "zero") /\ Keep
  /\ UNCHANGED <<count, clock, windowStart, openedAt, opened, seen>>

SuccessZero(w) ==
  /\ at[w] = "zero"
  /\ count' = 0
  /\ Goto(w, "idle")
  /\ SameState /\ Keep
  /\ UNCHANGED <<clock, windowStart, openedAt, opened, seen>>

-----------------------------------------------------------------------------
\* decide() sends a blocked connection through desync unless the breaker is open.
\* Bound: RouteBound.
RouteDesync ==
  /\ state = "HalfOpen" /\ tested < RouteBound
  /\ tested' = tested + 1
  /\ UNCHANGED <<state, count, clock, windowStart, openedAt, opened, mutex, now, at, seen,
                 openRead, openSince>>

InCall(w) ==
  \/ RstLock(w) \/ RstNewWindow(w) \/ RstSameWindow(w) \/ RstTrip(w) \/ RstStamp(w)
  \/ RstProbe(w) \/ RstHalfOpen(w) \/ SuccessClose(w) \/ SuccessZero(w)

BreakerNext ==
  \/ BreakerTick \/ RouteDesync
  \/ \E w \in Workers : RstCount(w) \/ SuccessLook(w) \/ InCall(w)

BreakerSpec == BreakerInit /\ [][BreakerNext]_breakerVars

\* Time passes and a call under way returns.
FairBreakerSpec ==
  BreakerSpec /\ WF_breakerVars(BreakerTick) /\ \A w \in Workers : WF_breakerVars(InCall(w))

-----------------------------------------------------------------------------
States == {"Closed", "Open", "HalfOpen"}

\* Type invariant: every variable stays in its range.
BreakerTypeOK ==
  /\ state \in States /\ count \in 0 .. RstBound
  /\ clock \in 0 .. ClockBound
  /\ {windowStart, openedAt, now, openRead, openSince} \subseteq 0 .. clock
  /\ opened \in BOOLEAN /\ mutex \in Workers \cup {NoWorker}
  /\ at \in [Workers -> {"idle", "lock", "window", "trip", "stamp", "probe", "half",
                         "close", "zero"}]
  /\ seen \in [Workers -> 0 .. RstBound]
  /\ tested \in 0 .. RouteBound

\* A breaker that is open has the time its timeout runs from, or the worker that opened
\* it still holds the mutex and is about to store it: otherwise record_rst could never
\* take it to half open.
OpenIsTimed ==
  state = "Open" => opened \/ \E w \in Workers : mutex = w /\ at[w] = "stamp"

\* A worker makes an open breaker half open only if its own reading of the clock is later
\* by more than the timeout than the reading of the call that opened the breaker last:
\* neither the time of an earlier opening nor that of another call is taken for it.
HalfOpenOnOwnTime ==
  \A w \in Workers : at[w] = "half" /\ state = "Open" => now - openRead > BreakerTimeout

\* The breaker becomes half open no earlier than its timeout after it was opened.
HalfOpenAfterTimeout ==
  \A w \in Workers : at[w] = "half" /\ state = "Open" => clock - openSince > BreakerTimeout

\* record_success: a success closes a half-open breaker and no other one.
SuccessClosesOnlyHalfOpen == [][state = "Open" => state' # "Closed"]_breakerVars

\* "If the RST count in the window is above the threshold: OPEN".
OpensAboveThreshold ==
  [][state = "Closed" /\ state' = "Open" =>
       \E w \in Workers : at[w] = "trip" /\ seen[w] > BreakerThreshold]_breakerVars

\* "Half open: the timeout has passed, desync is tried on one connection".
OneTestConnection == tested <= 1

\* An open breaker is tested again once its timeout has passed.
OpenIsTested == state = "Open" ~> state # "Open"
=============================================================================
