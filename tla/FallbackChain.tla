---------------------------- MODULE FallbackChain ----------------------------
(***************************************************************************)
(* FallbackChain (adaptive/fallback.rs): the ring of desync strategies     *)
(* that moves on when the current one keeps failing, and how the pipeline  *)
(* feeds it (observe_connection_outcome in engine/mod.rs): an outcome of   *)
(* any connection is booked on the strategy that is current by then.  The  *)
(* pipeline keeps the chain behind one mutex, so a call is one step.       *)
(*                                                                         *)
(* Times are in abstract ticks; the jitter makes the backoff any time up   *)
(* to its cap.  Latencies and last_used are only reported and left out.    *)
(***************************************************************************)
EXTENDS Integers, Sequences, FiniteSets

CONSTANTS NumEntries,   \* strategies in the chain
          Threshold,    \* error_threshold (10 in the code)
          Window,       \* of the error window (30 s)
          MinSwitch,    \* min_switch_interval (30 s)
          BackoffCap,   \* backoff_cap (15 s)
          CountBound,   \* bound: outcomes booked on one strategy
          Connections   \* connections with an outcome to come

ASSUME ChainAssumption ==
  /\ NumEntries \in Nat \ {0} /\ Threshold \in Nat \ {0}
  /\ Window \in Nat /\ MinSwitch \in Nat /\ BackoffCap \in Nat /\ CountBound \in Nat

VARIABLES
  current,    \* index of the current strategy
  successes, failures,  \* of each strategy
  sinceSwitch,          \* time since last_switch, saturating at MinSwitch
  backoff,    \* time left until next_allowed
  errors,     \* ages of the errors in the window, oldest first
  strategyOf, \* the strategy each connection was opened with, -1 before
  earned      \* history: failures since the last success, up to Threshold

vars == <<current, successes, failures, sinceSwitch, backoff, errors, strategyOf, earned>>

Entries == 0 .. NumEntries - 1

Init ==
  /\ current = 0
  /\ successes = [e \in Entries |-> 0] /\ failures = [e \in Entries |-> 0]
  /\ sinceSwitch = 0 /\ backoff = 0
  /\ errors = <<>>
  /\ strategyOf = [c \in Connections |-> -1]
  /\ earned = 0

Open(c) ==
  /\ strategyOf[c] = -1
  /\ strategyOf' = [strategyOf EXCEPT ![c] = current]
  /\ UNCHANGED <<current, successes, failures, sinceSwitch, backoff, errors, earned>>

YoungTooLong(age) == age <= Window  \* variant
Young(age) == age < Window

\* Errors older than the window are dropped from its front whenever it is used.
Tick ==
  /\ sinceSwitch' = IF sinceSwitch < MinSwitch THEN sinceSwitch + 1 ELSE sinceSwitch
  /\ backoff' = IF backoff > 0 THEN backoff - 1 ELSE 0
  /\ errors' = LET young == Cardinality({i \in 1 .. Len(errors) : Young(errors[i])})
               IN  [i \in 1 .. young |-> errors[Len(errors) - young + i] + 1]
  /\ UNCHANGED <<current, successes, failures, strategyOf, earned>>

\* success_rate() >= 0.3; a strategy without outcomes counts as successful.
Viable(e, f) == LET total == successes[e] + f[e]
                IN  total = 0 \/ 10 * successes[e] >= 3 * total

can_switch == sinceSwitch >= MinSwitch /\ backoff = 0

\* The first viable strategy after the current one, which comes last itself.
Successor(f) ==
  LET distances == {i \in 1 .. NumEntries : Viable((current + i) % NumEntries, f)}
      nearest == CHOOSE i \in distances : \A j \in distances : i <= j
  IN  (current + nearest) % NumEntries

Advance(f) ==
  IF can_switch /\ \E e \in Entries : Viable(e, f)
  THEN current' = Successor(f) /\ sinceSwitch' = 0
  ELSE UNCHANGED <<current, sinceSwitch>>

ErrorsKept == errors  \* variant: a success does not clear the error window
ErrorsCleared == <<>>

Finish(c) == strategyOf' = [strategyOf EXCEPT ![c] = -1]

record_success(c) ==
  /\ strategyOf[c] # -1 /\ successes[current] < CountBound
  /\ successes' = [successes EXCEPT ![current] = @ + 1]
  /\ backoff' = 0
  /\ errors' = ErrorsCleared
  /\ earned' = 0
  /\ Finish(c)
  /\ UNCHANGED <<current, failures, sinceSwitch>>

record_failure(c) ==
  /\ strategyOf[c] # -1 /\ failures[current] < CountBound
  /\ failures' = [failures EXCEPT ![current] = @ + 1]
  /\ errors' = Append(errors, 0)
  /\ earned' = IF earned < Threshold THEN earned + 1 ELSE earned
  /\ Finish(c)
  /\ IF Len(errors') >= Threshold
     THEN /\ Advance(failures')
          /\ backoff' \in 0 .. BackoffCap
     ELSE UNCHANGED <<current, sinceSwitch, backoff>>
  /\ UNCHANGED successes

Next == \/ Tick
        \/ \E c \in Connections : Open(c) \/ record_success(c) \/ record_failure(c)

Spec == Init /\ [][Next]_vars

-----------------------------------------------------------------------------
\* Type invariant: every variable stays in its range.
TypeOK ==
  /\ current \in Entries
  /\ successes \in [Entries -> 0 .. CountBound] /\ failures \in [Entries -> 0 .. CountBound]
  /\ sinceSwitch \in 0 .. MinSwitch /\ backoff \in 0 .. BackoffCap
  /\ errors \in Seq(0 .. Window)
  /\ strategyOf \in [Connections -> Entries \cup {-1}]
  /\ earned \in Nat

\* "At least threshold errors in the window: advance": the chain leaves a strategy only
\* after that many failures without a success in between, whoever they are booked on.
SwitchIsEarned == [][current' # current => earned' >= Threshold]_vars

\* "All strategies exhausted: direct (passthrough)": a failure that would move the
\* chain on when no strategy is viable any more leaves none of them current.
ExhaustedIsDirect ==
  [][failures' # failures /\ Len(errors') >= Threshold /\ can_switch
     /\ (\A e \in Entries : ~Viable(e, failures')) => current' \notin Entries]_vars

\* "Every strategy has its success and fail counters": an outcome is booked on the
\* strategy its connection was opened with.
BookedOnItsOwn ==
  [][\A c \in Connections : strategyOf[c] # -1 /\ strategyOf'[c] = -1 =>
       \A e \in Entries : successes'[e] + failures'[e] # successes[e] + failures[e]
                          => e = strategyOf[c]]_vars
=============================================================================
