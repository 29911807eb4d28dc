------------------------------ MODULE ZeroConfig ------------------------------
(***************************************************************************)
(* The whitelist detector (detector/detector.rs) and the zero-config       *)
(* engine it switches (proxy/zero_config.rs).  Each detection pass reduces *)
(* the outcomes of its probes to a verdict; a changed verdict is passed to *)
(* set_auto_active, which spawns an activation task on the rising edge and *)
(* takes the tunnel down on the falling one.  An activation registers and  *)
(* dials over the network, so anything may happen before it ends, and it   *)
(* may not end at all: neither the calls to the SurfEasy API nor the       *)
(* handshakes of the test connection have a timeout.                       *)
(*                                                                         *)
(* initialize is spawned before the detector and reaches its first await   *)
(* without waiting, while a pass needs network round trips: the model lets *)
(* passes end only after that.                                             *)
(***************************************************************************)
EXTENDS Integers, FiniteSets

CONSTANTS AutoDetect, \* zero_config.auto_detect
          Positives,  \* positive canaries
          Negatives,  \* negative canaries
          Tasks,      \* bound: activation tasks spawned at the same time
          InitTask    \* the task that runs initialize

ASSUME ZeroConfigAssumption ==
  /\ AutoDetect \in BOOLEAN
  /\ Positives \in Nat /\ Negatives \in Nat
  /\ InitTask \notin Tasks

VARIABLES
  enabled,      \* zero_config.enabled
  verdict,      \* state_detail of the detector
  detector,     \* what the detector's task does next
  auto_active,  \* auto_active
  state,        \* state of the engine
  tunnel,       \* TRUE iff there is a tunnel
  task          \* where each activation is

engineVars == <<enabled, verdict, detector, auto_active, state, tunnel, task>>

AllTasks == Tasks \cup {InitTask}
Unknown == [is |-> "unknown", blocked |-> 0, l7 |-> FALSE]
Inactive == [is |-> "inactive", blocked |-> 0, l7 |-> FALSE]
Active(n, l7) == [is |-> "active", blocked |-> n, l7 |-> l7]

EngineInit ==
  /\ enabled \in BOOLEAN
  /\ verdict = Unknown
  /\ detector = "idle"
  /\ auto_active = FALSE
  /\ state = "Initializing"
  /\ tunnel = FALSE
  /\ task = [t \in AllTasks |-> IF t = InitTask THEN "initialize" ELSE "none"]

-----------------------------------------------------------------------------
(* Activation.                                                             *)

Step(t, pc) == task' = [task EXCEPT ![t] = pc]

\* initialize: activates at once when enabled, and otherwise waits for the detector.
Initialize ==
  /\ task[InitTask] = "initialize"
  /\ IF enabled THEN Step(InitTask, "check") /\ UNCHANGED state
     ELSE Step(InitTask, "none") /\ state' = "DesyncOnly"
  /\ UNCHANGED <<enabled, verdict, detector, auto_active, tunnel>>

\* activate_tunnel: nothing to do when the tunnel is already active.
Check(t) ==
  /\ task[t] = "check"
  /\ Step(t, IF state = "OperaProxyActive" THEN "none" ELSE "dial")
  /\ UNCHANGED <<enabled, verdict, detector, auto_active, state, tunnel>>

\* Registration, discovery and the test connection, any of which may fail.
Dial(t, ok) ==
  /\ task[t] = "dial"
  /\ Step(t, IF ok THEN "store" ELSE "failed")
  /\ UNCHANGED <<enabled, verdict, detector, auto_active, state, tunnel>>

\* A server that accepts a connection and never answers.
Hang(t) ==
  /\ task[t] = "dial"
  /\ Step(t, "hung")
  /\ UNCHANGED <<enabled, verdict, detector, auto_active, state, tunnel>>

StoreTunnel(t) ==
  /\ task[t] = "store"
  /\ tunnel' = TRUE
  /\ Step(t, "publish")
  /\ UNCHANGED <<enabled, verdict, detector, auto_active, state>>

Publish(t) ==
  /\ task[t] = "publish"
  /\ state' = "OperaProxyActive"
  /\ Step(t, "none")
  /\ UNCHANGED <<enabled, verdict, detector, auto_active, tunnel>>

WithdrawNothing == auto_active' = auto_active  \* variant: the flag stays set
Withdraw == auto_active' = FALSE

PublishNothing == state' = state  \* variant: the failure is only logged
PublishFailure == state' = "Failed"

\* A failed activation withdraws the detector's request; a failed initialize
\* publishes its failure.
Fail(t) ==
  /\ task[t] = "failed"
  /\ Step(t, "none")
  /\ IF t = InitTask THEN PublishFailure /\ UNCHANGED auto_active
     ELSE Withdraw /\ UNCHANGED state
  /\ UNCHANGED <<enabled, verdict, detector, tunnel>>

TaskStep(t) ==
  Check(t) \/ (\E ok \in BOOLEAN : Dial(t, ok)) \/ StoreTunnel(t) \/ Publish(t) \/ Fail(t)

-----------------------------------------------------------------------------
(* Detection.                                                              *)

\* Variant: more than half of the negative canaries is enough.
aggregateHalf(ok, blocked, l7) ==
  IF Positives = 0 \/ Negatives < 3 \/ 10 * ok < 7 * Positives THEN Unknown
  ELSE IF 2 * blocked > Negatives THEN Active(blocked, 2 * l7 > blocked)
  ELSE Inactive

\* The verdict of a pass in which so many positive canaries answered, so many
\* negative ones were blocked, and so many of those at the TLS stage.
aggregate(ok, blocked, l7) ==
  IF Positives = 0 \/ Negatives < 3 \/ 10 * ok < 7 * Positives THEN Unknown
  ELSE IF 10 * blocked >= 7 * Negatives THEN Active(blocked, 2 * l7 > blocked)
  ELSE Inactive

\* A pass that ends with the verdict it had before notifies nobody.
DetectionPass(ok, blocked, l7) ==
  /\ AutoDetect /\ detector = "idle" /\ task[InitTask] # "initialize"
  /\ l7 <= blocked
  /\ aggregate(ok, blocked, l7) # verdict
  /\ verdict' = aggregate(ok, blocked, l7)
  /\ detector' = "notify"
  /\ UNCHANGED <<enabled, auto_active, state, tunnel, task>>

\* set_auto_active(true): the rising edge spawns an activation.
SwitchOn ==
  /\ detector = "notify" /\ verdict.is = "active"
  /\ detector' = "idle"
  /\ auto_active' = TRUE
  /\ IF auto_active THEN UNCHANGED task
     ELSE \E t \in Tasks : task[t] = "none" /\ Step(t, "check")
  /\ UNCHANGED <<enabled, verdict, state, tunnel>>

\* set_auto_active(false): the falling edge takes down the tunnel, then the state.
SwitchOff ==
  /\ detector = "notify" /\ verdict.is # "active"
  /\ detector' = IF auto_active THEN "drop" ELSE "idle"
  /\ auto_active' = FALSE
  /\ UNCHANGED <<enabled, verdict, state, tunnel, task>>

DropTunnel ==
  /\ detector = "drop"
  /\ tunnel' = FALSE
  /\ detector' = "desync"
  /\ UNCHANGED <<enabled, verdict, auto_active, state, task>>

DesyncOnly ==
  /\ detector = "desync"
  /\ state' = "DesyncOnly"
  /\ detector' = "idle"
  /\ UNCHANGED <<enabled, verdict, auto_active, tunnel, task>>

Notify == SwitchOn \/ SwitchOff \/ DropTunnel \/ DesyncOnly

-----------------------------------------------------------------------------
EngineNext ==
  \/ Initialize \/ \E t \in AllTasks : TaskStep(t) \/ Hang(t)
  \/ \E ok \in 0 .. Positives, blocked \in 0 .. Negatives, l7 \in 0 .. Negatives :
       DetectionPass(ok, blocked, l7)
  \/ Notify

EngineSpec == EngineInit /\ [][EngineNext]_engineVars

\* Tasks run.  Hang, which takes a task out of every fair step, is never obliged and
\* never excluded.
FairEngineSpec ==
  /\ EngineSpec
  /\ WF_engineVars(Initialize) /\ WF_engineVars(Notify)
  /\ \A t \in AllTasks : WF_engineVars(TaskStep(t))

-----------------------------------------------------------------------------
\* Type invariant: in particular an active verdict has at least 70 percent of the
\* negative canaries blocked.
EngineTypeOK ==
  /\ enabled \in BOOLEAN
  /\ verdict \in {Unknown, Inactive} \cup
       {Active(n, l7) : n \in {m \in 0 .. Negatives : 10 * m >= 7 * Negatives},
                        l7 \in BOOLEAN}
  /\ detector \in {"idle", "notify", "drop", "desync"}
  /\ auto_active \in BOOLEAN /\ tunnel \in BOOLEAN
  /\ state \in {"Initializing", "OperaProxyActive", "DesyncOnly", "Failed"}
  /\ task \in [AllTasks -> {"none", "initialize", "check", "dial", "store", "publish",
                            "failed", "hung"}]

Quiet == detector = "idle" /\ \A t \in AllTasks : task[t] = "none"

\* A request that still stands once every task has ended has been served: no
\* sequence of activations, failures and withdrawals leaves it unanswered, except that
\* an initialize that fails late may report its own failure over the success.
RequestIsServed ==
  Quiet /\ auto_active => state = "OperaProxyActive" \/ (enabled /\ state = "Failed")

\* A request that still stands once every task has ended has been served, whatever
\* initialize had to report.
StandingRequestIsActive == Quiet /\ auto_active => state = "OperaProxyActive"

\* Start-up ends: whatever the detector does meanwhile, the state that get_state reports
\* stays at Initializing only while a server that never answers holds initialize.
LeavesInitializing == <>[](state = "Initializing" => task[InitTask] = "hung")

\* Start-up ends whatever the servers do.
StartUpEnds == <>[](state # "Initializing")

\* get_state is honest: once every task has ended, an engine that reports an active
\* Opera proxy has a tunnel to forward to (is_active).
ActiveMeansTunnel == Quiet /\ state = "OperaProxyActive" => tunnel

\* When the detector has withdrawn its request and every task has ended, a tunnel that
\* only the detector asked for is down.
WithdrawnMeansDown ==
  Quiet /\ ~enabled /\ ~auto_active /\ verdict.is # "active" =>
    state # "OperaProxyActive" /\ ~tunnel

\* A drop-all verdict that lasts brings the tunnel up in the end.
DropAllActivates ==
  verdict.is = "active" ~> (state = "OperaProxyActive" \/ verdict.is # "active")
=============================================================================
