----------------------------- MODULE ProxyProofs -----------------------------
(* Proofs about RedirectSession, for any number of connections and ports, any  *)
(* assignment of ports to connections and any pool of proxies, and about       *)
(* ZeroConfig, for any number of canaries and of tasks.                        *)
EXTENDS RedirectSession, ZeroConfig, TLAPS

-----------------------------------------------------------------------------
(* The redirect table.                                                       *)

\* As much of TypeOK as the argument needs.
RedirectTyped ==
  /\ table \in [Ports -> [for : Conns \cup {NoConn}, age : Nat]]
  /\ client \in [Conns -> {"unborn", "syn", "open", "gone"}]
  /\ DOMAIN session = Conns
  /\ dialled \in [Conns -> Conns \cup {NoConn}]

\* What the client's system guarantees: no two connections on one port at a time.
OnePerPort ==
  \A c, d \in Conns : Alive(c) /\ Alive(d) /\ PortOf[c] = PortOf[d] => c = d

\* The entry of a connection's predecessor is overwritten by its first SYN.
OwnEntryOrNone ==
  \A c \in Conns : Alive(c) => table[PortOf[c]].for \in {c, NoConn}

\* Nothing has been done for a connection that does not exist yet.
UnbornIsIdle ==
  \A c \in Conns : client[c] = "unborn" => session[c] = "none" /\ dialled[c] = NoConn

TableInv == RedirectTyped /\ OnePerPort /\ OwnEntryOrNone /\ UnbornIsIdle /\ DialsOwnTarget

LEMMA TableInit == Init => TableInv
<1> SUFFICES ASSUME Init PROVE TableInv
  OBVIOUS
<1> USE RedirectAssumption DEF Init, Alive
<1>1. RedirectTyped
  BY DEF RedirectTyped, NoEntry
<1> QED
  BY <1>1 DEF TableInv, OnePerPort, OwnEntryOrNone, UnbornIsIdle, DialsOwnTarget

\* A packet of a living connection puts its own target behind its port.
LEMMA InsertKeeps ==
  ASSUME NEW c \in Conns, NEW after \in {"syn", "open"}, TableInv,
         Alive(c) \/ (client[c] = "unborn" /\ PortFree(c)),
         insert(c), client' = [client EXCEPT ![c] = after],
         DOMAIN session' = Conns, \A d \in Conns \ {c} : session'[d] = session[d],
         UNCHANGED dialled
  PROVE  TableInv'
<1> USE RedirectAssumption DEF TableInv
<1>1. PortOf[c] \in Ports
  OBVIOUS
<1>2. RedirectTyped'
  BY <1>1 DEF RedirectTyped, insert
<1>3. client'[c] = after /\ \A d \in Conns \ {c} : client'[d] = client[d]
  BY DEF RedirectTyped
<1>4. /\ table'[PortOf[c]].for = c
      /\ \A p \in Ports \ {PortOf[c]} : table'[p] = table[p]
  BY <1>1 DEF RedirectTyped, insert
<1>5. \A d \in Conns \ {c} : Alive(d) => PortOf[d] # PortOf[c]
  BY DEF OnePerPort, PortFree
<1>6. OnePerPort'
  BY <1>3, <1>5 DEF OnePerPort, Alive
<1>7. OwnEntryOrNone'
  BY <1>3, <1>4, <1>5 DEF OwnEntryOrNone, Alive
<1>8. UnbornIsIdle'
  BY <1>3 DEF UnbornIsIdle
<1>9. DialsOwnTarget'
  BY <1>3 DEF DialsOwnTarget, UnbornIsIdle, Alive
<1> QED
  BY <1>2, <1>6, <1>7, <1>8, <1>9

\* A connection that ends takes nothing along.
LEMMA GoneKeeps ==
  ASSUME NEW c \in Conns, TableInv, client' = [client EXCEPT ![c] = "gone"],
         UNCHANGED <<table, session, dialled>>
  PROVE  TableInv'
<1> USE RedirectAssumption DEF TableInv
<1>1. RedirectTyped'
  BY DEF RedirectTyped
<1>2. client'[c] = "gone" /\ \A d \in Conns \ {c} : client'[d] = client[d]
  BY DEF RedirectTyped
<1>3. \A d \in Conns : Alive(d)' => Alive(d)
  BY <1>2 DEF Alive
<1> QED
  BY <1>1, <1>2, <1>3 DEF OnePerPort, OwnEntryOrNone, UnbornIsIdle, DialsOwnTarget

\* A session that exists goes on, having looked up nothing or the entry of its port.
LEMMA SessionKeeps ==
  ASSUME NEW c \in Conns, NEW step, TableInv, session[c] # "none", GoesTo(c, step),
         \/ UNCHANGED dialled
         \/ dialled' = [dialled EXCEPT ![c] = table[PortOf[c]].for],
         UNCHANGED <<table, client>>
  PROVE  TableInv'
<1> USE RedirectAssumption DEF TableInv
<1>1. table[PortOf[c]].for \in Conns \cup {NoConn}
  BY DEF RedirectTyped
<1>2. RedirectTyped'
  BY <1>1 DEF RedirectTyped, GoesTo
<1>3. OnePerPort' /\ OwnEntryOrNone'
  BY DEF OnePerPort, OwnEntryOrNone, Alive
<1>4. client[c] # "unborn"
  BY DEF UnbornIsIdle
<1>5. \A d \in Conns \ {c} : session'[d] = session[d] /\ dialled'[d] = dialled[d]
  BY DEF RedirectTyped, GoesTo
<1>6. UnbornIsIdle'
  BY <1>4, <1>5 DEF UnbornIsIdle
<1>7. DialsOwnTarget'
  BY <1>5 DEF DialsOwnTarget, OwnEntryOrNone, Alive, RedirectTyped
<1> QED
  BY <1>2, <1>3, <1>6, <1>7

\* Taking an entry out of the table, or letting it age, gives nobody another target.
LEMMA EntriesKeep ==
  ASSUME TableInv, table' \in [Ports -> [for : Conns \cup {NoConn}, age : Nat]],
         \A p \in Ports : table'[p].for \in {table[p].for, NoConn},
         UNCHANGED <<client, dialled>>,
         UNCHANGED session \/ \E c \in Conns : session[c] # "none" /\ GoesTo(c, "done")
  PROVE  TableInv'
<1> USE RedirectAssumption DEF TableInv
<1>1. RedirectTyped'
  BY DEF RedirectTyped, GoesTo
<1>2. OnePerPort' /\ DialsOwnTarget'
  BY DEF OnePerPort, DialsOwnTarget, Alive
<1>3. OwnEntryOrNone'
  BY DEF OwnEntryOrNone, Alive
<1>4. \A d \in Conns : session[d] = "none" => session'[d] = "none"
  BY DEF RedirectTyped, GoesTo
<1>5. UnbornIsIdle'
  BY <1>4 DEF UnbornIsIdle
<1> QED
  BY <1>1, <1>2, <1>3, <1>5

LEMMA ClientKeeps == ASSUME NEW c \in Conns, TableInv, ClientStep(c) PROVE TableInv'
<1>1. CASE Syn(c)
  BY <1>1, InsertKeeps DEF Syn, Alive, TableInv, RedirectTyped
<1>2. CASE SynForwarded(c)
  BY <1>2, GoneKeeps DEF SynForwarded
<1>3. CASE Packet(c)
  BY <1>3, InsertKeeps DEF Packet, TableInv, RedirectTyped
<1>4. CASE ClientGone(c)
  BY <1>4, GoneKeeps DEF ClientGone
<1> QED
  BY <1>1, <1>2, <1>3, <1>4 DEF ClientStep

LEMMA DialKeeps == ASSUME NEW c \in Conns, TableInv, Dials(c) PROVE TableInv'
<1>1. CASE Handle(c)
  BY <1>1, SessionKeeps DEF Handle
<1>2. CASE TunnelConnects(c) \/ DefaultPath(c)
  BY <1>2, SessionKeeps DEF TunnelConnects, DefaultPath
<1>3. CASE SelectBest(c) \/ NoHealthyProxy(c)
  BY <1>3, SessionKeeps DEF SelectBest, NoHealthyProxy
<1>4. ASSUME NEW ok \in BOOLEAN, CustomProxy(c, ok) \/ Opera(c, ok) \/ Direct(c, ok)
      PROVE  TableInv'
  BY <1>4, SessionKeeps DEF CustomProxy, Opera, Direct
<1> QED
  BY <1>1, <1>2, <1>3, <1>4 DEF Dials

LEMMA TableStep == TableInv /\ [Next]_vars => TableInv'
<1> SUFFICES ASSUME TableInv, [Next]_vars PROVE TableInv'
  OBVIOUS
<1> USE RedirectAssumption
<1>1. CASE UNCHANGED vars
  BY <1>1 DEF vars, TableInv, RedirectTyped, OnePerPort, OwnEntryOrNone, UnbornIsIdle,
              DialsOwnTarget, Alive
<1>2. ASSUME NEW c \in Conns, ClientStep(c) \/ Dials(c) PROVE TableInv'
  BY <1>2, ClientKeeps, DialKeeps
<1>3. ASSUME NEW c \in Conns, BridgeEnds(c) \/ PeerSilent(c) PROVE TableInv'
  BY <1>3, SessionKeeps DEF BridgeEnds, PeerSilent, WaitsForPeer
<1>4. ASSUME NEW c \in Conns, Cleanup(c) PROVE TableInv'
  BY <1>4, EntriesKeep DEF Cleanup, remove, NoEntry, TableInv, RedirectTyped
<1>5. CASE Tick
  BY <1>5, EntriesKeep DEF Tick, TableInv, RedirectTyped
<1>6. ASSUME NEW p \in Ports, sweep_stale(p) PROVE TableInv'
  BY <1>6, EntriesKeep DEF sweep_stale, NoEntry, TableInv, RedirectTyped
<1> QED
  BY <1>1, <1>2, <1>3, <1>4, <1>5, <1>6 DEF Next

\* However connections follow each other on a port, and whatever entries they leave
\* behind, nobody is bridged to the target of another (redirect_table.rs, insert;
\* redirector.rs, handle).
THEOREM NobodyIsMisdirected == Spec => []DialsOwnTarget
<1>1. TableInv => DialsOwnTarget
  BY DEF TableInv
<1> QED
  BY <1>1, TableInit, TableStep, PTL DEF Spec

-----------------------------------------------------------------------------
(* The engine that needs no configuration.                                   *)

TaskStates == {"none", "initialize", "check", "dial", "store", "publish", "failed", "hung"}

\* As much of EngineTypeOK as the argument needs.
EngineTyped ==
  /\ task \in [AllTasks -> TaskStates]
  /\ detector \in {"idle", "notify", "drop", "desync"}
  /\ auto_active \in BOOLEAN

\* The detector's request is down while the detector takes the tunnel down, and before
\* initialize has reached its first await, which no pass precedes.
NoRequestYet ==
  /\ detector \in {"drop", "desync"} => ~auto_active
  /\ task[InitTask] = "initialize" => ~auto_active /\ detector = "idle"

\* Only initialize initializes, and it activates only when the user wants a tunnel.
InitTaskIsTheUsers ==
  /\ \A t \in Tasks : task[t] # "initialize"
  /\ task[InitTask] \in TaskStates \ {"none", "initialize"} => enabled

Working(t) == task[t] \in {"check", "dial", "store", "publish", "failed", "hung"}

\* A standing request has been served, or a task is still at it.
RequestIsAttended ==
  auto_active => \/ state = "OperaProxyActive"
                 \/ enabled /\ state = "Failed"
                 \/ \E t \in Tasks : Working(t)

EngineInv == EngineTyped /\ NoRequestYet /\ InitTaskIsTheUsers /\ RequestIsAttended

LEMMA EngineStarts == EngineInit => EngineInv
<1> SUFFICES ASSUME EngineInit PROVE EngineInv
  OBVIOUS
<1> USE ZeroConfigAssumption DEF EngineInit
<1>1. EngineTyped
  BY DEF EngineTyped, TaskStates
<1>2. NoRequestYet /\ InitTaskIsTheUsers /\ RequestIsAttended
  BY DEF NoRequestYet, InitTaskIsTheUsers, RequestIsAttended, AllTasks, TaskStates
<1> QED
  BY <1>1, <1>2 DEF EngineInv

\* initialize reaches its first await: nothing has been requested so far.
LEMMA InitializeKeeps == EngineInv /\ Initialize => EngineInv'
<1> SUFFICES ASSUME EngineInv, Initialize PROVE EngineInv'
  OBVIOUS
<1> USE ZeroConfigAssumption DEF EngineInv, Initialize, Step
<1>1. EngineTyped'
  BY DEF EngineTyped, TaskStates, AllTasks
<1>2. ~auto_active /\ ~auto_active' /\ detector' = "idle"
  BY DEF NoRequestYet
<1>3. NoRequestYet' /\ RequestIsAttended'
  BY <1>2 DEF NoRequestYet, RequestIsAttended
<1>4. InitTaskIsTheUsers'
  BY DEF InitTaskIsTheUsers, EngineTyped, AllTasks, TaskStates
<1> QED
  BY <1>1, <1>3, <1>4

\* A task goes on to its next step: what it has not done yet, it is still at.
LEMMA GoingOnKeeps ==
  ASSUME NEW t \in AllTasks, NEW pc \in {"dial", "store", "publish", "failed", "hung"},
         EngineInv, Working(t), Step(t, pc),
         UNCHANGED <<enabled, detector, auto_active, state>>
  PROVE  EngineInv'
<1> USE ZeroConfigAssumption DEF EngineInv, Step, Working
<1>1. EngineTyped'
  BY DEF EngineTyped, TaskStates
<1>2. task'[t] = pc /\ \A u \in AllTasks \ {t} : task'[u] = task[u]
  BY DEF EngineTyped
<1>3. NoRequestYet'
  BY <1>2 DEF NoRequestYet, AllTasks
<1>4. InitTaskIsTheUsers'
  BY <1>2 DEF InitTaskIsTheUsers, AllTasks, TaskStates
<1>5. \A u \in Tasks : Working(u) => Working(u)'
  BY <1>2 DEF AllTasks
<1>6. RequestIsAttended'
  BY <1>5 DEF RequestIsAttended
<1> QED
  BY <1>1, <1>3, <1>4, <1>6

\* A task ends: it leaves the request served, failed for good, or withdrawn.
LEMMA EndingKeeps ==
  ASSUME NEW t \in AllTasks, EngineInv, Working(t), Step(t, "none"),
         UNCHANGED <<enabled, detector>>,
         \/ auto_active' = auto_active /\ state' = "OperaProxyActive"
         \/ auto_active' = auto_active /\ t = InitTask /\ state' = "Failed"
         \/ auto_active' = FALSE /\ state' = state
  PROVE  EngineInv'
<1> USE ZeroConfigAssumption DEF EngineInv, Step, Working
<1>1. EngineTyped'
  BY DEF EngineTyped, TaskStates
<1>2. task'[t] = "none" /\ \A u \in AllTasks \ {t} : task'[u] = task[u]
  BY DEF EngineTyped
<1>3. NoRequestYet'
  BY <1>2 DEF NoRequestYet, AllTasks
<1>4. InitTaskIsTheUsers'
  BY <1>2 DEF InitTaskIsTheUsers, AllTasks, TaskStates
<1>5. t = InitTask => enabled
  BY DEF InitTaskIsTheUsers, TaskStates
<1>6. RequestIsAttended'
  BY <1>5 DEF RequestIsAttended
<1> QED
  BY <1>1, <1>3, <1>4, <1>6

LEMMA TaskKeeps ==
  ASSUME NEW t \in AllTasks, EngineInv, TaskStep(t) \/ Hang(t) PROVE EngineInv'
<1>1. CASE Check(t) /\ state = "OperaProxyActive"
  BY <1>1, EndingKeeps DEF Check, Working
<1>2. CASE Check(t) /\ state # "OperaProxyActive"
  BY <1>2, GoingOnKeeps DEF Check, Working
<1>3. ASSUME NEW ok \in BOOLEAN, Dial(t, ok) PROVE EngineInv'
  BY <1>3, GoingOnKeeps DEF Dial, Working
<1>4. CASE StoreTunnel(t)
  BY <1>4, GoingOnKeeps DEF StoreTunnel, Working
<1>5. CASE Publish(t)
  BY <1>5, EndingKeeps DEF Publish, Working
<1>6. CASE Fail(t)
  BY <1>6, EndingKeeps DEF Fail, Working, PublishFailure, Withdraw
<1>7. CASE Hang(t)
  BY <1>7, GoingOnKeeps DEF Hang, Working
<1> QED
  BY <1>1, <1>2, <1>3, <1>4, <1>5, <1>6, <1>7 DEF TaskStep

\* The detector's steps.
LEMMA DetectorKeeps ==
  ASSUME EngineInv,
         \/ \E ok \in 0 .. Positives, blocked \in 0 .. Negatives, l7 \in 0 .. Negatives :
              DetectionPass(ok, blocked, l7)
         \/ Notify
  PROVE  EngineInv'
<1> USE ZeroConfigAssumption DEF EngineInv
<1>1. ASSUME NEW ok \in 0 .. Positives, NEW blocked \in 0 .. Negatives,
             NEW l7 \in 0 .. Negatives, DetectionPass(ok, blocked, l7)
      PROVE  EngineInv'
  BY <1>1 DEF DetectionPass, EngineTyped, NoRequestYet, InitTaskIsTheUsers, RequestIsAttended, Working
<1>2. CASE SwitchOn /\ auto_active
  BY <1>2 DEF SwitchOn, EngineTyped, NoRequestYet, InitTaskIsTheUsers, RequestIsAttended, Working
<1>3. CASE SwitchOn /\ ~auto_active
  <2>1. PICK t \in Tasks : task[t] = "none" /\ Step(t, "check")
    BY <1>3 DEF SwitchOn
  <2>2. task'[t] = "check" /\ (\A u \in AllTasks \ {t} : task'[u] = task[u]) /\ t # InitTask
    BY <2>1 DEF Step, EngineTyped, AllTasks
  <2>3. EngineTyped'
    BY <1>3, <2>1 DEF SwitchOn, EngineTyped, Step, TaskStates
  <2>4. detector' = "idle" /\ enabled' = enabled /\ task'[InitTask] = task[InitTask]
    BY <1>3, <2>2 DEF SwitchOn, AllTasks
  <2>5. task[InitTask] # "initialize"
    BY <1>3 DEF SwitchOn, NoRequestYet
  <2>6. NoRequestYet'
    BY <2>4, <2>5 DEF NoRequestYet
  <2>7. InitTaskIsTheUsers'
    BY <2>2, <2>4 DEF InitTaskIsTheUsers, AllTasks
  <2>8. RequestIsAttended'
    BY <2>2 DEF RequestIsAttended, Working
  <2> QED
    BY <2>3, <2>6, <2>7, <2>8
<1>4. CASE SwitchOff
  BY <1>4 DEF SwitchOff, EngineTyped, NoRequestYet, InitTaskIsTheUsers, RequestIsAttended, Working
<1>5. CASE DropTunnel \/ DesyncOnly
  BY <1>5 DEF DropTunnel, DesyncOnly, EngineTyped, NoRequestYet, InitTaskIsTheUsers,
              RequestIsAttended, Working
<1> QED
  BY <1>1, <1>2, <1>3, <1>4, <1>5 DEF Notify

LEMMA EngineStep == EngineInv /\ [EngineNext]_engineVars => EngineInv'
<1> SUFFICES ASSUME EngineInv, [EngineNext]_engineVars PROVE EngineInv'
  OBVIOUS
<1>1. CASE UNCHANGED engineVars
  BY <1>1 DEF engineVars, EngineInv, EngineTyped, NoRequestYet, InitTaskIsTheUsers, RequestIsAttended, Working
<1> QED
  BY <1>1, InitializeKeeps, TaskKeeps, DetectorKeeps DEF EngineNext

\* No sequence of activations, failures and withdrawals, in however many tasks, leaves a
\* standing request unanswered (zero_config.rs, activate_tunnel and set_auto_active).
THEOREM StandingRequestIsServed == EngineSpec => []RequestIsServed
<1>1. EngineInv => RequestIsServed
  <2> SUFFICES ASSUME EngineInv, Quiet, auto_active
               PROVE  state = "OperaProxyActive" \/ (enabled /\ state = "Failed")
    BY DEF RequestIsServed
  <2>1. \A t \in Tasks : ~Working(t)
    BY DEF Quiet, Working, AllTasks
  <2> QED
    BY <2>1 DEF EngineInv, RequestIsAttended
<1> QED
  BY <1>1, EngineStarts, EngineStep, PTL DEF EngineSpec
=============================================================================
