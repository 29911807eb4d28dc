---------------------------- MODULE DispatchProofs ----------------------------
(* Proofs about Dispatch, for every set of flows and of surroundings, every    *)
(* size of a ClientHello and of the buffer that collects it.                   *)
EXTENDS Dispatch, TLAPS

\* What has been booked against a strategy, or would be, was sent changed.
StrategyWasUsed == (strategy \/ booked # {}) => treated

\* Only the client's packets to port 443 reach the handler of ClientHellos.
LEMMA TlsIsOutbound ==
  ASSUME NEW p, NEW env, Way(p, env) = "tls"
  PROVE  p.dir = "out"
<1>1. RoutedWay(p, env) = "tls"
  BY DEF Way, FakeWay, GenericWay
<1>2. decide(p, env) \in {"Proxy", "Direct", "Desync"}
  BY DEF decide
<1>3. HandlerWay(p, env) = "tls"
  BY <1>1, <1>2 DEF RoutedWay, ProxyWay
<1>4. Class(p) \in {"Tls", "Quic", "Http", "Dns", "Other"}
  BY DEF Class
<1>5. DstPort(p) = 443
  BY <1>3, <1>4 DEF HandlerWay, GenericWay
<1> QED
  BY <1>5 DEF DstPort

\* The strategy is remembered by the step that sends the packet changed.
LEMMA ProcessKeeps == ASSUME NEW p, StrategyWasUsed, Process(p) PROVE StrategyWasUsed'
<1>1. PICK env \in Surroundings :
        LET a == Advice(p, env) IN
        /\ Pass(p, a) \/ Treat(p, a) \/ TlsPass(p, a) \/ TlsSkip(p, a) \/ TlsDesync(p, a)
        /\ Book(p)
  BY DEF Process
<1> DEFINE a == Advice(p, env)
<1>2. booked' # {} => strategy \/ booked # {}
  BY <1>1 DEF Book, Observed
<1>3. treated => treated'
  BY <1>1 DEF Pass, Treat, TlsPass, TlsSkip, TlsDesync, TakeWay
<1>4. strategy' => strategy \/ treated'
  <2>1. CASE TlsDesync(p, a)
    <3>1. a.way = "tls" /\ a.way = Way(p, env) /\ strategy' = (strategy \/ a.effect)
      BY <2>1 DEF TlsDesync, Advice, Applied
    <3>2. p.dir = "out"
      BY <3>1, TlsIsOutbound
    <3>3. TakeWay(p, IF a.effect THEN "desync" ELSE "plain")
      BY <2>1 DEF TlsDesync
    <3>4. a.effect => treated'
      BY <3>2, <3>3 DEF TakeWay
    <3> QED
      BY <3>1, <3>4
  <2>2. CASE Pass(p, a) \/ Treat(p, a) \/ TlsPass(p, a) \/ TlsSkip(p, a)
    BY <2>2 DEF Pass, Treat, TlsPass, TlsSkip, memory
  <2> QED
    BY <1>1, <2>1, <2>2
<1> QED
  BY <1>2, <1>3, <1>4 DEF StrategyWasUsed

LEMMA StrategyStep == StrategyWasUsed /\ [Next]_vars => StrategyWasUsed'
<1> SUFFICES ASSUME StrategyWasUsed, [Next]_vars PROVE StrategyWasUsed'
  OBVIOUS
<1>1. CASE UNCHANGED vars
  BY <1>1 DEF vars, StrategyWasUsed
<1>2. CASE ClientSends \/ ClientResets \/ ServerSends \/ RedirectorSends
  BY <1>2, ProcessKeeps DEF ClientSends, ClientResets, ServerSends, RedirectorSends
<1>3. CASE ForgetSeq \/ CollectEntry \/ ReassemblyGc \/ SweepEntry
  BY <1>3 DEF ForgetSeq, CollectEntry, ReassemblyGc, SweepEntry, StrategyWasUsed,
              history, memory
<1> QED
  BY <1>1, <1>2, <1>3 DEF Next

\* No reset is counted against a strategy that changed no packet of the flow
\* (engine/mod.rs, observe_connection_outcome and applied_strategy).
THEOREM OnlyUsedStrategiesAreBlamed == Spec => []BookedWasTreated
<1>1. Init => StrategyWasUsed
  BY DEF Init, StrategyWasUsed
<1>2. StrategyWasUsed => BookedWasTreated
  BY DEF StrategyWasUsed, BookedWasTreated
<1> QED
  BY <1>1, <1>2, StrategyStep, PTL DEF Spec

-----------------------------------------------------------------------------
(* The way of geo-blocked flows.                                             *)

Hidden ==
  /\ flow.region \in {"Europe", "UnitedStates"} /\ ~Udp /\ flow.family = 4
  /\ ~flow.fake /\ ~flow.opera

\* Whatever the surroundings say, an outbound packet of such a flow is redirected,
\* unless the split tunnel takes it out first.
LEMMA HiddenWay ==
  ASSUME NEW p, NEW env, Hidden, p.dir = "out"
  PROVE  Way(p, env) \in {"bypass", "redirect"}
<1>1. Class(p) # "Dns" /\ ~ToFake(p) /\ ~ToOpera(p) /\ Outbound(p)
  BY DEF Hidden, Class, ToFake, ToOpera, Outbound
<1>2. GeoBlocked(p, env)
  BY DEF Hidden, GeoBlocked, classify
<1>3. decide(p, env) = "Proxy"
  BY <1>2 DEF decide
<1>4. RoutedWay(p, env) = "redirect"
  BY <1>1, <1>3 DEF RoutedWay, ProxyWay, Hidden
<1> QED
  BY <1>1, <1>4 DEF Way

LEMMA HiddenProcess ==
  ASSUME NEW p, Process(p), Hidden
  PROVE  last'[1] = "out" => last'[2] \in {"redirect", "bypass"}
<1> SUFFICES ASSUME last'[1] = "out" PROVE last'[2] \in {"redirect", "bypass"}
  OBVIOUS
<1>1. PICK env \in Surroundings :
        LET a == Advice(p, env) IN
        Pass(p, a) \/ Treat(p, a) \/ TlsPass(p, a) \/ TlsSkip(p, a) \/ TlsDesync(p, a)
  BY DEF Process
<1> DEFINE a == Advice(p, env)
<1>2. p.dir = "out"
  BY <1>1 DEF Pass, Treat, TlsPass, TlsSkip, TlsDesync, TakeWay
<1>3. a.way \in {"bypass", "redirect"}
  BY <1>2, HiddenWay DEF Advice
<1>4. Pass(p, a)
  BY <1>1, <1>3 DEF Treat, TlsPass, TlsSkip, TlsDesync
<1>5. last' = <<p.dir, rewrite_dst_addr(a.way)>>
  BY <1>4 DEF Pass, TakeWay
<1>6. rewrite_dst_addr(a.way) = a.way
  BY DEF rewrite_dst_addr, Hidden
<1> QED
  BY <1>3, <1>5, <1>6

LEMMA FlowStays == [Next]_vars => flow' = flow
<1>1. ASSUME NEW p, Process(p) PROVE flow' = flow
  BY <1>1 DEF Process
<1>2. CASE ClientSends \/ ClientResets \/ ServerSends \/ RedirectorSends
  BY <1>1, <1>2 DEF ClientSends, ClientResets, ServerSends, RedirectorSends
<1>3. CASE ForgetSeq \/ CollectEntry \/ ReassemblyGc \/ SweepEntry \/ UNCHANGED vars
  BY <1>3 DEF ForgetSeq, CollectEntry, ReassemblyGc, SweepEntry, vars
<1> QED
  BY <1>2, <1>3 DEF Next

LEMMA GeoBlockedStep == GeoBlockedNeverDirect /\ [Next]_vars => GeoBlockedNeverDirect'
<1> SUFFICES ASSUME GeoBlockedNeverDirect, [Next]_vars, Hidden
             PROVE  last'[1] = "out" => last'[2] \in {"redirect", "bypass"}
  BY FlowStays DEF GeoBlockedNeverDirect, Hidden, Udp
<1>1. CASE UNCHANGED vars
  BY <1>1 DEF vars, GeoBlockedNeverDirect, Hidden
<1>2. CASE ClientSends \/ ClientResets \/ ServerSends \/ RedirectorSends
  BY <1>2, HiddenProcess DEF ClientSends, ClientResets, ServerSends, RedirectorSends
<1>3. CASE ForgetSeq \/ CollectEntry \/ ReassemblyGc \/ SweepEntry
  BY <1>3 DEF ForgetSeq, CollectEntry, ReassemblyGc, SweepEntry, GeoBlockedNeverDirect,
              Hidden, history
<1> QED
  BY <1>1, <1>2, <1>3 DEF Next

\* No state of breaker, tuning, pool or cached routes, changing between any two
\* packets, shows a geo-blocked flow to its server (adaptive_router.rs, decide).
THEOREM GeoBlockedStaysHidden == Spec => []GeoBlockedNeverDirect
<1>1. Init => GeoBlockedNeverDirect
  BY DEF Init, GeoBlockedNeverDirect
<1> QED
  BY <1>1, GeoBlockedStep, PTL DEF Spec

-----------------------------------------------------------------------------
(* The desync of a ClientHello.                                              *)

\* Two memories guard against a second desync, and other threads wipe each of them at
\* any time.  While the connection entry does not remember the desync, every part that
\* was desynced is among the injected sequence numbers.
EitherRemembers ==
  /\ desyncs \in [ClientParts -> Nat]
  /\ DesyncedOnce
  /\ tracked # "desynced" => \A part \in ClientParts : desyncs[part] > 0 => part \in injected

LEMMA NothingDesynced == Never \in [ClientParts -> Nat] /\ \A part \in ClientParts : Never[part] = 0
BY DEF Never

LEMMA RemembersInit == Init => EitherRemembers
BY NothingDesynced DEF Init, EitherRemembers, DesyncedOnce

\* A memory that is not weakened keeps the property.
LEMMA MemoryKeeps ==
  ASSUME EitherRemembers, UNCHANGED desyncs, injected \subseteq injected',
         tracked = "desynced" => tracked' = "desynced"
  PROVE  EitherRemembers'
BY DEF EitherRemembers, DesyncedOnce

\* The desync is counted where neither memory knew of the part, and both do then.
LEMMA DesyncRemembers ==
  ASSUME NEW p, NEW a, EitherRemembers, TlsDesync(p, a)
  PROVE  EitherRemembers'
<1>1. /\ tracked # "desynced" /\ tracked' = "desynced" /\ p.part \notin injected
      /\ desyncs' = desyncs \/ desyncs' = [desyncs EXCEPT ![p.part] = @ + 1]
  BY DEF TlsDesync, Granted, FirstSeen
<1>2. ASSUME NEW part \in ClientParts
      PROVE  desyncs'[part] \in Nat /\ desyncs'[part] <= 1
  <2>1. desyncs[part] \in Nat /\ desyncs[part] <= 1
    BY DEF EitherRemembers, DesyncedOnce
  <2>2. part = p.part => desyncs[part] = 0
    BY <1>1, <2>1 DEF EitherRemembers
  <2>3. desyncs'[part] = desyncs[part] \/ (part = p.part /\ desyncs'[part] = desyncs[part] + 1)
    BY <1>1 DEF EitherRemembers
  <2> QED
    BY <2>1, <2>2, <2>3
<1>3. desyncs' \in [ClientParts -> Nat]
  BY <1>1, <1>2 DEF EitherRemembers
<1> QED
  BY <1>1, <1>2, <1>3 DEF EitherRemembers, DesyncedOnce

LEMMA PacketRemembers == ASSUME NEW p, EitherRemembers, Process(p) PROVE EitherRemembers'
<1>1. PICK env \in Surroundings :
        LET a == Advice(p, env) IN
        Pass(p, a) \/ Treat(p, a) \/ TlsPass(p, a) \/ TlsSkip(p, a) \/ TlsDesync(p, a)
  BY DEF Process
<1> DEFINE a == Advice(p, env)
<1> HIDE DEF a
<1>2. CASE Pass(p, a)
  BY <1>2, MemoryKeeps DEF Pass, memory
<1>3. CASE Treat(p, a)
  BY <1>3, MemoryKeeps DEF Treat
<1>4. CASE TlsPass(p, a)
  BY <1>4, MemoryKeeps DEF TlsPass
<1>5. CASE TlsSkip(p, a)
  BY <1>5, MemoryKeeps DEF TlsSkip
<1>6. CASE TlsDesync(p, a)
  BY <1>6, DesyncRemembers
<1> QED
  BY <1>1, <1>2, <1>3, <1>4, <1>5, <1>6 DEF a

\* One memory is wiped: what only it remembered is over.
LEMMA ForgetRemembers == EitherRemembers /\ (ForgetSeq \/ CollectEntry) => EitherRemembers'
<1>1. ASSUME EitherRemembers, ForgetSeq PROVE EitherRemembers'
  <2>1. CASE tracked = "desynced"
    BY <1>1, <2>1 DEF ForgetSeq, EitherRemembers, DesyncedOnce
  <2>2. CASE tracked # "desynced"
    BY <1>1, <2>2, NothingDesynced DEF ForgetSeq, EitherRemembers, DesyncedOnce
  <2> QED
    BY <2>1, <2>2
<1>2. ASSUME EitherRemembers, CollectEntry PROVE EitherRemembers'
  BY <1>2 DEF CollectEntry, EitherRemembers, DesyncedOnce
<1> QED
  BY <1>1, <1>2

LEMMA RemembersStep == EitherRemembers /\ [Next]_vars => EitherRemembers'
<1> SUFFICES ASSUME EitherRemembers, [Next]_vars PROVE EitherRemembers'
  OBVIOUS
<1>1. CASE UNCHANGED vars
  BY <1>1, MemoryKeeps DEF vars
<1>2. CASE ClientSends \/ ClientResets \/ ServerSends \/ RedirectorSends
  BY <1>2, PacketRemembers DEF ClientSends, ClientResets, ServerSends, RedirectorSends
<1>3. CASE ReassemblyGc \/ SweepEntry
  BY <1>3, MemoryKeeps DEF ReassemblyGc, SweepEntry, memory
<1> QED
  BY <1>1, <1>2, <1>3, ForgetRemembers DEF Next

\* Whatever the collector of connections and the eviction of sequence numbers forget in
\* between, a part of a ClientHello is desynced once as long as either of them remembers
\* it (engine/mod.rs, dispatch and process_outbound_tls_sync).
THEOREM HelloIsDesyncedOnce == Spec => []DesyncedOnce
<1>1. EitherRemembers => DesyncedOnce
  BY DEF EitherRemembers
<1> QED
  BY <1>1, RemembersInit, RemembersStep, PTL DEF Spec
=============================================================================
