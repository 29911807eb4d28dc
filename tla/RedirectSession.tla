--------------------------- MODULE RedirectSession ---------------------------
(***************************************************************************)
(* The transparent redirect: a shard worker rewrites a client's packets to *)
(* 127.0.0.1:17650 and remembers the original target in RedirectTable      *)
(* under the client's source port; SocksRedirector accepts the connection, *)
(* looks the target up, dials it through a proxy or directly, and bridges. *)
(*                                                                         *)
(* A connection stands for one client TCP connection and for the target it *)
(* asks for: two connections may use the same source port one after the    *)
(* other.  The age of a table entry counts sweeper periods since           *)
(* created_at and saturates at MaxAge, where the sweeper removes it.       *)
(* What a proxy or a target answers is nondeterministic, and so is whether *)
(* it answers at all: no read of a handshake or of a bridge has a timeout, *)
(* so a peer that keeps its connection open in silence holds the session.  *)
(*                                                                         *)
(* The model takes the windivert.filter of the configuration to capture    *)
(* every packet of these connections, replies of the redirector included.  *)
(* The filter the service builds by itself lets through only SYNs and      *)
(* ClientHellos: FilterRotation says what is captured when.                *)
(***************************************************************************)
EXTENDS Integers, FiniteSets

CONSTANTS Conns,           \* client connections, each to a target of its own
          Ports,           \* client source ports
          PortOf,          \* the port of each connection
          NumProxies,      \* Opera proxies of the pool (5 in the code)
          MaxAge,          \* max_age of sweep_stale
          FailLimit,       \* consecutive failures that retire a proxy (3)
          FakeIpConns,     \* those whose target is a fake IP; the others come
                           \* here by a Proxy decision of the adaptive router
          Configs,         \* configurations the service may be started with
          NoConn

ASSUME RedirectAssumption ==
  /\ PortOf \in [Conns -> Ports]
  /\ NumProxies \in Nat /\ MaxAge \in Nat \ {0} /\ FailLimit \in Nat \ {0}
  /\ FakeIpConns \subseteq Conns
  /\ Configs \subseteq [custom : BOOLEAN, operaFallback : BOOLEAN, zeroConfig : BOOLEAN]
  /\ NoConn \notin Conns

VARIABLES
  config,    \* custom_proxy.enabled, its use_opera_fallback, and whether the
             \* zero-config tunnel may be active
  table,     \* RedirectTable: the connection and age behind each port
  client,    \* the client's end of each connection
  session,   \* where SocksRedirector is with each connection
  dialled,   \* the target its session looked up
  proxy,     \* the Opera proxy its session selected
  pool       \* health and consecutive failures of each proxy

vars == <<config, table, client, session, dialled, proxy, pool>>

Proxies == 1 .. NumProxies
NoEntry == [for |-> NoConn, age |-> 0]

Init ==
  /\ config \in Configs
  /\ table = [p \in Ports |-> NoEntry]
  /\ client = [c \in Conns |-> "unborn"]
  /\ session = [c \in Conns |-> "none"]
  /\ dialled = [c \in Conns |-> NoConn]
  /\ proxy = [c \in Conns |-> 0]
  /\ pool = [x \in Proxies |-> [healthy |-> TRUE, fails |-> 0]]

-----------------------------------------------------------------------------
(* The client and the shard worker that handles its packets.               *)

Alive(c) == client[c] \in {"syn", "open"}
PortFree(c) == \A d \in Conns : Alive(d) => PortOf[d] # PortOf[c]

\* Variant: an entry that is already there is kept.
insertIfVacant(c) ==
  table' = IF table[PortOf[c]].for = NoConn
           THEN [table EXCEPT ![PortOf[c]] = [for |-> c, age |-> 0]] ELSE table
insert(c) == table' = [table EXCEPT ![PortOf[c]] = [for |-> c, age |-> 0]]

HealthyProxies == {x \in Proxies : pool[x].healthy}

\* The fail-open test of process_fake_ip_traffic; the Proxy decision of the
\* adaptive router makes no such test.
NoProxyAtAll(c) == c \in FakeIpConns /\ HealthyProxies = {} /\ ~config.custom

\* A SYN, first or retransmitted: remembered and rewritten.
Syn(c) ==
  /\ client[c] = "syn" \/ (client[c] = "unborn" /\ PortFree(c))
  /\ ~NoProxyAtAll(c)
  /\ insert(c)
  /\ client' = [client EXCEPT ![c] = "syn"]
  /\ UNCHANGED <<config, session, dialled, proxy, pool>>

\* The SYN is forwarded as it is and the redirector never hears of it.
SynForwarded(c) ==
  /\ client[c] = "unborn" /\ PortFree(c) /\ NoProxyAtAll(c)
  /\ client' = [client EXCEPT ![c] = "gone"]
  /\ UNCHANGED <<config, table, session, dialled, proxy, pool>>

\* Any later packet.  The Proxy decision rewrites it like the SYN, and the first
\* one completes the handshake with the redirector.  process_fake_ip_traffic
\* forwards it unmodified, so it never arrives.
Packet(c) ==
  /\ Alive(c) /\ c \notin FakeIpConns
  /\ insert(c)
  /\ client' = [client EXCEPT ![c] = "open"]
  /\ session' = [session EXCEPT ![c] = IF @ = "none" THEN "backlog" ELSE @]
  /\ UNCHANGED <<config, dialled, proxy, pool>>

\* The client closes, gives up, or sees that the redirector has closed.
ClientGone(c) ==
  /\ Alive(c)
  /\ client' = [client EXCEPT ![c] = "gone"]
  /\ UNCHANGED <<config, table, session, dialled, proxy, pool>>

-----------------------------------------------------------------------------
(* SocksRedirector::handle.                                                *)

GoesTo(c, step) == session' = [session EXCEPT ![c] = step]

\* table.get: without an entry the session ends.
Handle(c) ==
  /\ session[c] = "backlog"
  /\ dialled' = [dialled EXCEPT ![c] = table[PortOf[c]].for]
  /\ GoesTo(c, IF table[PortOf[c]].for = NoConn THEN "failed" ELSE "dial")
  /\ UNCHANGED <<config, table, client, proxy, pool>>

TunnelConnects(c) ==
  /\ session[c] = "dial" /\ config.zeroConfig
  /\ GoesTo(c, "bridge")
  /\ UNCHANGED <<config, table, client, dialled, proxy, pool>>

\* The tunnel is not active or does not connect: the default paths follow.
DefaultPath(c) ==
  /\ session[c] = "dial"
  /\ GoesTo(c, IF config.custom THEN "custom" ELSE "opera")
  /\ UNCHANGED <<config, table, client, dialled, proxy, pool>>

CustomProxy(c, ok) ==
  /\ session[c] = "custom"
  /\ GoesTo(c, IF ok THEN "bridge" ELSE IF config.operaFallback THEN "opera" ELSE "direct")
  /\ UNCHANGED <<config, table, client, dialled, proxy, pool>>

\* select_best: the first healthy proxy of the list.
SelectBest(c) ==
  /\ session[c] = "opera" /\ HealthyProxies # {}
  /\ proxy' = [proxy EXCEPT ![c] = CHOOSE x \in HealthyProxies :
                                     \A y \in HealthyProxies : x <= y]
  /\ GoesTo(c, "connect")
  /\ UNCHANGED <<config, table, client, dialled, pool>>

\* Variant: the session waits for a proxy to become healthy.
NoHealthyProxyWaits(c) ==
  session[c] = "opera" /\ HealthyProxies = {} /\ UNCHANGED vars

NoHealthyProxy(c) ==
  /\ session[c] = "opera" /\ HealthyProxies = {}
  /\ GoesTo(c, "failed")
  /\ UNCHANGED <<config, table, client, dialled, proxy, pool>>

\* Bound: the failure count saturates at FailLimit.
OneMore(n) == IF n < FailLimit THEN n + 1 ELSE n
\* Variant: one failure more is tolerated.
mark_resultLate(x, ok) ==
  pool' = [pool EXCEPT ![x] =
             IF ok THEN [healthy |-> TRUE, fails |-> 0]
             ELSE [healthy |-> @.healthy /\ @.fails < FailLimit,
                   fails |-> OneMore(@.fails)]]
mark_result(x, ok) ==
  pool' = [pool EXCEPT ![x] =
             IF ok THEN [healthy |-> TRUE, fails |-> 0]
             ELSE [healthy |-> @.healthy /\ OneMore(@.fails) < FailLimit,
                   fails |-> OneMore(@.fails)]]

Opera(c, ok) ==
  /\ session[c] = "connect"
  /\ mark_result(proxy[c], ok)
  /\ proxy' = [proxy EXCEPT ![c] = 0]
  /\ GoesTo(c, IF ok THEN "bridge" ELSE "direct")
  /\ UNCHANGED <<config, table, client, dialled>>

\* connect_direct: its error leaves handle without touching the table.
Direct(c, ok) ==
  /\ session[c] = "direct"
  /\ GoesTo(c, IF ok THEN "bridge" ELSE "failed")
  /\ UNCHANGED <<config, table, client, dialled, proxy, pool>>

\* copy_bidirectional returns when both sides have closed, or with an error.
BridgeEnds(c) ==
  /\ session[c] = "bridge"
  /\ GoesTo(c, "closing")
  /\ UNCHANGED <<config, table, client, dialled, proxy, pool>>

\* The peers a session waits for without a timeout: the tunnel's and the custom proxy's
\* CONNECT, the SOCKS5 replies of an Opera proxy, and the other end of a bridge.
WaitsForPeer(c) ==
  session[c] \in {"custom", "connect", "bridge"} \/ (session[c] = "dial" /\ config.zeroConfig)

\* That peer never says anything more and never closes: the session waits for ever.  An
\* answer that is only late is a later CustomProxy, Opera, TunnelConnects or BridgeEnds.
PeerSilent(c) ==
  /\ WaitsForPeer(c)
  /\ GoesTo(c, "held")
  /\ UNCHANGED <<config, table, client, dialled, proxy, pool>>

remove(p) == table' = [table EXCEPT ![p] = NoEntry]

Cleanup(c) ==
  /\ session[c] = "closing"
  /\ remove(PortOf[c])
  /\ GoesTo(c, "done")
  /\ UNCHANGED <<config, client, dialled, proxy, pool>>

-----------------------------------------------------------------------------
(* The sweeper.                                                            *)

Tick ==
  /\ \E p \in Ports : table[p].for # NoConn /\ table[p].age < MaxAge
  /\ table' = [p \in Ports |-> IF table[p].for # NoConn /\ table[p].age < MaxAge
                               THEN [table[p] EXCEPT !.age = @ + 1] ELSE table[p]]
  /\ UNCHANGED <<config, client, session, dialled, proxy, pool>>

ExpiredNever(p) == table[p].age > MaxAge  \* variant: the comparison is off by one
Expired(p) == table[p].age >= MaxAge

sweep_stale(p) ==
  /\ table[p].for # NoConn /\ Expired(p)
  /\ table' = [table EXCEPT ![p] = NoEntry]
  /\ UNCHANGED <<config, client, session, dialled, proxy, pool>>

-----------------------------------------------------------------------------
ClientStep(c) == Syn(c) \/ SynForwarded(c) \/ Packet(c) \/ ClientGone(c)

Dials(c) ==
  \/ Handle(c) \/ TunnelConnects(c) \/ DefaultPath(c)
  \/ SelectBest(c) \/ NoHealthyProxy(c)
  \/ \E ok \in BOOLEAN : CustomProxy(c, ok) \/ Opera(c, ok) \/ Direct(c, ok)

Next ==
  \/ \E c \in Conns : ClientStep(c) \/ Dials(c) \/ PeerSilent(c) \/ BridgeEnds(c) \/ Cleanup(c)
  \/ Tick \/ \E p \in Ports : sweep_stale(p)

Spec == Init /\ [][Next]_vars

\* A running task whose peer speaks makes progress (PeerSilent, which takes a session
\* out of every fair step, is never obliged and never excluded), the sweeper runs every
\* 30 seconds, and a client that stays sends its next packet.
FairSpec ==
  /\ Spec
  /\ WF_vars(Tick) /\ \A p \in Ports : WF_vars(sweep_stale(p))
  /\ \A c \in Conns :
       /\ WF_vars(Dials(c)) /\ WF_vars(Cleanup(c)) /\ WF_vars(Packet(c))
       /\ WF_vars(BridgeEnds(c) /\ client[c] = "gone")

-----------------------------------------------------------------------------
\* Type invariant, with the meaning of a proxy's flag: however many sessions report
\* at once, a proxy is out exactly when it has failed FailLimit times in a row.
TypeOK ==
  /\ config \in Configs
  /\ table \in [Ports -> [for : Conns \cup {NoConn}, age : 0 .. MaxAge]]
  /\ client \in [Conns -> {"unborn", "syn", "open", "gone"}]
  /\ session \in [Conns -> {"none", "backlog", "dial", "custom", "opera", "connect",
                            "direct", "bridge", "held", "closing", "done", "failed"}]
  /\ dialled \in [Conns -> Conns \cup {NoConn}]
  /\ proxy \in [Conns -> 0 .. NumProxies]
  /\ pool \in [Proxies -> [healthy : BOOLEAN, fails : 0 .. FailLimit]]
  /\ \A x \in Proxies : pool[x].healthy <=> pool[x].fails < FailLimit

\* No client is bridged to somebody else's target: while a client is there, its
\* session has looked up the client's own target or none, though ports are reused
\* and the entries of earlier connections outlive them.
DialsOwnTarget ==
  \A c \in Conns : Alive(c) => dialled[c] \in {c, NoConn}

\* An entry whose client is gone does not stay in the table, whatever way its
\* session ended.
NoOrphanEntry ==
  \A c \in Conns : client[c] = "gone" /\ table[PortOf[c]].for = c
                   ~> table[PortOf[c]].for # c

\* A session whose client is gone comes to an end, unless a peer that never answers
\* holds it: neither an empty pool, nor an entry that was swept or overwritten, nor a
\* chain of proxies that fail one after the other keeps the task of a session alive.
SessionsEnd ==
  \A c \in Conns :
    client[c] = "gone" ~> session[c] \in {"none", "done", "failed", "held"}

\* A session whose client is gone comes to an end whatever its peers do.
SessionsAlwaysEnd ==
  \A c \in Conns : client[c] = "gone" ~> session[c] \in {"none", "done", "failed"}

\* The sweeper takes only entries whose connection never got through
\* (redirect_table.rs calls it a SYN timeout).
SweepTakesPendingOnly ==
  [][\A p \in Ports : sweep_stale(p) =>
       LET c == table[p].for IN ~(client[c] = "open" /\ session[c] = "bridge")]_vars

\* The port is a unique key: a session that ends removes nobody else's entry.
CleanupTakesOwnEntry ==
  [][\A c \in Conns : Cleanup(c) => table[PortOf[c]].for \in {c, NoConn}]_vars

\* Fail-open: a session that found its target gives up only after the direct
\* connection was tried too.
FailsOpen ==
  [][\A c \in Conns : session'[c] = "failed" /\ session[c] # "failed"
                      => session[c] \in {"backlog", "direct"}]_vars

\* The pool is health-checked: a retired proxy is eventually used again.
RetiredProxyReturns ==
  \A x \in Proxies : ~pool[x].healthy ~> pool[x].healthy

\* A redirected client that stays is eventually served by the redirector.
RedirectedIsServed ==
  \A c \in Conns : client[c] = "syn" ~> (session[c] # "none" \/ client[c] = "gone")
=============================================================================
