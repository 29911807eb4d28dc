------------------------------ MODULE Dispatch ------------------------------
(* process_one_sync_dispatch (engine/mod.rs): where each packet of a flow is  *)
(* sent, from its class, the split tunnel, the DNS queue, the redirector's    *)
(* return path, fake addresses and the adaptive route down to the handler of  *)
(* its class, with the TLS reassembler and the memories a handler leaves.     *)
(*                                                                            *)
(* One flow is followed from its first packet; it is any of Flows.  What the  *)
(* other components say when a packet arrives (breaker, tuning, split tunnel, *)
(* AWG tunnel, proxy pool, cached and bad routes) may change between two      *)
(* packets, so it is chosen for every packet from Surroundings.               *)
EXTENDS Naturals, Sequences

CONSTANTS Flows,             \* [app, head, region, family, fake, opera]
          Surroundings,      \* what the other components may say
          proxy_non_sni_blocked,
          HelloSize, MaxHello \* of a record, and MAX_CLIENT_HELLO_BUF, in pieces

ASSUME DispatchAssumption ==
  /\ \A f \in Flows : f.head \in {"whole", "long", "short", "none"} /\ f.family \in {4, 6}
  /\ proxy_non_sni_blocked \in BOOLEAN
  /\ HelloSize \in Nat \ {0} /\ MaxHello >= HelloSize

VARIABLES flow,     \* the flow of this behaviour
          sent,     \* how many of its parts the client has sent at least once
          buf,      \* tls_reassembler: amount buffered under the flow's key
          tracked,  \* conntrack entry: "none", "seen", "desynced" (desync_applied)
          strategy, \* applied_strategy of that entry is set
          injected, \* injected_seqs: parts under whose number an entry exists
          entry,    \* the redirect table has an entry under the flow's port
          last,     \* direction and way of the last packet
          treated, redirected,   \* history: some packet of the client was
          desyncs,  \* history: how often each part was desynced while either
                    \* memory of it is intact
          booked    \* history: outcomes recorded for it

vars == <<flow, sent, buf, tracked, strategy, injected, entry,
          last, treated, redirected, desyncs, booked>>
memory == <<buf, tracked, strategy, injected>>
history == <<last, treated, redirected>>

\* What the client sends.  A ClientHello comes whole or in two pieces, the
\* first of them long enough to be taken for a ClientHello or not.
Parts(f) ==
  CASE f.app = "tls" /\ f.head = "whole" -> <<"syn", "hello", "data">>
    [] f.app = "tls" /\ f.head # "whole" -> <<"syn", "head", "tail", "data">>
    [] f.app = "http"  -> <<"syn", "request", "data">>
    [] f.app = "quic"  -> <<"initial", "short">>
    [] f.app = "dns"   -> <<"query", "highQuery">>
    [] f.app = "other" -> <<"syn", "data">>

ClientParts == {"syn", "hello", "head", "tail", "data", "request", "initial", "short",
                "query", "highQuery", "rst"}
Never == [part \in ClientParts |-> 0]

Init ==
  /\ flow \in Flows
  /\ sent = 0
  /\ buf = 0 /\ tracked = "none" /\ strategy = FALSE /\ injected = {}
  /\ entry = FALSE
  /\ last = <<"none", "none">> /\ treated = FALSE /\ redirected = FALSE
  /\ desyncs = Never /\ booked = {}

-----------------------------------------------------------------------------
(* Classifier::classify: a TLS record, an HTTP request line or the top bit of  *)
(* the first byte of a datagram decides before the port does, whichever way   *)
(* the packet goes.  "highQuery" is a DNS query with a transaction id from    *)
(* 0x8000 on.                                                                 *)

Udp == flow.app \in {"quic", "dns"}
DstPort(p) == IF p.dir # "out" THEN 0
              ELSE CASE flow.app \in {"tls", "quic"} -> 443
                     [] flow.app = "http" -> 80
                     [] flow.app = "dns" -> 53
                     [] OTHER -> 8443

Class(p) ==
  CASE p.part \in {"hello", "head", "shello"} -> "Tls"
    [] p.part = "request" -> "Http"
    [] p.part \in {"initial", "highQuery"} -> "Quic"
    [] Udp  -> CASE DstPort(p) = 53 -> "Dns" [] DstPort(p) = 443 -> "Quic" [] OTHER -> "Other"
    [] OTHER -> CASE DstPort(p) = 443 -> "Tls" [] DstPort(p) = 80 -> "Http" [] OTHER -> "Other"

IsSyn(p) == p.part = "syn"
\* Classifier::is_client_hello looks at the first bytes, and the dispatch asks
\* for fifty: a long first piece is enough.
IsClientHello(p) == p.part = "hello" \/ (p.part = "head" /\ flow.head = "long")
StartsRecord(p) == p.part \in {"hello", "head"}

-----------------------------------------------------------------------------
(* What the rest of the engine says about a packet when it arrives.  Packets  *)
(* of the client go to the flow's address; packets of the redirector go back  *)
(* to the client's, and count as outbound too, because 127.0.0.1 does.        *)

Outbound(p) == p.dir # "in"
ToFake(p)  == p.dir = "out" /\ flow.fake
ToOpera(p) == p.dir = "out" /\ flow.opera

\* fake_ip.lookup(dst_ip): only addresses handed out by the DNS proxy have a name.
Named(p, env) == ToFake(p) /\ env.mapped

\* geo_router.classify: the region of the name, or of the address.
classify(p, env) ==
  IF p.dir = "out" /\ (flow.fake => Named(p, env)) THEN flow.region ELSE "Global"
GeoBlocked(p, env) == classify(p, env) \in {"Europe", "UnitedStates"}

\* build_egress_chain: every region has a direct hop with desync, so only an
\* excluded name is "not blocked", and only a flow with a name can be that.
EgressChain(region) ==
  CASE region = "Russia" -> {"DirectDesync", "Socks5"}
    [] region = "Europe" -> {"OperaVpn", "DirectDesync"}
    [] region = "UnitedStates" -> {"UserProxy", "DirectDesync"}
    [] region = "Excluded" -> {"Direct"}
    [] OTHER -> {"DirectDesync"}

\* resolve answers from a cache under the name first; all addresses without a name share
\* the entry of "unknown", which is no excluded name.  A route marked as bad falls back to
\* what the rest of the world gets; only what is classified is cached.
resolve(p, env) ==
  CASE env.cached # "" -> env.cached
    [] env.cached = "" /\ Named(p, env) /\ env.excluded -> "Excluded"
    [] env.cached = "" /\ ~(Named(p, env) /\ env.excluded) /\ env.bad -> "Global"
    [] OTHER -> classify(p, env)
needs_desync(p, env) == "DirectDesync" \in EgressChain(resolve(p, env))

HasName(p) == Class(p) \in {"Tls", "Http"}
Failing(p, env) == \/ env.breaker = "Open"
                   \/ proxy_non_sni_blocked /\ ~HasName(p)
                   \/ env.poor
                   \/ Named(p, env) /\ env.slow

\* Variant: a half-open breaker tests every flow, geo-blocked ones too.
decideHalfOpenFirst(p, env) ==
  CASE env.breaker = "HalfOpen" -> "Desync"
    [] GeoBlocked(p, env) -> "Proxy"
    [] ~GeoBlocked(p, env) /\ ~needs_desync(p, env) -> "Direct"
    [] OTHER -> IF Failing(p, env) THEN "Proxy" ELSE "Desync"

\* AdaptiveRouter::decide: a geo-blocked address is proxied whatever else holds.
decide(p, env) ==
  CASE GeoBlocked(p, env) -> "Proxy"
    [] ~GeoBlocked(p, env) /\ ~needs_desync(p, env) -> "Direct"
    [] OTHER -> IF Failing(p, env) THEN "Proxy" ELSE "Desync"

\* SplitTunnel::should_bypass_ip and should_bypass_domain.
should_bypass_ip(env) ==
  CASE env.split = "WhitelistOnly" -> env.on \cap {"whitelist_ips", "whitelist_nets"} # {}
    [] env.split = "BlacklistOnly" -> env.on \cap {"blacklist_ips", "blacklist_nets"} = {}
    [] env.split = "Auto" -> TRUE
should_bypass_domain(env) ==
  CASE env.split = "WhitelistOnly" -> "whitelist_domains" \in env.on
    [] env.split = "BlacklistOnly" -> "blacklist_domains" \notin env.on
    [] env.split = "Auto" -> TRUE
Bypassed(p, env) ==
  /\ DstPort(p) # 53 /\ p.dir # "back"
  /\ should_bypass_ip(env) \/ (Named(p, env) /\ should_bypass_domain(env))

\* process_socks5_redirect: the profile is on, some proxy is up, and the
\* route has a hop through one.
socks5_redirect(p, env) ==
  /\ "socks5_fallback" \in env.active
  /\ env.proxies
  /\ EgressChain(resolve(p, env)) \cap {"Socks5", "UserProxy", "OperaVpn"} # {}

-----------------------------------------------------------------------------
(* The ways a packet can take.                                               *)

\* process_fake_ip_traffic, for TCP: only the SYN is rewritten.
FakeWay(p, env) ==
  IF Named(p, env) /\ IsSyn(p) /\ env.proxies THEN "redirect" ELSE "plain"

\* process_generic_tcp: socks5 first, then a clamp of the SYN.
GenericWay(p, env) ==
  CASE socks5_redirect(p, env) -> "redirect"
    [] ~socks5_redirect(p, env) /\ IsSyn(p)
         /\ env.active \cap {"tcp_window_clamp", "tcp_mss_clamp"} # {} -> "clamp"
    [] OTHER -> "plain"

\* The proxy's share: UDP goes to the tunnel or nowhere.
ProxyWay(env) == IF ~Udp THEN "redirect"
                 ELSE IF env.awg = "off" THEN "drop" ELSE "tunnel"

HandlerWay(p, env) ==
  CASE Class(p) = "Tls" /\ DstPort(p) = 443 -> "tls"
    [] Class(p) = "Tls" /\ DstPort(p) # 443 -> "plain"
    [] Class(p) = "Quic" -> "quic"
    [] Class(p) = "Http" -> "http"
    [] Class(p) = "Dns"  -> IF "dns_doh" \in env.active THEN "drop" ELSE "plain"
    [] Class(p) = "Other" -> GenericWay(p, env)

RoutedWay(p, env) ==
  CASE ~Outbound(p) -> "plain"
    [] Outbound(p) /\ decide(p, env) = "Direct" -> "plain"
    [] Outbound(p) /\ decide(p, env) = "Proxy"  -> ProxyWay(env)
    [] Outbound(p) /\ decide(p, env) = "Desync" -> HandlerWay(p, env)

\* The stages in the order of the code; the first that applies decides.
Way(p, env) ==
  CASE Bypassed(p, env) -> "bypass"
    [] OTHER ->
  CASE Class(p) = "Dns" -> IF env.room THEN "offload" ELSE "plain"
    [] Class(p) = "Other" /\ p.dir = "back" /\ entry -> "return"
    [] ~Udp /\ ToFake(p) -> FakeWay(p, env)
    [] OTHER -> IF Class(p) = "Other" /\ ~Udp /\ IsSyn(p) /\ ToOpera(p)
                THEN GenericWay(p, env) ELSE RoutedWay(p, env)

\* What the handlers ask of the surroundings when they are reached.
Advice(p, env) == [way |-> Way(p, env), effect |-> env.effect,
                   excluded |-> resolve(p, env) = "Excluded"]

-----------------------------------------------------------------------------
(* observe_connection_outcome, before any stage.  The breaker hears of a flow *)
(* whose entry has a route_key, which the TLS and HTTP handlers never set:    *)
(* flows to named addresses do not get as far.  The tuning hears of the       *)
(* packets that go the way the entry was made for.                            *)
Observed(p) ==
  IF ~Udp /\ p.dir = "out" /\ tracked # "none" /\ strategy /\ p.part = "rst"
  THEN {"fail"} ELSE {}

Book(p) == booked' = booked \cup Observed(p)
TakeWay(p, w) ==
  /\ last' = <<p.dir, w>>
  /\ treated' = (treated \/ (p.dir = "out" /\ w = "desync"))
  /\ redirected' = (redirected \/ (p.dir = "out" /\ w = "redirect"))

\* rewrite_dst_addr_inplace mixes no address families, and the redirector's
\* address is IPv4; a packet whose treatment fails is sent as it is.
rewrite_dst_addr(w) == IF w = "redirect" /\ flow.family = 6 THEN "plain" ELSE w

\* Every way but the handlers': nothing but the redirect table is touched, and
\* that before the rewriting.
Pass(p, a) ==
  /\ a.way \notin {"tls", "quic", "http"}
  /\ entry' = (entry \/ (a.way = "redirect" /\ p.dir = "out"))
  /\ TakeWay(p, rewrite_dst_addr(a.way))
  /\ UNCHANGED <<memory, desyncs>>

\* process_http_sync and process_quic_sync; QUIC leaves an entry of its own.
Treat(p, a) ==
  /\ a.way \in {"quic", "http"}
  /\ tracked' = IF a.way = "quic" /\ tracked = "none" THEN "seen" ELSE tracked
  /\ TakeWay(p, IF a.effect THEN "desync" ELSE "plain")
  /\ UNCHANGED <<buf, strategy, injected, entry, desyncs>>

\* TlsReassembler::observe and classify_tls_client_hello_buffer: what the
\* buffer becomes, and what it says.  Its bytes are only counted, so any later
\* bytes complete a head.
Piece(p) == CASE p.part \in {"syn", "rst"} -> 0 [] p.part = "head" -> 1 [] OTHER -> HelloSize - 1
observe(p) ==
  CASE Piece(p) = 0 -> [says |-> "NeedMore", buf |-> buf]
    [] Piece(p) > 0 /\ ~StartsRecord(p) /\ buf = 0 -> [says |-> "NotTls", buf |-> 0]
    [] OTHER -> IF buf + Piece(p) > MaxHello THEN [says |-> "TooLarge", buf |-> 0]
                ELSE IF buf + Piece(p) >= HelloSize THEN [says |-> "Complete", buf |-> 0]
                ELSE [says |-> "NeedMore", buf |-> buf + Piece(p)]

Whole(p) == IsClientHello(p) \/ observe(p).says = "Complete"
Reassembled(p) == buf' = IF IsClientHello(p) THEN buf ELSE observe(p).buf
\* check_and_apply_desync grants it once in the life of the entry.
Granted(p) == Whole(p) /\ tracked # "desynced"
\* Variant: the sequence number is marked only.
FirstSeenAlways(p) == TRUE
\* injected_seqs, marked before anything is done.
FirstSeen(p) == p.part \notin injected

\* Variant: applied_strategy names every profile that was tried.
AppliedTried(a) == TRUE
\* applied_strategy names the profile whose group did something.
Applied(a) == a.effect

\* Not a whole ClientHello yet, or one that had its desync: sent as it is.
TlsPass(p, a) ==
  /\ a.way = "tls" /\ ~Granted(p)
  /\ Reassembled(p)
  /\ TakeWay(p, "plain")
  /\ UNCHANGED <<tracked, strategy, injected, entry, desyncs>>

\* process_outbound_tls_sync: a retransmission, or an excluded name.
TlsSkip(p, a) ==
  /\ a.way = "tls" /\ Granted(p)
  /\ ~FirstSeen(p) \/ a.excluded
  /\ Reassembled(p)
  /\ tracked' = "desynced"
  /\ injected' = injected \cup {p.part}
  /\ TakeWay(p, "plain")
  /\ UNCHANGED <<strategy, entry, desyncs>>

\* ... and the desync itself, whether its group does anything or not.
TlsDesync(p, a) ==
  /\ a.way = "tls" /\ Granted(p) /\ FirstSeen(p) /\ ~a.excluded
  /\ Reassembled(p)
  /\ tracked' = "desynced"
  /\ injected' = injected \cup {p.part}
  /\ strategy' = (strategy \/ Applied(a))
  /\ TakeWay(p, IF a.effect THEN "desync" ELSE "plain")
  /\ desyncs' = IF a.effect THEN [desyncs EXCEPT ![p.part] = @ + 1] ELSE desyncs
  /\ UNCHANGED entry

Process(p) ==
  \E a \in {Advice(p, env) : env \in Surroundings} :
    /\ Pass(p, a) \/ Treat(p, a) \/ TlsPass(p, a) \/ TlsSkip(p, a) \/ TlsDesync(p, a)
    /\ Book(p)
    /\ UNCHANGED flow

-----------------------------------------------------------------------------
(* The client sends its parts in order and anything it has sent again; the    *)
(* server answers; the redirector answers what was redirected to it.          *)
Packet(part, dir) == [part |-> part, dir |-> dir]

ClientSends ==
  \E i \in 1 .. Len(Parts(flow)) :
    /\ i <= sent + 1
    /\ sent' = IF i > sent THEN i ELSE sent
    /\ Process(Packet(Parts(flow)[i], "out"))
ClientResets ==
  /\ sent > 0 /\ ~Udp
  /\ Process(Packet("rst", "out"))
  /\ UNCHANGED sent
ServerSends ==
  /\ sent > 0
  /\ \E part \in (IF Udp THEN {"reply"} ELSE {"synack", "shello", "reply", "rst"}) :
       Process(Packet(part, "in"))
  /\ UNCHANGED sent
RedirectorSends ==
  /\ redirected
  /\ \E part \in {"synack", "shello", "reply"} : Process(Packet(part, "back"))
  /\ UNCHANGED sent

(* What the other threads forget: the eviction of injected_seqs, the          *)
(* collector of the connection table, the reassembler's gc after five         *)
(* seconds, and the sweeper of the redirect table.                            *)
ForgetSeq ==
  /\ injected # {}
  /\ injected' = {}
  /\ desyncs' = IF tracked = "desynced" THEN desyncs ELSE Never
  /\ UNCHANGED <<flow, sent, buf, tracked, strategy, entry, history, booked>>
CollectEntry ==
  /\ tracked # "none"
  /\ tracked' = "none" /\ strategy' = FALSE
  /\ desyncs' = [part \in ClientParts |-> IF part \in injected THEN desyncs[part] ELSE 0]
  /\ UNCHANGED <<flow, sent, buf, injected, entry, history, booked>>
ReassemblyGc ==
  /\ buf > 0
  /\ buf' = 0
  /\ UNCHANGED <<flow, sent, tracked, strategy, injected, entry, history, desyncs, booked>>
SweepEntry ==
  /\ entry
  /\ entry' = FALSE
  /\ UNCHANGED <<flow, sent, memory, history, desyncs, booked>>

Next == \/ ClientSends \/ ClientResets \/ ServerSends \/ RedirectorSends
        \/ ForgetSeq \/ CollectEntry \/ ReassemblyGc \/ SweepEntry

Spec == Init /\ [][Next]_vars

-----------------------------------------------------------------------------
TypeOK ==
  /\ flow \in Flows /\ sent \in 0 .. Len(Parts(flow))
  /\ buf \in 0 .. HelloSize - 1
  /\ tracked \in {"none", "seen", "desynced"} /\ strategy \in BOOLEAN
  /\ injected \subseteq {Parts(flow)[i] : i \in 1 .. Len(Parts(flow))}
  /\ entry \in BOOLEAN

\* A TCP flow to an IPv4 address of a geo-blocked region never shows itself to
\* the server: whatever the breaker, the tuning and the cached routes say, all
\* its packets go to the redirector, unless the split tunnel takes them out.
\* (adaptive_router.rs, decide; Opera's own addresses are the exception.)
GeoBlockedNeverDirect ==
  (flow.region \in {"Europe", "UnitedStates"} /\ ~Udp /\ flow.family = 4
     /\ ~flow.fake /\ ~flow.opera)
  => (last[1] = "out" => last[2] \in {"redirect", "bypass"})

\* A part of a ClientHello is desynced once for as long as the connection entry
\* or the table of injected sequence numbers remembers it: each of the two
\* alone is enough (engine/mod.rs, dispatch and process_outbound_tls_sync).
DesyncedOnce == \A part \in ClientParts : desyncs[part] <= 1

\* "UDP/53 interception, local Split-DNS resolver": every DNS query is handed to the
\* resolver or, when the queue to it is full, forwarded; none is dropped or sent elsewhere
\* (engine/mod.rs, DNS check).
QueriesReachResolver ==
  (flow.app = "dns" /\ last[1] = "out") => last[2] \in {"offload", "plain"}

\* A failure is booked against a strategy only when a packet of the flow really
\* left changed (observe_connection_outcome and applied_strategy).
BookedWasTreated == booked # {} => treated
=============================================================================
