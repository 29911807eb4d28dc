------------------------------- MODULE Probe -------------------------------
(***************************************************************************)
(* The probe of a domain (src/core/src/probe): the phases ProbeModule::    *)
(* probe runs one after another, what each reports of the network it meets,*)
(* and how the decision engine and the strategy map read the reports.      *)
(*                                                                         *)
(* The network is external: what the site is, what a censor on the path    *)
(* does to it, whether the link is up, whether HTTP/3 gets through and how *)
(* long the phases take.  The link may go down or come up between phases,  *)
(* and any answer, on any network, may come too late to be waited for.  A  *)
(* phase reports one of the results such a network can produce.  The       *)
(* messages, addresses and certificates themselves are left out, as are    *)
(* the confidences: the service acts on the verdict alone.  The logistic   *)
(* regression is kept, its weights in thousandths and times in whole       *)
(* milliseconds; a score of 0.8 is a sum of 1.386, one of 0.7 is 0.847.    *)
(***************************************************************************)
EXTENDS Integers, Sequences, FiniteSets

CONSTANTS Networks,    \* the networks a probe may start in
          Durations,   \* for each pace of a network, the time of each phase in ms
          Patience,    \* the time after which a phase gives up, in ms
          Worded,      \* errors whose text holds the English words looked for
          LinkChanges, \* bound: times the link may go down or up
          ProbeRounds  \* bound: candidates probed in a row

Sites == {"plain", "tls12", "tiny", "moved", "legal", "worded", "half", "closed",
          "missing", "alert"}
Censors == {"none", "poison", "nxdomain", "empty", "udp53", "doh", "syn", "synrst",
            "icmp", "reset", "garbage", "drop", "hello13", "desktop", "volume", "page"}

ASSUME ProbeAssumption ==
  /\ Networks \subseteq [site : Sites, censor : Censors, h3 : BOOLEAN, link : BOOLEAN,
                         pace : DOMAIN Durations]
  /\ Patience \in Nat /\ LinkChanges \in Nat /\ ProbeRounds \in Nat
  /\ Worded \subseteq {"connection refused", "refused", "unreachable", "alert", "certificate"}
  /\ "connection refused" \in Worded => "refused" \in Worded

VARIABLES
  net,       \* the network
  changes,   \* how often the link has changed during this probe
  stage,     \* the phase that runs next
  report,    \* ProbeResult: what the phases have reported
  rounds     \* candidates the probe has finished

probeVars == <<net, changes, stage, report, rounds>>

NoReport == [dns |-> "none", tcp |-> "none", tls |-> "none", http |-> "none",
             volume |-> FALSE, ja4 |-> "none", quic |-> "none",
             ms |-> [udp |-> 0, doh |-> 0, tcp |-> 0, tls |-> 0, http |-> 0],
             sizes |-> [dns |-> 0, hello |-> 0, http |-> 0, status |-> 0]]

Took(phase) == Durations[net.pace][phase]

-----------------------------------------------------------------------------
(* Phase 1: DnsProbe.                                                      *)

\* What the resolvers' UDP answers are read as: the site's addresses, others, or an error.
parse_dns_response_detailed(n) ==
  CASE n.censor = "poison"   -> "forged"
    [] n.censor = "nxdomain" -> "nxdomain"
    [] n.censor = "empty"    -> "empty"
    [] n.censor = "udp53"    -> "timeout"
    [] OTHER -> IF n.site = "missing" THEN "nxdomain" ELSE "site"

\* A datagram, or its answer, may be lost; without a link sending may fail at once.
query_udp(n) == {"timeout", IF n.link THEN parse_dns_response_detailed(n) ELSE "error"}

\* TRUE iff the encrypted query returns addresses.
query_doh(n) ==
  {FALSE} \cup (IF n.link /\ n.site # "missing" /\ n.censor # "doh" THEN {TRUE} ELSE {})

cross_validate(replies, doh) ==
  LET udp == replies \cap {"site", "forged"}
  IN CASE doh /\ "site" \in udp                           -> "Ok"
       [] doh /\ udp # {} /\ "site" \notin udp            -> "Poisoned"
       [] doh /\ udp = {} /\ "nxdomain" \in replies       -> "NxdomainSpoof"
       [] doh /\ udp = {} /\ "nxdomain" \notin replies    ->
            IF "timeout" \in replies THEN "Intercepted" ELSE "EmptySpoof"
       [] ~doh /\ udp = {} /\ "nxdomain" \in replies /\ "timeout" \notin replies ->
            "Unresolvable"
       [] OTHER -> "DohBlocked"

\* Several servers are asked at once: any mixture of replies may come back.
ProbeDns ==
  /\ stage = "dns"
  /\ \E replies \in SUBSET query_udp(net) \ {{}}, doh \in query_doh(net) :
       report' = [NoReport EXCEPT
         !.dns = cross_validate(replies, doh),
         !.ms.udp = IF replies \cap {"site", "forged"} # {} THEN Took("udp") ELSE 0,
         !.ms.doh = IF doh THEN Took("doh") ELSE 0,
         !.sizes.dns = (IF replies \ {"timeout", "error"} # {} THEN 80 ELSE 0)
                       + (IF doh THEN 80 ELSE 0)]
  /\ stage' = "tcp"
  /\ UNCHANGED <<net, changes, rounds>>

-----------------------------------------------------------------------------
(* Phase 2: TcpProbe.                                                      *)

\* What becomes of a connection to port 443 of the site's i-th address.
connect(n, i) ==
  {"silent"} \cup
    CASE ~n.link -> {"unreachable"}
      [] n.link /\ (n.censor = "syn" \/ (n.site = "half" /\ i = 1)) -> {}
      [] n.link /\ (n.censor = "synrst" \/ n.site = "closed") -> {"refused"}
      [] n.link /\ n.censor = "icmp" -> {"unreachable"}
      [] OTHER -> {"ok"}

probe_single(outcome) ==
  CASE outcome = "ok"                                    -> "ConnectOk"
    [] outcome = "refused" /\ "connection refused" \in Worded -> "Refused"
    [] outcome = "unreachable" /\ outcome \in Worded     -> "Unreachable"
    [] OTHER -> "Timeout"

\* The addresses are raced; if none answers the verdict is the first one's.
tcp_probe(first, second) ==
  IF "ok" \in {first, second} THEN "ConnectOk" ELSE probe_single(first)

\* The addresses are used only if the resolvers agreed.
HasAddress == report.dns = "Ok"

ProbeTcp ==
  /\ stage = "tcp"
  /\ \E first \in connect(net, 1), second \in connect(net, 2) :
       report' = IF ~HasAddress THEN [report EXCEPT !.tcp = "Timeout"]
                 ELSE [report EXCEPT
                        !.tcp = tcp_probe(first, second),
                        !.ms.tcp = IF "silent" \in {first, second} THEN Patience
                                   ELSE Took("tcp")]
  /\ stage' = "tls"
  /\ UNCHANGED <<net, changes, rounds>>

-----------------------------------------------------------------------------
(* Phase 3: TlsProbe, always at the first address.                         *)

\* What a censor that looks at the ClientHello does to the handshake.
CutShort == [reset |-> {"cut"}, garbage |-> {"garbled"}, drop |-> {"silent"},
             hello13 |-> {"cut", "silent"}, desktop |-> {"cut", "silent"}]

\* What becomes of a handshake with the platform's TLS library, limited to a version.
probe_version_native(n, version) ==
  {"silent"} \cup
    IF "ok" \notin connect(n, 1) THEN connect(n, 1)
    ELSE IF n.censor \in DOMAIN CutShort /\ (n.censor = "hello13" => version = "1.3")
         THEN CutShort[n.censor]
    ELSE IF n.site = "alert" THEN {"unrecognized_name", "handshake_failure", "internal_error",
                                   "certificate", "hostname"}
    ELSE IF n.site = "tls12" /\ version = "1.3" THEN {"protocol_version"} ELSE {"ok"}

\* What the alerts are read as; the other words for a certificate count as Mitm.
Alerts == [unrecognized_name |-> "AlertSniblock", handshake_failure |-> "AlertHandshake",
           protocol_version |-> "AlertProtocol", internal_error |-> "Alert"]
CertificateErrors == [certificate |-> "Mitm", hostname |-> "MitmHostnameMismatch"]

\* Only errors that a library words in English are told apart.
classify_handshake_error(outcome) ==
  CASE outcome \in {"silent", "unreachable"} -> "SilentDrop"
    [] outcome = "refused" -> IF "refused" \in Worded THEN "Reset" ELSE "SilentDrop"
    [] outcome \in DOMAIN CertificateErrors /\ "certificate" \in Worded ->
         CertificateErrors[outcome]
    [] outcome \in DOMAIN Alerts /\ "alert" \in Worded -> Alerts[outcome]
    [] OTHER -> "Garbage"

\* with13, with12: the handshakes limited to a version; confirmed: a request went through.
tls_probe(with13, with12, confirmed) ==
  IF with13 = "ok" THEN IF confirmed THEN "Version13Ok" ELSE "HandshakeOk"
  ELSE IF with12 = "ok" THEN "Version12Only" ELSE classify_handshake_error(with13)

is_tls_fail(verdict) == verdict \notin {"none", "HandshakeOk", "Version13Ok", "Version12Only"}
TlsPassed == report.tls \in {"HandshakeOk", "Version13Ok", "Version12Only"}

\* A second handshake, for its sizes alone: with a server that says no more than a few
\* kilobytes of TLS 1.3 it waits until it gives up.
raw_handshake_probe(n) == IF "ok" \in connect(n, 1) THEN BOOLEAN ELSE {FALSE}

extract_tls_handshake_features(verdict) == IF is_tls_fail(verdict) THEN 0 ELSE 120

ProbeTls ==
  /\ stage = "tls"
  /\ \E with13 \in probe_version_native(net, "1.3"),
        with12 \in probe_version_native(net, "1.2"), confirmed \in BOOLEAN,
        waits \in raw_handshake_probe(net) :
       LET verdict == tls_probe(with13, with12, confirmed)
       IN report' =
            IF report.tcp # "ConnectOk" THEN report
            ELSE [report EXCEPT
                   !.tls = verdict,
                   !.ms.tls = IF waits \/ "silent" \in {with13, with12} THEN Patience
                              ELSE Took("tls"),
                   !.sizes.hello = extract_tls_handshake_features(verdict)]
  /\ stage' = "http"
  /\ UNCHANGED <<net, changes, rounds>>

-----------------------------------------------------------------------------
(* Phases 4 and 5: HttpProbe and Tcp16Probe.                               *)

Page == [status |-> 200, size |-> 1500, whole |-> TRUE, words |-> FALSE, foreign |-> FALSE]

\* The answer to GET /, from the site or from the censor in its place.
Answer(n) ==
  CASE n.censor = "page" -> {[Page EXCEPT !.status = 302, !.foreign = TRUE],
                             [Page EXCEPT !.words = TRUE]}
    [] n.censor # "page" /\ n.site = "legal"  -> {[Page EXCEPT !.status = 451]}
    [] n.censor # "page" /\ n.site = "moved"  ->
         {[Page EXCEPT !.status = 302, !.foreign = TRUE]}
    [] n.censor = "volume" /\ n.site \notin {"legal", "moved"} ->
         {[Page EXCEPT !.whole = FALSE]}
    [] n.censor \notin {"page", "volume"} /\ n.site = "worded" ->
         {[Page EXCEPT !.words = TRUE]}
    [] n.censor \notin {"page", "volume"} /\ n.site = "tiny"   ->
         {[Page EXCEPT !.size = 200]}
    [] OTHER -> {Page, [Page EXCEPT !.status = 302]}

http_verdict(page) ==
  CASE page.status = 451 -> "Http451"
    [] page.status = 302 -> IF page.foreign THEN "RedirectForeign" ELSE "RedirectSame"
    [] page.status = 200 ->
         IF ~page.whole THEN "Cutoff"
         ELSE IF page.words THEN "StubPage"
         ELSE IF page.size < 1000 THEN "Cutoff" ELSE "Ok"

\* The request is sent over a connection of its own and has a limit of its own: it may
\* fail, or be answered too late, whatever became of the phases before; the rest of a page
\* may fail to come as well.
ProbeHttp ==
  /\ stage = "http"
  /\ stage' = "volume"
  /\ \/ ~TlsPassed /\ report' = report
     \/ /\ TlsPassed /\ "ok" \in connect(net, 1)
        /\ \E page \in Answer(net) \cup {[cut EXCEPT !.whole = FALSE] : cut \in Answer(net)} :
             report' = [report EXCEPT
               !.http = http_verdict(page),
               !.ms.http = Took("http"),
               !.sizes.status = page.status,
               !.sizes.http = IF page.status = 200 /\ page.whole THEN page.size ELSE 0]
     \/ TlsPassed /\ report' = [report EXCEPT !.http = "Timeout"]
  /\ UNCHANGED <<net, changes, rounds>>

\* Plain requests sent to the TLS port: a server that hangs up looks like a censor.
tcp16_detected(http) == {FALSE, http = "Cutoff"}

ProbeVolume ==
  /\ stage = "volume"
  /\ \E detected \in tcp16_detected(report.http) :
       report' = [report EXCEPT !.volume = detected,
                                !.tcp = IF detected THEN "DataVolumeCut" ELSE @]
  /\ stage' = "ja4"
  /\ UNCHANGED <<net, changes, rounds>>

-----------------------------------------------------------------------------
(* Phases 6 and 7: Ja4FingerprintProbe and QuicProbe.                      *)

\* How the four ClientHellos fare: which of "served" and "refused", also by silence, occurs.
probe_profiles(n) ==
  {{"refused"}} \cup
    IF "ok" \notin connect(n, 1) \/ n.site = "alert"
       \/ n.censor \in DOMAIN CutShort \ {"desktop", "hello13"} THEN {}
    ELSE IF n.censor \in {"desktop", "hello13"} THEN {{"served", "refused"}}
    ELSE {{"served", "refused"}, {"served"}}

ja4_discriminate(fates) ==
  IF fates = {"served", "refused"} THEN "FingerprintBlocking"
  ELSE IF fates = {"refused"} THEN "SniBasedBlocking" ELSE "NoFingerprintBlocking"

ProbeJa4 ==
  /\ stage = "ja4"
  /\ \E fates \in probe_profiles(net) :
       report' = [report EXCEPT !.ja4 = IF is_tls_fail(report.tls)
                                        THEN ja4_discriminate(fates) ELSE "none"]
  /\ stage' = "quic"
  /\ UNCHANGED <<net, changes, rounds>>

\* Whether a datagram that reads as a QUIC handshake or Retry comes back.
quic_answers(n) == n.link /\ n.h3 /\ n.site # "half"

quic_discriminate(tcpOk, quicOk) ==
  CASE tcpOk /\ quicOk   -> "NoBlocking"
    [] tcpOk /\ ~quicOk  -> "QuicBlocked"
    [] ~tcpOk /\ quicOk  -> "QuicBypass"
    [] ~tcpOk /\ ~quicOk -> "GeneralBlocking"

ProbeQuic ==
  /\ stage = "quic"
  /\ \E answered \in {FALSE, quic_answers(net)} :
       report' = [report EXCEPT !.quic =
         IF HasAddress THEN quic_discriminate(report.tcp = "ConnectOk", answered) ELSE "none"]
  /\ stage' = "decide"
  /\ UNCHANGED <<net, changes, rounds>>

-----------------------------------------------------------------------------
(* TimingProbe and MlClassifier.                                           *)

\* The variance of the four phase durations, rounded down.
variance(ms) ==
  LET sum == ms.udp + ms.tcp + ms.tls + ms.http
      squares == ms.udp * ms.udp + ms.tcp * ms.tcp + ms.tls * ms.tls + ms.http * ms.http
  IN (4 * squares - sum * sum) \div 16

ratio(over, under) == IF under = 0 THEN 0 ELSE over \div under

\* A thousand times the weighted sum the sigmoid is taken of.
predict(r) ==
  LET ms == r.ms
      size == r.sizes
  IN 1000 - 10 * ms.udp - 10 * ms.doh + 5 * size.dns
     - 2000 * ms.tcp - (IF r.tcp = "ConnectOk" THEN 3000 ELSE 0)
     + 10 * ms.tls + 5 * size.hello - (IF TlsPassed THEN 3000 ELSE 0)
     + 15 * ms.http + size.http + 2 * size.status
     + 1500 * ratio(ms.tls, ms.tcp) + 1000 * ratio(ms.http, ms.tls)
     + 500 * variance(ms)

ml_verdict(z) == IF z >= 847 THEN "Blocked" ELSE IF z <= -847 THEN "Clear" ELSE "Suspicious"

-----------------------------------------------------------------------------
(* The discriminator and the decision engine.                              *)

\* Variant: a connection cut in the middle of the answer is taken for a failing one.
discriminate_http_lenient(http) ==
  CASE http = "Http451" -> "ServerActive"
    [] http \in {"RedirectForeign", "StubPage"} -> "PathActive"
    [] OTHER -> "Ambiguous"

discriminate_http(http) ==
  CASE http = "Http451" -> "ServerActive"
    [] http \in {"Cutoff", "RedirectForeign", "StubPage"} -> "PathActive"
    [] OTHER -> "Ambiguous"

discriminate(tls, http) ==
  CASE tls \in {"AlertSniblock", "AlertHandshake", "AlertProtocol"} -> "ServerActive"
    [] tls \in {"Mitm", "MitmHostnameMismatch"} -> "ServerActive"
    [] tls \in {"Reset", "Garbage", "SilentDrop", "Version12Only"} -> "PathActive"
    [] tls = "Alert" -> "Ambiguous"
    [] tls \in {"HandshakeOk", "Version13Ok"} -> discriminate_http(http)
    [] tls = "none" -> "none"

\* A refused or unreachable address leaves the question open, whatever DNS said.
compute_base_verdict(dns, tcp) ==
  IF dns \in {"Ok", "Unresolvable"} /\ tcp \in {"ConnectOk", "Refused", "Unreachable"}
  THEN "Ambiguous" ELSE "Blocked"

\* The verdict of the first rule, in the engine's order, that applies.
FirstOf(rules) ==
  LET first == CHOOSE i \in DOMAIN rules :
                 rules[i].when /\ \A j \in 1 .. i - 1 : ~rules[j].when
  IN rules[first].verdict

Rule(when, verdict) == [when |-> when, verdict |-> verdict]

\* The hard rules and the strong signals.
Signals(r) ==
  LET origin == discriminate(r.tls, r.http)
  IN <<Rule(r.dns \in {"Poisoned", "NxdomainSpoof", "EmptySpoof"}, "Blocked"),
       Rule(r.dns = "Intercepted", "Blocked"),
       Rule(origin = "ServerActive", "Clear"),
       Rule(r.quic = "QuicBypass", "Ambiguous"),
       Rule(origin = "PathActive", "Blocked"),
       Rule(r.ja4 = "FingerprintBlocking", "Blocked"),
       Rule(predict(r) >= 1386, "Blocked")>>

\* The later phases weigh the confidence; the verdict is the base one.
decide_verdict(r) ==
  FirstOf(Append(Signals(r), Rule(TRUE, compute_base_verdict(r.dns, r.tcp))))

-----------------------------------------------------------------------------
(* The strategy map.                                                       *)

Advice(when, id) == IF when THEN <<id>> ELSE <<>>

\* Strategy ids against what DNS, TCP and TLS report.
recommend_by_transport(r) ==
     Advice(r.dns \in {"Poisoned", "NxdomainSpoof", "EmptySpoof", "Intercepted"}, 100)
  \o Advice(r.tcp = "Timeout", 3)
  \o Advice(r.tcp = "DataVolumeCut", 9)
  \o Advice(r.tls = "Version12Only", 15)
  \o Advice(r.tls = "Garbage", 6)
  \o Advice(r.tls = "Reset", 7)
  \o Advice(r.tls = "AlertSniblock", 4)
  \o Advice(r.tls = "Mitm", 35)

\* All of them, in the order in which the map finds reasons for them.
recommend(r) ==
     recommend_by_transport(r)
  \o Advice(r.http = "Cutoff", 8)
  \o Advice(r.http \in {"Http451", "RedirectForeign", "StubPage"}, 35)
  \o Advice(r.ja4 = "FingerprintBlocking", 50)
  \o Advice(r.ja4 = "SniBasedBlocking", 4)
  \o Advice(r.quic = "QuicBlocked", 60)
  \o Advice(r.quic = "QuicBypass", 61)
  \o Advice(ml_verdict(predict(r)) # "Clear", 70)
  \o Advice(r.volume, 9)
  \o Advice(r.dns = "Ok" /\ r.tcp = "Timeout", 35)

-----------------------------------------------------------------------------
(* The probing of one candidate after another.                             *)

ProbeInit ==
  /\ net \in Networks
  /\ changes = 0 /\ stage = "sleep" /\ report = NoReport /\ rounds = 0

StartProbe ==
  /\ stage = "sleep" /\ rounds < ProbeRounds
  /\ stage' = "dns"
  /\ UNCHANGED <<net, changes, report, rounds>>

LinkChange ==
  /\ changes < LinkChanges /\ stage \notin {"sleep", "decide"}
  /\ net' = [net EXCEPT !.link = ~@]
  /\ changes' = changes + 1
  /\ UNCHANGED <<stage, report, rounds>>

ProbePhase == \/ StartProbe \/ ProbeDns \/ ProbeTcp \/ ProbeTls \/ ProbeHttp
              \/ ProbeVolume \/ ProbeJa4 \/ ProbeQuic
=============================================================================
