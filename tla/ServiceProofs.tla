---------------------------- MODULE ServiceProofs ----------------------------
(* Proofs about FilterRotation, alone and in the process of Service: for any  *)
(* number of rotations, packets and parts of the service in use.              *)
EXTENDS Service, SequenceTheorems, TLAPS

\* As much of TypeOK as the argument needs.
Typed ==
  /\ mode \in Modes
  /\ opened \in Handles
  /\ divert \in 1 .. opened /\ guard \in 0 .. opened
  /\ isOpen \subseteq 1 .. opened
  /\ updating \in BOOLEAN
  /\ filterOf \in [Handles -> Modes \cup {"startup"}]

\* Between its opening and the swap the new handle is open, and neither the engine nor
\* the capture thread has it yet.
NewHandleWaits == updating => opened \in isOpen /\ opened # divert /\ opened # guard

\* What is about to be swapped in has the filter of the mode the governor is in.
NewHandleFollowsMode == updating /\ ~failures => filterOf[opened] = mode

RotationInv ==
  Typed /\ NewHandleWaits /\ NoBlindWindow /\ NewHandleFollowsMode /\ FilterFollowsMode

LEMMA RotationInit == Init => RotationInv
<1> SUFFICES ASSUME Init PROVE RotationInv
  OBVIOUS
<1> USE RotationAssumption DEF Init
<1>1. Typed
  <2>1. opened \in Handles /\ divert \in 1 .. opened /\ guard \in 0 .. opened
        /\ isOpen \subseteq 1 .. opened
    BY DEF Handles
  <2>2. filterOf \in [Handles -> Modes \cup {"startup"}] /\ mode \in Modes /\ updating \in BOOLEAN
    BY DEF Modes
  <2> QED
    BY <2>1, <2>2 DEF Typed
<1>2. NewHandleWaits /\ NoBlindWindow /\ NewHandleFollowsMode
  BY DEF NewHandleWaits, NoBlindWindow, NewHandleFollowsMode
<1>3. FilterFollowsMode
  BY DEF FilterFollowsMode, Handles
<1> QED
  BY <1>1, <1>2, <1>3 DEF RotationInv

\* Arrivals and windows within the dwell touch no handle, no filter and no mode.
LEMMA QuietKeeps ==
  ASSUME RotationInv,
         UNCHANGED <<mode, filterOf, opened, divert, guard, updating, isOpen, failures>>
  PROVE  RotationInv'
BY DEF RotationInv, Typed, NewHandleWaits, NoBlindWindow, NewHandleFollowsMode,
       FilterFollowsMode

\* The guard is taken on the handle in place.
LEMMA LoadKeeps == RotationInv /\ Load => RotationInv'
<1> SUFFICES ASSUME RotationInv, Load PROVE RotationInv'
  OBVIOUS
<1> USE DEF RotationInv, Load, driver
<1>1. Typed' /\ NewHandleWaits'
  BY RotationAssumption DEF Typed, NewHandleWaits, Handles
<1>2. NoBlindWindow'
  BY DEF NoBlindWindow, Typed
<1>3. NewHandleFollowsMode' /\ FilterFollowsMode'
  BY DEF NewHandleFollowsMode, FilterFollowsMode
<1> QED
  BY <1>1, <1>2, <1>3

\* The guard is dropped.  If it was the last reference to a handle, that handle is
\* neither the one in place nor the one that waits.
LEMMA ReleaseKeeps ==
  ASSUME NEW queues, RotationInv, guard # 0, ReleaseGuard(queues),
         UNCHANGED <<mode, filterOf, opened, divert, updating, failures>>
  PROVE  RotationInv'
<1> USE DEF RotationInv
<1>1. guard' = 0 /\ isOpen' \subseteq isOpen
      /\ \A h : h \in isOpen /\ (h # guard \/ h = divert) => h \in isOpen'
      /\ (guard # divert => guard \notin isOpen')
  <2>1. CASE guard = divert
    BY <2>1 DEF ReleaseGuard
  <2>2. CASE guard # divert
    BY <2>2 DEF ReleaseGuard, Close
  <2> QED
    BY <2>1, <2>2
<1>2. 0 \in 0 .. opened
  BY RotationAssumption DEF Typed, Handles
<1>3. Typed'
  BY <1>1, <1>2 DEF Typed
<1>4. NewHandleWaits'
  BY <1>1, <1>2 DEF NewHandleWaits, Typed, Handles
<1>5. NoBlindWindow'
  BY <1>1 DEF NoBlindWindow
<1>6. NewHandleFollowsMode' /\ FilterFollowsMode'
  BY DEF NewHandleFollowsMode, FilterFollowsMode
<1> QED
  BY <1>3, <1>4, <1>5, <1>6

\* A rotation begins: the handle it opens is a new one.
LEMMA OpenKeeps ==
  ASSUME NEW overloaded \in BOOLEAN, RotationInv, OpenNew(overloaded)
  PROVE  RotationInv'
<1> USE RotationAssumption
    DEF RotationInv, OpenNew, Switch, CanOpen, ModeAfter, decide, Modes, Handles
<1>1. opened + 1 \in 1 .. MaxHandles
  BY DEF Typed
<1>2. Typed'
  BY <1>1 DEF Typed
<1>3. NewHandleWaits'
  BY <1>1 DEF Typed, NewHandleWaits
<1>4. NoBlindWindow'
  BY DEF NoBlindWindow, Typed
<1>5. NewHandleFollowsMode'
  BY <1>1 DEF NewHandleFollowsMode, Typed
<1>6. FilterFollowsMode'
  BY DEF FilterFollowsMode
<1> QED
  BY <1>2, <1>3, <1>4, <1>5, <1>6

\* From the first failure on nothing is said about the filter.
LEMMA FailKeeps ==
  ASSUME NEW overloaded \in BOOLEAN, RotationInv, OpenFails(overloaded)
  PROVE  RotationInv'
BY DEF RotationInv, OpenFails, Switch, decide, Modes, driver, Typed, NewHandleWaits,
       NoBlindWindow, NewHandleFollowsMode, FilterFollowsMode

\* The swap: the old handle is closed unless the capture thread holds it.
LEMMA SwapKeeps == RotationInv /\ Swap => RotationInv'
<1> SUFFICES ASSUME RotationInv, Swap PROVE RotationInv'
  OBVIOUS
<1> USE DEF RotationInv, Swap, StillHeld, Close
<1>1. isOpen' \subseteq isOpen
  OBVIOUS
<1>2. opened \in 1 .. opened
  BY RotationAssumption DEF Typed, Handles
<1>3. Typed' /\ NewHandleWaits'
  BY <1>1, <1>2 DEF Typed, NewHandleWaits
<1>4. NoBlindWindow'
  BY DEF NoBlindWindow, NewHandleWaits, Typed
<1>5. NewHandleFollowsMode' /\ FilterFollowsMode'
  BY DEF NewHandleFollowsMode, FilterFollowsMode
<1> QED
  BY <1>3, <1>4, <1>5

\* Where none of its variables changes, neither does the invariant.
LEMMA StutterKeeps == RotationInv /\ UNCHANGED vars => RotationInv'
BY QuietKeeps DEF vars, driver

LEMMA ReadKeeps == ASSUME NEW n \in 1 .. RecvBatch, RotationInv, ReadBatch(n) PROVE RotationInv'
BY ReleaseKeeps DEF ReadBatch

LEMMA ArriveKeeps == RotationInv /\ Arrive => RotationInv'
BY QuietKeeps DEF Arrive

LEMMA GovernorKeeps == RotationInv /\ Governor => RotationInv'
<1> SUFFICES ASSUME RotationInv, Governor PROVE RotationInv'
  OBVIOUS
<1>1. CASE WindowWithinDwell
  BY <1>1, QuietKeeps DEF WindowWithinDwell, driver
<1>2. CASE Swap
  BY <1>2, SwapKeeps
<1>3. ASSUME NEW overloaded \in BOOLEAN, OpenNew(overloaded) \/ OpenFails(overloaded)
      PROVE  RotationInv'
  BY <1>3, OpenKeeps, FailKeeps
<1> QED
  BY <1>1, <1>2, <1>3 DEF Governor

LEMMA RotationStep == RotationInv /\ [Next]_vars => RotationInv'
<1> SUFFICES ASSUME RotationInv, [Next]_vars PROVE RotationInv'
  OBVIOUS
<1>1. CASE ReadStep
  BY <1>1, LoadKeeps, ReadKeeps DEF ReadStep
<1> QED
  BY <1>1, ArriveKeeps, GovernorKeeps, StutterKeeps DEF Next

-----------------------------------------------------------------------------
(* The same in the process: its threads end, its tasks are cancelled, and     *)
(* packets that are not counted let a receive return.                         *)

LEMMA ReturnKeeps == RotationInv /\ ReturnWithOthers => RotationInv'
BY ReleaseKeeps DEF ReturnWithOthers

LEMMA CaptureKeeps == RotationInv /\ Capture => RotationInv'
BY LoadKeeps, ReadKeeps, ArriveKeeps DEF Capture

\* Everything else the service does leaves the rotation alone.
LEMMA LifeIsApart ==
  \/ Start \/ Pipeline \/ Watcher \/ Settle \/ SentinelStep \/ service_control_handler
  \/ CtrlC \/ Finish
  => UNCHANGED vars
<1>1. Start => UNCHANGED vars
  BY DEF Start, ReportRunning, CreateChannel, LoadConfig, LoadConfigFails, run_service,
         Subscribe, Boot
<1>2. Pipeline => UNCHANGED vars
  BY DEF Pipeline, SpawnThreads, Listen, SetFlag, Joined, ThreadExit, RunTask
<1>3. Watcher \/ Settle \/ SentinelStep \/ service_control_handler \/ CtrlC => UNCHANGED vars
  BY DEF Watcher, Settle, SentinelStep, service_control_handler, CtrlC
<1>4. Finish => UNCHANGED vars
  BY DEF Finish, StopHeard, CancelRun, End, DispatcherReturns, Boot
<1> QED
  BY <1>1, <1>2, <1>3, <1>4

LEMMA ServiceStep == RotationInv /\ [ServiceNext]_serviceVars => RotationInv'
<1> SUFFICES ASSUME RotationInv, [ServiceNext]_serviceVars PROVE RotationInv'
  OBVIOUS
<1>1. CASE Govern
  BY <1>1, GovernorKeeps DEF Govern
<1>2. CASE UNCHANGED serviceVars
  BY <1>2, StutterKeeps DEF serviceVars
<1> QED
  BY <1>1, <1>2, CaptureKeeps, ReturnKeeps, LifeIsApart, StutterKeeps DEF ServiceNext

-----------------------------------------------------------------------------
\* Whatever the governor, the capture thread and a failing driver do, the handle in
\* place and the one being read from are open, and no other one stays open
\* (packet_engine.rs, update_filter and recv_batch_into).
THEOREM RotationIsNeverBlind == Spec => []NoBlindWindow
<1>1. RotationInv => NoBlindWindow
  BY DEF RotationInv
<1> QED
  BY <1>1, RotationInit, RotationStep, PTL DEF Spec

\* The same from the start of the service to its end, whenever it is stopped.
THEOREM ServiceIsNeverBlind == ServiceSpec => []NoBlindWindow
<1>1. RotationInv => NoBlindWindow
  BY DEF RotationInv
<1>2. ServiceInit => RotationInv
  BY RotationInit DEF ServiceInit
<1> QED
  BY <1>1, <1>2, ServiceStep, PTL DEF ServiceSpec

\* As long as no rotation has failed and none is under way, the filter in force is that
\* of the governor's mode (engine/mod.rs, the governor's loop).
THEOREM FilterIsTheModes == ServiceSpec => []FilterFollowsMode
<1>1. RotationInv => FilterFollowsMode
  BY DEF RotationInv
<1>2. ServiceInit => RotationInv
  BY RotationInit DEF ServiceInit
<1> QED
  BY <1>1, <1>2, ServiceStep, PTL DEF ServiceSpec

-----------------------------------------------------------------------------
(* The probe of a censored site, for any networks and any pace of theirs.     *)

\* Censors that let a connection be opened and act on what is sent over it.
Passing == {"reset", "garbage", "drop", "hello13", "desktop", "volume", "page"}

\* A platform whose errors do not say, in the words the code looks for, that a connection
\* was refused or that an alert has come: Windows says that the target "actively refused"
\* it, and Schannel names no alert (tcp_probe.rs, probe_single; tls_probe.rs,
\* classify_handshake_error).
WindowsWords == Worded \cap {"connection refused", "alert"} = {}

\* What gives a censor away: a connection that does not come about, a handshake that
\* fails, or an answer that is not the site's.
NoConnection == report.tcp \in {"Timeout", "DataVolumeCut"} /\ report.tls = "none"
NoHandshake == report.tls \in {"Reset", "Garbage", "SilentDrop", "Version12Only"}
NoAnswer == /\ report.tls \in {"HandshakeOk", "Version13Ok"}
            /\ report.http \in {"Cutoff", "RedirectForeign", "StubPage"}

\* Every phase that a censor lets pass leaves fewer censors for the next ones.
AfterDns == stage = "tcp" =>
  /\ report.tls = "none"
  /\ report.dns = "Ok" => net.censor \in {"syn", "synrst"} \cup Passing
AfterTcp == stage = "tls" =>
  NoConnection \/ (report.tcp = "ConnectOk" /\ net.censor \in Passing)
AfterTls == stage = "http" =>
  \/ NoConnection \/ NoHandshake
  \/ /\ report.tls \in {"HandshakeOk", "Version13Ok"}
     /\ net.censor \in {"volume", "page"} /\ net.site # "half"
AfterHttp == stage \in {"volume", "ja4", "quic", "decide"} =>
  NoConnection \/ NoHandshake \/ NoAnswer \/ Unseen
AfterQuic == stage = "decide" => report.quic # "QuicBypass"

CensorShows == AfterDns /\ AfterTcp /\ AfterTls /\ AfterHttp /\ AfterQuic

Stages == {"sleep", "dns", "tcp", "tls", "http", "volume", "ja4", "quic", "decide"}
ProbeTyped ==
  /\ net \in [site : Sites, censor : Censors, h3 : BOOLEAN, link : BOOLEAN,
              pace : DOMAIN Durations]
  /\ DOMAIN report = DOMAIN NoReport
  /\ changes \in Nat /\ stage \in Stages

ProbeInv == ProbeTyped /\ (Censored => CensorShows)

LEMMA ProbeStart == ServiceInit \/ SettingsInit => ProbeInv
<1> SUFFICES ASSUME ProbeInit PROVE ProbeInv
  BY DEF ServiceInit, SettingsInit
<1>1. ProbeTyped
  BY ProbeAssumption DEF ProbeInit, ProbeTyped, Stages
<1>2. CensorShows
  BY DEF ProbeInit, CensorShows, AfterDns, AfterTcp, AfterTls, AfterHttp, AfterQuic
<1> QED
  BY <1>1, <1>2 DEF ProbeInv

LEMMA ProbeStutters ==
  ASSUME ProbeInv, UNCHANGED probeVars
  PROVE  ProbeInv'
BY DEF ProbeInv, probeVars, ProbeTyped, Censored, CensorShows, AfterDns, AfterTcp, AfterTls,
       AfterHttp, AfterQuic, NoConnection, NoHandshake, NoAnswer, Unseen

\* While a probe runs undisturbed, what is censored stays so.
LEMMA PhaseKeeps ==
  ASSUME ProbeInv, UNCHANGED <<net, changes>>, stage' \in Stages,
         DOMAIN report' = DOMAIN NoReport, Censored => CensorShows'
  PROVE  ProbeInv'
BY DEF ProbeInv, ProbeTyped, Censored

LEMMA StartKeeps == ProbeInv /\ StartProbe => ProbeInv'
<1> SUFFICES ASSUME ProbeInv, StartProbe PROVE ProbeInv'
  OBVIOUS
<1>1. CensorShows'
  BY DEF StartProbe, CensorShows, AfterDns, AfterTcp, AfterTls, AfterHttp, AfterQuic
<1> QED
  BY <1>1, PhaseKeeps DEF StartProbe, Stages, ProbeInv, ProbeTyped

\* Only an answer from the site's own resolver makes the addresses usable.
LEMMA DnsKeeps == ProbeInv /\ ProbeDns => ProbeInv'
<1> SUFFICES ASSUME ProbeInv, ProbeDns PROVE ProbeInv'
  OBVIOUS
<1>1. PICK replies \in SUBSET query_udp(net) \ {{}}, doh \in query_doh(net) :
        report' = [NoReport EXCEPT
          !.dns = cross_validate(replies, doh),
          !.ms.udp = IF replies \cap {"site", "forged"} # {} THEN Took("udp") ELSE 0,
          !.ms.doh = IF doh THEN Took("doh") ELSE 0,
          !.sizes.dns = (IF replies \ {"timeout", "error"} # {} THEN 80 ELSE 0)
                        + (IF doh THEN 80 ELSE 0)]
  BY DEF ProbeDns
<1>2. /\ DOMAIN report' = DOMAIN NoReport /\ report'.tls = "none"
      /\ report'.dns = cross_validate(replies, doh)
  BY <1>1 DEF NoReport
<1>3. ASSUME Censored, report'.dns = "Ok"
      PROVE  net.censor \in {"syn", "synrst"} \cup Passing
  <2>1. doh /\ "site" \in replies
    BY <1>2, <1>3 DEF cross_validate
  <2>2. net.censor # "doh"
    BY <2>1 DEF query_doh
  <2>3. parse_dns_response_detailed(net) = "site"
    BY <2>1 DEF query_udp
  <2>4. net.censor \notin {"poison", "nxdomain", "empty", "udp53"}
    BY <2>3 DEF parse_dns_response_detailed
  <2> QED
    BY <1>3, <2>2, <2>4 DEF Censored, ProbeInv, ProbeTyped, Censors, Passing
<1>4. Censored => CensorShows'
  BY <1>2, <1>3 DEF ProbeDns, CensorShows, AfterDns, AfterTcp, AfterTls, AfterHttp, AfterQuic
<1> QED
  BY <1>2, <1>4, PhaseKeeps DEF ProbeDns, Stages

\* Without an address the phase gives up; behind these censors so does a connection.
LEMMA TcpKeeps ==
  ASSUME WindowsWords, ProbeInv, ProbeTcp
  PROVE  ProbeInv'
<1>1. PICK first \in connect(net, 1), second \in connect(net, 2) :
        report' = IF ~HasAddress THEN [report EXCEPT !.tcp = "Timeout"]
                  ELSE [report EXCEPT
                         !.tcp = tcp_probe(first, second),
                         !.ms.tcp = IF "silent" \in {first, second} THEN Patience
                                    ELSE Took("tcp")]
  BY DEF ProbeTcp
<1>2. /\ DOMAIN report' = DOMAIN NoReport /\ report'.tls = report.tls
      /\ report'.tcp = IF ~HasAddress THEN "Timeout" ELSE tcp_probe(first, second)
  BY <1>1 DEF ProbeInv, ProbeTyped, NoReport
<1>3. ASSUME Censored
      PROVE  NoConnection' \/ (report'.tcp = "ConnectOk" /\ net.censor \in Passing)
  <2>1. report.tls = "none" /\ (HasAddress => net.censor \in {"syn", "synrst"} \cup Passing)
    BY <1>3 DEF ProbeTcp, ProbeInv, CensorShows, AfterDns, HasAddress
  <2>2. CASE ~HasAddress
    BY <1>2, <2>1, <2>2 DEF NoConnection
  <2>3. CASE net.censor \in {"syn", "synrst"}
    <3>1. first \in {"silent", "refused"} /\ second \in {"silent", "refused"}
      BY <1>3, <2>3 DEF connect, Censored
    <3>2. tcp_probe(first, second) = "Timeout"
      BY <3>1 DEF tcp_probe, probe_single, WindowsWords
    <3> QED
      BY <1>2, <2>1, <3>2 DEF NoConnection
  <2>4. CASE HasAddress /\ net.censor \in Passing
    <3>1. first \in {"ok", "silent"} /\ second \in {"ok", "silent"}
      BY <1>3, <2>4 DEF connect, Censored, Passing
    <3>2. tcp_probe(first, second) \in {"ConnectOk", "Timeout"}
      BY <3>1 DEF tcp_probe, probe_single
    <3> QED
      BY <1>2, <2>1, <2>4, <3>2 DEF NoConnection
  <2> QED
    BY <2>1, <2>2, <2>3, <2>4
<1>4. Censored => CensorShows'
  BY <1>3 DEF ProbeTcp, CensorShows, AfterDns, AfterTcp, AfterTls, AfterHttp, AfterQuic
<1> QED
  BY <1>2, <1>4, PhaseKeeps DEF ProbeTcp, Stages

\* Whoever acts on a handshake spoils it, and a dead address does so, too.
LEMMA TlsKeeps ==
  ASSUME WindowsWords, ProbeInv, ProbeTls
  PROVE  ProbeInv'
<1>1. PICK with13 \in probe_version_native(net, "1.3"),
           with12 \in probe_version_native(net, "1.2"), confirmed \in BOOLEAN,
           waits \in raw_handshake_probe(net) :
        report' = IF report.tcp # "ConnectOk" THEN report
                  ELSE [report EXCEPT
                         !.tls = tls_probe(with13, with12, confirmed),
                         !.ms.tls = IF waits \/ "silent" \in {with13, with12} THEN Patience
                                    ELSE Took("tls"),
                         !.sizes.hello = extract_tls_handshake_features(
                                           tls_probe(with13, with12, confirmed))]
  BY DEF ProbeTls
<1>2. /\ DOMAIN report' = DOMAIN NoReport /\ report'.tcp = report.tcp
      /\ report'.tls = IF report.tcp # "ConnectOk" THEN report.tls
                       ELSE tls_probe(with13, with12, confirmed)
  BY <1>1 DEF ProbeInv, ProbeTyped, NoReport
<1>3. ASSUME Censored
      PROVE  \/ NoConnection' \/ NoHandshake'
             \/ /\ report'.tls \in {"HandshakeOk", "Version13Ok"}
                /\ net.censor \in {"volume", "page"} /\ net.site # "half"
  <2>1. NoConnection \/ (report.tcp = "ConnectOk" /\ net.censor \in Passing)
    BY <1>3 DEF ProbeTls, ProbeInv, CensorShows, AfterTcp
  <2>2. CASE NoConnection
    BY <1>2, <2>2 DEF NoConnection
  <2>3. CASE report.tcp = "ConnectOk" /\ net.censor \in Passing
    <3>1. connect(net, 1) = IF net.site = "half" THEN {"silent"} ELSE {"silent", "ok"}
      BY <1>3, <2>3 DEF connect, Censored, Passing
    <3>2. CASE net.site = "half"
      <4>1. with13 = "silent" /\ with12 = "silent"
        BY <3>1, <3>2 DEF probe_version_native
      <4> QED
        BY <1>2, <2>3, <4>1 DEF tls_probe, classify_handshake_error, CertificateErrors, Alerts,
                                NoHandshake
    <3>3. CASE net.site # "half" /\ net.censor \in {"reset", "garbage", "drop", "desktop"}
      <4>1. DOMAIN CutShort = {"reset", "garbage", "drop", "hello13", "desktop"}
            /\ CutShort[net.censor] \subseteq {"cut", "garbled", "silent"}
        BY <3>3 DEF CutShort
      <4>2. with13 \in {"cut", "garbled", "silent"} /\ with12 \in {"cut", "garbled", "silent"}
        BY <3>1, <3>3, <4>1 DEF probe_version_native
      <4>3. classify_handshake_error(with13) \in {"SilentDrop", "Garbage"}
        BY <4>2 DEF classify_handshake_error, CertificateErrors, Alerts
      <4> QED
        BY <1>2, <2>3, <4>2, <4>3 DEF tls_probe, NoHandshake
    <3>4. CASE net.site # "half" /\ net.censor = "hello13"
      <4>1. with13 \in {"cut", "silent"} /\ with12 \in {"silent", "ok"}
        BY <1>3, <3>1, <3>4 DEF probe_version_native, CutShort, Censored
      <4>2. classify_handshake_error(with13) \in {"SilentDrop", "Garbage"}
        BY <4>1 DEF classify_handshake_error, CertificateErrors, Alerts
      <4> QED
        BY <1>2, <2>3, <4>1, <4>2 DEF tls_probe, NoHandshake
    <3>5. CASE net.site # "half" /\ net.censor \in {"volume", "page"}
      <4>1. with13 \in {"ok", "protocol_version", "silent"} /\ with12 \in {"silent", "ok"}
        BY <1>3, <3>1, <3>5 DEF probe_version_native, CutShort, Censored
      <4>2. with13 # "ok" => classify_handshake_error(with13) \in {"SilentDrop", "Garbage"}
        BY <4>1 DEF classify_handshake_error, CertificateErrors, Alerts, WindowsWords
      <4>3. tls_probe(with13, with12, confirmed)
              \in {"HandshakeOk", "Version13Ok", "Version12Only", "SilentDrop", "Garbage"}
        BY <4>1, <4>2 DEF tls_probe
      <4> QED
        BY <1>2, <2>3, <3>5, <4>3 DEF NoHandshake
    <3> QED
      BY <2>3, <3>2, <3>3, <3>4, <3>5 DEF Passing
  <2> QED
    BY <2>1, <2>2, <2>3
<1>4. Censored => CensorShows'
  BY <1>3 DEF ProbeTls, CensorShows, AfterDns, AfterTcp, AfterTls, AfterHttp, AfterQuic
<1> QED
  BY <1>2, <1>4, PhaseKeeps DEF ProbeTls, Stages

\* What the censor lets through of the page is not what the site sends.
LEMMA HttpKeeps == ProbeInv /\ ProbeHttp => ProbeInv'
<1> SUFFICES ASSUME ProbeInv, ProbeHttp PROVE ProbeInv'
  OBVIOUS
<1>1. /\ DOMAIN report' = DOMAIN NoReport /\ report'.tcp = report.tcp /\ report'.tls = report.tls
      /\ ~TlsPassed => report' = report
  BY DEF ProbeHttp, ProbeInv, ProbeTyped, NoReport
<1>2. ASSUME Censored
      PROVE  NoConnection' \/ NoHandshake' \/ NoAnswer' \/ Unseen'
  <2>1. CASE NoConnection \/ NoHandshake
    BY <1>1, <2>1 DEF NoConnection, NoHandshake
  <2>2. CASE /\ report.tls \in {"HandshakeOk", "Version13Ok"}
             /\ net.censor \in {"volume", "page"} /\ net.site # "half"
    <3>1. TlsPassed
      BY <2>2 DEF TlsPassed
    <3>2. CASE report' = [report EXCEPT !.http = "Timeout"]
      BY <2>2, <3>2 DEF ProbeHttp, ProbeInv, ProbeTyped, NoReport, Unseen
    <3>3. ASSUME NEW seen, NEW page \in Answer(net), report'.http = http_verdict(seen),
                 seen = page \/ seen = [page EXCEPT !.whole = FALSE]
          PROVE  NoAnswer'
      <4>1. page \in {[Page EXCEPT !.status = 302, !.foreign = TRUE],
                      [Page EXCEPT !.words = TRUE], [Page EXCEPT !.whole = FALSE]}
        BY <1>2, <2>2 DEF Answer, Censored
      <4>2. /\ DOMAIN page = {"status", "size", "whole", "words", "foreign"}
            /\ \/ page.status = 302 /\ page.foreign
               \/ page.status = 200 /\ (~page.whole \/ page.words)
        <5>1. CASE page = [Page EXCEPT !.status = 302, !.foreign = TRUE]
          BY <5>1 DEF Page
        <5>2. CASE page = [Page EXCEPT !.words = TRUE]
          BY <5>2 DEF Page
        <5>3. CASE page = [Page EXCEPT !.whole = FALSE]
          BY <5>3 DEF Page
        <5> QED
          BY <4>1, <5>1, <5>2, <5>3
      <4>3. \/ seen = page
            \/ /\ seen.status = page.status /\ seen.foreign = page.foreign
               /\ ~seen.whole
        <5>1. CASE seen = [page EXCEPT !.whole = FALSE]
          BY <4>2, <5>1
        <5> QED
          BY <3>3, <5>1
      <4>4. http_verdict(seen) \in {"Cutoff", "RedirectForeign", "StubPage"}
        BY <4>2, <4>3 DEF http_verdict
      <4> QED
        BY <1>1, <2>2, <3>3, <4>4 DEF NoAnswer
    <3>4. CASE \E page \in Answer(net) \cup {[cut EXCEPT !.whole = FALSE] : cut \in Answer(net)} :
                 report'.http = http_verdict(page)
      <4>1. PICK seen \in Answer(net) \cup {[cut EXCEPT !.whole = FALSE] : cut \in Answer(net)} :
              report'.http = http_verdict(seen)
        BY <3>4
      <4>2. PICK page \in Answer(net) : seen = page \/ seen = [page EXCEPT !.whole = FALSE]
        BY <4>1
      <4> QED
        BY <3>3, <4>1, <4>2
    <3> QED
      BY <3>1, <3>2, <3>4 DEF ProbeHttp, ProbeInv, ProbeTyped, NoReport
  <2> QED
    BY <1>2, <2>1, <2>2 DEF ProbeHttp, ProbeInv, CensorShows, AfterTls
<1>3. Censored => CensorShows'
  BY <1>2 DEF ProbeHttp, CensorShows, AfterDns, AfterTcp, AfterTls, AfterHttp, AfterQuic
<1> QED
  BY <1>1, <1>3, PhaseKeeps DEF ProbeHttp, Stages

\* The last phases leave alone what gives the censor away.
LEMMA VolumeKeeps == ProbeInv /\ ProbeVolume => ProbeInv'
<1> SUFFICES ASSUME ProbeInv, ProbeVolume PROVE ProbeInv'
  OBVIOUS
<1>1. /\ DOMAIN report' = DOMAIN NoReport
      /\ report'.tls = report.tls /\ report'.http = report.http
      /\ report'.tcp \in {report.tcp, "DataVolumeCut"}
  BY DEF ProbeVolume, ProbeInv, ProbeTyped, NoReport
<1>2. Censored => CensorShows'
  BY <1>1 DEF ProbeVolume, ProbeInv, CensorShows, AfterDns, AfterTcp, AfterTls, AfterHttp,
              AfterQuic, NoConnection, NoHandshake, NoAnswer, Unseen
<1> QED
  BY <1>1, <1>2, PhaseKeeps DEF ProbeVolume, Stages

LEMMA Ja4Keeps == ProbeInv /\ ProbeJa4 => ProbeInv'
<1> SUFFICES ASSUME ProbeInv, ProbeJa4 PROVE ProbeInv'
  OBVIOUS
<1>1. /\ DOMAIN report' = DOMAIN NoReport
      /\ report'.tls = report.tls /\ report'.http = report.http /\ report'.tcp = report.tcp
  BY DEF ProbeJa4, ProbeInv, ProbeTyped, NoReport
<1>2. Censored => CensorShows'
  BY <1>1 DEF ProbeJa4, ProbeInv, CensorShows, AfterDns, AfterTcp, AfterTls, AfterHttp,
              AfterQuic, NoConnection, NoHandshake, NoAnswer, Unseen
<1> QED
  BY <1>1, <1>2, PhaseKeeps DEF ProbeJa4, Stages

LEMMA QuicKeeps == ProbeInv /\ ProbeQuic => ProbeInv'
<1> SUFFICES ASSUME ProbeInv, ProbeQuic PROVE ProbeInv'
  OBVIOUS
<1>1. /\ DOMAIN report' = DOMAIN NoReport
      /\ report'.tls = report.tls /\ report'.http = report.http /\ report'.tcp = report.tcp
      /\ \E answered \in {FALSE, quic_answers(net)} :
           report'.quic = IF HasAddress
                          THEN quic_discriminate(report.tcp = "ConnectOk", answered) ELSE "none"
  BY DEF ProbeQuic, ProbeInv, ProbeTyped, NoReport
<1>2. Censored => report'.quic # "QuicBypass"
  BY <1>1 DEF Censored, quic_answers, quic_discriminate
<1>3. Censored => CensorShows'
  BY <1>1, <1>2 DEF ProbeQuic, ProbeInv, CensorShows, AfterDns, AfterTcp, AfterTls, AfterHttp,
                    AfterQuic, NoConnection, NoHandshake, NoAnswer, Unseen
<1> QED
  BY <1>1, <1>3, PhaseKeeps DEF ProbeQuic, Stages

\* A probe during which the link changed proves nothing.
LEMMA LinkKeeps == ProbeInv /\ LinkChange => ProbeInv'
<1> SUFFICES ASSUME ProbeInv, LinkChange PROVE ProbeInv'
  OBVIOUS
<1>1. ~Censored'
  BY DEF LinkChange, Censored, ProbeInv, ProbeTyped
<1>2. ProbeTyped'
  <2> DEFINE up == ~net.link
  <2>1. up \in BOOLEAN
    OBVIOUS
  <2>2. net' = [net EXCEPT !.link = up] /\ changes' = changes + 1 /\ UNCHANGED <<stage, report>>
    BY DEF LinkChange
  <2> HIDE DEF up
  <2> QED
    BY <2>1, <2>2 DEF ProbeInv, ProbeTyped
<1> QED
  BY <1>1, <1>2 DEF ProbeInv

LEMMA ConcludeKeeps == ProbeInv /\ Conclude => ProbeInv'
BY DEF Conclude, ProbeInv, ProbeTyped, Stages, CensorShows, AfterDns, AfterTcp, AfterTls,
       AfterHttp, AfterQuic

LEMMA RuleParts ==
  ASSUME NEW when \in BOOLEAN, NEW verdict
  PROVE  Rule(when, verdict).when = when /\ Rule(when, verdict).verdict = verdict
BY DEF Rule

LEMMA LastOfEight ==
  ASSUME NEW S, NEW seq \in Seq(S), NEW elt \in S
  PROVE  Len(seq) = 7 => /\ DOMAIN Append(seq, elt) = 1 .. 8
                         /\ \A i \in 1 .. 7 : Append(seq, elt)[i] = seq[i]
                         /\ Append(seq, elt)[8] = elt
<1> DEFINE all == Append(seq, elt)
<1>1. all \in Seq(S)
  BY AppendProperties
<1>2. /\ Len(all) = Len(seq) + 1
      /\ \A i \in 1 .. Len(seq) : all[i] = seq[i]
      /\ all[Len(seq) + 1] = elt
  BY AppendProperties
<1> HIDE DEF all
<1>3. Len(seq) = 7 => DOMAIN all = 1 .. 8 /\ (\A i \in 1 .. 7 : all[i] = seq[i]) /\ all[8] = elt
  BY <1>1, <1>2, LenProperties
<1> QED
  BY <1>3 DEF all

\* The rules, in their order.
LEMMA RulesInOrder ==
  ASSUME NEW r
  PROVE  LET rules == Append(Signals(r), Rule(TRUE, compute_base_verdict(r.dns, r.tcp))) IN
         /\ DOMAIN rules = 1 .. 8
         /\ \A i \in {1, 2, 5, 6, 7} : rules[i].verdict = "Blocked"
         /\ rules[3] = Rule(discriminate(r.tls, r.http) = "ServerActive", "Clear")
         /\ rules[4] = Rule(r.quic = "QuicBypass", "Ambiguous")
         /\ rules[5] = Rule(discriminate(r.tls, r.http) = "PathActive", "Blocked")
         /\ rules[8] = Rule(TRUE, compute_base_verdict(r.dns, r.tcp))
<1> DEFINE last == Rule(TRUE, compute_base_verdict(r.dns, r.tcp))
           signals == Signals(r)
           origin == discriminate(r.tls, r.http)
           S == {signals[1], signals[2], signals[3], signals[4], signals[5], signals[6],
                 signals[7], last}
<1>1. signals \in Seq(S) /\ Len(signals) = 7
  BY DEF Signals
<1>2. /\ signals[1] = Rule(r.dns \in {"Poisoned", "NxdomainSpoof", "EmptySpoof"}, "Blocked")
      /\ signals[2] = Rule(r.dns = "Intercepted", "Blocked")
      /\ signals[3] = Rule(origin = "ServerActive", "Clear")
      /\ signals[4] = Rule(r.quic = "QuicBypass", "Ambiguous")
      /\ signals[5] = Rule(origin = "PathActive", "Blocked")
      /\ signals[6] = Rule(r.ja4 = "FingerprintBlocking", "Blocked")
      /\ signals[7] = Rule(predict(r) >= 1386, "Blocked")
  BY DEF Signals
<1>3. \A i \in {1, 2, 5, 6, 7} : signals[i].verdict = "Blocked"
  BY <1>2 DEF Rule
<1>4. last \in S
  OBVIOUS
<1> DEFINE rules == Append(signals, last)
<1> HIDE DEF last, signals, S
<1>5. DOMAIN rules = 1 .. 8 /\ (\A i \in 1 .. 7 : rules[i] = signals[i]) /\ rules[8] = last
  BY <1>1, <1>4, LastOfEight
<1> HIDE DEF rules
<1>6. \A i \in {1, 2, 3, 4, 5, 6, 7} : rules[i] = signals[i]
  BY <1>5
<1>7. \A i \in {1, 2, 5, 6, 7} : rules[i].verdict = "Blocked"
  BY <1>3, <1>6
<1>8. /\ rules[3] = Rule(origin = "ServerActive", "Clear")
      /\ rules[4] = Rule(r.quic = "QuicBypass", "Ambiguous")
      /\ rules[5] = Rule(origin = "PathActive", "Blocked")
  BY <1>2, <1>6
<1> QED
  BY <1>5, <1>7, <1>8 DEF rules, last, signals

\* One of the rules is the first that applies, and its verdict is the engine's.
LEMMA SomeRuleApplies ==
  ASSUME NEW rules, DOMAIN rules = 1 .. 8, rules[8].when
  PROVE  \E i \in 1 .. 8 : /\ rules[i].when /\ (\A j \in 1 .. i - 1 : ~rules[j].when)
                           /\ FirstOf(rules) = rules[i].verdict
<1> DEFINE First(i) == rules[i].when /\ \A j \in 1 .. i - 1 : ~rules[j].when
<1>1. \E i \in 1 .. 8 : First(i)
  <2>1. CASE rules[1].when
    BY <2>1
  <2>2. CASE ~rules[1].when /\ rules[2].when
    BY <2>2
  <2>3. CASE ~rules[1].when /\ ~rules[2].when /\ rules[3].when
    BY <2>3
  <2>4. CASE ~rules[1].when /\ ~rules[2].when /\ ~rules[3].when /\ rules[4].when
    BY <2>4
  <2>5. CASE /\ ~rules[1].when /\ ~rules[2].when /\ ~rules[3].when /\ ~rules[4].when
             /\ rules[5].when
    BY <2>5
  <2>6. CASE /\ ~rules[1].when /\ ~rules[2].when /\ ~rules[3].when /\ ~rules[4].when
             /\ ~rules[5].when /\ rules[6].when
    BY <2>6
  <2>7. CASE /\ ~rules[1].when /\ ~rules[2].when /\ ~rules[3].when /\ ~rules[4].when
             /\ ~rules[5].when /\ ~rules[6].when
    BY <2>7
  <2> QED
    BY <2>1, <2>2, <2>3, <2>4, <2>5, <2>6, <2>7
<1>2. PICK i \in 1 .. 8 : First(i) /\ FirstOf(rules) = rules[i].verdict
  <2> HIDE DEF First
  <2>1. FirstOf(rules) = rules[CHOOSE i \in 1 .. 8 : First(i)].verdict
    BY DEF FirstOf, First
  <2> QED
    BY <1>1, <2>1
<1> QED
  BY <1>2

\* No signal that speaks for the site is raised, and one speaks against the path or the
\* reports of DNS and TCP do.
LEMMA CensorIsFound ==
  ASSUME ProbeInv, Censored, ~Unseen, stage = "decide"
  PROVE  decide_verdict(report) = "Blocked"
<1> DEFINE origin == discriminate(report.tls, report.http)
           base == compute_base_verdict(report.dns, report.tcp)
           rules == Append(Signals(report), Rule(TRUE, base))
<1>1. NoConnection \/ NoHandshake \/ NoAnswer
  BY DEF ProbeInv, CensorShows, AfterHttp
<1>2. origin \in {"none", "PathActive"} /\ (origin = "none" => base = "Blocked")
  BY <1>1 DEF NoConnection, NoHandshake, NoAnswer, discriminate, discriminate_http,
              compute_base_verdict
<1>3. report.quic # "QuicBypass"
  BY DEF ProbeInv, CensorShows, AfterQuic
<1>4. /\ DOMAIN rules = 1 .. 8
      /\ \A i \in {1, 2, 5, 6, 7} : rules[i].verdict = "Blocked"
      /\ rules[3] = Rule(origin = "ServerActive", "Clear")
      /\ rules[4] = Rule(report.quic = "QuicBypass", "Ambiguous")
      /\ rules[5] = Rule(origin = "PathActive", "Blocked")
      /\ rules[8] = Rule(TRUE, base)
  BY RulesInOrder
<1>5. decide_verdict(report) = FirstOf(rules)
  BY DEF decide_verdict
<1> HIDE DEF origin, base, rules
<1>6. /\ ~rules[3].when /\ ~rules[4].when /\ (origin = "PathActive" => rules[5].when)
      /\ rules[8].when /\ rules[8].verdict = base
  <2>1. /\ (origin = "ServerActive") = FALSE /\ (report.quic = "QuicBypass") = FALSE
        /\ origin = "PathActive" => (origin = "PathActive") = TRUE
    BY <1>2, <1>3
  <2> QED
    BY <1>4, <2>1, RuleParts
<1>7. PICK i \in 1 .. 8 : /\ rules[i].when /\ (\A j \in 1 .. i - 1 : ~rules[j].when)
                          /\ FirstOf(rules) = rules[i].verdict
  BY <1>4, <1>6, SomeRuleApplies
<1>8. CASE i = 8
  <2>1. ~rules[5].when
    BY <1>7, <1>8
  <2> QED
    BY <1>2, <1>5, <1>6, <1>7, <1>8, <2>1
<1>9. CASE i # 8
  <2>1. i \in {1, 2, 3, 4, 5, 6, 7}
    BY <1>9
  <2> QED
    BY <1>4, <1>5, <1>6, <1>7, <2>1
<1> QED
  BY <1>8, <1>9

-----------------------------------------------------------------------------
\* The probe in the midst of the edits, of the watcher and of the proxy requests.
LEMMA ProbingKeeps ==
  ASSUME WindowsWords, ProbeInv, SettingsNext
  PROVE  ProbeInv'
<1>1. CASE EditFile \/ RemoveFile \/ WatcherStep \/ geoblock_edit
           \/ \E q \in Requests : ProxyStep(q)
  <2>1. UNCHANGED probeVars
    BY <1>1 DEF EditFile, RemoveFile, WatcherStep, WatcherStart, WatcherTick, WatcherRead,
                ReloadClear, ReloadFill, Watch, geoblock_edit, ProxyStep, update_custom_proxy,
                load_config, save_truncate, save_write, Handle
  <2> QED
    BY <2>1, ProbeStutters
<1>2. CASE Probing
  BY <1>2, StartKeeps, DnsKeeps, TcpKeeps, TlsKeeps, HttpKeeps, VolumeKeeps, Ja4Keeps,
     QuicKeeps, LinkKeeps DEF Probing, ProbePhase
<1> QED
  BY <1>1, <1>2, ConcludeKeeps DEF SettingsNext

\* Only the conclusion ends a probe, and it lists what was found blocked.
LEMMA ConclusionLists ==
  ASSUME ProbeInv, SettingsNext, stage = "decide", stage' = "sleep", Censored, ~Unseen
  PROVE  Candidate \in listed'
<1>1. ~ (EditFile \/ RemoveFile \/ WatcherStep \/ geoblock_edit \/ \E q \in Requests : ProxyStep(q))
  BY DEF EditFile, RemoveFile, WatcherStep, WatcherStart, WatcherTick, WatcherRead, probeVars,
         ReloadClear, ReloadFill, Watch, geoblock_edit, ProxyStep, update_custom_proxy,
         load_config, save_truncate, save_write, Handle
<1>2. ~ Probing
  BY DEF Probing, ProbePhase, StartProbe, ProbeDns, ProbeTcp, ProbeTls, ProbeHttp, ProbeVolume,
         ProbeJa4, ProbeQuic, LinkChange
<1>3. Conclude
  BY <1>1, <1>2 DEF SettingsNext
<1> QED
  BY <1>3, CensorIsFound DEF Conclude

\* What the service does to its settings is what the tasks of Settings do: it starts them,
\* cancels them and ends, and nothing else of it touches them.
LEMMA SettleIsSettings == [ServiceNext]_serviceVars => [SettingsNext]_settingsVars
<1> SUFFICES ASSUME [ServiceNext]_serviceVars PROVE [SettingsNext]_settingsVars
  OBVIOUS
<1>1. CASE Watcher \/ Settle
  BY <1>1 DEF Watcher, Settle, SettingsNext
<1>2. CASE Start \/ Pipeline
  BY <1>2 DEF Start, ReportRunning, CreateChannel, LoadConfig, LoadConfigFails, run_service,
              Subscribe, Boot, Pipeline, SpawnThreads, Listen, SetFlag, Joined, ThreadExit,
              RunTask
<1>3. CASE Capture \/ ReturnWithOthers \/ Govern \/ SentinelStep \/ service_control_handler
           \/ CtrlC
  BY <1>3 DEF Capture, ReturnWithOthers, Govern, SentinelStep, service_control_handler, CtrlC
<1>4. CASE Finish
  BY <1>4 DEF Finish, StopHeard, CancelRun, End, DispatcherReturns, Boot
<1>5. CASE UNCHANGED serviceVars
  BY <1>5 DEF serviceVars
<1> QED
  BY <1>1, <1>2, <1>3, <1>4, <1>5 DEF ServiceNext

\* Refinement: from its start to its end the process keeps the settings the way Settings
\* alone does.
THEOREM ServiceImplementsSettings == ServiceSpec => SettingsSpec
<1>1. ServiceInit => SettingsInit
  BY DEF ServiceInit
<1> QED
  BY <1>1, SettleIsSettings, PTL DEF ServiceSpec, SettingsSpec

\* What is censored is found, for any networks, any pace of theirs, any losses and any
\* probes in a row, on a platform that words its errors the way Windows does; a censor of
\* the answer only if the HTTP phase got one (http_probe.rs, probe).
THEOREM CensoredSitesAreFound ==
  ASSUME WindowsWords
  PROVE  SettingsSpec => CensoredIsListed
<1>1. SettingsInit => ProbeInv
  BY ProbeStart
<1>2. ProbeInv /\ [SettingsNext]_settingsVars => ProbeInv'
  BY ProbingKeeps, ProbeStutters DEF settingsVars
<1>3. ProbeInv /\ [SettingsNext]_settingsVars
      => [stage = "decide" /\ stage' = "sleep" /\ Censored /\ ~Unseen
          => (Candidate \in listed')]_settingsVars
  BY ConclusionLists
<1> QED
  BY <1>1, <1>2, <1>3, PTL DEF SettingsSpec, CensoredIsListed

\* The same in the service, whenever it is stopped.
THEOREM ServiceFindsCensored ==
  ASSUME WindowsWords
  PROVE  ServiceSpec => CensoredIsListed
BY CensoredSitesAreFound, ServiceImplementsSettings, PTL
=============================================================================
