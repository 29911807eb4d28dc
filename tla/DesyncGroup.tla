---------------------------- MODULE DesyncGroup ----------------------------
(***************************************************************************)
(* One request of a client (its SYN, a TLS ClientHello, an HTTP request or *)
(* a QUIC Initial) on its way through a DesyncGroup to the server: how a   *)
(* profile's group is validated, how its techniques rewrite the packet one *)
(* after the other, what is handed to the driver, and what the server      *)
(* makes of the packets it gets (src/core/src/desync/group.rs and mod.rs,  *)
(* packet_invariants.rs and the callers in engine/mod.rs).  Techniques and *)
(* QuicTechniques say what each technique does.                            *)
(***************************************************************************)
EXTENDS QuicTechniques

CONSTANTS
    TechniquesOf,       \* the techniques profiles for a kind of request are made of
    MaxTechniques,      \* bound: the longest group
    Networks,           \* how the packet may be captured
    quic_fallback_policy,
    allow_destructive_manipulation, allow_real_ttl_manipulation

VARIABLES
    request,        \* the packet the client sends, and sends again
    group,          \* the techniques of the profile
    registered,     \* the profile is in the registry
    desync_applied, \* the connection table's flag: desync was granted
    seen,           \* injected_seqs has the request's sequence number
    quic_dropped_initials, \* the connection table's counter
    state,          \* PipelineState of the packet being processed
    outbox,         \* what the worker still has to hand to the driver
    wire,           \* segments in the network, in no order
    received        \* what the server has at each position

vars == <<request, group, registered, desync_applied, seen, quic_dropped_initials,
          state, outbox, wire, received>>

None == -1              \* nothing received at a position yet

-----------------------------------------------------------------------------
(* Composition: TechniqueEffect and DesyncGroup::validate. *)

HeaderOnly ==
    {"TtlManipulation", "DscpRandom", "BadChecksum", "MssClamp", "WinSize", "WinScaleManip",
     "Wclamp", "RstDropIpId", "TsMd5", "TlsVersionSpoof", "QuicLongHeaderDrop",
     "QuicNormalizer", "XorFirst", "WgObfs", "MutualSpoof", "PortShuffle", "H2FrameOrdering",
     "Http11Pipeline", "HttpUpgradeAbuse", "HttpCaseMix", "ChaCha20"}
InvalidatesPayloadLength ==
    {"TlsRecordPad", "ChunkObfuscation", "ContentLengthFuzz", "H2SettingsFlood", "H2RstPadding",
     "H2WindowUpdateFlood", "H2PriorityAbuse", "H2Goaway", "QuicMaxStreams"}
InvalidatesSeq ==
    {"FakeSni", "SynData", "SynAckSplit", "SynHide", "OobInjection", "AckSuppress",
     "RstSelective", "SynFloodDecoy", "FakeRst", "Disoob", "HostFake", "QuicRetryInject",
     "QuicConnectionClose", "QuicStreamReset", "QuicInitialInject", "QuicShortHeaderPoison",
     "QuicPaddingFlood", "DoppelgangerGrease", "SeqSpoof", "Udp2Icmp", "TcpPreopen"}
Split ==
    {"MultiSplit", "MultiDisorder", "TcpSeg", "Disorder", "FakeDataSplit", "FakeDataDisorder",
     "HostFakeSplit", "SniRecordFrag", "TlsRecordFrag", "SniMicrofrag", "TlsRecordRewrap",
     "ByteByByte", "UnidirFrag", "PktReorder", "MultidisorderNew", "ReverseFragmentOrder",
     "FragOverlap", "IpFragPrimitives", "SniMasking", "QuicBlocking", "UdpCoalescing",
     "QuicVersionDowngrade"}
DesyncTechnique == HeaderOnly \cup InvalidatesPayloadLength \cup InvalidatesSeq \cup Split

ASSUME GroupAssumption ==
    /\ DOMAIN TechniquesOf \subseteq Kinds
    /\ \A kind \in DOMAIN TechniquesOf : TechniquesOf[kind] \subseteq DesyncTechnique
    /\ MaxTechniques \in Nat
    /\ Networks \subseteq Links
    /\ quic_fallback_policy \in QuicFallbackPolicy
    /\ {allow_destructive_manipulation, allow_real_ttl_manipulation} \subseteq BOOLEAN

\* Positions of a group that hold a technique of a set.
At(g, set) == {i \in DOMAIN g : g[i] \in set}

\* The rule for BadChecksum looks at its first position only.
BadChecksumHasInject(g) ==
    \A i \in At(g, {"BadChecksum"}) :
        \/ \E j \in At(g, {"BadChecksum"}) : j < i
        \/ \E j \in At(g, InvalidatesSeq \cup {"HostFakeSplit", "FakeDataSplit"}) : j < i

validate(g) ==
    /\ Cardinality(At(g, Split)) <= 1
    /\ \A i \in At(g, Split), j \in At(g, InvalidatesPayloadLength \cup InvalidatesSeq) : i < j
    /\ BadChecksumHasInject(g)

\* build_validated_group: what a profile with these techniques runs.
build_validated_group(g) ==
    IF validate(g) THEN g ELSE <<"FakeSni", "BadChecksum">>

-----------------------------------------------------------------------------
(* What a technique may return for the packet of the pipeline state. *)

SplitOutcomes(t, p) ==
    CASE t = "MultiSplit"       -> {multisplit(p)}
      [] t \in {"MultiDisorder", "ReverseFragmentOrder"} -> {multidisorder(p)}
      [] t = "TcpSeg"           -> {tcpseg(p)}
      [] t = "Disorder"         -> {disorder(p)}
      [] t = "MultidisorderNew" -> {multidisorder_new(p)}
      [] t = "UnidirFrag"       -> {unidir_frag(p)}
      [] t = "TlsRecordFrag"    -> tls_record_frag(p)
      [] t = "FakeDataSplit"    -> {fakedsplit(p)}
      [] t = "HostFakeSplit"    -> {host_fake_split(p)}
      [] t = "FakeDataDisorder" -> {fake_data_disorder(p)}
      [] t = "PktReorder"       -> pkt_reorder(p)
      [] t = "ByteByByte"       -> {byte_by_byte(p)}
      [] t = "SniMicrofrag"     -> {sni_microfrag(p)}
      [] t = "TlsRecordRewrap"  -> {tls_record_rewrap(p)}
      [] t = "SniRecordFrag"    -> sni_record_frag(p)
      [] t = "FragOverlap"      -> frag_overlap(p)
      [] t = "IpFragPrimitives" -> ip_frag_primitives(p)
      [] t = "SniMasking"       -> sni_masking(p)
      [] t = "UdpCoalescing"    -> {udp_coalescing(p)}
      [] t = "QuicVersionDowngrade" -> {quic_version_downgrade(p)}

SeqOutcomes(t, p) ==
    CASE t = "FakeSni"             -> fake_sni(p)
      [] t = "SynData"             -> {syndata(p)}
      [] t = "SynHide"             -> {synhide(p)}
      [] t = "OobInjection"        -> {oob_injection(p)}
      [] t = "SynFloodDecoy"       -> {syn_flood_decoy(p)}
      [] t = "FakeRst"             -> {fakerst(p)}
      [] t = "Disoob"              -> {disoob(p)}
      [] t = "HostFake"            -> {hostfake(p)}
      [] t = "SeqSpoof"            -> build_seq_spoof_packet(p)
      [] t = "Udp2Icmp"            -> {udp2icmp(p)}
      [] t = "QuicRetryInject"     -> {quic_retry_inject(p)}
      [] t = "QuicConnectionClose" -> quic_connection_close(p)
      [] t = "QuicStreamReset"     -> {quic_stream_reset(p)}
      [] t = "QuicInitialInject"   -> {quic_initial_inject(p)}
      [] t = "QuicShortHeaderPoison" -> {quic_short_header_poison(p)}
      [] t = "QuicPaddingFlood"    -> quic_padding_flood(p)
      [] t = "DoppelgangerGrease"  -> {doppelganger_grease(p)}
      [] OTHER                     -> {Passthrough}

LengthOutcomes(t, p) ==
    CASE t = "TlsRecordPad"        -> {tls_record_pad(p), Passthrough}
      [] t = "ChunkObfuscation"    -> chunk_obfuscation(p)
      [] t = "ContentLengthFuzz"   -> {content_length_fuzz(p), Passthrough}
      [] t = "H2SettingsFlood"     -> {h2_settings_flood(p)}
      [] t = "H2RstPadding"        -> {h2_rst_padding(p)}
      [] t = "H2WindowUpdateFlood" -> {h2_window_update_flood(p)}
      [] t = "H2PriorityAbuse"     -> {h2_priority_abuse(p)}
      [] t = "H2Goaway"            -> {h2_goaway_inject(p)}
      [] t = "QuicMaxStreams"      -> {quic_max_streams(p)}

HeaderOutcomes(t, p) ==
    CASE t = "DscpRandom"         -> dscp_random(p)
      [] t = "MssClamp"           -> {mss_clamp(p)}
      [] t = "WinSize"            -> {winsize(p)}
      [] t = "WinScaleManip"      -> {win_scale_manip(p)}
      [] t = "Wclamp"             -> wclamp(p)
      [] t = "TsMd5"              -> {ts_md5(p)}
      [] t = "TlsVersionSpoof"    -> {tls_version_overwrite(p)}
      [] t = "QuicLongHeaderDrop" -> {quic_long_header_drop(p)}
      [] t = "QuicNormalizer"     -> quic_normalizer(p)
      [] t = "XorFirst"           -> {xor_first(p)}
      [] t = "WgObfs"             -> {wg_obfs(p)}
      [] t = "PortShuffle"        -> {port_shuffle(p)}
      [] t = "H2FrameOrdering"    -> {h2_frame_ordering(p), Passthrough}
      [] t = "Http11Pipeline"     -> {http11_pipeline(p)}
      [] t = "HttpUpgradeAbuse"   -> {http_upgrade_abuse(p), Passthrough}
      [] t = "HttpCaseMix"        -> {http_case_mix(p), Passthrough}
      [] OTHER                    -> {Passthrough}

Outcomes(t, p) ==
    CASE t \in OnOtherPackets \cup Disabled -> {Passthrough}
      [] t \in Split                        -> SplitOutcomes(t, p)
      [] t \in InvalidatesSeq               -> SeqOutcomes(t, p)
      [] t \in InvalidatesPayloadLength     -> LengthOutcomes(t, p)
      [] t \in HeaderOnly                   -> HeaderOutcomes(t, p)

-----------------------------------------------------------------------------
Idle == [next |-> 0]
PipelineStates ==
    [next: 1 .. MaxTechniques + 3, packet: Segments, injects: Seq(Segments),
     modified_dirty: BOOLEAN, drop: BOOLEAN]

\* from_packet
FromPacket(p) ==
    [next |-> 1, packet |-> p, injects |-> << >>, modified_dirty |-> FALSE, drop |-> FALSE]

Init ==
    /\ request \in {Request(kind, link) : kind \in DOMAIN TechniquesOf, link \in Networks}
    /\ group = << >>
    /\ registered = FALSE
    /\ desync_applied = FALSE
    /\ seen = FALSE
    /\ quic_dropped_initials = 0
    /\ state = Idle
    /\ outbox = << >>
    /\ wire = {}
    /\ received = [i \in 0 .. ServerWindow - 1 |-> None]

Wanted == 0 .. Units(request.kind) - 1
Complete == \A i \in Wanted : received[i] # None

Add(t) ==
    /\ ~registered
    /\ Len(group) < MaxTechniques
    /\ group' = Append(group, t)
    /\ UNCHANGED <<request, registered, desync_applied, seen, quic_dropped_initials,
                   state, outbox, wire, received>>

Register ==
    /\ ~registered
    /\ registered' = TRUE
    /\ group' = build_validated_group(group)
    /\ UNCHANGED <<request, desync_applied, seen, quic_dropped_initials,
                   state, outbox, wire, received>>

\* Mutation of SeenBefore: no check for a retransmission.
SeenBeforeNever == FALSE

\* A retransmission the TLS path recognises, by check_and_apply_desync or by
\* injected_seqs; the other paths look at neither.
SeenBefore == request.kind = "tls" /\ (desync_applied \/ seen)

\* The client sends its request, or sends it again as long as the server has
\* not acknowledged all of it, and a worker takes the packet up.
Capture ==
    /\ registered
    /\ ~Complete
    /\ state = Idle
    /\ outbox = << >>
    /\ IF SeenBefore
       THEN outbox' = <<request>> /\ UNCHANGED <<desync_applied, seen, state>>
       ELSE /\ state' = FromPacket(request)
            /\ desync_applied' = (request.kind = "tls")
            /\ seen' = (request.kind = "tls")
            /\ UNCHANGED outbox
    /\ UNCHANGED <<request, group, registered, quic_dropped_initials, wire, received>>

\* fp-seq-evict forgets a sequence number after half a minute, which may be
\* between any two steps of this request.
ForgetSeq ==
    /\ seen
    /\ seen' = FALSE
    /\ UNCHANGED <<request, group, registered, desync_applied, quic_dropped_initials,
                   state, outbox, wire, received>>

\* merge_into_state, and the step to the next technique.
Merged(s, r) ==
    [s EXCEPT !.next = @ + 1,
              !.packet = IF r.modified = << >> THEN @ ELSE r.modified[1],
              !.modified_dirty = @ \/ r.modified # << >>,
              !.injects = @ \o r.inject,
              !.drop = @ \/ r.drop_original]

\* bad_checksum damages an IPv4 packet only.
bad_checksum(s) == IF s.link = "ipv6" THEN s ELSE [s EXCEPT !.bad = {"ip", "tcp"}]
ttl_manipulation(s) == [s EXCEPT !.ttl = ttl_value]

\* BadChecksum and TtlManipulation rewrite what was injected before them, and
\* where the configuration allows it what they return for the packet is merged.
Rewritten(t, s) ==
    IF t = "BadChecksum"
    THEN Merged([s EXCEPT !.injects = [i \in DOMAIN @ |-> bad_checksum(@[i])]],
                IF allow_destructive_manipulation /\ s.packet.link # "ipv6"
                THEN inject_only(bad_checksum(s.packet)) ELSE Passthrough)
    ELSE Merged([s EXCEPT !.injects = [i \in DOMAIN @ |-> ttl_manipulation(@[i])]],
                IF allow_real_ttl_manipulation
                THEN modified_only(ttl_manipulation(s.packet)) ELSE Passthrough)

\* The loop of apply_with_runtime_context is left once the packet is dropped.
MoreToApply == state # Idle /\ ~state.drop /\ state.next <= Len(group)

ApplyTechnique ==
    /\ MoreToApply
    /\ LET t == group[state.next]
           p == state.packet
       IN  CASE t \in {"BadChecksum", "TtlManipulation"} ->
                    state' = Rewritten(t, state) /\ UNCHANGED quic_dropped_initials
             [] t = "QuicBlocking" ->
                    /\ \E r \in quic_blocking(p, quic_fallback_policy, quic_dropped_initials) :
                           state' = Merged(state, r)
                    /\ quic_dropped_initials' =
                           CountDropped(p, quic_fallback_policy, quic_dropped_initials)
             [] OTHER ->
                    /\ \E r \in Outcomes(t, p) : state' = Merged(state, r)
                    /\ UNCHANGED quic_dropped_initials
    /\ UNCHANGED <<request, group, registered, desync_applied, seen, outbox, wire, received>>

\* Mutation of Decided: drop_original is ignored.
DecidedKeepsOriginal(s) == s.injects \o <<s.packet>>

\* into_result and result_to_decision: the injects first, then the packet if
\* it was modified or is not dropped.
Decided(s) ==
    s.injects \o (IF s.modified_dirty \/ ~s.drop THEN <<s.packet>> ELSE << >>)

Decide ==
    /\ state # Idle
    /\ ~MoreToApply
    /\ outbox' = Decided(state)
    /\ state' = Idle
    /\ UNCHANGED <<request, group, registered, desync_applied, seen, quic_dropped_initials,
                   wire, received>>

\* What does not pass is left out when its turn comes.  A packet that was not
\* modified is not looked at, and would pass.
validate_before_send(s) == s.form

Send ==
    /\ outbox # << >>
    /\ wire' = wire \cup {s \in {Head(outbox)} : validate_before_send(s)}
    /\ outbox' = Tail(outbox)
    /\ UNCHANGED <<request, group, registered, desync_applied, seen, quic_dropped_initials,
                   state, received>>

-----------------------------------------------------------------------------
(* The network and the server: external. *)

\* Routers drop a packet whose TTL is spent, or whose header sum is wrong, and
\* the server one with a wrong TCP or UDP sum.  The driver has the adapter fill
\* in the sums of a packet that was captured without them.
SumsHold(s) == s.bad = {} \/ s.link = "offload"
Arrives(s) == s.ttl >= Hops /\ SumsHold(s)

Carries(s, i) == i \in s.at .. s.at + Len(s.data) - 1

\* The first byte received at a position stays.
Receive(s) ==
    /\ s \in wire
    /\ Arrives(s)
    /\ received' = [i \in DOMAIN received |->
                       IF received[i] = None /\ Carries(s, i)
                       THEN s.data[i - s.at + 1] ELSE received[i]]
    /\ wire' = wire \ {s}
    /\ UNCHANGED <<request, group, registered, desync_applied, seen, quic_dropped_initials,
                   state, outbox>>

Lose(s) ==
    /\ s \in wire
    /\ wire' = wire \ {s}
    /\ UNCHANGED <<request, group, registered, desync_applied, seen, quic_dropped_initials,
                   state, outbox, received>>

\* A segment that brings the server something it misses.
Useful(s) == Arrives(s) /\ \E i \in Wanted : received[i] = None /\ Carries(s, i)
ReceiveUseful == \E s \in wire : Useful(s) /\ Receive(s)

Next ==
    \/ \E t \in TechniquesOf[request.kind] : Add(t)
    \/ Register
    \/ Capture
    \/ ForgetSeq
    \/ ApplyTechnique
    \/ Decide
    \/ Send
    \/ \E s \in wire : Receive(s) \/ Lose(s)

\* The worker goes on; the client retransmits; the network may lose any
\* segment, but not every useful one for ever.
Fairness ==
    /\ WF_vars(Register) /\ WF_vars(Capture)
    /\ WF_vars(ApplyTechnique) /\ WF_vars(Decide) /\ WF_vars(Send)
    /\ SF_vars(ReceiveUseful)

Spec == Init /\ [][Next]_vars /\ Fairness

-----------------------------------------------------------------------------
(* Properties. *)

\* Every variable has its type, and no segment without data is ever sent: a
\* cut never falls on the packet's end.
TypeOK ==
    /\ request \in Segments
    /\ group \in Seq(DesyncTechnique)
    /\ {registered, desync_applied, seen} \subseteq BOOLEAN
    /\ quic_dropped_initials \in 0 .. 3
    /\ state = Idle \/ state \in PipelineStates
    /\ outbox \in Seq(Segments)
    /\ wire \subseteq Segments /\ \A s \in wire : s.data # << >>
    /\ received \in [0 .. ServerWindow - 1 -> {None} \cup (0 .. Length)]

\* A segment that repeats bytes of the client's request, at their positions.
Genuine(s) ==
    /\ s.at + Len(s.data) <= Units(s.kind)
    /\ \A j \in 1 .. Len(s.data) : s.data[j] = s.at + j

\* One that goes less far than the client's own packets, or lies behind all that the
\* server accepts.
Ghost(s) == s.ttl < OwnTtl \/ s.at >= ServerWindow

\* Whatever valid composition the profile has, a segment with foreign bytes where the
\* request's are leaves with a lower TTL than the client's: techniques that cut, rewrite
\* what was injected before or merge their results never give a decoy the reach of the
\* real segments.  That it does not reach the server nobody sees to (StreamIntact).
ForeignIsLowered == \A s \in wire \cup ToSet(outbox) : Genuine(s) \/ Ghost(s)

\* "The server assembles without problems" (tcp.rs:38): it never sees a byte the client
\* did not send.
StreamIntact ==
    \A i \in DOMAIN received : received[i] \in {None} \cup (IF i \in Wanted THEN {i + 1} ELSE {})

\* Techniques that change the bytes the client sends.
EditsTheStream ==
    {"SniMasking", "TsMd5", "TlsRecordPad", "ContentLengthFuzz", "HttpUpgradeAbuse", "Wclamp"}

\* What ForeignIsLowered takes for granted: no profile has one of these techniques, there
\* is something to take from the client's TTL, and the TTL that TtlManipulation sets is
\* lower, too.
Used(t) == \E kind \in DOMAIN TechniquesOf : t \in TechniquesOf[kind]
KeepsStream == \A t \in EditsTheStream : ~Used(t)
OffsetLowers ==
    /\ OwnTtl > 1 /\ fake_ttl_offset > 0
    /\ Used("TtlManipulation") => ttl_value < OwnTtl

\* Compositions whose first flight may not be whole: an edit that leaves a
\* wrong checksum or another source address; another source port; BadChecksum
\* behind a split whose real segments it damages with the decoys; and an edit
\* of the packet in a group with a split that replaces it, which then leaves
\* twice, cut and uncut.
RealSplits ==
    {"MultiSplit", "MultiDisorder", "ReverseFragmentOrder", "TcpSeg", "Disorder",
     "MultidisorderNew", "UnidirFrag", "TlsRecordFrag"}
Unsummed == {"TlsVersionSpoof", "HttpCaseMix"}
EditsInPlace ==
    {"TlsVersionSpoof", "TlsRecordPad", "ContentLengthFuzz", "HttpUpgradeAbuse", "TsMd5",
     "MssClamp", "WinScaleManip", "Wclamp", "QuicNormalizer"}
Damaged ==
    \/ request.link # "offload" /\ At(group, EditsInPlace \cup Unsummed) # {}
    \/ At(group, {"PortShuffle", "XorFirst"}) # {}
    \/ At(group, {"BadChecksum"}) # {} /\ At(group, RealSplits) # {}
    \/ /\ At(group, EditsInPlace \cup Unsummed \cup {"WinSize", "DscpRandom"}) # {}
       /\ At(group, {"UnidirFrag", "TlsRecordFrag"}) # {}

\* The segments of a flight that pass and go as far as the client's own packets hold every
\* byte of the request at its position, and no byte twice.
Brings(s, i) == validate_before_send(s) /\ s.ttl >= OwnTtl /\ SumsHold(s) /\ Carries(s, i)
Whole(flight) ==
    \A i \in Wanted : Cardinality({k \in DOMAIN flight : Brings(flight[k], i)}) = 1

\* What the worker decides to send in place of a TCP request is the request:
\* splitting, dropping and replacing the packet in the pipeline neither lose
\* a byte nor send one twice.
FlightIsWhole ==
    [][(request.kind # "quic" /\ state # Idle /\ state' = Idle /\ ~Damaged) => Whole(outbox')]_vars

\* The same of every composition: a technique that changes headers only is
\* "safe to combine with any other" (desync/mod.rs:613).
FlightAlwaysWhole ==
    [][(state # Idle /\ state' = Idle) => Whole(outbox')]_vars

\* Whatever the first flight lost, a ClientHello arrives in the end, because
\* its retransmission is not desynced again.
HelloArrives == request.kind = "tls" => <>Complete

\* A connection opens in the end: a SYN and an Initial are desynced on every
\* retransmission, and the third Initial dropped is the last.
ConnectionOpens == request.kind \in {"syn", "quic"} => <>Complete

\* The same of an HTTP request.
RequestArrives == request.kind = "http" => <>Complete
=============================================================================
