----------------------------- MODULE Techniques -----------------------------
(***************************************************************************)
(* What each technique makes of one packet of a TCP connection             *)
(* (src/core/src/desync/tcp.rs, tls.rs, http.rs, ip.rs and the builders    *)
(* and parsers of mod.rs): a function from a packet to a DesyncResult, or  *)
(* to the set of results its random choices and the packet's details leave *)
(* open.                                                                   *)
(*                                                                         *)
(* A packet is the positions of a request it carries: its first position,  *)
(* its bytes (byte i of the client's request is i, and 0 is any byte the   *)
(* client did not send), its TTL, which of its checksums are wrong (bad,   *)
(* of the IPv4 and of the TCP or UDP header), whether validate_before_send *)
(* lets it pass (form), what the request is (kind), and how it is captured *)
(* (link): over IPv4 with checksums in the packet, over IPv4 with the      *)
(* checksums left to the network adapter, or over IPv6.  A SYN or an       *)
(* Initial is one unit.  What is not addressed to the client's connection  *)
(* is at the position Elsewhere.  The lengths the code has as literals (10 *)
(* and 5 decoy bytes, 32 of padding) are scaled down to constants.         *)
(***************************************************************************)
EXTENDS Integers, FiniteSets, SequencesExt

CONSTANTS
    Length,             \* bytes in a ClientHello or an HTTP request
    FakeLength,         \* bytes in a fake ClientHello or HTTP request
    Insertion,          \* bytes a padding or an inserted header has
    Micro,              \* one-byte decoys of ByteByByte and SniMicrofrag
    split_size, split_count, max_seg_size, fake_ttl_offset, ttl_value,
    OwnTtl,             \* TTL of the client's packets
    Hops,               \* smallest TTL that reaches the server
    ClientWindow,       \* window the client advertises in the request
    ServerWindow        \* positions the server accepts and buffers

ASSUME RequestAssumption ==
    /\ {Length, split_size, split_count, max_seg_size, FakeLength} \subseteq Nat \ {0}
    /\ {Insertion, Micro, ClientWindow, ttl_value} \subseteq Nat
    /\ ServerWindow \in Nat /\ ServerWindow >= Length
ASSUME TtlAssumption ==
    /\ {OwnTtl, fake_ttl_offset} \subseteq Nat
    /\ Hops \in 1 .. OwnTtl

Kinds == {"tls", "http", "syn", "quic"}
Links == {"ipv4", "offload", "ipv6"}
Units(kind) == IF kind \in {"tls", "http"} THEN Length ELSE 1
Elsewhere == ServerWindow + FakeLength

Segments ==
    [at: Nat, data: Seq(0 .. Length), ttl: Nat, bad: SUBSET {"ip", "tcp"}, form: BOOLEAN,
     kind: Kinds, link: Links]

\* The packet the client sends.
Request(kind, link) ==
    [at |-> 0, data |-> [i \in 1 .. Units(kind) |-> i], ttl |-> OwnTtl, bad |-> {},
     form |-> TRUE, kind |-> kind, link |-> link]

Lesser(a, b) == IF a < b THEN a ELSE b
Lowered(ttl) == IF ttl > fake_ttl_offset THEN ttl - fake_ttl_offset ELSE 0
AtLeastOne(ttl) == IF ttl > 1 THEN ttl ELSE 1
Foreign(n) == [i \in 1 .. n |-> 0]
FakeHello == Foreign(FakeLength)
FakeHttpRequest == Foreign(FakeLength)

\* What the parsers tell of a packet.
IsTcp(p) == p.kind # "quic"
HasPayload(p) == p.kind # "syn" /\ p.data # << >>
IsSyn(p) == p.kind = "syn"

-----------------------------------------------------------------------------
(* Segments built from a packet p, and what a technique returns. *)

\* A packet of the same connection with both checksums over all of it.
Built(p, at, data, ttl) ==
    [p EXCEPT !.at = at, !.data = data, !.ttl = ttl, !.bad = {}, !.form = TRUE]

\* Bytes from .. to - 1 of p in a segment of their own that reaches the server.
Real(p, from, to) == Built(p, p.at + from, SubSeq(p.data, from + 1, to), p.ttl)

\* Mutation of Decoy: the offset is not subtracted.
DecoyFullTtl(p, at, data) == Built(p, at, data, p.ttl)

\* A decoy: whatever it carries, its TTL is lowered.
Decoy(p, at, data) == Built(p, at, data, Lowered(p.ttl))

\* The same with the TCP options of the packet it imitates.
DecoyWithOptions(p, at, data) == Decoy(p, at, data)

\* build_http_segment sums the TCP header alone.
HttpDecoy(p, at, data) == [Decoy(p, at, data) EXCEPT !.bad = {"tcp"}]

\* The zero-filled decoy over the first n bytes that most split techniques
\* put in front, unless the offset is zero.
CoverDecoy(p, n) ==
    IF fake_ttl_offset > 0 THEN <<Decoy(p, p.at, Foreign(n))>> ELSE << >>

\* n decoys of one byte each, which carry the real bytes.
MicroDecoys(p, n) ==
    [i \in 1 .. n |-> Decoy(p, p.at + i - 1, <<p.data[i]>>)]

\* A packet whose header was edited in place.  Most edits sum the IPv4 header
\* with the old checksum still in it, so that the new one is wrong; over IPv6
\* the two bytes they store are bytes of the source address.
InPlace(p) ==
    IF p.link = "ipv6" THEN [p EXCEPT !.at = Elsewhere] ELSE [p EXCEPT !.bad = @ \cup {"ip"}]

\* The TCP checksum computed again, and left behind.
Summed(p) == [p EXCEPT !.bad = @ \ {"tcp"}]
Stale(p) == [p EXCEPT !.bad = @ \cup {"tcp"}]

\* DesyncResult: modified is a sequence of at most one packet.
Result(modified, inject, drop) ==
    [modified |-> modified, inject |-> inject, drop_original |-> drop]
Passthrough == Result(<< >>, << >>, FALSE)
inject_only(s) == Result(<< >>, <<s>>, FALSE)
inject_many(s) == Result(<< >>, s, FALSE)
modified_only(s) == Result(<<s>>, << >>, FALSE)
modify_and_inject(s, t) == Result(<<s>>, <<t>>, FALSE)
drop_packet == Result(<< >>, << >>, TRUE)

-----------------------------------------------------------------------------
(* Techniques that split the packet: real segments and decoys over them. *)

multisplit(p) ==
    LET count == Lesser(split_count, Len(p.data) \div split_size)
        body  == [i \in 1 .. count - 1 |-> Real(p, (i - 1) * split_size, i * split_size)]
    IN  IF count <= 1
        THEN Passthrough
        ELSE Result(<<Real(p, (count - 1) * split_size, Len(p.data))>>,
                    CoverDecoy(p, split_size) \o body, FALSE)

\* MultiDisorder and ReverseFragmentOrder: the same, injected backwards.
multidisorder(p) ==
    [multisplit(p) EXCEPT !.inject = Reverse(@)]

\* Mutation of tcpseg: the last full part is not left to the tail.
tcpsegEmptyTail(p) ==
    LET full == Len(p.data) \div max_seg_size
    IN  IF Len(p.data) <= max_seg_size
        THEN Passthrough
        ELSE Result(<<Real(p, full * max_seg_size, Len(p.data))>>,
                    [i \in 1 .. full |-> Real(p, (i - 1) * max_seg_size, i * max_seg_size)],
                    FALSE)

tcpseg(p) ==
    LET full == (Len(p.data) - 1) \div max_seg_size
    IN  IF Len(p.data) <= max_seg_size
        THEN Passthrough
        ELSE Result(<<Real(p, full * max_seg_size, Len(p.data))>>,
                    [i \in 1 .. full |-> Real(p, (i - 1) * max_seg_size, i * max_seg_size)],
                    FALSE)

\* The second part is injected before the first, which replaces the packet.
disorder(p) ==
    IF Len(p.data) <= split_size
    THEN Passthrough
    ELSE Result(<<Real(p, 0, split_size)>>, <<Real(p, split_size, Len(p.data))>>, TRUE)

\* The parts backwards; the first of them replaces the packet.
multidisorder_new(p) ==
    LET size     == Len(p.data) \div split_count
        End(i)   == IF i = split_count THEN Len(p.data) ELSE i * size
        parts    == [i \in 1 .. split_count |-> Real(p, (i - 1) * size, End(i))]
    IN  IF split_count < 2 \/ Len(p.data) < split_count
        THEN Passthrough
        ELSE Result(<<Head(parts)>>, Reverse(Tail(parts)) \o CoverDecoy(p, size), FALSE)

\* Every part is injected and the packet itself is dropped.
unidir_frag(p) ==
    LET parts == (Len(p.data) + split_size - 1) \div split_size
    IN  IF Len(p.data) <= split_size
        THEN Passthrough
        ELSE Result(<< >>,
                    CoverDecoy(p, split_size) \o
                        [i \in 1 .. parts |->
                            Real(p, (i - 1) * split_size, Lesser(i * split_size, Len(p.data)))],
                    TRUE)

\* A ClientHello whose record the TLS techniques recognise.
StartsRecord(p) == p.kind = "tls" /\ p.data # << >> /\ Head(p.data) = 1

\* Where the code may cut a ClientHello near its name: a random distance from
\* it, and nowhere when that falls behind the packet's end.
NameCuts(p) == IF StartsRecord(p) THEN 1 .. Len(p.data) - 1 ELSE {}

tls_record_frag(p) ==
    {Passthrough} \cup
    {Result(<< >>,
            CoverDecoy(p, cut) \o <<Real(p, 0, cut), Real(p, cut, Len(p.data))>>,
            TRUE) : cut \in NameCuts(p)}

-----------------------------------------------------------------------------
(* Techniques that only inject decoys. *)

\* FakeDataSplit, HostFakeSplit, HostFake: a fake request at the sequence
\* number of the real one.
fakedsplit(p) ==
    IF HasPayload(p) THEN inject_only(DecoyWithOptions(p, p.at, FakeHello)) ELSE Passthrough
hostfake(p) ==
    IF HasPayload(p) THEN inject_only(Decoy(p, p.at, FakeHttpRequest)) ELSE Passthrough
host_fake_split(p) == hostfake(p)

\* FakeDataDisorder keeps the TTL at one at least.
fake_data_disorder(p) ==
    inject_only([Decoy(p, p.at, Foreign(FakeLength)) EXCEPT !.ttl = AtLeastOne(@)])

\* The urgent pointer is set behind the checksum's computation.
oob_injection(p) == inject_only(Stale(DecoyWithOptions(p, p.at, FakeHello)))

\* FakeSni and PktReorder place theirs behind the window the client
\* advertises; FakeSni injects nothing for a resumption with a pre-shared key.
Resumes(p) == IF StartsRecord(p) THEN BOOLEAN ELSE {FALSE}
fake_sni(p) ==
    {IF resumes \/ ~HasPayload(p)
     THEN Passthrough
     ELSE inject_only(Decoy(p, p.at + ClientWindow + 1, FakeHello)) : resumes \in Resumes(p)}

pkt_reorder(p) ==
    LET beyond == [Decoy(p, p.at + ClientWindow + 2, Foreign(FakeLength)) EXCEPT
                      !.ttl = AtLeastOne(p.ttl - 1)]
    IN  IF HasPayload(p)
        THEN {inject_many([i \in 1 .. n |-> beyond]) : n \in {2, 3}}
        ELSE {Passthrough}

\* An RST ten thousand ahead of the stream.
fakerst(p) == inject_only(Decoy(p, Elsewhere, Foreign(1)))

\* Disoob injects the second half ahead, ByteByByte and SniMicrofrag the
\* first bytes one by one.
disoob(p) ==
    LET half == Len(p.data) \div 2
    IN  IF half = 0
        THEN Passthrough
        ELSE inject_only(Decoy(p, p.at + half, SubSeq(p.data, half + 1, Len(p.data))))
byte_by_byte(p) ==
    LET n == Lesser(Len(p.data), Micro)
    IN  IF n < 2 THEN Passthrough ELSE inject_many(MicroDecoys(p, n))
sni_microfrag(p) ==
    IF Len(p.data) < Micro + 1 THEN Passthrough ELSE inject_many(MicroDecoys(p, Micro))

\* TlsRecordRewrap and SniRecordFrag: the record in many small records, longer
\* than the original, in one decoy.
Rewrapped(p) == inject_only(DecoyWithOptions(p, p.at, Foreign(Len(p.data) + 1)))
tls_record_rewrap(p) == IF StartsRecord(p) THEN Rewrapped(p) ELSE Passthrough
sni_record_frag(p) == {tls_record_rewrap(p), Passthrough}

\* HTTP/2 frames at the sequence number of the request.
H2Frames(p, n) ==
    IF HasPayload(p)
    THEN inject_many([i \in 1 .. n |-> HttpDecoy(p, p.at, Foreign(FakeLength))])
    ELSE Passthrough
h2_settings_flood(p) == H2Frames(p, 3)
h2_rst_padding(p) == H2Frames(p, 1)
h2_window_update_flood(p) == H2Frames(p, 2)
h2_priority_abuse(p) == H2Frames(p, 1)
h2_goaway_inject(p) == H2Frames(p, 1)
h2_frame_ordering(p) == H2Frames(p, 1)

\* A packet the HTTP techniques recognise.
StartsRequest(p) == p.kind = "http" /\ p.data # << >> /\ Head(p.data) = 1

\* ChunkObfuscation needs a chunked request, which it may be or not.
chunk_obfuscation(p) ==
    LET size == Len(p.data) \div 3
        Part(i) == HttpDecoy(p, p.at + (i - 1) * size,
                             SubSeq(p.data, (i - 1) * size + 1, i * size))
    IN  {Passthrough} \cup
        (IF p.kind = "http" /\ size >= 2 THEN {inject_many([i \in 1 .. 2 |-> Part(i)])} ELSE {})
http11_pipeline(p) ==
    IF StartsRequest(p)
    THEN inject_only(HttpDecoy(p, p.at + Len(p.data), FakeHttpRequest))
    ELSE Passthrough

\* The train of fragments starts with those of lowered TTL, so that it is whole
\* only where a decoy arrives; validate_before_send may refuse some of them,
\* as it reads each one as if it began with a TCP header.
fragment(p, data) == [Decoy(p, p.at, data) EXCEPT !.form = FALSE]
ip_frag_primitives(p) ==
    IF Len(p.data) <= split_size
    THEN {Passthrough}
    ELSE {inject_only(Decoy(p, p.at, p.data)), inject_only(fragment(p, p.data))}

\* The head of this train is a ClientHello where the TCP header should be.
frag_overlap(p) ==
    {inject_only(Stale(Decoy(p, p.at, FakeHello))), inject_only(fragment(p, FakeHello))}

\* The spoofed SYN of SeqSpoof is ten thousand behind the client's first
\* sequence number; its TTL is one less than the hops known of the server, and
\* the system's default for a server nothing is known of.
build_seq_spoof_packet(p) ==
    {inject_only(Built(p, Elsewhere, FakeHello, ttl)) : ttl \in {Hops - 1, OwnTtl}}

\* The packet's bytes in a WireGuard datagram of other ports.
wg_obfs(p) == inject_only(Decoy(p, Elsewhere, p.data))

-----------------------------------------------------------------------------
(* Techniques for the SYN, and edits of the packet itself. *)

\* The data of these SYNs is behind the SYN's own position.
syndata(p) == IF IsSyn(p) THEN inject_only(Decoy(p, p.at, p.data)) ELSE Passthrough
syn_flood_decoy(p) ==
    IF IsSyn(p)
    THEN inject_many([i \in 1 .. 5 |-> Decoy(p, Elsewhere, FakeHello)])
    ELSE Passthrough

\* Nothing for a SYN without data, which is every SYN a client sends.
synhide(p) ==
    IF IsSyn(p) /\ Len(p.data) > 1
    THEN modify_and_inject(p, Decoy(p, p.at + 1, Tail(p.data)))
    ELSE Passthrough

mss_clamp(p) == IF IsSyn(p) THEN modified_only(InPlace(Summed(p))) ELSE Passthrough

\* Three bytes of option, and the data offset is not advanced by a whole word.
win_scale_manip(p) == IF IsSyn(p) THEN modified_only(InPlace(Stale(p))) ELSE Passthrough

\* SACK-permitted is taken out of the options, and the data offset left: the
\* header of a SYN then ends behind its packet.  In a packet without options
\* the scan runs on into the data, and takes two bytes from it if they match.
wclamp(p) ==
    LET edited == InPlace(Summed(p))
        n == Len(p.data)
    IN  {modified_only(edited)} \cup
        (IF IsSyn(p)
         THEN {modified_only([edited EXCEPT !.form = FALSE])}
         ELSE {modified_only([edited EXCEPT
                   !.data = SubSeq(p.data, 1, i - 1) \o SubSeq(p.data, i + 2, n),
                   !.form = p.link # "ipv6"]) : i \in 1 .. n - 2})

\* Only the window changes.
winsize(p) == modified_only(Summed(p))

\* Another source port: a connection of its own to the server.
port_shuffle(p) == modified_only([Summed(p) EXCEPT !.at = Elsewhere])

\* The first bytes behind the IPv4 header are the ports, and in IPv6 part of
\* the source address.
xor_first(p) == modified_only([p EXCEPT !.at = Elsewhere])

\* With a DSCP chosen for the connection, and the IPv4 checksum done right.
dscp_random(p) == {Passthrough, modified_only([p EXCEPT !.bad = @ \ {"ip"}])}

\* Ten bytes of option for eight of header: two fall into the data.
ts_md5(p) ==
    modified_only(InPlace(Summed(
        IF HasPayload(p) THEN [p EXCEPT !.data = Foreign(2) \o @] ELSE p)))

\* The record's version, which servers ignore, is overwritten; the TCP checksum
\* is left as it was.
tls_version_overwrite(p) ==
    IF StartsRecord(p) THEN modified_only(InPlace(Stale(p))) ELSE Passthrough

\* Random bytes after the ClientHello, inside its record.
tls_record_pad(p) ==
    IF StartsRecord(p)
    THEN modified_only(InPlace(Summed([p EXCEPT !.data = @ \o Foreign(Insertion)])))
    ELSE Passthrough

\* The bytes of the name, somewhere in the hello, are overwritten.
sni_masking(p) ==
    {Passthrough} \cup
    {modified_only(Summed([p EXCEPT !.data[cut] = 0])) : cut \in NameCuts(p)}

\* "Host" becomes "hOsT", the same to a server; the checksum is left as it was.
http_case_mix(p) ==
    IF StartsRequest(p) THEN modified_only(Stale(p)) ELSE Passthrough

\* ContentLengthFuzz and HttpUpgradeAbuse put a header before the empty line.
WithHeader(p) ==
    InPlace(Summed([p EXCEPT !.data = Front(@) \o Foreign(Insertion) \o <<Last(@)>>]))
content_length_fuzz(p) == IF StartsRequest(p) THEN modified_only(WithHeader(p)) ELSE Passthrough
http_upgrade_abuse(p) == IF StartsRequest(p) THEN modified_only(WithHeader(p)) ELSE Passthrough

\* Techniques that look for packets a client's request never is: a bare ACK, a
\* SYN-ACK, an RST.
OnOtherPackets == {"AckSuppress", "RstSelective", "SynAckSplit", "RstDropIpId"}
\* Techniques that do nothing any more.
Disabled == {"MutualSpoof", "ChaCha20", "TcpPreopen"}
=============================================================================
