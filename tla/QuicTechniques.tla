--------------------------- MODULE QuicTechniques ---------------------------
(***************************************************************************)
(* What each technique makes of a client's QUIC Initial                    *)
(* (src/core/src/desync/quic.rs and obfs.rs).  An Initial is one unit of   *)
(* the client's request.  A datagram the server could open with the keys   *)
(* of the client's connection identifier is at its position, one it could  *)
(* not is Elsewhere.                                                       *)
(***************************************************************************)
EXTENDS Techniques

QuicFallbackPolicy ==
    {"ControlledDropJitter", "ValidConnectionClose", "ValidRetry", "PassThrough"}

\* What PacketContext tells of a packet.
IsUdp(p) == p.kind = "quic"
IsLongHeader(p) == IsUdp(p) /\ p.data # << >> /\ Head(p.data) = 1

\* build_udp_packet, for decoys: both checksums are right, the TTL is lowered.
Datagram(p, at) == Decoy(p, at, Foreign(1))

\* A datagram sealed with the keys of the client's identifier and padded to
\* 1200 bytes, and one a server takes for noise.
Sealed(p) == Datagram(p, p.at)
Noise(p) == Datagram(p, Elsewhere)

\* validate_before_send refuses an Initial for port 443 of fewer bytes.
ShortInitial(p) == [Noise(p) EXCEPT !.form = FALSE]

OnLongHeader(p, r) == IF IsLongHeader(p) THEN r ELSE Passthrough

-----------------------------------------------------------------------------
(* Decoys. *)

quic_initial_inject(p) == OnLongHeader(p, inject_only(Sealed(p)))

\* The close frame of a connection, from the client's side.
build_quic_connection_close_packet(p) == inject_only(Sealed(p))
\* Identifiers that do not fit the packet, which a client's Initial has not,
\* would leave the malformed fallback.
quic_connection_close(p) ==
    IF IsLongHeader(p)
    THEN {build_quic_connection_close_packet(p), inject_only(ShortInitial(p))}
    ELSE {Passthrough}

\* A Retry is a server's packet: a server takes no notice of it.
build_quic_retry_packet(p) == inject_only(Noise(p))
quic_retry_inject(p) == OnLongHeader(p, inject_only(Noise(p)))
quic_version_downgrade(p) == OnLongHeader(p, inject_only(Noise(p)))
quic_stream_reset(p) == OnLongHeader(p, inject_only(Noise(p)))
quic_max_streams(p) == OnLongHeader(p, inject_only(ShortInitial(p)))
doppelganger_grease(p) == IF IsUdp(p) THEN inject_only(ShortInitial(p)) ELSE Passthrough
quic_short_header_poison(p) ==
    IF IsUdp(p) /\ ~IsLongHeader(p) THEN inject_only(Noise(p)) ELSE Passthrough

\* Five datagrams of up to twenty random bytes: one may pass for a short Initial.
quic_padding_flood(p) ==
    IF IsUdp(p)
    THEN {inject_many([i \in 1 .. 5 |-> Noise(p)]), inject_many([i \in 1 .. 5 |-> ShortInitial(p)])}
    ELSE {Passthrough}

\* An echo request around the datagram.
udp2icmp(p) == IF IsUdp(p) THEN inject_only(Noise(p)) ELSE Passthrough

-----------------------------------------------------------------------------
(* Techniques that drop or edit the Initial. *)

quic_long_header_drop(p) == OnLongHeader(p, drop_packet)

\* A GREASE version becomes version 1, under the client's seal: the server can
\* no longer open the packet.
quic_normalizer(p) ==
    {Passthrough, OnLongHeader(p, modified_only([InPlace(p) EXCEPT !.at = Elsewhere]))}

\* No caller gives it packets to coalesce with.
udp_coalescing(p) == Passthrough

\* A close or a Retry in place of an Initial whose identifiers fit its length; any other
\* packet of the connection is dropped.
OrDropped(p, r) == IF IsLongHeader(p) THEN {r, drop_packet} ELSE {drop_packet}

\* Mutation of quic_blocking: the fourth Initial is dropped as well.
quic_blockingAlways(p, policy, dropped) ==
    IF ~IsUdp(p) \/ policy # "ControlledDropJitter"
    THEN {Passthrough} ELSE {OnLongHeader(p, drop_packet)}

\* The first three Initials of a connection are dropped, or all that the client sends is
\* and a decoy goes out for each Initial.
quic_blocking(p, policy, dropped) ==
    IF ~IsUdp(p)
    THEN {Passthrough}
    ELSE CASE policy = "ControlledDropJitter" ->
                  {IF dropped < 3 THEN OnLongHeader(p, drop_packet) ELSE Passthrough}
           [] policy = "ValidConnectionClose" ->
                  OrDropped(p, build_quic_connection_close_packet(p))
           [] policy = "ValidRetry" -> OrDropped(p, build_quic_retry_packet(p))
           [] policy = "PassThrough" -> {Passthrough}

CountDropped(p, policy, dropped) ==
    IF IsLongHeader(p) /\ policy = "ControlledDropJitter" /\ dropped < 3
    THEN dropped + 1 ELSE dropped
=============================================================================
