--------------------------- MODULE MCDesyncGroup ---------------------------
(* Technique sets for the runs of DesyncGroup. *)
EXTENDS DesyncGroup

\* Techniques that leave the stream as it is.
OfHello ==
    {"MultiSplit", "MultiDisorder", "TcpSeg", "Disorder", "MultidisorderNew", "UnidirFrag",
     "TlsRecordFrag", "HostFakeSplit", "SniRecordFrag", "TlsRecordRewrap", "SniMicrofrag",
     "ByteByByte", "FakeSni", "PktReorder", "HostFake", "Disoob", "OobInjection",
     "TlsVersionSpoof", "WinSize", "PortShuffle", "FakeDataDisorder", "FragOverlap",
     "IpFragPrimitives", "SeqSpoof", "BadChecksum"}
OfHttpRequest ==
    {"MultiSplit", "TcpSeg", "UnidirFrag", "HostFake", "FakeRst", "ChunkObfuscation",
     "Http11Pipeline", "HttpCaseMix", "H2SettingsFlood", "H2FrameOrdering", "WgObfs",
     "BadChecksum"}
OfSyn ==
    {"SynData", "SynHide", "SynFloodDecoy", "PktReorder", "WinSize", "DscpRandom", "SeqSpoof",
     "FakeRst", "AckSuppress", "MutualSpoof", "BadChecksum"}
OfInitial ==
    {"QuicBlocking", "QuicVersionDowngrade", "QuicRetryInject", "QuicConnectionClose",
     "QuicStreamReset", "QuicMaxStreams", "QuicInitialInject", "QuicShortHeaderPoison",
     "QuicPaddingFlood", "DoppelgangerGrease", "Udp2Icmp", "UdpCoalescing", "WgObfs",
     "DscpRandom", "BadChecksum"}
CleanTechniques ==
    [tls |-> OfHello, http |-> OfHttpRequest, syn |-> OfSyn, quic |-> OfInitial]
\* The techniques of outbound_tls_split.
SplitProfile == [tls |-> {"MultiSplit"}]
\* Those of outbound_http.
HttpProfile == [http |-> {"HttpCaseMix", "ChunkObfuscation"}]
\* Those of tcp_mss_clamp and tcp_window_clamp.
MssClampProfile == [syn |-> {"MssClamp", "PktReorder"}]
WindowClampProfile == [syn |-> {"Wclamp", "MssClamp"}]
LongHeaderDrop == [quic |-> {"QuicLongHeaderDrop"}]
SafeToCombine == [tls |-> {"TcpSeg", "HostFake", "BadChecksum"}]
EditAndSplit == [tls |-> {"WinSize", "UnidirFrag"}]
RaisedTtl == [tls |-> {"HostFake", "TtlManipulation"}]
Padding == [tls |-> {"TlsRecordPad"}]
=============================================================================
