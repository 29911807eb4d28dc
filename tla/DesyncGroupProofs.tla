------------------------- MODULE DesyncGroupProofs -------------------------
(***************************************************************************)
(* Proofs about DesyncGroup: for requests of any length, groups of any     *)
(* number of techniques, and any sizes, windows and TTLs.                  *)
(*                                                                         *)
(* A technique only matters through what its result is to the packet it    *)
(* was given.  Most are Tame: what they inject are decoys, and what they   *)
(* make of the packet keeps its bytes.  Those that split make a Cut, whose *)
(* parts hold each position of the packet once.  One lemma per technique   *)
(* says which; the invariants of the pipeline need to know nothing else.   *)
(***************************************************************************)
EXTENDS DesyncGroup, FiniteSetTheorems, SequenceTheorems, TLAPS

\* Packets that carry something, and those of one connection, captured alike.
Packets == {s \in Segments : s.data # << >>}
Kin(p) == {s \in Packets : s.kind = p.kind /\ s.link = p.link}
Bytes == Seq(0 .. Length) \ {<< >>}

\* What comes out of a technique.
Results(p) ==
  {r \in [modified : Seq(Kin(p)), inject : Seq(Kin(p)), drop_original : BOOLEAN] :
     Len(r.modified) <= 1}

\* A group's techniques: those of the profile, or of the group that stands in for it.
Stands == {"FakeSni", "BadChecksum"}
InUse == {t \in DesyncTechnique : Used(t)} \cup Stands

Decoyed(p, s) == (OffsetLowers /\ p.ttl <= OwnTtl) => Ghost(s)

\* The packet after an edit: of the same bytes, in their place or on another
\* connection; and one that arrives if the packet did.
Kept(p, q) == q.data = p.data /\ q.ttl = p.ttl /\ q.at \in {p.at, Elsewhere}
Intact(p, q) ==
  /\ q.data = p.data /\ q.ttl = p.ttl /\ q.at = p.at /\ (p.form => q.form)
  /\ p.link = "offload" \/ q.bad \subseteq p.bad

Editors == EditsInPlace \cup Unsummed \cup {"WinSize", "DscpRandom"}
Harms(t, link) ==
  t \in {"PortShuffle", "XorFirst"} \/ (link # "offload" /\ t \in EditsInPlace \cup Unsummed)

\* What a technique does that neither cuts the packet nor rewrites what was injected.
Tame(t, p, r) ==
  /\ r \in Results(p)
  /\ \A k \in DOMAIN r.inject : Decoyed(p, r.inject[k])
  /\ t \notin EditsTheStream => \A k \in DOMAIN r.modified : Kept(p, r.modified[k])
  /\ (t \notin EditsTheStream /\ ~Harms(t, p.link) /\ p.kind # "quic")
       => /\ ~r.drop_original
          /\ \A k \in DOMAIN r.modified : Intact(p, r.modified[k])
          /\ (r.modified # << >> /\ Len(p.data) <= Units(p.kind)) => t \in Editors

-----------------------------------------------------------------------------
(* Segments and results.                                                     *)

LEMMA Sizes ==
  /\ Length \in Nat \ {0} /\ FakeLength \in Nat \ {0} /\ split_size \in Nat \ {0}
  /\ split_count \in Nat \ {0} /\ max_seg_size \in Nat \ {0}
  /\ Insertion \in Nat /\ Micro \in Nat /\ ClientWindow \in Nat /\ ttl_value \in Nat
  /\ ServerWindow \in Nat /\ ServerWindow >= Length /\ Elsewhere \in Nat
  /\ Elsewhere >= ServerWindow
  /\ OwnTtl \in Nat /\ fake_ttl_offset \in Nat /\ Hops \in Nat /\ Hops >= 1 /\ Hops <= OwnTtl
BY RequestAssumption, TtlAssumption DEF Elsewhere

LEMMA UnitsFit == \A kind \in Kinds : Units(kind) \in Nat \ {0} /\ Units(kind) <= Length
BY Sizes DEF Units

LEMMA PacketFields ==
  ASSUME NEW p \in Packets
  PROVE  /\ p \in Segments /\ p \in Kin(p)
         /\ p.at \in Nat /\ p.data \in Bytes /\ Len(p.data) \in Nat \ {0}
         /\ DOMAIN p.data = 1 .. Len(p.data)
         /\ \A i \in 1 .. Len(p.data) : p.data[i] \in 0 .. Length
         /\ p.ttl \in Nat /\ p.bad \subseteq {"ip", "tcp"} /\ p.form \in BOOLEAN
         /\ p.kind \in Kinds /\ p.link \in Links
<1>1. p \in Segments /\ p.data # << >> /\ p \in Kin(p)
  BY DEF Packets, Kin
<1>2. p.at \in Nat /\ p.data \in Bytes /\ p.ttl \in Nat /\ p.bad \subseteq {"ip", "tcp"}
      /\ p.form \in BOOLEAN /\ p.kind \in Kinds /\ p.link \in Links
  BY <1>1 DEF Segments, Bytes
<1>3. p.data \in Seq(0 .. Length) /\ p.data # << >>
  BY <1>2 DEF Bytes
<1>4. Len(p.data) \in Nat \ {0} /\ DOMAIN p.data = 1 .. Len(p.data)
  BY <1>3
<1>5. \A i \in 1 .. Len(p.data) : p.data[i] \in 0 .. Length
  BY <1>3, <1>4, Sizes
<1> QED
  BY <1>1, <1>2, <1>4, <1>5, Zenon

LEMMA BuiltIs ==
  ASSUME NEW p \in Packets, NEW at \in Nat, NEW data \in Bytes, NEW ttl \in Nat
  PROVE  /\ Built(p, at, data, ttl) \in Kin(p)
         /\ Built(p, at, data, ttl).at = at /\ Built(p, at, data, ttl).data = data
         /\ Built(p, at, data, ttl).ttl = ttl /\ Built(p, at, data, ttl).bad = {}
         /\ Built(p, at, data, ttl).form
BY DEF Built, Packets, Segments, Kin, Bytes

LEMMA ForeignIs ==
  ASSUME NEW n \in Nat \ {0}
  PROVE  Foreign(n) \in Bytes /\ Len(Foreign(n)) = n
BY Sizes DEF Foreign, Bytes

LEMMA FakesAre == FakeHello \in Bytes /\ FakeHttpRequest \in Bytes
BY Sizes, ForeignIs DEF FakeHello, FakeHttpRequest

LEMMA LoweredExpires ==
  /\ \A ttl \in Nat : Lowered(ttl) \in Nat /\ AtLeastOne(ttl) \in Nat
  /\ \A ttl \in Nat : (OffsetLowers /\ ttl <= OwnTtl)
                        => Lowered(ttl) < OwnTtl /\ AtLeastOne(Lowered(ttl)) < OwnTtl
BY Sizes DEF Lowered, AtLeastOne, OffsetLowers

\* Edits of single fields.
LEMMA EditsStay ==
  ASSUME NEW p \in Packets
  PROVE  /\ \A at \in Nat : [p EXCEPT !.at = at] \in Kin(p)
         /\ \A data \in Bytes : [p EXCEPT !.data = data] \in Kin(p)
         /\ \A bad \in SUBSET {"ip", "tcp"} : [p EXCEPT !.bad = bad] \in Kin(p)
         /\ \A form \in BOOLEAN : [p EXCEPT !.form = form] \in Kin(p)
         /\ \A ttl \in Nat : [p EXCEPT !.ttl = ttl] \in Kin(p)
BY DEF Packets, Segments, Kin, Bytes

LEMMA KinOfKin == ASSUME NEW p, NEW q \in Kin(p) PROVE Kin(q) = Kin(p) /\ q \in Packets
BY DEF Kin

LEMMA DecoyIs ==
  ASSUME NEW p \in Packets, NEW at \in Nat, NEW data \in Bytes
  PROVE  /\ Decoy(p, at, data) \in Kin(p) /\ Decoyed(p, Decoy(p, at, data))
         /\ Decoy(p, at, data).at = at /\ Decoy(p, at, data).data = data
         /\ Decoy(p, at, data).ttl = Lowered(p.ttl)
<1>1. p.ttl \in Nat /\ Lowered(p.ttl) \in Nat
  BY PacketFields, LoweredExpires
<1> DEFINE d == Built(p, at, data, Lowered(p.ttl))
<1>2. /\ d \in Kin(p) /\ d.at = at /\ d.data = data /\ d.ttl = Lowered(p.ttl)
  BY <1>1, BuiltIs
<1>3. Decoyed(p, d)
  BY <1>1, <1>2, LoweredExpires DEF Decoyed, Ghost
<1> QED
  BY <1>2, <1>3, Zenon DEF Decoy

\* The same for the decoys that are made of one.
LEMMA DecoysAre ==
  ASSUME NEW p \in Packets, NEW at \in Nat, NEW data \in Bytes
  PROVE  /\ HttpDecoy(p, at, data) \in Kin(p) /\ Decoyed(p, HttpDecoy(p, at, data))
         /\ DecoyWithOptions(p, at, data) \in Kin(p) /\ Decoyed(p, DecoyWithOptions(p, at, data))
         /\ Stale(DecoyWithOptions(p, at, data)) \in Kin(p)
         /\ Decoyed(p, Stale(DecoyWithOptions(p, at, data)))
         /\ fragment(p, data) \in Kin(p) /\ Decoyed(p, fragment(p, data))
<1>1. fragment(p, data) \in Kin(p) /\ Decoyed(p, fragment(p, data))
  <2> DEFINE d == Decoy(p, p.at, data)
  <2>1. d \in Kin(p) /\ Decoyed(p, d)
    BY PacketFields, DecoyIs
  <2> HIDE DEF d
  <2>2. d \in Packets /\ Kin(d) = Kin(p)
    BY <2>1, KinOfKin
  <2>3. [d EXCEPT !.form = FALSE] \in Kin(p)
    BY <2>2, EditsStay
  <2>4. Decoyed(p, [d EXCEPT !.form = FALSE])
    BY <2>1, <2>2 DEF Decoyed, Ghost, Packets, Segments
  <2> QED
    BY <2>3, <2>4 DEF fragment, d
<1> DEFINE d == Decoy(p, at, data)
<1>2. d \in Kin(p) /\ Decoyed(p, d)
  BY DecoyIs
<1> HIDE DEF d
<1>3. d \in Packets /\ Kin(d) = Kin(p)
  BY <1>2, KinOfKin
<1>4. /\ [d EXCEPT !.bad = {"tcp"}] \in Kin(p)
      /\ Decoyed(p, [d EXCEPT !.bad = {"tcp"}])
  BY <1>2, <1>3, EditsStay DEF Decoyed, Ghost, Packets, Segments
<1>5. Stale(d) \in Kin(p) /\ Decoyed(p, Stale(d))
  BY <1>2, <1>3, EditsStay DEF Decoyed, Ghost, Packets, Segments, Stale
<1> QED
  BY <1>1, <1>2, <1>4, <1>5 DEF HttpDecoy, DecoyWithOptions, d

\* The shapes of a result.
LEMMA PassthroughIsTame ==
  ASSUME NEW t, NEW p \in Packets
  PROVE  Tame(t, p, Passthrough)
BY DEF Tame, Passthrough, Result, Results

LEMMA InjectOneIsTame ==
  ASSUME NEW t, NEW p \in Packets, NEW s \in Kin(p), Decoyed(p, s)
  PROVE  Tame(t, p, inject_only(s))
BY DEF Tame, inject_only, Result, Results

LEMMA InjectManyIsTame ==
  ASSUME NEW t, NEW p \in Packets, NEW n \in Nat, NEW f, DOMAIN f = 1 .. n, f = [k \in 1 .. n |-> f[k]],
         \A k \in 1 .. n : f[k] \in Kin(p) /\ Decoyed(p, f[k])
  PROVE  Tame(t, p, inject_many(f))
<1>1. f \in Seq(Kin(p))
  OBVIOUS
<1> QED
  BY <1>1 DEF Tame, inject_many, Result, Results

LEMMA ModifyIsTame ==
  ASSUME NEW t, NEW p \in Packets, NEW q \in Kin(p),
         t \notin EditsTheStream => Kept(p, q),
         (t \notin EditsTheStream /\ ~Harms(t, p.link) /\ p.kind # "quic")
           => Intact(p, q) /\ t \in Editors
  PROVE  Tame(t, p, modified_only(q))
<1>1. modified_only(q).modified = <<q>> /\ modified_only(q).inject = << >>
      /\ modified_only(q).drop_original = FALSE
  BY DEF modified_only, Result
<1>2. <<q>> \in Seq(Kin(p)) /\ << >> \in Seq(Kin(p)) /\ Len(<<q>>) <= 1
  OBVIOUS
<1>3. modified_only(q) \in Results(p)
  BY <1>2 DEF modified_only, Result, Results
<1> QED
  BY <1>1, <1>3 DEF Tame
-----------------------------------------------------------------------------
(* Techniques that only inject decoys.                                       *)

\* Division by literals and by parameters.
LEMMA Parts ==
  ASSUME NEW n \in Nat
  PROVE  /\ (n \div 2) \in Nat /\ (n # 0 => n \div 2 < n)
         /\ (n \div 3) \in Nat /\ 3 * (n \div 3) <= n
OBVIOUS

LEMMA Division ==
  ASSUME NEW n \in Nat, NEW d \in Nat \ {0}
  PROVE  (n \div d) \in Nat /\ (n \div d) * d <= n /\ n < (n \div d) * d + d
OBVIOUS

LEMMA Multiples ==
  ASSUME NEW a \in Nat, NEW b \in Nat, NEW d \in Nat \ {0}, a < b
  PROVE  a * d \in Nat /\ b * d \in Nat /\ a * d + d <= b * d
OBVIOUS

LEMMA PartsOfPacket ==
  ASSUME NEW p \in Packets, NEW from \in 1 .. Len(p.data), NEW to \in from .. Len(p.data)
  PROVE  /\ SubSeq(p.data, from, to) \in Bytes
         /\ Len(SubSeq(p.data, from, to)) = to - from + 1
         /\ \A i \in 1 .. to - from + 1 : SubSeq(p.data, from, to)[i] = p.data[from + i - 1]
<1>1. Len(p.data) \in Nat /\ from \in Int /\ to \in Int /\ from <= to
      /\ \A i \in from .. to : p.data[i] \in 0 .. Length
  BY PacketFields
<1>2. /\ SubSeq(p.data, from, to) \in Seq(0 .. Length)
      /\ Len(SubSeq(p.data, from, to)) = to - from + 1
      /\ \A i \in 1 .. to - from + 1 : SubSeq(p.data, from, to)[i] = p.data[from + i - 1]
  BY <1>1, SubSeqProperties
<1> DEFINE part == SubSeq(p.data, from, to)
<1>3. part \in Seq(0 .. Length) /\ Len(part) >= 1
  BY <1>1, <1>2
<1> HIDE DEF part
<1>4. part \in Bytes
  <2>1. part # << >>
    BY <1>3
  <2> QED
    BY <1>3, <2>1 DEF Bytes
<1> QED
  BY <1>2, <1>4 DEF part

LEMMA FakesAreTame ==
  ASSUME NEW t, NEW p \in Packets
  PROVE  /\ Tame(t, p, fakedsplit(p)) /\ Tame(t, p, hostfake(p)) /\ Tame(t, p, host_fake_split(p))
         /\ Tame(t, p, oob_injection(p))
         /\ \A r \in fake_sni(p) : Tame(t, p, r)
<1> USE PacketFields, PassthroughIsTame, InjectOneIsTame, FakesAre, Sizes
<1>1. Tame(t, p, fakedsplit(p))
  BY DecoysAre DEF fakedsplit
<1>2. Tame(t, p, hostfake(p)) /\ Tame(t, p, host_fake_split(p))
  BY DecoyIs DEF hostfake, host_fake_split
<1>3. Tame(t, p, oob_injection(p))
  BY DecoysAre DEF oob_injection
<1>4. p.at + ClientWindow + 1 \in Nat
  OBVIOUS
<1>5. \A r \in fake_sni(p) : Tame(t, p, r)
  BY <1>4, DecoyIs DEF fake_sni
<1> QED
  BY <1>1, <1>2, <1>3, <1>5

LEMMA FakeDataIsTame ==
  ASSUME NEW t, NEW p \in Packets
  PROVE  Tame(t, p, fake_data_disorder(p))
<1> DEFINE d == Decoy(p, p.at, Foreign(FakeLength))  s == [d EXCEPT !.ttl = AtLeastOne(@)]
<1>1. p.at \in Nat /\ p.ttl \in Nat /\ d \in Kin(p) /\ d.ttl = Lowered(p.ttl)
  BY PacketFields, ForeignIs, Sizes, DecoyIs
<1> HIDE DEF d
<1>2. d \in Packets /\ Kin(d) = Kin(p) /\ d.ttl \in Nat /\ AtLeastOne(d.ttl) \in Nat
  BY <1>1, KinOfKin, LoweredExpires
<1>3. s \in Kin(p) /\ s.ttl = AtLeastOne(d.ttl)
  BY <1>2, EditsStay DEF Packets, Segments
<1>4. Decoyed(p, s)
  BY <1>1, <1>3, LoweredExpires DEF Decoyed, Ghost
<1> QED
  BY <1>3, <1>4, InjectOneIsTame DEF fake_data_disorder, d

LEMMA ElsewhereIsTame ==
  ASSUME NEW t, NEW p \in Packets
  PROVE  /\ Tame(t, p, fakerst(p)) /\ Tame(t, p, wg_obfs(p))
         /\ \A r \in build_seq_spoof_packet(p) : Tame(t, p, r)
<1> USE PacketFields, InjectOneIsTame, FakesAre, Sizes
<1>1. Tame(t, p, fakerst(p))
  BY DecoyIs, ForeignIs DEF fakerst
<1>2. Tame(t, p, wg_obfs(p))
  BY DecoyIs DEF wg_obfs
<1>3. ASSUME NEW ttl \in {Hops - 1, OwnTtl}
      PROVE  Tame(t, p, inject_only(Built(p, Elsewhere, FakeHello, ttl)))
  <2>1. ttl \in Nat
    OBVIOUS
  <2> DEFINE s == Built(p, Elsewhere, FakeHello, ttl)
  <2>2. s \in Kin(p) /\ s.at = Elsewhere
    BY <2>1, BuiltIs
  <2>3. Decoyed(p, s)
    BY <2>2 DEF Decoyed, Ghost
  <2> QED
    BY <2>2, <2>3
<1> QED
  BY <1>1, <1>2, <1>3 DEF build_seq_spoof_packet

LEMMA PktReorderIsTame ==
  ASSUME NEW t, NEW p \in Packets, Used("PktReorder"), NEW r \in pkt_reorder(p)
  PROVE  Tame(t, p, r)
<1> DEFINE d == Decoy(p, p.at + ClientWindow + 2, Foreign(FakeLength))
           s == [d EXCEPT !.ttl = AtLeastOne(p.ttl - 1)]
<1>1. p.at \in Nat /\ p.ttl \in Nat /\ p.at + ClientWindow + 2 \in Nat
  BY PacketFields, Sizes
<1>2. d \in Kin(p) /\ d.at = p.at + ClientWindow + 2
  BY <1>1, ForeignIs, Sizes, DecoyIs
<1> HIDE DEF d
<1>3. d \in Packets /\ Kin(d) = Kin(p) /\ AtLeastOne(p.ttl - 1) \in Nat
  BY <1>1, <1>2, KinOfKin DEF AtLeastOne
<1>4. s \in Kin(p) /\ s.ttl = AtLeastOne(p.ttl - 1) /\ s.at = d.at
  BY <1>3, EditsStay DEF Packets, Segments
<1> HIDE DEF s
<1>5. Decoyed(p, s)
  BY <1>1, <1>2, <1>4, Sizes DEF Decoyed, Ghost, OffsetLowers, AtLeastOne
<1>6. ASSUME NEW n \in {2, 3} PROVE Tame(t, p, inject_many([i \in 1 .. n |-> s]))
  BY <1>4, <1>5, InjectManyIsTame
<1>7. r = Passthrough \/ \E n \in {2, 3} : r = inject_many([i \in 1 .. n |-> s])
  BY DEF pkt_reorder, s, d
<1> QED
  BY <1>6, <1>7, PassthroughIsTame

LEMMA PiecesAreTame ==
  ASSUME NEW t, NEW p \in Packets
  PROVE  Tame(t, p, disoob(p)) /\ Tame(t, p, byte_by_byte(p)) /\ Tame(t, p, sni_microfrag(p))
<1> USE PacketFields, PassthroughIsTame
<1>1. Tame(t, p, disoob(p))
  <2> DEFINE half == Len(p.data) \div 2
  <2>1. Len(p.data) \in Nat /\ Len(p.data) # 0
    OBVIOUS
  <2>2. half \in Nat /\ half < Len(p.data)
    BY <2>1, Parts
  <2> HIDE DEF half
  <2>3. SubSeq(p.data, half + 1, Len(p.data)) \in Bytes
    <3>1. half + 1 \in 1 .. Len(p.data) /\ Len(p.data) \in half + 1 .. Len(p.data)
      BY <2>1, <2>2
    <3> QED
      BY <3>1, PartsOfPacket
  <2>4. p.at + half \in Nat
    BY <2>2
  <2> QED
    BY <2>3, <2>4, DecoyIs, InjectOneIsTame DEF disoob, half
<1>2. ASSUME NEW n \in 0 .. Len(p.data) PROVE Tame(t, p, inject_many(MicroDecoys(p, n)))
  <2>1. \A i \in 1 .. n : <<p.data[i]>> \in Bytes /\ p.at + i - 1 \in Nat
    BY DEF Bytes
  <2>2. \A i \in 1 .. n : /\ MicroDecoys(p, n)[i] \in Kin(p)
                          /\ Decoyed(p, MicroDecoys(p, n)[i])
    BY <2>1, DecoyIs DEF MicroDecoys
  <2>3. n \in Nat /\ DOMAIN MicroDecoys(p, n) = 1 .. n
        /\ MicroDecoys(p, n) = [i \in 1 .. n |-> MicroDecoys(p, n)[i]]
    BY DEF MicroDecoys
  <2> QED
    BY <2>2, <2>3, InjectManyIsTame
<1>3. Tame(t, p, byte_by_byte(p))
  BY <1>2, Sizes DEF byte_by_byte, Lesser
<1>4. Tame(t, p, sni_microfrag(p))
  BY <1>2, Sizes DEF sni_microfrag
<1> QED
  BY <1>1, <1>3, <1>4

LEMMA RewrapsAreTame ==
  ASSUME NEW t, NEW p \in Packets
  PROVE  Tame(t, p, tls_record_rewrap(p)) /\ \A r \in sni_record_frag(p) : Tame(t, p, r)
<1>1. Foreign(Len(p.data) + 1) \in Bytes /\ p.at \in Nat
  BY PacketFields, ForeignIs
<1>2. Tame(t, p, Rewrapped(p))
  BY <1>1, DecoysAre, InjectOneIsTame DEF Rewrapped
<1> QED
  BY <1>2, PassthroughIsTame DEF tls_record_rewrap, sni_record_frag

LEMMA FragmentsAreTame ==
  ASSUME NEW t, NEW p \in Packets
  PROVE  /\ \A r \in ip_frag_primitives(p) : Tame(t, p, r)
         /\ \A r \in frag_overlap(p) : Tame(t, p, r)
<1> USE PacketFields, PassthroughIsTame, InjectOneIsTame, FakesAre, DecoyIs, DecoysAre
<1>1. \A r \in ip_frag_primitives(p) : Tame(t, p, r)
  BY DEF ip_frag_primitives
<1>2. \A r \in frag_overlap(p) : Tame(t, p, r)
  BY DEF frag_overlap, DecoyWithOptions
<1> QED
  BY <1>1, <1>2

LEMMA FramesAreTame ==
  ASSUME NEW t, NEW p \in Packets
  PROVE  /\ Tame(t, p, h2_settings_flood(p)) /\ Tame(t, p, h2_rst_padding(p))
         /\ Tame(t, p, h2_window_update_flood(p)) /\ Tame(t, p, h2_priority_abuse(p))
         /\ Tame(t, p, h2_goaway_inject(p)) /\ Tame(t, p, h2_frame_ordering(p))
<1>1. ASSUME NEW n \in Nat PROVE Tame(t, p, H2Frames(p, n))
  <2> DEFINE d == HttpDecoy(p, p.at, Foreign(FakeLength))
  <2>1. d \in Kin(p) /\ Decoyed(p, d)
    BY PacketFields, Sizes, ForeignIs, DecoysAre
  <2> HIDE DEF d
  <2>2. Tame(t, p, inject_many([i \in 1 .. n |-> d]))
    BY <2>1, InjectManyIsTame
  <2> QED
    BY <2>2, PassthroughIsTame DEF H2Frames, d
<1> QED
  BY <1>1 DEF h2_settings_flood, h2_rst_padding, h2_window_update_flood, h2_priority_abuse,
              h2_goaway_inject, h2_frame_ordering

LEMMA HttpDecoysAreTame ==
  ASSUME NEW t, NEW p \in Packets
  PROVE  (\A r \in chunk_obfuscation(p) : Tame(t, p, r)) /\ Tame(t, p, http11_pipeline(p))
<1> USE PacketFields, PassthroughIsTame
<1>1. Tame(t, p, http11_pipeline(p))
  BY FakesAre, DecoysAre, InjectOneIsTame DEF http11_pipeline
<1>2. ASSUME NEW r \in chunk_obfuscation(p), r # Passthrough PROVE Tame(t, p, r)
  <2> DEFINE size == Len(p.data) \div 3
             Part(i) == HttpDecoy(p, p.at + (i - 1) * size,
                                  SubSeq(p.data, (i - 1) * size + 1, i * size))
  <2>1. size \in Nat /\ 3 * size <= Len(p.data)
    BY Parts
  <2>2. size >= 2 /\ r = inject_many([i \in 1 .. 2 |-> Part(i)])
    BY <1>2 DEF chunk_obfuscation
  <2> HIDE DEF size
  <2>3. Part(1) \in Kin(p) /\ Decoyed(p, Part(1))
    BY <2>1, <2>2, PartsOfPacket, DecoysAre
  <2>4. Part(2) \in Kin(p) /\ Decoyed(p, Part(2))
    BY <2>1, <2>2, PartsOfPacket, DecoysAre
  <2>5. \A i \in 1 .. 2 : Part(i) \in Kin(p) /\ Decoyed(p, Part(i))
    BY <2>3, <2>4
  <2> HIDE DEF Part
  <2> QED
    BY <2>2, <2>5, InjectManyIsTame
<1> QED
  BY <1>1, <1>2

LEMMA SynDecoysAreTame ==
  ASSUME NEW t, NEW p \in Packets
  PROVE  Tame(t, p, syndata(p)) /\ Tame(t, p, syn_flood_decoy(p))
<1> USE PacketFields, PassthroughIsTame
<1>1. Tame(t, p, syndata(p))
  BY DecoyIs, InjectOneIsTame DEF syndata
<1>2. Decoy(p, Elsewhere, FakeHello) \in Kin(p) /\ Decoyed(p, Decoy(p, Elsewhere, FakeHello))
  BY DecoyIs, FakesAre, Sizes
<1>3. Tame(t, p, inject_many([i \in 1 .. 5 |-> Decoy(p, Elsewhere, FakeHello)]))
  BY <1>2, InjectManyIsTame
<1> QED
  BY <1>1, <1>3 DEF syn_flood_decoy

-----------------------------------------------------------------------------
(* Techniques that edit the packet.                                          *)

\* q is p with other checksums, on another connection where InPlace puts it there.
Edited(p, q) ==
  q \in Kin(p) /\ q.data = p.data /\ q.ttl = p.ttl /\ (p.form => q.form)

LEMMA EditsAre ==
  ASSUME NEW p \in Packets
  PROVE  /\ Edited(p, Summed(p)) /\ Summed(p).at = p.at /\ Summed(p).bad \subseteq p.bad
         /\ Edited(p, Stale(p)) /\ Stale(p).at = p.at
         /\ Edited(p, InPlace(p)) /\ InPlace(p).at \in {p.at, Elsewhere}
         /\ p.link = "offload" => InPlace(p).at = p.at
<1> USE PacketFields, EditsStay, Sizes DEF Edited
<1>1. Edited(p, Summed(p)) /\ Summed(p).at = p.at /\ Summed(p).bad \subseteq p.bad
  BY DEF Summed, Packets, Segments
<1>2. Edited(p, Stale(p)) /\ Stale(p).at = p.at
  BY DEF Stale, Packets, Segments
<1>3. /\ Edited(p, InPlace(p)) /\ InPlace(p).at \in {p.at, Elsewhere}
      /\ p.link = "offload" => InPlace(p).at = p.at
  BY DEF InPlace, Packets, Segments
<1> QED
  BY <1>1, <1>2, <1>3

\* The edits of a header's fields.
LEMMA EditsInPlaceAre ==
  ASSUME NEW p \in Packets, NEW q \in {Summed(p), Stale(p)}
  PROVE  /\ Edited(p, q) /\ q.at = p.at
         /\ Edited(p, InPlace(q)) /\ InPlace(q).at \in {p.at, Elsewhere}
         /\ p.link = "offload" => InPlace(q).at = p.at
<1>1. Edited(p, q) /\ q.at = p.at
  BY EditsAre
<1>2. q \in Packets /\ Kin(q) = Kin(p) /\ q.link = p.link
  BY <1>1, KinOfKin DEF Edited, Kin
<1>3. /\ Edited(q, InPlace(q)) /\ InPlace(q).at \in {q.at, Elsewhere}
      /\ q.link = "offload" => InPlace(q).at = q.at
  BY <1>2, EditsAre
<1> QED
  BY <1>1, <1>2, <1>3 DEF Edited

LEMMA HeaderEditsAreTame ==
  ASSUME NEW p \in Packets
  PROVE  /\ Tame("MssClamp", p, mss_clamp(p)) /\ Tame("WinScaleManip", p, win_scale_manip(p))
         /\ Tame("TlsVersionSpoof", p, tls_version_overwrite(p))
         /\ Tame("HttpCaseMix", p, http_case_mix(p)) /\ Tame("WinSize", p, winsize(p))
         /\ Tame("PortShuffle", p, port_shuffle(p)) /\ Tame("XorFirst", p, xor_first(p))
         /\ \A r \in dscp_random(p) : Tame("DscpRandom", p, r)
<1>1. ASSUME NEW t \in EditsInPlace, NEW q \in {Summed(p), Stale(p)}
      PROVE  Tame(t, p, modified_only(InPlace(q)))
  <2>1. /\ InPlace(q) \in Kin(p) /\ Kept(p, InPlace(q))
        /\ ~Harms(t, p.link) => Intact(p, InPlace(q))
    BY EditsInPlaceAre DEF Edited, Kept, Intact, Harms
  <2> QED
    BY <2>1, ModifyIsTame DEF Editors
<1>2. Tame("MssClamp", p, mss_clamp(p)) /\ Tame("WinScaleManip", p, win_scale_manip(p))
  BY <1>1, PassthroughIsTame DEF mss_clamp, win_scale_manip, EditsInPlace
<1>3. Tame("TlsVersionSpoof", p, tls_version_overwrite(p))
  BY <1>1, PassthroughIsTame DEF tls_version_overwrite, EditsInPlace
<1>4. Tame("HttpCaseMix", p, http_case_mix(p))
  <2>1. /\ Stale(p) \in Kin(p) /\ Kept(p, Stale(p))
        /\ ~Harms("HttpCaseMix", p.link) => Intact(p, Stale(p))
    BY EditsAre DEF Edited, Kept, Intact, Harms, Unsummed
  <2> QED
    BY <2>1, ModifyIsTame, PassthroughIsTame DEF http_case_mix, Editors, Unsummed
<1>5. Tame("WinSize", p, winsize(p))
  <2>1. Summed(p) \in Kin(p) /\ Kept(p, Summed(p)) /\ Intact(p, Summed(p))
    BY EditsAre DEF Edited, Kept, Intact
  <2> QED
    BY <2>1, ModifyIsTame DEF winsize, Editors
<1>6. ASSUME NEW q \in {p, Summed(p)} PROVE [q EXCEPT !.at = Elsewhere] \in Kin(p)
                                            /\ Kept(p, [q EXCEPT !.at = Elsewhere])
  <2>1. q \in Kin(p) /\ q.data = p.data /\ q.ttl = p.ttl
    BY EditsAre, PacketFields DEF Edited
  <2>2. q \in Packets /\ Kin(q) = Kin(p)
    BY <2>1, KinOfKin
  <2>3. [q EXCEPT !.at = Elsewhere] \in Kin(p)
    BY <2>2, EditsStay, Sizes
  <2> QED
    BY <2>1, <2>2, <2>3 DEF Kept, Packets, Segments
<1>7. Tame("PortShuffle", p, port_shuffle(p)) /\ Tame("XorFirst", p, xor_first(p))
  BY <1>6, ModifyIsTame DEF port_shuffle, xor_first, Harms
<1>8. ASSUME NEW r \in dscp_random(p) PROVE Tame("DscpRandom", p, r)
  <2> DEFINE q == [p EXCEPT !.bad = @ \ {"ip"}]
  <2>1. q \in Kin(p) /\ Kept(p, q) /\ Intact(p, q)
    BY EditsStay, PacketFields DEF Kept, Intact, Packets, Segments
  <2> HIDE DEF q
  <2>2. r = Passthrough \/ r = modified_only(q)
    BY DEF dscp_random, q
  <2> QED
    BY <2>1, <2>2, ModifyIsTame, PassthroughIsTame DEF Editors
<1> QED
  BY <1>2, <1>3, <1>4, <1>5, <1>7, <1>8
\* Of the edits of the stream itself only the type is said.
LEMMA StreamEditsAreTame ==
  ASSUME NEW p \in Packets
  PROVE  /\ Tame("TsMd5", p, ts_md5(p)) /\ Tame("TlsRecordPad", p, tls_record_pad(p))
         /\ \A r \in sni_masking(p) : Tame("SniMasking", p, r)
         /\ Tame("ContentLengthFuzz", p, content_length_fuzz(p))
         /\ Tame("HttpUpgradeAbuse", p, http_upgrade_abuse(p))
         /\ \A r \in wclamp(p) : Tame("Wclamp", p, r)
<1> DEFINE With(data) == [p EXCEPT !.data = data]
<1>1. ASSUME NEW t \in EditsTheStream, NEW q \in Kin(p) PROVE Tame(t, p, modified_only(q))
  BY ModifyIsTame
<1>2. ASSUME NEW q \in Kin(p)
      PROVE  Summed(q) \in Kin(p) /\ InPlace(Summed(q)) \in Kin(p)
             /\ [InPlace(Summed(q)) EXCEPT !.form = FALSE] \in Kin(p)
  <2>1. q \in Packets /\ Kin(q) = Kin(p)
    BY KinOfKin
  <2>2. Summed(q) \in Kin(p) /\ InPlace(Summed(q)) \in Kin(p)
    BY <2>1, EditsInPlaceAre DEF Edited
  <2>3. InPlace(Summed(q)) \in Packets /\ Kin(InPlace(Summed(q))) = Kin(p)
    BY <2>2, KinOfKin
  <2> QED
    BY <2>2, <2>3, EditsStay
<1>3. p \in Kin(p) /\ \A data \in Bytes : With(data) \in Kin(p)
  BY PacketFields, EditsStay
<1>4. ASSUME NEW m \in Nat
      PROVE  p.data \o Foreign(m) \in Bytes /\ Foreign(m) \o p.data \in Bytes
             /\ Front(p.data) \o Foreign(m) \o <<Last(p.data)>> \in Bytes
  <2>1. Foreign(m) \in Seq(0 .. Length) /\ p.data \in Seq(0 .. Length) /\ p.data # << >>
    BY Sizes, PacketFields DEF Foreign, Bytes
  <2>2. Front(p.data) \in Seq(0 .. Length) /\ Last(p.data) \in 0 .. Length
    <3>1. Len(p.data) \in Nat \ {0}
      BY PacketFields
    <3>2. Last(p.data) \in 0 .. Length
      BY <3>1, PacketFields DEF Last
    <3>3. Front(p.data) \in Seq(0 .. Length)
      BY <3>1, PacketFields, SubSeqProperties DEF Front
    <3> QED
      BY <3>2, <3>3
  <2>3. p.data \o Foreign(m) \in Seq(0 .. Length) /\ Foreign(m) \o p.data \in Seq(0 .. Length)
        /\ Front(p.data) \o Foreign(m) \o <<Last(p.data)>> \in Seq(0 .. Length)
    BY <2>1, <2>2, Z3
  <2>4. /\ Len(p.data \o Foreign(m)) # 0 /\ Len(Foreign(m) \o p.data) # 0
        /\ Len(Front(p.data) \o Foreign(m) \o <<Last(p.data)>>) # 0
    BY <2>1, <2>2, Z3
  <2> QED
    BY <2>3, <2>4 DEF Bytes
<1>5. Tame("TsMd5", p, ts_md5(p))
  <2>1. With(Foreign(2) \o p.data) \in Kin(p)
    BY <1>3, <1>4
  <2>2. ts_md5(p) = modified_only(InPlace(Summed(
                      IF HasPayload(p) THEN With(Foreign(2) \o p.data) ELSE p)))
    BY DEF ts_md5
  <2> QED
    BY <1>1, <1>2, <1>3, <2>1, <2>2 DEF EditsTheStream
<1>6. Tame("TlsRecordPad", p, tls_record_pad(p))
  BY <1>1, <1>2, <1>3, <1>4, Sizes, PassthroughIsTame DEF tls_record_pad, EditsTheStream
<1>7. \A r \in sni_masking(p) : Tame("SniMasking", p, r)
  <2>1. ASSUME NEW cut \in NameCuts(p) PROVE [p EXCEPT !.data[cut] = 0] \in Kin(p)
    <3>1. [p.data EXCEPT ![cut] = 0] \in Bytes
      BY PacketFields, Sizes DEF Bytes, NameCuts
    <3>2. [p EXCEPT !.data[cut] = 0] = With([p.data EXCEPT ![cut] = 0])
      BY DEF Packets, Segments
    <3> QED
      BY <1>3, <3>1, <3>2
  <2> QED
    BY <1>1, <1>2, <2>1, PassthroughIsTame DEF sni_masking, EditsTheStream
<1>8. WithHeader(p) \in Kin(p)
  <2>1. WithHeader(p) = InPlace(Summed(
             With(Front(p.data) \o Foreign(Insertion) \o <<Last(p.data)>>)))
    BY DEF WithHeader
  <2> QED
    BY <1>2, <1>3, <1>4, <2>1, Sizes
<1>9. /\ Tame("ContentLengthFuzz", p, content_length_fuzz(p))
      /\ Tame("HttpUpgradeAbuse", p, http_upgrade_abuse(p))
  BY <1>1, <1>8, PassthroughIsTame DEF content_length_fuzz, http_upgrade_abuse, EditsTheStream
<1>10. \A r \in wclamp(p) : Tame("Wclamp", p, r)
  <2> DEFINE e == InPlace(Summed(p))  n == Len(p.data)
             q(i) == [e EXCEPT !.data = SubSeq(p.data, 1, i - 1) \o SubSeq(p.data, i + 2, n),
                               !.form = p.link # "ipv6"]
  <2>1. e \in Kin(p) /\ [e EXCEPT !.form = FALSE] \in Kin(p)
    BY <1>2, <1>3
  <2> HIDE DEF e
  <2>2. e \in Packets /\ Kin(e) = Kin(p)
    BY <2>1, KinOfKin
  <2>3. ASSUME NEW i \in 1 .. n - 2 PROVE q(i) \in Kin(p)
    <3>1. n \in Nat /\ i \in 1 .. n /\ i + 2 \in 1 .. n
      BY PacketFields
    <3>2. SubSeq(p.data, i + 2, n) \in Bytes
      BY <3>1, PartsOfPacket
    <3>3. SubSeq(p.data, 1, i - 1) \in Seq(0 .. Length)
      BY <3>1, PacketFields, SubSeqProperties
    <3>4. SubSeq(p.data, 1, i - 1) \o SubSeq(p.data, i + 2, n) \in Bytes
      BY <3>2, <3>3, Z3 DEF Bytes
    <3> HIDE DEF n
    <3> QED
      BY <3>4, <2>2 DEF Packets, Segments, Kin, Bytes
  <2> HIDE DEF q
  <2>4. wclamp(p) \subseteq {modified_only(e), modified_only([e EXCEPT !.form = FALSE])}
                            \cup {modified_only(q(i)) : i \in 1 .. n - 2}
    BY DEF wclamp, e, q
  <2> QED
    BY <1>1, <2>1, <2>3, <2>4 DEF EditsTheStream
<1> QED
  BY <1>5, <1>6, <1>7, <1>9, <1>10

\* A SYN is one unit, and SynHide leaves it alone.
LEMMA SynHideIsTame ==
  ASSUME NEW p \in Packets
  PROVE  Tame("SynHide", p, synhide(p))
<1>1. CASE IsSyn(p) /\ Len(p.data) > 1
  <2> DEFINE s == Decoy(p, p.at + 1, Tail(p.data))  r == modify_and_inject(p, s)
  <2>1. p.at + 1 \in Nat /\ Tail(p.data) \in Bytes
    <3>1. p.data \in Seq(0 .. Length) /\ p.data # << >> /\ 2 \in 1 .. Len(p.data)
      BY <1>1, PacketFields DEF Bytes
    <3>2. Tail(p.data) = SubSeq(p.data, 2, Len(p.data))
      BY <3>1, TailIsSubSeq
    <3>3. Len(p.data) \in 2 .. Len(p.data) /\ p.at + 1 \in Nat
      BY <3>1, PacketFields
    <3>4. SubSeq(p.data, 2, Len(p.data)) \in Bytes
      BY <3>1, <3>3, PartsOfPacket
    <3> QED
      BY <3>2, <3>3, <3>4, Zenon
  <2>2. s \in Kin(p) /\ Decoyed(p, s) /\ p \in Kin(p)
    BY <2>1, DecoyIs, PacketFields
  <2>3. Kept(p, p) /\ Intact(p, p) /\ ~(Len(p.data) <= Units(p.kind))
    BY <1>1 DEF Kept, Intact, IsSyn, Units
  <2> HIDE DEF s
  <2>4. r.modified = <<p>> /\ r.inject = <<s>> /\ r.drop_original = FALSE
    BY DEF modify_and_inject, Result
  <2>5. r \in Results(p)
    <3>1. <<p>> \in Seq(Kin(p)) /\ <<s>> \in Seq(Kin(p)) /\ Len(<<p>>) <= 1
      BY <2>2
    <3> QED
      BY <3>1 DEF modify_and_inject, Result, Results
  <2>6. Tame("SynHide", p, r)
    BY <2>2, <2>3, <2>4, <2>5 DEF Tame
  <2> QED
    BY <1>1, <2>6 DEF synhide, s
<1>2. CASE ~(IsSyn(p) /\ Len(p.data) > 1)
  BY <1>2, PassthroughIsTame DEF synhide
<1> QED
  BY <1>1, <1>2

LEMMA QuicIsTame ==
  ASSUME NEW p \in Packets
  PROVE  /\ \A t : /\ Tame(t, p, quic_retry_inject(p)) /\ Tame(t, p, quic_stream_reset(p))
                   /\ Tame(t, p, quic_initial_inject(p)) /\ Tame(t, p, quic_max_streams(p))
                   /\ Tame(t, p, quic_short_header_poison(p)) /\ Tame(t, p, udp2icmp(p))
                   /\ Tame(t, p, quic_version_downgrade(p)) /\ Tame(t, p, udp_coalescing(p))
                   /\ Tame(t, p, doppelganger_grease(p)) /\ Tame(t, p, quic_long_header_drop(p))
                   /\ \A r \in quic_connection_close(p) \cup quic_padding_flood(p) : Tame(t, p, r)
                   /\ \A policy \in QuicFallbackPolicy, dropped \in Nat :
                        \A r \in quic_blocking(p, policy, dropped) : Tame(t, p, r)
         /\ \A r \in quic_normalizer(p) : Tame("QuicNormalizer", p, r)
<1> USE PacketFields, PassthroughIsTame, Sizes
<1>1. /\ Sealed(p) \in Kin(p) /\ Decoyed(p, Sealed(p))
      /\ Noise(p) \in Kin(p) /\ Decoyed(p, Noise(p))
  BY DecoyIs, ForeignIs DEF Sealed, Noise, Datagram
<1>2. ShortInitial(p) \in Kin(p) /\ Decoyed(p, ShortInitial(p))
  <2>1. Noise(p) \in Packets /\ Kin(Noise(p)) = Kin(p)
    BY <1>1, KinOfKin
  <2> QED
    BY <1>1, <2>1, EditsStay DEF ShortInitial, Decoyed, Ghost, Packets, Segments
<1>3. ASSUME NEW t
      PROVE  /\ Tame(t, p, inject_only(Sealed(p))) /\ Tame(t, p, inject_only(Noise(p)))
             /\ Tame(t, p, inject_only(ShortInitial(p)))
             /\ Tame(t, p, inject_many([i \in 1 .. 5 |-> Noise(p)]))
             /\ Tame(t, p, inject_many([i \in 1 .. 5 |-> ShortInitial(p)]))
  BY <1>1, <1>2, InjectOneIsTame, InjectManyIsTame
<1>4. ASSUME NEW t, IsUdp(p) PROVE Tame(t, p, drop_packet)
  BY <1>4 DEF Tame, drop_packet, Result, Results, IsUdp
<1>5. ASSUME NEW t
      PROVE  /\ Tame(t, p, quic_retry_inject(p)) /\ Tame(t, p, quic_stream_reset(p))
             /\ Tame(t, p, quic_initial_inject(p)) /\ Tame(t, p, quic_max_streams(p))
             /\ Tame(t, p, quic_short_header_poison(p)) /\ Tame(t, p, udp2icmp(p))
             /\ Tame(t, p, quic_version_downgrade(p)) /\ Tame(t, p, udp_coalescing(p))
             /\ Tame(t, p, doppelganger_grease(p)) /\ Tame(t, p, quic_long_header_drop(p))
  BY <1>3, <1>4
     DEF quic_retry_inject, quic_stream_reset, quic_initial_inject, quic_max_streams,
         quic_short_header_poison, udp2icmp, quic_version_downgrade, udp_coalescing,
         doppelganger_grease, quic_long_header_drop, OnLongHeader, IsLongHeader
<1>6. ASSUME NEW t, NEW r \in quic_connection_close(p) \cup quic_padding_flood(p)
      PROVE  Tame(t, p, r)
  BY <1>3 DEF quic_connection_close, quic_padding_flood, build_quic_connection_close_packet
<1>7. ASSUME NEW t, NEW policy \in QuicFallbackPolicy, NEW dropped \in Nat,
             NEW r \in quic_blocking(p, policy, dropped)
      PROVE  Tame(t, p, r)
  BY <1>3, <1>4 DEF quic_blocking, OrDropped, OnLongHeader, IsLongHeader, QuicFallbackPolicy,
                    build_quic_connection_close_packet, build_quic_retry_packet
<1>8. ASSUME NEW r \in quic_normalizer(p) PROVE Tame("QuicNormalizer", p, r)
  <2> DEFINE q == [InPlace(p) EXCEPT !.at = Elsewhere]
  <2>1. InPlace(p) \in Kin(p) /\ InPlace(p).data = p.data /\ InPlace(p).ttl = p.ttl
    BY EditsAre DEF Edited
  <2>2. InPlace(p) \in Packets /\ Kin(InPlace(p)) = Kin(p)
    BY <2>1, KinOfKin
  <2>3. q \in Kin(p) /\ Kept(p, q)
    BY <2>1, <2>2, EditsStay DEF Kept, Packets, Segments
  <2> HIDE DEF q
  <2>4. r = Passthrough \/ (p.kind = "quic" /\ r = modified_only(q))
    BY DEF quic_normalizer, OnLongHeader, IsLongHeader, IsUdp, q
  <2>5. CASE r = Passthrough
    BY <2>5
  <2>6. CASE p.kind = "quic" /\ r = modified_only(q)
    BY <2>3, <2>6, ModifyIsTame
  <2> QED
    BY <2>4, <2>5, <2>6
<1> QED
  BY <1>5, <1>6, <1>7, <1>8
\* Every technique but those that cut the packet, rewrite what was injected, or
\* count what they drop.
LEMMA OutcomesAreTame ==
  ASSUME NEW p \in Packets, NEW t \in InUse,
         t \notin RealSplits \cup {"BadChecksum", "TtlManipulation", "QuicBlocking"},
         NEW r \in Outcomes(t, p)
  PROVE  Tame(t, p, r)
<1> USE PassthroughIsTame
<1>1. ASSUME t \in Split, NEW q \in SplitOutcomes(t, p) PROVE Tame(t, p, q)
  <2>1. CASE t \in {"FakeDataSplit", "HostFakeSplit", "FakeDataDisorder", "PktReorder"}
    <3>1. t = "PktReorder" => Used("PktReorder")
      BY DEF InUse, Stands
    <3> QED
      BY <1>1, <2>1, <3>1, FakesAreTame, FakeDataIsTame, PktReorderIsTame DEF SplitOutcomes
  <2>2. CASE t \in {"ByteByByte", "SniMicrofrag", "TlsRecordRewrap", "SniRecordFrag"}
    BY <1>1, <2>2, PiecesAreTame, RewrapsAreTame DEF SplitOutcomes
  <2>3. CASE t \in {"FragOverlap", "IpFragPrimitives", "SniMasking"}
    BY <1>1, <2>3, FragmentsAreTame, StreamEditsAreTame DEF SplitOutcomes
  <2>4. CASE t \in {"UdpCoalescing", "QuicVersionDowngrade"}
    BY <1>1, <2>4, QuicIsTame DEF SplitOutcomes
  <2> QED
    BY <1>1, <2>1, <2>2, <2>3, <2>4 DEF Split, RealSplits
<1>2. ASSUME t \in InvalidatesSeq, NEW q \in SeqOutcomes(t, p) PROVE Tame(t, p, q)
  <2>1. CASE t \in {"FakeSni", "OobInjection", "HostFake", "SeqSpoof", "FakeRst", "Disoob"}
    BY <1>2, <2>1, FakesAreTame, ElsewhereIsTame, PiecesAreTame DEF SeqOutcomes
  <2>2. CASE t \in {"SynData", "SynHide", "SynFloodDecoy"}
    BY <1>2, <2>2, SynDecoysAreTame, SynHideIsTame DEF SeqOutcomes
  <2>3. CASE t \in {"Udp2Icmp", "QuicRetryInject", "QuicStreamReset", "QuicInitialInject",
                    "QuicShortHeaderPoison", "DoppelgangerGrease"}
    BY <1>2, <2>3, QuicIsTame DEF SeqOutcomes
  <2>4. CASE t \in {"QuicConnectionClose", "QuicPaddingFlood"}
    BY <1>2, <2>4, QuicIsTame DEF SeqOutcomes
  <2>5. CASE t \in {"SynAckSplit", "AckSuppress", "RstSelective", "TcpPreopen"}
    BY <1>2, <2>5 DEF SeqOutcomes
  <2> QED
    BY <1>2, <2>1, <2>2, <2>3, <2>4, <2>5 DEF InvalidatesSeq
<1>3. ASSUME t \in InvalidatesPayloadLength, NEW q \in LengthOutcomes(t, p) PROVE Tame(t, p, q)
  <2>1. CASE t \in {"TlsRecordPad", "ContentLengthFuzz"}
    BY <1>3, <2>1, StreamEditsAreTame DEF LengthOutcomes
  <2>2. CASE t \in {"ChunkObfuscation", "QuicMaxStreams"}
    BY <1>3, <2>2, HttpDecoysAreTame, QuicIsTame DEF LengthOutcomes
  <2>3. CASE t \in {"H2SettingsFlood", "H2RstPadding", "H2WindowUpdateFlood",
                    "H2PriorityAbuse", "H2Goaway"}
    BY <1>3, <2>3, FramesAreTame DEF LengthOutcomes
  <2> QED
    BY <1>3, <2>1, <2>2, <2>3 DEF InvalidatesPayloadLength
<1>4. ASSUME t \in HeaderOnly, NEW q \in HeaderOutcomes(t, p) PROVE Tame(t, p, q)
  <2>1. CASE t \in {"DscpRandom", "MssClamp", "WinSize", "WinScaleManip", "TlsVersionSpoof",
                    "XorFirst", "PortShuffle", "HttpCaseMix"}
    BY <1>4, <2>1, HeaderEditsAreTame DEF HeaderOutcomes
  <2>2. CASE t \in {"Wclamp", "TsMd5", "HttpUpgradeAbuse"}
    BY <1>4, <2>2, StreamEditsAreTame DEF HeaderOutcomes
  <2>3. CASE t \in {"QuicLongHeaderDrop", "QuicNormalizer"}
    BY <1>4, <2>3, QuicIsTame DEF HeaderOutcomes
  <2>4. CASE t \in {"WgObfs", "H2FrameOrdering", "Http11Pipeline"}
    BY <1>4, <2>4, ElsewhereIsTame, FramesAreTame, HttpDecoysAreTame DEF HeaderOutcomes
  <2>5. CASE t \in {"RstDropIpId", "MutualSpoof", "ChaCha20"}
    BY <1>4, <2>5 DEF HeaderOutcomes
  <2> QED
    BY <1>4, <2>1, <2>2, <2>3, <2>4, <2>5 DEF HeaderOnly
<1>5. t \in Split \/ t \in InvalidatesSeq \/ t \in InvalidatesPayloadLength \/ t \in HeaderOnly
  BY DEF InUse, Stands, DesyncTechnique, InvalidatesSeq, HeaderOnly
<1>6. CASE t \in OnOtherPackets \cup Disabled
  BY <1>6 DEF Outcomes, OnOtherPackets, Disabled, Split, InvalidatesSeq, InvalidatesPayloadLength,
              HeaderOnly, SeqOutcomes, HeaderOutcomes
<1>7. CASE t \notin OnOtherPackets \cup Disabled
  <2>1. \/ t \in Split /\ r \in SplitOutcomes(t, p)
        \/ t \in InvalidatesSeq /\ r \in SeqOutcomes(t, p)
        \/ t \in InvalidatesPayloadLength /\ r \in LengthOutcomes(t, p)
        \/ t \in HeaderOnly /\ r \in HeaderOutcomes(t, p)
    BY <1>5, <1>7 DEF Outcomes
  <2> QED
    BY <1>1, <1>2, <1>3, <1>4, <2>1
<1> QED
  BY <1>6, <1>7
-----------------------------------------------------------------------------
(* Techniques that cut the packet.                                           *)

\* A segment that holds some bytes of p at their positions, and arrives if p's
\* TTL lets it.
Part(p, s) ==
  /\ s \in Kin(p) /\ s.ttl = p.ttl /\ s.bad = {} /\ s.form
  /\ \E from \in 0 .. Len(p.data) - 1 : \E to \in from + 1 .. Len(p.data) :
        s.at = p.at + from /\ s.data = SubSeq(p.data, from + 1, to)

OnceIn(seq, i) ==
  \E k \in DOMAIN seq : Brings(seq[k], i) /\ \A l \in DOMAIN seq : Brings(seq[l], i) => l = k
NoneIn(seq, i) == \A k \in DOMAIN seq : ~Brings(seq[k], i)

\* What a cut leaves of p: decoys and parts of it, which bring each of its
\* positions once.
Deals(p, mod, inj) ==
  /\ inj \in Seq(Kin(p)) /\ mod \in Seq(Kin(p)) /\ Len(mod) <= 1
  /\ \A k \in DOMAIN inj : Decoyed(p, inj[k]) \/ Part(p, inj[k])
  /\ \A k \in DOMAIN mod : Part(p, mod[k])
  /\ (OffsetLowers /\ p.ttl = OwnTtl) =>
       \A i \in p.at .. p.at + Len(p.data) - 1 : i < ServerWindow =>
          \/ OnceIn(inj, i) /\ \A k \in DOMAIN mod : ~Brings(mod[k], i)
          \/ NoneIn(inj, i) /\ mod # << >> /\ Brings(mod[1], i)
Cut(p, r) ==
  /\ r \in Results(p)
  /\ r.modified # << >> \/ r.drop_original
  /\ Deals(p, r.modified, r.inject)

\* Part k of n parts of d bytes, of which the last takes what is left.
Piece(p, d, n, k) == Real(p, (k - 1) * d, IF k = n THEN Len(p.data) ELSE k * d)
Divides(p, d, n) == d \in Nat \ {0} /\ n \in Nat \ {0} /\ (n - 1) * d < Len(p.data)

LEMMA Monotone ==
  ASSUME NEW d \in Nat \ {0}
  PROVE  /\ \A a \in Nat : a * d \in Nat /\ (a + 1) * d = a * d + d
         /\ \A a, b \in Nat : a <= b => a * d <= b * d
<1>1. \A a \in Nat : a * d \in Nat /\ (a + 1) * d = a * d + d
  OBVIOUS
<1>2. ASSUME NEW a \in Nat, NEW b \in Nat, a <= b PROVE a * d <= b * d
  <2>1. CASE a = b
    BY <1>1, <2>1
  <2>2. CASE a < b
    <3>1. a * d \in Nat /\ b * d \in Nat /\ a * d + d <= b * d
      BY <2>2, Multiples
    <3> QED
      BY <3>1
  <2> QED
    BY <1>2, <2>1, <2>2
<1> QED
  BY <1>1, <1>2

\* Where the parts lie: in order, and none empty.
LEMMA Bounds ==
  ASSUME NEW p \in Packets, NEW d, NEW n, Divides(p, d, n), NEW k \in 1 .. n
  PROVE  /\ (k - 1) * d \in 0 .. Len(p.data) - 1
         /\ k # n => k * d \in (k - 1) * d + 1 .. Len(p.data) - 1
<1>1. d \in Nat \ {0} /\ n \in Nat /\ k - 1 \in Nat /\ k \in Nat /\ n - 1 \in Nat /\ k - 1 <= n - 1
      /\ Len(p.data) \in Nat /\ (k # n => k <= n - 1) /\ (n - 1) * d < Len(p.data)
  BY PacketFields DEF Divides
<1>2. (k - 1) * d \in Nat /\ (n - 1) * d \in Nat /\ k * d \in Nat
  BY <1>1, Monotone
<1>3. (k - 1) * d <= (n - 1) * d /\ (k # n => k * d <= (n - 1) * d)
  BY <1>1, Monotone
<1>4. k * d = (k - 1) * d + d
  <2>1. ((k - 1) + 1) * d = (k - 1) * d + d
    BY <1>1, Monotone
  <2>2. (k - 1) + 1 = k
    BY <1>1
  <2> QED
    BY <2>1, <2>2
<1> DEFINE A == (k - 1) * d  B == (n - 1) * d  C == k * d
<1> HIDE DEF A, B, C
<1>5. A \in Nat /\ B \in Nat /\ C \in Nat /\ A <= B /\ (k # n => C <= B) /\ C = A + d
      /\ B < Len(p.data)
  BY <1>1, <1>2, <1>3, <1>4 DEF A, B, C
<1>6. A \in 0 .. Len(p.data) - 1 /\ (k # n => C \in A + 1 .. Len(p.data) - 1)
  BY <1>1, <1>5
<1> QED
  BY <1>6 DEF A, C

LEMMA PieceIs ==
  ASSUME NEW p \in Packets, NEW d, NEW n, Divides(p, d, n), NEW k \in 1 .. n
  PROVE  /\ Part(p, Piece(p, d, n, k))
         /\ \A j \in 0 .. Len(p.data) - 1 :
              Carries(Piece(p, d, n, k), p.at + j)
                <=> (k - 1) * d <= j /\ (k # n => j < k * d)
<1> DEFINE from == (k - 1) * d  to == IF k = n THEN Len(p.data) ELSE k * d
<1>1. Len(p.data) \in Nat /\ p.at \in Nat /\ p.ttl \in Nat
  BY PacketFields
<1>2. from \in 0 .. Len(p.data) - 1 /\ to \in from + 1 .. Len(p.data)
      /\ (k = n => to = Len(p.data)) /\ (k # n => to = k * d)
  BY <1>1, Bounds
<1>3. Piece(p, d, n, k) = Real(p, from, to)
  BY DEF Piece
<1> HIDE DEF from, to
<1>4. from + 1 \in 1 .. Len(p.data) /\ to \in from + 1 .. Len(p.data) /\ p.at + from \in Nat
  BY <1>1, <1>2
<1>5. /\ SubSeq(p.data, from + 1, to) \in Bytes
      /\ Len(SubSeq(p.data, from + 1, to)) = to - from
  <2>1. /\ SubSeq(p.data, from + 1, to) \in Bytes
        /\ Len(SubSeq(p.data, from + 1, to)) = to - (from + 1) + 1
    BY <1>4, PartsOfPacket
  <2> QED
    BY <1>1, <1>2, <2>1
<1> DEFINE s == Real(p, from, to)
<1>6. /\ s \in Kin(p) /\ s.at = p.at + from /\ s.data = SubSeq(p.data, from + 1, to)
      /\ s.ttl = p.ttl /\ s.bad = {} /\ s.form
  <2> DEFINE data == SubSeq(p.data, from + 1, to)  at == p.at + from
  <2>1. s = Built(p, at, data, p.ttl)
    BY DEF Real
  <2>2. data \in Bytes /\ at \in Nat /\ p.ttl \in Nat
    BY <1>1, <1>4, <1>5
  <2> HIDE DEF data, at, s
  <2>3. /\ s \in Kin(p) /\ s.at = at /\ s.data = data /\ s.ttl = p.ttl /\ s.bad = {} /\ s.form
    BY <2>1, <2>2, BuiltIs
  <2> QED
    BY <2>3 DEF data, at
<1> HIDE DEF s
<1>7. Part(p, s)
  BY <1>2, <1>6 DEF Part
<1>8. \A j \in 0 .. Len(p.data) - 1 : Carries(s, p.at + j) <=> from <= j /\ j < to
  <2>1. s.at = p.at + from /\ Len(s.data) = to - from
    BY <1>5, <1>6
  <2> QED
    BY <1>1, <1>2, <2>1 DEF Carries
<1>9. \A j \in 0 .. Len(p.data) - 1 : (j < to) <=> (k # n => j < k * d)
  BY <1>1, <1>2
<1> QED
  BY <1>3, <1>7, <1>8, <1>9 DEF s, from

\* Each byte of the packet is in one part.
LEMMA OnePiece ==
  ASSUME NEW p \in Packets, NEW d, NEW n, Divides(p, d, n), NEW j \in 0 .. Len(p.data) - 1
  PROVE  \E k \in 1 .. n : \A l \in 1 .. n : Carries(Piece(p, d, n, l), p.at + j) <=> l = k
<1> DEFINE q == j \div d
<1>1. d \in Nat \ {0} /\ n \in Nat \ {0} /\ j \in Nat
  BY PacketFields DEF Divides
<1>2. q \in Nat /\ q * d <= j /\ j < q * d + d /\ (q + 1) * d = q * d + d /\ q * d \in Nat
  <2>1. q \in Nat /\ q * d <= j /\ j < q * d + d
    BY <1>1, Division
  <2> HIDE DEF q
  <2> QED
    BY <1>1, <2>1, Monotone
<1> HIDE DEF q
<1>3. CASE q + 1 <= n
  <2>0. q + 1 \in 1 .. n
    BY <1>1, <1>2, <1>3
  <2> SUFFICES ASSUME NEW l \in 1 .. n
               PROVE  Carries(Piece(p, d, n, l), p.at + j) <=> l = q + 1
    BY <2>0, Zenon
  <2>1. Carries(Piece(p, d, n, l), p.at + j) <=> (l - 1) * d <= j /\ (l # n => j < l * d)
    BY PieceIs
  <2>2. CASE l = q + 1
    <3>1. l - 1 = q
      BY <1>2, <2>2
    <3> QED
      BY <1>2, <2>1, <2>2, <3>1
  <2>3. CASE l < q + 1
    <3>1. l # n /\ l <= q /\ l \in Nat
      BY <1>1, <1>2, <1>3, <2>3
    <3>2. l * d <= q * d /\ l * d \in Nat
      BY <1>1, <1>2, <3>1, Monotone
    <3>3. ~(j < l * d)
      BY <1>1, <1>2, <3>2
    <3> QED
      BY <2>1, <2>3, <3>1, <3>3, <1>2
  <2>4. CASE l > q + 1
    <3>1. q + 1 <= l - 1 /\ l - 1 \in Nat /\ q + 1 \in Nat
      BY <1>2, <2>4
    <3>2. (q + 1) * d <= (l - 1) * d /\ (l - 1) * d \in Nat
      BY <1>1, <3>1, Monotone
    <3>3. ~((l - 1) * d <= j)
      BY <1>1, <1>2, <3>2
    <3> QED
      BY <1>2, <2>1, <2>4, <3>3
  <2> QED
    BY <1>1, <1>2, <2>2, <2>3, <2>4
<1>4. CASE n < q + 1
  <2>0. n \in 1 .. n
    BY <1>1
  <2> SUFFICES ASSUME NEW l \in 1 .. n
               PROVE  Carries(Piece(p, d, n, l), p.at + j) <=> l = n
    BY <2>0, Zenon
  <2>1. Carries(Piece(p, d, n, l), p.at + j) <=> (l - 1) * d <= j /\ (l # n => j < l * d)
    BY PieceIs
  <2>2. n <= q /\ n \in Nat /\ l \in Nat /\ l - 1 \in Nat /\ l - 1 <= q /\ l <= q
    BY <1>1, <1>2, <1>4
  <2>3. (l - 1) * d <= q * d /\ l * d <= q * d /\ (l - 1) * d \in Nat /\ l * d \in Nat
    BY <1>1, <1>2, <2>2, Monotone
  <2>4. (l - 1) * d <= j /\ ~(j < l * d)
    BY <1>1, <1>2, <2>3
  <2> QED
    BY <2>1, <2>4
<1> QED
  BY <1>1, <1>2, <1>3, <1>4
\* Parts dealt out to a sequence of injects, at pos, and at most one of them to
\* the place of the packet.
Dealt(p, d, n, K, inj, pos) ==
  /\ K \subseteq 1 .. n /\ inj \in Seq(Kin(p)) /\ pos \in [K -> DOMAIN inj]
  /\ \A k \in K : inj[pos[k]] = Piece(p, d, n, k)
  /\ \A m \in DOMAIN inj : Decoyed(p, inj[m]) \/ \E k \in K : m = pos[k]
Rest(p, d, n, K, mod) ==
  \/ K = 1 .. n /\ mod = << >>
  \/ \E x \in 1 .. n : K = (1 .. n) \ {x} /\ mod = <<Piece(p, d, n, x)>>

LEMMA DecoysBringNothing ==
  ASSUME NEW p \in Packets, OffsetLowers, p.ttl <= OwnTtl, NEW s \in Kin(p), Decoyed(p, s),
         NEW i \in Int, i < ServerWindow
  PROVE  ~Brings(s, i)
<1>1. s.ttl \in Nat /\ s.at \in Nat /\ Len(s.data) \in Nat /\ (s.ttl < OwnTtl \/ s.at >= ServerWindow)
  BY PacketFields, KinOfKin DEF Decoyed, Ghost
<1>2. CASE s.ttl < OwnTtl
  BY <1>1, <1>2, Sizes DEF Brings
<1>3. CASE s.at >= ServerWindow
  BY <1>1, <1>3, Sizes DEF Brings, Carries
<1> QED
  BY <1>1, <1>2, <1>3

LEMMA DealtIsDeals ==
  ASSUME NEW p \in Packets, NEW d, NEW n, Divides(p, d, n),
         NEW K, NEW inj, NEW pos, Dealt(p, d, n, K, inj, pos),
         NEW mod, Rest(p, d, n, K, mod)
  PROVE  Deals(p, mod, inj)
<1> DEFINE P(k) == Piece(p, d, n, k)
<1>1. ASSUME NEW k \in 1 .. n PROVE P(k) \in Kin(p) /\ Part(p, P(k))
  <2>1. Part(p, P(k))
    BY PieceIs
  <2> HIDE DEF P
  <2> QED
    BY <2>1 DEF Part
<1> HIDE DEF P
<1>2. K \subseteq 1 .. n /\ inj \in Seq(Kin(p)) /\ pos \in [K -> DOMAIN inj]
      /\ (\A k \in K : inj[pos[k]] = P(k))
      /\ \A m \in DOMAIN inj : Decoyed(p, inj[m]) \/ \E k \in K : m = pos[k]
  BY DEF Dealt, P
<1>3. \/ K = 1 .. n /\ mod = << >>
      \/ \E x \in 1 .. n : K = (1 .. n) \ {x} /\ mod = <<P(x)>>
  BY DEF Rest, P
<1>4. mod \in Seq(Kin(p)) /\ Len(mod) <= 1 /\ \A k \in DOMAIN mod : Part(p, mod[k])
  <2>1. CASE mod = << >>
    BY <2>1
  <2>2. CASE \E x \in 1 .. n : mod = <<P(x)>>
    <3>1. PICK x \in 1 .. n : mod = <<P(x)>>
      BY <2>2
    <3>2. P(x) \in Kin(p) /\ Part(p, P(x))
      BY <1>1
    <3> QED
      BY <3>1, <3>2
  <2> QED
    BY <1>3, <2>1, <2>2
<1>5. \A m \in DOMAIN inj : Decoyed(p, inj[m]) \/ Part(p, inj[m])
  BY <1>1, <1>2
<1>6. ASSUME OffsetLowers, p.ttl = OwnTtl,
             NEW i \in p.at .. p.at + Len(p.data) - 1, i < ServerWindow
      PROVE  \/ OnceIn(inj, i) /\ \A k \in DOMAIN mod : ~Brings(mod[k], i)
             \/ NoneIn(inj, i) /\ mod # << >> /\ Brings(mod[1], i)
  <2>1. \E k \in 1 .. n : \A l \in 1 .. n : Carries(P(l), i) <=> l = k
    <3>1. PICK j \in 0 .. Len(p.data) - 1 : i = p.at + j
      <4>1. p.at \in Nat /\ Len(p.data) \in Nat
        BY PacketFields
      <4>2. i - p.at \in 0 .. Len(p.data) - 1 /\ i = p.at + (i - p.at)
        BY <4>1
      <4> QED
        BY <4>2, Zenon
    <3>2. \E k \in 1 .. n : \A l \in 1 .. n : Carries(Piece(p, d, n, l), p.at + j) <=> l = k
      BY OnePiece
    <3> QED
      BY <3>1, <3>2, Zenon DEF P
  <2>2. PICK k \in 1 .. n : \A l \in 1 .. n : Carries(P(l), i) <=> l = k
    BY <2>1
  <2>3. \A l \in 1 .. n : Brings(P(l), i) <=> l = k
    BY <1>1, <1>6, <2>2, Sizes DEF Brings, SumsHold, validate_before_send, Part
  <2>4. ASSUME NEW m \in DOMAIN inj, Decoyed(p, inj[m]) PROVE ~Brings(inj[m], i)
    <3>1. inj[m] \in Kin(p) /\ i \in Int /\ p.ttl <= OwnTtl
      BY <1>2, <1>6, PacketFields, Sizes
    <3> QED
      BY <1>6, <2>4, <3>1, DecoysBringNothing
  <2>5. ASSUME NEW m \in DOMAIN inj, Brings(inj[m], i) PROVE k \in K /\ m = pos[k]
    BY <1>2, <2>3, <2>4, <2>5
  <2>6. CASE k \in K
    <3>1. pos[k] \in DOMAIN inj /\ Brings(inj[pos[k]], i)
      BY <1>2, <2>3, <2>6
    <3>2. OnceIn(inj, i)
      BY <2>5, <3>1 DEF OnceIn
    <3>3. \A l \in DOMAIN mod : ~Brings(mod[l], i)
      BY <1>3, <2>3, <2>6
    <3> QED
      BY <3>2, <3>3
  <2>7. CASE k \notin K
    <3>1. NoneIn(inj, i)
      BY <2>5, <2>7 DEF NoneIn
    <3>2. mod = <<P(k)>>
      BY <1>3, <2>2, <2>7
    <3> QED
      BY <2>3, <3>1, <3>2
  <2> QED
    BY <2>6, <2>7
<1> QED
  BY <1>2, <1>4, <1>5, <1>6 DEF Deals

\* A result made of them.
LEMMA DealtIsCut ==
  ASSUME NEW p \in Packets, NEW mod, NEW inj, Deals(p, mod, inj)
  PROVE  /\ Cut(p, Result(mod, inj, TRUE))
         /\ mod # << >> => Cut(p, Result(mod, inj, FALSE))
<1>1. ASSUME NEW drop \in BOOLEAN
      PROVE  Result(mod, inj, drop) \in Results(p)
  BY DEF Deals, Result, Results
<1> QED
  BY <1>1 DEF Cut, Result

\* The parts in their order, behind decoys; the last of them may replace the packet.
LEMMA CoveredIsDealt ==
  ASSUME NEW p \in Packets, NEW d, NEW n, Divides(p, d, n),
         NEW cover \in Seq(Kin(p)), \A k \in DOMAIN cover : Decoyed(p, cover[k]),
         NEW m \in Nat, m <= n
  PROVE  \E pos : Dealt(p, d, n, 1 .. m, cover \o [k \in 1 .. m |-> Piece(p, d, n, k)], pos)
<1> DEFINE body == [k \in 1 .. m |-> Piece(p, d, n, k)]
           inj == cover \o body
           pos == [k \in 1 .. m |-> Len(cover) + k]
<1>1. n \in Nat /\ 1 .. m \subseteq 1 .. n
  BY DEF Divides
<1>2. \A k \in 1 .. m : Piece(p, d, n, k) \in Kin(p)
  BY <1>1, PieceIs DEF Part
<1>3. body \in Seq(Kin(p)) /\ Len(body) = m /\ \A k \in 1 .. m : body[k] = Piece(p, d, n, k)
  BY <1>1, <1>2
<1> HIDE DEF body
<1>4. /\ inj \in Seq(Kin(p)) /\ Len(cover) \in Nat /\ Len(inj) = Len(cover) + m
      /\ DOMAIN inj = 1 .. Len(cover) + m
      /\ \A k \in 1 .. Len(cover) : inj[k] = cover[k]
      /\ \A k \in 1 .. m : inj[Len(cover) + k] = body[k]
  BY <1>1, <1>3
<1> HIDE DEF inj
<1>5. pos \in [1 .. m -> DOMAIN inj]
  BY <1>1, <1>4
<1>6. \A k \in 1 .. m : inj[pos[k]] = Piece(p, d, n, k)
  BY <1>3, <1>4
<1>7. \A l \in DOMAIN inj : Decoyed(p, inj[l]) \/ \E k \in 1 .. m : l = pos[k]
  <2> TAKE l \in DOMAIN inj
  <2>1. CASE l <= Len(cover)
    <3>1. l \in 1 .. Len(cover) /\ l \in DOMAIN cover
      BY <1>4, <2>1
    <3> QED
      BY <1>4, <3>1
  <2>2. CASE l > Len(cover)
    <3>1. l - Len(cover) \in 1 .. m /\ l = Len(cover) + (l - Len(cover))
      BY <1>1, <1>4, <2>2
    <3> QED
      BY <3>1
  <2> QED
    BY <1>4, <2>1, <2>2
<1> HIDE DEF pos
<1>8. Dealt(p, d, n, 1 .. m, inj, pos)
  BY <1>1, <1>4, <1>5, <1>6, <1>7 DEF Dealt
<1> QED
  BY <1>8 DEF inj, body

LEMMA CoverIs ==
  ASSUME NEW p \in Packets, NEW n \in Nat \ {0}
  PROVE  /\ CoverDecoy(p, n) \in Seq(Kin(p))
         /\ \A k \in DOMAIN CoverDecoy(p, n) : Decoyed(p, CoverDecoy(p, n)[k])
<1>1. /\ Decoy(p, p.at, Foreign(n)) \in Kin(p) /\ Decoyed(p, Decoy(p, p.at, Foreign(n)))
  BY PacketFields, ForeignIs, DecoyIs
<1> QED
  BY <1>1 DEF CoverDecoy
\* Parts of at most the bytes there are.
LEMMA DividesIs ==
  ASSUME NEW p \in Packets, NEW d \in Nat \ {0}, NEW n \in Nat \ {0}, n * d <= Len(p.data)
  PROVE  Divides(p, d, n)
<1>1. n - 1 \in Nat /\ (n - 1) + 1 = n /\ Len(p.data) \in Nat
  BY PacketFields
<1>2. (n - 1) * d \in Nat /\ n * d \in Nat /\ n * d = (n - 1) * d + d
  BY <1>1, Monotone
<1>3. (n - 1) * d < Len(p.data)
  BY <1>1, <1>2
<1> QED
  BY <1>3 DEF Divides

\* All parts injected, and the packet dropped; or the last in the packet's place.
LEMMA InOrderIsCut ==
  ASSUME NEW p \in Packets, NEW d, NEW n, Divides(p, d, n),
         NEW cover \in Seq(Kin(p)), \A k \in DOMAIN cover : Decoyed(p, cover[k])
  PROVE  /\ Cut(p, Result(<< >>, cover \o [k \in 1 .. n |-> Piece(p, d, n, k)], TRUE))
         /\ Cut(p, Result(<<Piece(p, d, n, n)>>,
                          cover \o [k \in 1 .. n - 1 |-> Piece(p, d, n, k)], FALSE))
<1>1. n \in Nat \ {0} /\ n - 1 \in Nat /\ n - 1 <= n /\ n <= n /\ n \in 1 .. n
      /\ 1 .. n - 1 = (1 .. n) \ {n}
  BY DEF Divides
<1>2. Deals(p, << >>, cover \o [k \in 1 .. n |-> Piece(p, d, n, k)])
  <2>1. Rest(p, d, n, 1 .. n, << >>)
    BY DEF Rest
  <2> QED
    BY <1>1, <2>1, CoveredIsDealt, DealtIsDeals
<1>3. Deals(p, <<Piece(p, d, n, n)>>, cover \o [k \in 1 .. n - 1 |-> Piece(p, d, n, k)])
  <2>1. Rest(p, d, n, 1 .. n - 1, <<Piece(p, d, n, n)>>)
    BY <1>1 DEF Rest
  <2> QED
    BY <1>1, <2>1, CoveredIsDealt, DealtIsDeals
<1>4. <<Piece(p, d, n, n)>> # << >>
  OBVIOUS
<1> QED
  BY <1>2, <1>3, <1>4, DealtIsCut

LEMMA LesserIs ==
  ASSUME NEW a \in Nat, NEW b \in Nat
  PROVE  Lesser(a, b) \in Nat /\ Lesser(a, b) <= a /\ Lesser(a, b) <= b
BY DEF Lesser

LEMMA MultisplitIsCut ==
  ASSUME NEW p \in Packets, multisplit(p) # Passthrough
  PROVE  Cut(p, multisplit(p))
<1> DEFINE d == split_size  n == Lesser(split_count, Len(p.data) \div split_size)
           body == [i \in 1 .. n - 1 |-> Real(p, (i - 1) * split_size, i * split_size)]
<1>1. /\ ~(n <= 1)
      /\ multisplit(p) = Result(<<Real(p, (n - 1) * split_size, Len(p.data))>>,
                                CoverDecoy(p, split_size) \o body, FALSE)
  BY DEF multisplit
<1>2. Len(p.data) \in Nat /\ d \in Nat \ {0} /\ split_count \in Nat
  BY PacketFields, Sizes
<1>3. (Len(p.data) \div d) \in Nat /\ (Len(p.data) \div d) * d <= Len(p.data)
  BY <1>2, Division
<1>4. n \in Nat \ {0} /\ n <= Len(p.data) \div d
  <2>1. n \in Nat /\ n <= Len(p.data) \div d
    BY <1>2, <1>3, LesserIs
  <2> HIDE DEF n
  <2> QED
    BY <1>1, <2>1
<1> HIDE DEF n
<1>5. n * d <= (Len(p.data) \div d) * d /\ n * d \in Nat
  BY <1>2, <1>3, <1>4, Monotone
<1>6. Divides(p, d, n)
  <2>1. n * d <= Len(p.data)
    <3> DEFINE A == n * d  B == (Len(p.data) \div d) * d
    <3>1. B \in Nat
      BY <1>2, <1>3, Monotone
    <3> HIDE DEF A, B
    <3>2. A \in Nat /\ A <= B /\ B <= Len(p.data)
      BY <1>3, <1>5 DEF A, B
    <3>3. A <= Len(p.data)
      BY <1>2, <3>1, <3>2
    <3> QED
      BY <3>3 DEF A
  <2> QED
    BY <1>2, <1>4, <2>1, DividesIs
<1>7. body = [i \in 1 .. n - 1 |-> Piece(p, d, n, i)]
      /\ Real(p, (n - 1) * split_size, Len(p.data)) = Piece(p, d, n, n)
  BY <1>4 DEF Piece
<1>8. /\ CoverDecoy(p, d) \in Seq(Kin(p))
       /\ \A k \in DOMAIN CoverDecoy(p, d) : Decoyed(p, CoverDecoy(p, d)[k])
  BY <1>2, CoverIs
<1> HIDE DEF body
<1> QED
  BY <1>1, <1>6, <1>7, <1>8, InOrderIsCut

LEMMA TcpsegIsCut ==
  ASSUME NEW p \in Packets, tcpseg(p) # Passthrough
  PROVE  Cut(p, tcpseg(p))
<1> DEFINE d == max_seg_size  full == (Len(p.data) - 1) \div max_seg_size  n == full + 1
           body == [i \in 1 .. full |-> Real(p, (i - 1) * max_seg_size, i * max_seg_size)]
<1>1. tcpseg(p) = Result(<<Real(p, full * max_seg_size, Len(p.data))>>, body, FALSE)
  BY DEF tcpseg
<1>2. Len(p.data) \in Nat /\ Len(p.data) - 1 \in Nat /\ d \in Nat \ {0}
  BY PacketFields, Sizes
<1>3. full \in Nat /\ full * d <= Len(p.data) - 1
  BY <1>2, Division
<1> HIDE DEF full
<1>4. n \in Nat \ {0} /\ n - 1 = full /\ full * d \in Nat
  BY <1>2, <1>3, Monotone
<1>5. Divides(p, d, n)
  <2> DEFINE A == full * d
  <2> HIDE DEF A
  <2>1. A \in Nat /\ A <= Len(p.data) - 1
    BY <1>3, <1>4 DEF A
  <2>2. A < Len(p.data)
    BY <1>2, <2>1
  <2> QED
    BY <1>2, <1>4, <2>2 DEF Divides, A
<1> HIDE DEF n
<1>6. body = [i \in 1 .. n - 1 |-> Piece(p, d, n, i)]
      /\ Real(p, full * max_seg_size, Len(p.data)) = Piece(p, d, n, n)
  BY <1>4 DEF Piece
<1>7. << >> \in Seq(Kin(p)) /\ (\A k \in DOMAIN << >> : Decoyed(p, << >>[k]))
      /\ << >> \o [i \in 1 .. n - 1 |-> Piece(p, d, n, i)] = [i \in 1 .. n - 1 |-> Piece(p, d, n, i)]
  <2>1. [i \in 1 .. n - 1 |-> Piece(p, d, n, i)] \in Seq({Piece(p, d, n, i) : i \in 1 .. n - 1})
    BY <1>4
  <2> QED
    BY <2>1, ConcatEmptySeq
<1> HIDE DEF body
<1> QED
  BY <1>1, <1>5, <1>6, <1>7, InOrderIsCut
\* Backwards, every position is still brought as often.
LEMMA ReversedIsCut ==
  ASSUME NEW p \in Packets, NEW r, Cut(p, r)
  PROVE  Cut(p, [r EXCEPT !.inject = Reverse(@)])
<1> DEFINE s == r.inject  b == Reverse(s)  q == [r EXCEPT !.inject = b]
<1>1. s \in Seq(Kin(p)) /\ Len(s) \in Nat /\ DOMAIN s = 1 .. Len(s)
  BY DEF Cut, Deals
<1> HIDE DEF s
<1>2. b \in Seq(Kin(p)) /\ DOMAIN b = 1 .. Len(s) /\ \A k \in 1 .. Len(s) : b[k] = s[Len(s) - k + 1]
  BY <1>1 DEF Reverse
<1>3. \A k \in 1 .. Len(s) : Len(s) - k + 1 \in 1 .. Len(s) /\ Len(s) - (Len(s) - k + 1) + 1 = k
  BY <1>1
<1> HIDE DEF b
<1>4. \A i : (OnceIn(s, i) => OnceIn(b, i)) /\ (NoneIn(s, i) => NoneIn(b, i))
  <2> TAKE i
  <2>1. ASSUME OnceIn(s, i) PROVE OnceIn(b, i)
    <3>1. PICK k \in DOMAIN s : Brings(s[k], i) /\ \A l \in DOMAIN s : Brings(s[l], i) => l = k
      BY <2>1 DEF OnceIn
    <3>2. Len(s) - k + 1 \in DOMAIN b /\ Brings(b[Len(s) - k + 1], i)
      BY <1>1, <1>2, <1>3, <3>1
    <3>3. ASSUME NEW l \in DOMAIN b, Brings(b[l], i) PROVE l = Len(s) - k + 1
      <4>1. l \in 1 .. Len(s) /\ Len(s) - l + 1 = k
        BY <1>1, <1>2, <1>3, <3>1, <3>3
      <4> QED
        BY <1>1, <3>1, <4>1
    <3> QED
      BY <3>2, <3>3 DEF OnceIn
  <2>2. ASSUME NoneIn(s, i) PROVE NoneIn(b, i)
    BY <1>1, <1>2, <1>3, <2>2 DEF NoneIn
  <2> QED
    BY <2>1, <2>2
<1>5. q \in Results(p) /\ q.inject = b /\ q.modified = r.modified /\ q.drop_original = r.drop_original
  BY <1>2 DEF Cut, Results
<1>6. \A k \in DOMAIN b : Decoyed(p, b[k]) \/ Part(p, b[k])
  BY <1>1, <1>2, <1>3 DEF Cut, Deals, s
<1> HIDE DEF q
<1>7. Deals(p, q.modified, q.inject)
  BY <1>2, <1>4, <1>5, <1>6 DEF Cut, Deals, s
<1> QED
  BY <1>5, <1>7 DEF Cut, q, b, s

LEMMA MultidisorderIsCut ==
  ASSUME NEW p \in Packets
  PROVE  multidisorder(p) = Passthrough \/ Cut(p, multidisorder(p))
<1>1. CASE multisplit(p) = Passthrough
  <2>1. Reverse(<< >>) = << >>
    BY DEF Reverse
  <2> QED
    BY <1>1, <2>1 DEF multidisorder, Passthrough, Result
<1>2. CASE multisplit(p) # Passthrough
  BY <1>2, MultisplitIsCut, ReversedIsCut DEF multidisorder
<1> QED
  BY <1>1, <1>2

LEMMA DisorderIsCut ==
  ASSUME NEW p \in Packets, disorder(p) # Passthrough
  PROVE  Cut(p, disorder(p))
<1> DEFINE d == split_size  inj == <<Piece(p, d, 2, 2)>>  mod == <<Piece(p, d, 2, 1)>>
           pos == [k \in {2} |-> 1]
<1>1. /\ ~(Len(p.data) <= d)
      /\ disorder(p) = Result(<<Real(p, 0, d)>>, <<Real(p, d, Len(p.data))>>, TRUE)
  BY DEF disorder
<1>2. d \in Nat \ {0} /\ Len(p.data) \in Nat
  BY Sizes, PacketFields
<1>3. Divides(p, d, 2)
  BY <1>1, <1>2 DEF Divides
<1>4. Piece(p, d, 2, 1) = Real(p, 0, d) /\ Piece(p, d, 2, 2) = Real(p, d, Len(p.data))
  BY <1>2 DEF Piece
<1>5. Dealt(p, d, 2, {2}, inj, pos)
  <2>1. Piece(p, d, 2, 2) \in Kin(p)
    BY <1>3, PieceIs DEF Part
  <2> QED
    BY <2>1 DEF Dealt
<1>6. Rest(p, d, 2, {2}, mod)
  <2>1. 1 \in 1 .. 2 /\ {2} = (1 .. 2) \ {1}
    OBVIOUS
  <2> QED
    BY <2>1 DEF Rest
<1>7. Cut(p, Result(mod, inj, TRUE))
  BY <1>3, <1>5, <1>6, DealtIsDeals, DealtIsCut
<1> QED
  BY <1>1, <1>4, <1>7

LEMMA UnidirFragIsCut ==
  ASSUME NEW p \in Packets, unidir_frag(p) # Passthrough
  PROVE  Cut(p, unidir_frag(p))
<1> DEFINE d == split_size  n == (Len(p.data) + d - 1) \div d
           body == [i \in 1 .. n |-> Real(p, (i - 1) * d, Lesser(i * d, Len(p.data)))]
<1>1. /\ ~(Len(p.data) <= d)
      /\ unidir_frag(p) = Result(<< >>, CoverDecoy(p, d) \o body, TRUE)
  BY DEF unidir_frag
<1>2. d \in Nat \ {0} /\ Len(p.data) \in Nat \ {0} /\ Len(p.data) + d - 1 \in Nat
  BY Sizes, PacketFields
<1>3. n \in Nat /\ n * d <= Len(p.data) + d - 1 /\ Len(p.data) + d - 1 < n * d + d
  BY <1>2, Division
<1> HIDE DEF n
<1>4. n * d \in Nat /\ n # 0
  <2>1. n * d \in Nat
    BY <1>2, <1>3, Monotone
  <2>2. n = 0 => n * d = 0
    BY <1>2
  <2> DEFINE A == n * d
  <2> HIDE DEF A
  <2>3. A \in Nat /\ A <= Len(p.data) + d - 1 /\ Len(p.data) + d - 1 < A + d /\ (n = 0 => A = 0)
    BY <1>3, <2>1, <2>2 DEF A
  <2>4. n # 0
    BY <1>1, <1>2, <2>3
  <2> QED
    BY <2>1, <2>4
<1>5. n - 1 \in Nat /\ (n - 1) * d \in Nat /\ n * d = (n - 1) * d + d
  <2>1. n - 1 \in Nat /\ (n - 1) + 1 = n
    BY <1>3, <1>4
  <2> QED
    BY <1>2, <2>1, Monotone
<1>6. (n - 1) * d < Len(p.data) /\ Len(p.data) <= n * d
  <2> DEFINE A == n * d  B == (n - 1) * d
  <2> HIDE DEF A, B
  <2>1. A \in Nat /\ B \in Nat /\ A = B + d /\ A <= Len(p.data) + d - 1 /\ Len(p.data) + d - 1 < A + d
    BY <1>3, <1>4, <1>5 DEF A, B
  <2>2. B < Len(p.data) /\ Len(p.data) <= A
    BY <1>2, <2>1
  <2> QED
    BY <2>2 DEF A, B
<1>7. Divides(p, d, n)
  BY <1>2, <1>3, <1>4, <1>6 DEF Divides
<1>8. \A i \in 1 .. n : Lesser(i * d, Len(p.data)) = IF i = n THEN Len(p.data) ELSE i * d
  <2> TAKE i \in 1 .. n
  <2>1. CASE i = n
    BY <1>2, <1>4, <1>6, <2>1 DEF Lesser
  <2>2. CASE i # n
    <3>1. i * d < Len(p.data) /\ i * d \in Nat
      <4>1. i * d \in (i - 1) * d + 1 .. Len(p.data) - 1 /\ (i - 1) * d \in 0 .. Len(p.data) - 1
        BY <1>7, <2>2, Bounds
      <4> QED
        BY <1>2, <4>1
    <3> QED
      BY <1>2, <2>2, <3>1 DEF Lesser
  <2> QED
    BY <2>1, <2>2
<1>9. body = [i \in 1 .. n |-> Piece(p, d, n, i)]
  BY <1>8 DEF Piece
<1>10. /\ CoverDecoy(p, d) \in Seq(Kin(p))
       /\ \A k \in DOMAIN CoverDecoy(p, d) : Decoyed(p, CoverDecoy(p, d)[k])
  BY <1>2, CoverIs
<1> HIDE DEF body
<1> QED
  BY <1>1, <1>7, <1>9, <1>10, InOrderIsCut

LEMMA TlsRecordFragIsCut ==
  ASSUME NEW p \in Packets, NEW r \in tls_record_frag(p), r # Passthrough
  PROVE  Cut(p, r)
<1>1. PICK d \in 1 .. Len(p.data) - 1 :
        r = Result(<< >>, CoverDecoy(p, d) \o <<Real(p, 0, d), Real(p, d, Len(p.data))>>, TRUE)
  BY DEF tls_record_frag, NameCuts
<1>2. d \in Nat \ {0} /\ Len(p.data) \in Nat /\ d < Len(p.data)
  BY PacketFields
<1>3. Divides(p, d, 2)
  BY <1>2 DEF Divides
<1>4. <<Real(p, 0, d), Real(p, d, Len(p.data))>> = [k \in 1 .. 2 |-> Piece(p, d, 2, k)]
  <2>1. Piece(p, d, 2, 1) = Real(p, 0, d) /\ Piece(p, d, 2, 2) = Real(p, d, Len(p.data))
    BY <1>2 DEF Piece
  <2> QED
    BY <2>1
<1>5. /\ CoverDecoy(p, d) \in Seq(Kin(p))
       /\ \A k \in DOMAIN CoverDecoy(p, d) : Decoyed(p, CoverDecoy(p, d)[k])
  BY <1>2, CoverIs
<1> QED
  BY <1>1, <1>3, <1>4, <1>5, InOrderIsCut
LEMMA MultidisorderNewIsCut ==
  ASSUME NEW p \in Packets, multidisorder_new(p) # Passthrough
  PROVE  Cut(p, multidisorder_new(p))
<1> DEFINE n == split_count  d == Len(p.data) \div split_count
           End(i) == IF i = n THEN Len(p.data) ELSE i * d
           parts == [i \in 1 .. n |-> Real(p, (i - 1) * d, End(i))]
           back == Reverse(Tail(parts))
           cover == CoverDecoy(p, d)
           inj == back \o cover
           pos == [k \in 2 .. n |-> n - k + 1]
<1>1. /\ ~(n < 2 \/ Len(p.data) < n)
      /\ multidisorder_new(p) = Result(<<Head(parts)>>, inj, FALSE)
  BY DEF multidisorder_new
<1>2. n \in Nat \ {0} /\ n >= 2 /\ Len(p.data) \in Nat /\ n <= Len(p.data)
  BY <1>1, Sizes, PacketFields
<1>3. d \in Nat /\ d * n <= Len(p.data) /\ Len(p.data) < d * n + n
  BY <1>2, Division
<1> HIDE DEF d
<1>4. d \in Nat \ {0}
  <2>1. d = 0 => d * n = 0
    BY <1>2
  <2> DEFINE A == d * n
  <2> HIDE DEF A
  <2>2. (d = 0 => A = 0) /\ Len(p.data) < A + n
    BY <1>3, <2>1 DEF A
  <2> QED
    BY <1>2, <1>3, <2>2
<1>5. Divides(p, d, n)
  <2>1. d * n = n * d
    BY <1>2, <1>3
  <2>2. n \in Nat \ {0} /\ n * d <= Len(p.data)
    BY <1>2, <1>3, <2>1
  <2> QED
    BY <1>4, <2>2, DividesIs
<1>6. parts = [i \in 1 .. n |-> Piece(p, d, n, i)]
  BY DEF Piece
<1>7. \A k \in 1 .. n : Piece(p, d, n, k) \in Kin(p)
  BY <1>5, PieceIs DEF Part
<1> HIDE DEF parts
<1>8. /\ parts \in Seq(Kin(p)) /\ Len(parts) = n /\ parts # << >>
      /\ \A i \in 1 .. n : parts[i] = Piece(p, d, n, i)
  BY <1>2, <1>6, <1>7
<1>9. /\ Head(parts) = Piece(p, d, n, 1)
      /\ Tail(parts) \in Seq(Kin(p)) /\ Len(Tail(parts)) = n - 1
      /\ \A i \in 1 .. n - 1 : Tail(parts)[i] = Piece(p, d, n, i + 1)
  <2>1. Head(parts) = Piece(p, d, n, 1)
    BY <1>2, <1>8
  <2>2. /\ Tail(parts) \in Seq(Kin(p)) /\ Len(Tail(parts)) = n - 1
        /\ \A i \in 1 .. n - 1 : Tail(parts)[i] = parts[i + 1]
    BY <1>8, HeadTailProperties
  <2>3. \A i \in 1 .. n - 1 : i + 1 \in 1 .. n
    BY <1>2
  <2> QED
    BY <1>8, <2>1, <2>2, <2>3
<1>10. /\ back \in Seq(Kin(p)) /\ Len(back) = n - 1
       /\ \A i \in 1 .. n - 1 : back[i] = Piece(p, d, n, n - i + 1)
  <2> DEFINE tail == Tail(parts)
  <2>1. back = [i \in 1 .. n - 1 |-> tail[n - 1 - i + 1]]
    BY <1>9 DEF Reverse
  <2>2. tail \in Seq(Kin(p)) /\ Len(tail) = n - 1
        /\ \A i \in 1 .. n - 1 : tail[i] = Piece(p, d, n, i + 1) /\ tail[i] \in Kin(p)
    BY <1>2, <1>9
  <2> HIDE DEF tail, back
  <2>3. \A i \in 1 .. n - 1 : n - 1 - i + 1 \in 1 .. n - 1 /\ n - 1 - i + 1 + 1 = n - i + 1
    BY <1>2
  <2>4. \A i \in 1 .. n - 1 : back[i] = Piece(p, d, n, n - i + 1) /\ back[i] \in Kin(p)
    BY <2>1, <2>2, <2>3
  <2> QED
    BY <1>2, <2>1, <2>4
<1>11. cover \in Seq(Kin(p)) /\ \A k \in DOMAIN cover : Decoyed(p, cover[k])
  BY <1>4, CoverIs
<1> HIDE DEF back, cover
<1>12. /\ inj \in Seq(Kin(p)) /\ Len(cover) \in Nat /\ DOMAIN inj = 1 .. n - 1 + Len(cover)
       /\ \A i \in 1 .. n - 1 : inj[i] = back[i]
       /\ \A i \in 1 .. Len(cover) : inj[n - 1 + i] = cover[i]
  <2>1. back \in Seq(Kin(p)) /\ cover \in Seq(Kin(p)) /\ Len(back) = n - 1
        /\ Len(cover) \in Nat /\ n - 1 \in Nat
    BY <1>2, <1>10, <1>11
  <2>2. /\ inj \in Seq(Kin(p)) /\ Len(inj) = Len(back) + Len(cover)
        /\ \A i \in 1 .. Len(back) + Len(cover) :
             inj[i] = IF i <= Len(back) THEN back[i] ELSE cover[i - Len(back)]
    BY <2>1, ConcatProperties
  <2> HIDE DEF inj
  <2>3. DOMAIN inj = 1 .. n - 1 + Len(cover)
    BY <2>1, <2>2
  <2> QED
    BY <2>1, <2>2, <2>3
<1> HIDE DEF inj
<1>13. Dealt(p, d, n, 2 .. n, inj, pos)
  <2>1. 2 .. n \subseteq 1 .. n /\ pos \in [2 .. n -> DOMAIN inj]
    BY <1>2, <1>12
  <2>2. \A k \in 2 .. n : inj[pos[k]] = Piece(p, d, n, k)
    <3> TAKE k \in 2 .. n
    <3>1. n - k + 1 \in 1 .. n - 1 /\ n - (n - k + 1) + 1 = k
      BY <1>2
    <3> QED
      BY <1>10, <1>12, <3>1
  <2>3. \A m \in DOMAIN inj : Decoyed(p, inj[m]) \/ \E k \in 2 .. n : m = pos[k]
    <3> TAKE m \in DOMAIN inj
    <3>1. CASE m <= n - 1
      <4>1. n - m + 1 \in 2 .. n /\ pos[n - m + 1] = m
        BY <1>2, <1>12, <3>1
      <4> QED
        BY <4>1
    <3>2. CASE m > n - 1
      <4>1. m - (n - 1) \in 1 .. Len(cover) /\ n - 1 + (m - (n - 1)) = m
        BY <1>2, <1>12, <3>2
      <4>2. m - (n - 1) \in DOMAIN cover
        BY <1>11, <4>1
      <4> QED
        BY <1>11, <1>12, <4>1, <4>2
    <3> QED
      BY <1>2, <1>12, <3>1, <3>2
  <2> HIDE DEF pos
  <2> QED
    BY <1>12, <2>1, <2>2, <2>3 DEF Dealt
<1>14. Rest(p, d, n, 2 .. n, <<Piece(p, d, n, 1)>>)
  <2>1. 1 \in 1 .. n /\ 2 .. n = (1 .. n) \ {1}
    BY <1>2
  <2> QED
    BY <2>1 DEF Rest
<1> HIDE DEF n, pos
<1>15. Cut(p, Result(<<Piece(p, d, n, 1)>>, inj, FALSE))
  <2>1. Deals(p, <<Piece(p, d, n, 1)>>, inj)
    BY <1>5, <1>13, <1>14, DealtIsDeals
  <2>2. <<Piece(p, d, n, 1)>> # << >>
    OBVIOUS
  <2> QED
    BY <2>1, <2>2, DealtIsCut
<1> QED
  BY <1>1, <1>9, <1>15

\* Splits that leave none of their parts in the packet's place.
Leaves(t, r) == r.modified = << >> => t \in {"UnidirFrag", "TlsRecordFrag"}

LEMMA SplitsReplace ==
  ASSUME NEW p \in Packets, NEW t \in RealSplits, NEW r \in SplitOutcomes(t, p), r # Passthrough
  PROVE  Leaves(t, r)
<1>0. SUFFICES ASSUME t \notin {"UnidirFrag", "TlsRecordFrag"} PROVE r.modified # << >>
  BY DEF Leaves
<1>1. ASSUME NEW x, NEW y, NEW b PROVE Result(<<x>>, y, b).modified # << >>
  BY DEF Result
<1>2. CASE t = "MultiSplit"
  <2>1. r = multisplit(p)
    BY <1>2 DEF SplitOutcomes
  <2> QED
    BY <1>0, <1>1, <2>1 DEF multisplit
<1>3. CASE t \in {"MultiDisorder", "ReverseFragmentOrder"}
  <2>1. r = multidisorder(p)
    BY <1>3 DEF SplitOutcomes
  <2>2. multisplit(p) # Passthrough
    <3>1. ASSUME multisplit(p) = Passthrough PROVE r = Passthrough
      <4>1. Reverse(<< >>) = << >>
        BY DEF Reverse
      <4> QED
        BY <2>1, <3>1, <4>1 DEF multidisorder, Passthrough, Result
    <3> QED
      BY <3>1
  <2>3. multisplit(p).modified # << >>
    BY <2>2, <1>1 DEF multisplit
  <2>4. multidisorder(p).modified = multisplit(p).modified
    BY DEF multidisorder, multisplit, Passthrough, Result
  <2> QED
    BY <2>1, <2>3, <2>4
<1>4. CASE t \in {"TcpSeg", "Disorder"}
  <2>1. r = tcpseg(p) \/ r = disorder(p)
    BY <1>4 DEF SplitOutcomes
  <2> QED
    BY <1>0, <1>1, <2>1 DEF tcpseg, disorder
<1>5. CASE t = "MultidisorderNew"
  <2>1. r = multidisorder_new(p)
    BY <1>5 DEF SplitOutcomes
  <2> QED
    BY <1>0, <1>1, <2>1 DEF multidisorder_new
<1> QED
  BY <1>0, <1>2, <1>3, <1>4, <1>5 DEF RealSplits

LEMMA SplitsAreCuts ==
  ASSUME NEW p \in Packets, NEW t \in RealSplits, NEW r \in Outcomes(t, p)
  PROVE  r = Passthrough \/ (Cut(p, r) /\ Leaves(t, r))
<1>1. r \in SplitOutcomes(t, p)
  BY DEF Outcomes, RealSplits, OnOtherPackets, Disabled, Split, InvalidatesSeq,
         InvalidatesPayloadLength, HeaderOnly
<1>2. ASSUME t = "TlsRecordFrag" PROVE r = Passthrough \/ Cut(p, r)
  BY <1>1, <1>2, TlsRecordFragIsCut DEF SplitOutcomes
<1>3. ASSUME t \in {"MultiSplit", "MultiDisorder", "ReverseFragmentOrder"} PROVE r = Passthrough \/ Cut(p, r)
  BY <1>1, <1>3, MultisplitIsCut, MultidisorderIsCut DEF SplitOutcomes
<1>4. ASSUME t \in {"TcpSeg", "Disorder"} PROVE r = Passthrough \/ Cut(p, r)
  BY <1>1, <1>4, TcpsegIsCut, DisorderIsCut DEF SplitOutcomes
<1>5. ASSUME t \in {"MultidisorderNew", "UnidirFrag"} PROVE r = Passthrough \/ Cut(p, r)
  BY <1>1, <1>5, MultidisorderNewIsCut, UnidirFragIsCut DEF SplitOutcomes
<1>6. r = Passthrough \/ Cut(p, r)
  BY <1>2, <1>3, <1>4, <1>5 DEF RealSplits
<1> QED
  BY <1>1, <1>6, SplitsReplace
-----------------------------------------------------------------------------
(* Every variable has its type: all packets carry something and are of the   *)
(* client's connection, and the pipeline is at a technique of its group.     *)

States(q, n) ==
  [next : 1 .. n, packet : Kin(q), injects : Seq(Kin(q)), modified_dirty : BOOLEAN, drop : BOOLEAN]

TypeInv ==
  /\ request \in {Request(kind, link) : kind \in DOMAIN TechniquesOf, link \in Networks}
  /\ group \in Seq(InUse) /\ Len(group) <= MaxTechniques + 2
  /\ ~registered => Len(group) <= MaxTechniques
  /\ registered \in BOOLEAN /\ desync_applied \in BOOLEAN /\ seen \in BOOLEAN
  /\ quic_dropped_initials \in 0 .. 3
  /\ state = Idle \/ (registered /\ state \in States(request, Len(group) + 1))
  /\ outbox \in Seq(Kin(request))
  /\ wire \subseteq Kin(request)
  /\ received \in [0 .. ServerWindow - 1 -> {None} \cup (0 .. Length)]

LEMMA RequestIs ==
  ASSUME NEW kind \in Kinds, NEW link \in Links
  PROVE  /\ Request(kind, link) \in Packets
         /\ Request(kind, link).at = 0 /\ Request(kind, link).ttl = OwnTtl
         /\ Request(kind, link).bad = {} /\ Request(kind, link).form
         /\ Request(kind, link).kind = kind /\ Request(kind, link).link = link
         /\ Len(Request(kind, link).data) = Units(kind)
         /\ \A i \in 1 .. Units(kind) : Request(kind, link).data[i] = i
<1>1. Units(kind) \in Nat \ {0} /\ Units(kind) <= Length /\ Length \in Nat /\ OwnTtl \in Nat
  BY UnitsFit, Sizes
<1> DEFINE data == [i \in 1 .. Units(kind) |-> i]
<1>2. data \in Seq(0 .. Length) /\ Len(data) = Units(kind) /\ data # << >>
      /\ \A i \in 1 .. Units(kind) : data[i] = i
  BY <1>1
<1> HIDE DEF data
<1>3. /\ Request(kind, link) = [at |-> 0, data |-> data, ttl |-> OwnTtl, bad |-> {},
                                form |-> TRUE, kind |-> kind, link |-> link]
  BY DEF Request, data
<1> QED
  BY <1>1, <1>2, <1>3 DEF Packets, Segments

\* What the client sends, while TypeInv holds.
LEMMA RequestFields ==
  ASSUME TypeInv
  PROVE  /\ request \in Packets /\ request.kind \in DOMAIN TechniquesOf /\ request.kind \in Kinds
         /\ request.link \in Networks
         /\ request.at = 0 /\ request.ttl = OwnTtl /\ request.bad = {} /\ request.form
         /\ Len(request.data) = Units(request.kind)
         /\ \A i \in 1 .. Units(request.kind) : request.data[i] = i
<1>1. PICK kind \in DOMAIN TechniquesOf, link \in Networks : request = Request(kind, link)
  BY DEF TypeInv
<1>2. kind \in Kinds /\ link \in Links
  BY GroupAssumption
<1> QED
  BY <1>1, <1>2, RequestIs

LEMMA InUseIs ==
  /\ InUse \subseteq DesyncTechnique /\ Stands \subseteq InUse
  /\ \A kind \in DOMAIN TechniquesOf : TechniquesOf[kind] \subseteq InUse
BY GroupAssumption DEF InUse, Used, Stands, DesyncTechnique, InvalidatesSeq, HeaderOnly

LEMMA MergedIs ==
  ASSUME NEW q, NEW n \in Nat, NEW s \in States(q, n + 1), s.next <= n, NEW r \in Results(s.packet)
  PROVE  /\ Merged(s, r) \in States(q, n + 1)
         /\ Merged(s, r).next = s.next + 1
         /\ Merged(s, r).packet = IF r.modified = << >> THEN s.packet ELSE r.modified[1]
         /\ Merged(s, r).modified_dirty <=> (s.modified_dirty \/ r.modified # << >>)
         /\ Merged(s, r).injects = s.injects \o r.inject
         /\ Merged(s, r).drop <=> (s.drop \/ r.drop_original)
<1>1. /\ s.packet \in Kin(q) /\ s.injects \in Seq(Kin(q)) /\ s.next \in 1 .. n + 1
      /\ s.modified_dirty \in BOOLEAN /\ s.drop \in BOOLEAN /\ Kin(s.packet) = Kin(q)
  BY KinOfKin DEF States
<1>2. r.modified \in Seq(Kin(q)) /\ r.inject \in Seq(Kin(q)) /\ r.drop_original \in BOOLEAN
  BY <1>1 DEF Results
<1> DEFINE packet == IF r.modified = << >> THEN s.packet ELSE r.modified[1]
           injects == s.injects \o r.inject
           dirty == s.modified_dirty \/ r.modified # << >>
           drop == s.drop \/ r.drop_original
<1>3. packet \in Kin(q) /\ injects \in Seq(Kin(q)) /\ dirty \in BOOLEAN /\ drop \in BOOLEAN
      /\ s.next + 1 \in 1 .. n + 1
  <2>1. r.modified # << >> => r.modified[1] \in Kin(q)
    BY <1>2
  <2> QED
    BY <1>1, <1>2, <2>1
<1> HIDE DEF packet, injects, dirty, drop
<1>4. Merged(s, r) = [s EXCEPT !.next = s.next + 1, !.packet = packet, !.modified_dirty = dirty,
                               !.injects = injects, !.drop = drop]
  BY DEF Merged, packet, injects, dirty, drop, States
<1>5. /\ Merged(s, r) \in States(q, n + 1)
      /\ Merged(s, r).next = s.next + 1 /\ Merged(s, r).packet = packet
      /\ (Merged(s, r).modified_dirty <=> dirty) /\ Merged(s, r).injects = injects
      /\ (Merged(s, r).drop <=> drop)
  BY <1>3, <1>4 DEF States
<1> QED
  BY <1>5 DEF packet, injects, dirty, drop

\* What BadChecksum and TtlManipulation make of a packet, injected or not.
LEMMA RewriteIs ==
  ASSUME NEW p \in Packets
  PROVE  /\ bad_checksum(p) \in Kin(p) /\ ttl_manipulation(p) \in Kin(p)
         /\ bad_checksum(p).at = p.at /\ bad_checksum(p).data = p.data /\ bad_checksum(p).ttl = p.ttl
         /\ ttl_manipulation(p).at = p.at /\ ttl_manipulation(p).data = p.data
         /\ ttl_manipulation(p).ttl = ttl_value
<1>1. {"ip", "tcp"} \in SUBSET {"ip", "tcp"} /\ ttl_value \in Nat
  BY Sizes
<1>2. bad_checksum(p) \in Kin(p) /\ ttl_manipulation(p) \in Kin(p)
  BY <1>1, PacketFields, EditsStay DEF bad_checksum, ttl_manipulation
<1>3. /\ bad_checksum(p).at = p.at /\ bad_checksum(p).data = p.data /\ bad_checksum(p).ttl = p.ttl
      /\ ttl_manipulation(p).at = p.at /\ ttl_manipulation(p).data = p.data
      /\ ttl_manipulation(p).ttl = ttl_value
  BY DEF bad_checksum, ttl_manipulation, Packets, Segments
<1> QED
  BY <1>2, <1>3

\* What they return for the packet, and what they make of the injects.
Again(t, s) ==
  IF t = "BadChecksum"
  THEN IF allow_destructive_manipulation /\ s.packet.link # "ipv6"
       THEN inject_only(bad_checksum(s.packet)) ELSE Passthrough
  ELSE IF allow_real_ttl_manipulation
       THEN modified_only(ttl_manipulation(s.packet)) ELSE Passthrough
Marked(t, s) ==
  [s EXCEPT !.injects = [i \in DOMAIN @ |->
     IF t = "BadChecksum" THEN bad_checksum(@[i]) ELSE ttl_manipulation(@[i])]]

LEMMA MarkedIs ==
  ASSUME NEW t, NEW q, NEW n \in Nat, NEW s \in States(q, n)
  PROVE  /\ Marked(t, s) \in States(q, n)
         /\ Marked(t, s).next = s.next /\ Marked(t, s).packet = s.packet
         /\ DOMAIN Marked(t, s).injects = DOMAIN s.injects
         /\ \A i \in DOMAIN s.injects : Marked(t, s).injects[i] =
              IF t = "BadChecksum" THEN bad_checksum(s.injects[i]) ELSE ttl_manipulation(s.injects[i])
<1>2. s.packet \in Packets /\ s.injects \in Seq(Kin(q))
  BY DEF States, Kin
<1> DEFINE marked == [i \in DOMAIN s.injects |->
     IF t = "BadChecksum" THEN bad_checksum(s.injects[i]) ELSE ttl_manipulation(s.injects[i])]
<1>3. \A i \in DOMAIN s.injects : marked[i] \in Kin(q)
  BY <1>2, KinOfKin, RewriteIs
<1>4. marked \in Seq(Kin(q)) /\ DOMAIN marked = DOMAIN s.injects
  <2>1. DOMAIN s.injects = 1 .. Len(s.injects) /\ Len(s.injects) \in Nat
    BY <1>2
  <2>2. marked \in [1 .. Len(s.injects) -> Kin(q)]
    BY <1>3, <2>1
  <2> HIDE DEF marked
  <2> QED
    BY <2>1, <2>2
<1>5. Marked(t, s) = [s EXCEPT !.injects = marked]
  BY DEF Marked, States
<1>6. \A i \in DOMAIN s.injects : marked[i] =
         IF t = "BadChecksum" THEN bad_checksum(s.injects[i]) ELSE ttl_manipulation(s.injects[i])
  OBVIOUS
<1> HIDE DEF marked
<1>7. /\ Marked(t, s) \in States(q, n)
      /\ Marked(t, s).next = s.next /\ Marked(t, s).packet = s.packet
      /\ Marked(t, s).injects = marked
  BY <1>4, <1>5 DEF States
<1> QED
  BY <1>4, <1>6, <1>7

\* The packet and the position are kept.
LEMMA MarkedKeeps ==
  ASSUME NEW t, NEW q, NEW n, NEW s \in States(q, n)
  PROVE  Marked(t, s).next = s.next /\ Marked(t, s).packet = s.packet
BY DEF Marked, States

LEMMA MarkedFlags ==
  ASSUME NEW t, NEW q, NEW n, NEW s \in States(q, n)
  PROVE  (Marked(t, s).drop <=> s.drop) /\ (Marked(t, s).modified_dirty <=> s.modified_dirty)
BY DEF Marked, States

LEMMA RewrittenIs ==
  ASSUME NEW t, NEW q, NEW n \in Nat, NEW s \in States(q, n)
  PROVE  /\ Rewritten(t, s) = Merged(Marked(t, s), Again(t, s))
         /\ Again(t, s) \in Results(s.packet)
<1>1. s.packet \in Packets
  BY DEF States, Kin
<1>2. Again(t, s) \in Results(s.packet)
  <2>1. bad_checksum(s.packet) \in Kin(s.packet) /\ ttl_manipulation(s.packet) \in Kin(s.packet)
    BY <1>1, RewriteIs
  <2>2. ASSUME NEW x \in Kin(s.packet)
        PROVE  inject_only(x) \in Results(s.packet) /\ modified_only(x) \in Results(s.packet)
    <3>1. /\ <<x>> \in Seq(Kin(s.packet)) /\ << >> \in Seq(Kin(s.packet))
          /\ Len(<<x>>) <= 1 /\ Len(<< >>) <= 1
      OBVIOUS
    <3> QED
      BY <3>1 DEF inject_only, modified_only, Result, Results
  <2>3. Passthrough \in Results(s.packet)
    BY DEF Passthrough, Result, Results
  <2> QED
    BY <2>1, <2>2, <2>3 DEF Again
<1>3. Rewritten(t, s) = Merged(Marked(t, s), Again(t, s))
  BY DEF Rewritten, Marked, Again
<1> QED
  BY <1>2, <1>3

LEMMA RewrittenStays ==
  ASSUME NEW t, NEW q, NEW n \in Nat, NEW s \in States(q, n + 1), s.next <= n
  PROVE  Rewritten(t, s) \in States(q, n + 1)
<1> DEFINE m == n + 1
<1>0. m \in Nat /\ s \in States(q, m)
  OBVIOUS
<1> HIDE DEF m
<1>1. Marked(t, s) \in States(q, m) /\ Marked(t, s).next = s.next
      /\ Marked(t, s).packet = s.packet
  BY <1>0, MarkedIs
<1>2. Rewritten(t, s) = Merged(Marked(t, s), Again(t, s)) /\ Again(t, s) \in Results(s.packet)
  BY <1>0, RewrittenIs
<1>3. Merged(Marked(t, s), Again(t, s)) \in States(q, n + 1)
  BY <1>1, <1>2, MergedIs DEF m
<1> QED
  BY <1>2, <1>3

\* The pipeline's next technique, and what it may do.
StateFacts == state \in States(request, Len(group) + 1) /\ state.next <= Len(group) /\ ~state.drop

LEMMA ApplyIs ==
  ASSUME TypeInv, ApplyTechnique
  PROVE  /\ StateFacts /\ registered /\ state.next \in DOMAIN group
         /\ group[state.next] \in InUse /\ state.packet \in Packets
         /\ Kin(state.packet) = Kin(request)
         /\ \/ /\ group[state.next] \in {"BadChecksum", "TtlManipulation"}
               /\ state' = Rewritten(group[state.next], state)
            \/ /\ group[state.next] \in RealSplits
               /\ \E r : /\ r = Passthrough \/ (Cut(state.packet, r) /\ Leaves(group[state.next], r))
                         /\ state' = Merged(state, r)
            \/ /\ group[state.next] \notin RealSplits \cup {"BadChecksum", "TtlManipulation"}
               /\ \E r : Tame(group[state.next], state.packet, r) /\ state' = Merged(state, r)
         /\ quic_dropped_initials' \in 0 .. 3
<1> DEFINE t == group[state.next]  p == state.packet
<1>1. state # Idle /\ ~state.drop /\ state.next <= Len(group)
  BY DEF ApplyTechnique, MoreToApply
<1>2. registered /\ state \in States(request, Len(group) + 1)
  BY <1>1 DEF TypeInv
<1>3. state.next \in DOMAIN group /\ group \in Seq(InUse) /\ Len(group) \in Nat
  BY <1>1, <1>2 DEF TypeInv, States
<1>4. t \in InUse
  BY <1>3
<1>5. p \in Packets /\ Kin(p) = Kin(request)
  BY <1>2, KinOfKin DEF States
<1>6. quic_dropped_initials \in 0 .. 3
  BY DEF TypeInv
<1> HIDE DEF t, p
<1>7. CASE t \in {"BadChecksum", "TtlManipulation"}
  <2>1. state' = Rewritten(t, state) /\ quic_dropped_initials' = quic_dropped_initials
    BY <1>7 DEF ApplyTechnique, t
  <2> QED
    BY <1>1, <1>2, <1>3, <1>4, <1>5, <1>6, <1>7, <2>1 DEF StateFacts, t, p
<1>8. CASE t = "QuicBlocking"
  <2>1. /\ \E r \in quic_blocking(p, quic_fallback_policy, quic_dropped_initials) :
              state' = Merged(state, r)
        /\ quic_dropped_initials' = CountDropped(p, quic_fallback_policy, quic_dropped_initials)
    BY <1>8 DEF ApplyTechnique, t, p
  <2>2. quic_dropped_initials' \in 0 .. 3
    BY <1>6, <2>1 DEF CountDropped
  <2>3. \A r \in quic_blocking(p, quic_fallback_policy, quic_dropped_initials) : Tame(t, p, r)
    BY <1>5, <1>6, QuicIsTame, GroupAssumption
  <2>4. t \notin RealSplits \cup {"BadChecksum", "TtlManipulation"}
    BY <1>8 DEF RealSplits
  <2> QED
    BY <1>1, <1>2, <1>3, <1>4, <1>5, <2>1, <2>2, <2>3, <2>4 DEF StateFacts, t, p
<1>9. CASE t \notin {"BadChecksum", "TtlManipulation", "QuicBlocking"}
  <2>1. /\ \E r \in Outcomes(t, p) : state' = Merged(state, r)
        /\ quic_dropped_initials' = quic_dropped_initials
    BY <1>9 DEF ApplyTechnique, t, p
  <2>2. PICK r \in Outcomes(t, p) : state' = Merged(state, r)
    BY <2>1
  <2>3. CASE t \in RealSplits
    <3>1. r = Passthrough \/ (Cut(p, r) /\ Leaves(t, r))
      BY <1>5, <2>3, SplitsAreCuts
    <3> QED
      BY <1>1, <1>2, <1>3, <1>4, <1>5, <1>6, <2>1, <2>2, <2>3, <3>1 DEF StateFacts, t, p
  <2>4. CASE t \notin RealSplits
    <3>1. Tame(t, p, r)
      BY <1>4, <1>5, <1>9, <2>4, OutcomesAreTame
    <3> QED
      BY <1>1, <1>2, <1>3, <1>4, <1>5, <1>6, <1>9, <2>1, <2>2, <2>4, <3>1 DEF StateFacts, t, p
  <2> QED
    BY <2>3, <2>4
<1> QED
  BY <1>7, <1>8, <1>9

\* The step from one technique to the next keeps the state's type.
LEMMA ApplyTypes ==
  ASSUME TypeInv, ApplyTechnique
  PROVE  state' \in States(request, Len(group) + 1)
<1>1. /\ state \in States(request, Len(group) + 1) /\ state.next <= Len(group)
      /\ Len(group) \in Nat
  BY ApplyIs DEF StateFacts, TypeInv
<1>2. ASSUME NEW r \in Results(state.packet), state' = Merged(state, r)
      PROVE  state' \in States(request, Len(group) + 1)
  BY <1>1, <1>2, MergedIs
<1>3. CASE state' = Rewritten(group[state.next], state)
  BY <1>1, <1>3, RewrittenStays
<1>4. Passthrough \in Results(state.packet)
  BY DEF Passthrough, Result, Results
<1> QED
  BY <1>2, <1>3, <1>4, ApplyIs DEF Cut, Tame
LEMMA ValidatedGroups ==
  ASSUME NEW g \in Seq(InUse), Len(g) <= MaxTechniques
  PROVE  /\ build_validated_group(g) \in Seq(InUse)
         /\ Len(build_validated_group(g)) <= MaxTechniques + 2
<1>1. "FakeSni" \in InUse /\ "BadChecksum" \in InUse
  BY DEF InUse, Stands
<1>2. <<"FakeSni", "BadChecksum">> \in Seq(InUse) /\ Len(<<"FakeSni", "BadChecksum">>) = 2
  BY <1>1
<1>3. MaxTechniques \in Nat /\ Len(g) \in Nat
  BY GroupAssumption
<1> QED
  BY <1>2, <1>3 DEF build_validated_group

LEMMA TypeInit == Init => TypeInv
<1> SUFFICES ASSUME Init PROVE TypeInv
  OBVIOUS
<1>1. /\ request \in {Request(kind, link) : kind \in DOMAIN TechniquesOf, link \in Networks}
      /\ state = Idle
  BY DEF Init
<1>2. group \in Seq(InUse) /\ Len(group) <= MaxTechniques
      /\ Len(group) <= MaxTechniques + 2
  BY GroupAssumption DEF Init
<1>3. /\ registered \in BOOLEAN /\ desync_applied \in BOOLEAN /\ seen \in BOOLEAN
      /\ quic_dropped_initials \in 0 .. 3
  <2>1. registered \in BOOLEAN /\ desync_applied \in BOOLEAN /\ seen \in BOOLEAN
    BY Zenon DEF Init
  <2>2. quic_dropped_initials \in 0 .. 3
    BY DEF Init
  <2> QED
    BY <2>1, <2>2, Zenon
<1>4. outbox \in Seq(Kin(request)) /\ wire \subseteq Kin(request)
  BY DEF Init
<1>5. received \in [0 .. ServerWindow - 1 -> {None} \cup (0 .. Length)]
  BY DEF Init
<1> QED
  BY <1>1, <1>2, <1>3, <1>4, <1>5 DEF TypeInv

\* What the server takes out of a segment.
LEMMA ReceivedIs ==
  ASSUME TypeInv, NEW s \in wire, Receive(s)
  PROVE  /\ received' \in [0 .. ServerWindow - 1 -> {None} \cup (0 .. Length)]
         /\ \A i \in 0 .. ServerWindow - 1 :
              \/ received'[i] = received[i]
              \/ Carries(s, i) /\ s.ttl >= Hops /\ received'[i] = s.data[i - s.at + 1]
<1>1. s \in Packets /\ received \in [0 .. ServerWindow - 1 -> {None} \cup (0 .. Length)]
  BY DEF TypeInv, Kin
<1>2. s.at \in Nat /\ Len(s.data) \in Nat /\ \A k \in 1 .. Len(s.data) : s.data[k] \in 0 .. Length
  BY <1>1, PacketFields
<1>3. /\ s.ttl >= Hops
      /\ received' = [i \in 0 .. ServerWindow - 1 |->
                        IF received[i] = None /\ Carries(s, i)
                        THEN s.data[i - s.at + 1] ELSE received[i]]
  BY <1>1 DEF Receive, Arrives
<1>4. ASSUME NEW i \in 0 .. ServerWindow - 1, Carries(s, i)
      PROVE  s.data[i - s.at + 1] \in 0 .. Length
  <2>1. i - s.at + 1 \in 1 .. Len(s.data)
    BY <1>2, <1>4, Sizes DEF Carries
  <2> QED
    BY <1>2, <2>1
<1> QED
  BY <1>1, <1>3, <1>4

LEMMA TypeStep == TypeInv /\ [Next]_vars => TypeInv'
<1> SUFFICES ASSUME TypeInv, [Next]_vars PROVE TypeInv'
  OBVIOUS
<1> USE DEF TypeInv
<1>0. request \in Packets /\ request \in Kin(request)
  <2>1. request \in Packets
    BY RequestFields
  <2> QED
    BY <2>1, PacketFields
<1>1. ASSUME NEW t \in TechniquesOf[request.kind], Add(t) PROVE TypeInv'
  <2>1. t \in InUse
    BY RequestFields, InUseIs
  <2>2. group' \in Seq(InUse) /\ Len(group') <= MaxTechniques
        /\ Len(group') <= MaxTechniques + 2 /\ ~registered
    BY <1>1, <2>1, GroupAssumption DEF Add
  <2>3. state' = Idle
    BY <1>1, <2>2 DEF Add
  <2> QED
    BY <1>1, <2>2, <2>3 DEF Add
<1>2. ASSUME Register PROVE TypeInv'
  <2>1. registered' = TRUE /\ state' = state /\ state = Idle
    BY <1>2 DEF Register
  <2>2. group' \in Seq(InUse) /\ Len(group') <= MaxTechniques + 2
    BY <1>2, ValidatedGroups DEF Register
  <2> QED
    BY <1>2, <2>1, <2>2 DEF Register
<1>3. ASSUME Capture PROVE TypeInv'
  <2>1. CASE SeenBefore
    <3>1. outbox' = <<request>> /\ <<request>> \in Seq(Kin(request))
      BY <1>0, <1>3, <2>1 DEF Capture
    <3> QED
      BY <1>3, <2>1, <3>1 DEF Capture
  <2>2. CASE ~SeenBefore
    <3>1. state' = FromPacket(request) /\ registered
      BY <1>3, <2>2 DEF Capture
    <3>2. FromPacket(request) \in States(request, Len(group) + 1)
      <4>1. 1 \in 1 .. Len(group) + 1 /\ << >> \in Seq(Kin(request))
        OBVIOUS
      <4> QED
        BY <1>0, <4>1 DEF FromPacket, States
    <3>3. desync_applied' \in BOOLEAN /\ seen' \in BOOLEAN
      BY <1>3, <2>2 DEF Capture
    <3> QED
      BY <1>3, <2>2, <3>1, <3>2, <3>3 DEF Capture
  <2> QED
    BY <2>1, <2>2
<1>4. ASSUME ForgetSeq PROVE TypeInv'
  <2>1. seen' \in BOOLEAN
    BY <1>4, Zenon DEF ForgetSeq
  <2>2. UNCHANGED <<request, group, registered, desync_applied, quic_dropped_initials,
                    state, outbox, wire, received>>
    BY <1>4 DEF ForgetSeq
  <2> QED
    BY <2>1, <2>2
<1>5. ASSUME ApplyTechnique PROVE TypeInv'
  <2>1. state' \in States(request, Len(group) + 1) /\ registered /\ quic_dropped_initials' \in 0 .. 3
    BY <1>5, ApplyIs, ApplyTypes
  <2> QED
    BY <1>5, <2>1 DEF ApplyTechnique
<1>6. ASSUME Decide PROVE TypeInv'
  <2>1. state.injects \in Seq(Kin(request)) /\ state.packet \in Kin(request)
    BY <1>6 DEF Decide, States
  <2>2. Decided(state) \in Seq(Kin(request))
    BY <2>1 DEF Decided
  <2> QED
    BY <1>6, <2>2 DEF Decide
<1>7. ASSUME Send PROVE TypeInv'
  <2>1. Head(outbox) \in Kin(request) /\ Tail(outbox) \in Seq(Kin(request))
    BY <1>7 DEF Send
  <2> QED
    BY <1>7, <2>1 DEF Send
<1>8. ASSUME NEW s \in wire, Receive(s) PROVE TypeInv'
  <2>1. received' \in [0 .. ServerWindow - 1 -> {None} \cup (0 .. Length)]
    BY <1>8, ReceivedIs
  <2> QED
    BY <1>8, <2>1 DEF Receive
<1>9. ASSUME NEW s \in wire, Lose(s) PROVE TypeInv'
  BY <1>9 DEF Lose
<1>10. CASE UNCHANGED vars
  BY <1>10 DEF vars
<1> QED
  BY <1>1, <1>2, <1>3, <1>4, <1>5, <1>6, <1>7, <1>8, <1>9, <1>10 DEF Next

LEMMA TypeInvHolds == Spec => []TypeInv
BY TypeInit, TypeStep, PTL DEF Spec

\* Every variable has its type: through any group of techniques, all that is
\* injected, sent or under way are packets with data (apply_with_runtime_context
\* and into_result, desync/group.rs).
THEOREM GroupTypeOK == Spec => []TypeOK
<1>1. TypeInv => TypeOK
  <2> SUFFICES ASSUME TypeInv PROVE TypeOK
    OBVIOUS
  <2>0. {registered, desync_applied, seen} \subseteq BOOLEAN
    BY DEF TypeInv
  <2>1. request \in Segments /\ Kin(request) \subseteq Segments
        /\ \A s \in Kin(request) : s.data # << >>
    BY RequestFields DEF Kin, Packets
  <2>2. group \in Seq(DesyncTechnique)
    BY InUseIs DEF TypeInv
  <2>3. state = Idle \/ state \in PipelineStates
    <3>1. ASSUME state \in States(request, Len(group) + 1) PROVE state \in PipelineStates
      <4>1. Len(group) \in Nat /\ Len(group) <= MaxTechniques + 2 /\ MaxTechniques \in Nat
        BY GroupAssumption DEF TypeInv
      <4>2. 1 .. Len(group) + 1 \subseteq 1 .. MaxTechniques + 3
        BY <4>1
      <4>3. Seq(Kin(request)) \subseteq Seq(Segments)
        BY <2>1
      <4> QED
        BY <2>1, <3>1, <4>2, <4>3 DEF States, PipelineStates
    <3> QED
      BY <3>1 DEF TypeInv
  <2>4. outbox \in Seq(Segments) /\ wire \subseteq Segments /\ \A s \in wire : s.data # << >>
    BY <2>1 DEF TypeInv
  <2> QED
    BY <2>0, <2>1, <2>2, <2>3, <2>4 DEF TypeInv, TypeOK
<1> QED
  BY <1>1, TypeInvHolds, PTL
-----------------------------------------------------------------------------
(* What is under way holds the client's bytes at their positions, or goes    *)
(* less far than they do, or lies behind what the server takes.              *)

Right(s) == Genuine(s) \/ s.at >= ServerWindow
Harmless(s) == Genuine(s) \/ Ghost(s)
Clean(s) ==
  /\ s.packet.ttl <= OwnTtl /\ Right(s.packet)
  /\ \A k \in DOMAIN s.injects : Harmless(s.injects[k])

StreamInv ==
  /\ state # Idle => Clean(state)
  /\ \A k \in DOMAIN outbox : Harmless(outbox[k])
  /\ \A s \in wire : Harmless(s)

LEMMA RightIsHarmless == \A s : Right(s) => Harmless(s)
BY DEF Right, Harmless, Ghost

\* An edit that keeps the bytes, and a part, are as right as the packet.
LEMMA RightStays ==
  ASSUME NEW p \in Packets, Right(p), NEW q \in Kin(p), Kept(p, q) \/ Part(p, q)
  PROVE  Right(q) /\ q.ttl = p.ttl
<1>1. p.at \in Nat /\ Len(p.data) \in Nat /\ q.kind = p.kind /\ Units(p.kind) \in Nat
  BY PacketFields, UnitsFit DEF Kin
<1>2. CASE Kept(p, q)
  <2>1. q.data = p.data /\ q.ttl = p.ttl /\ q.at \in {p.at, Elsewhere}
    BY <1>2 DEF Kept
  <2>2. CASE q.at = p.at
    BY <1>1, <2>1, <2>2 DEF Right, Genuine
  <2>3. CASE q.at = Elsewhere
    BY <2>1, <2>3, Sizes DEF Right
  <2> QED
    BY <2>1, <2>2, <2>3
<1>3. CASE Part(p, q)
  <2>0. PICK from \in 0 .. Len(p.data) - 1 : \E to \in from + 1 .. Len(p.data) :
          q.at = p.at + from /\ q.data = SubSeq(p.data, from + 1, to)
    BY <1>3 DEF Part
  <2>1. PICK to \in from + 1 .. Len(p.data) :
          q.at = p.at + from /\ q.data = SubSeq(p.data, from + 1, to)
    BY <2>0
  <2>2. from + 1 \in 1 .. Len(p.data) /\ to \in from + 1 .. Len(p.data)
        /\ from \in Nat /\ to \in Nat /\ to <= Len(p.data)
    BY <1>1, <2>1
  <2>3. /\ Len(q.data) = to - (from + 1) + 1
        /\ \A i \in 1 .. to - (from + 1) + 1 : q.data[i] = p.data[from + 1 + i - 1]
    BY <2>1, <2>2, PartsOfPacket
  <2>4. CASE Genuine(p)
    <3>1. p.at + Len(p.data) <= Units(p.kind)
          /\ \A j \in 1 .. Len(p.data) : p.data[j] = p.at + j
      BY <2>4 DEF Genuine
    <3>2. q.at + Len(q.data) <= Units(q.kind)
      BY <1>1, <2>1, <2>2, <2>3, <3>1
    <3>3. ASSUME NEW j \in 1 .. Len(q.data) PROVE q.data[j] = q.at + j
      <4>1. j \in 1 .. to - (from + 1) + 1 /\ from + 1 + j - 1 \in 1 .. Len(p.data)
        BY <1>1, <2>2, <2>3, <3>3
      <4>2. q.data[j] = p.at + (from + 1 + j - 1)
        BY <2>3, <3>1, <4>1
      <4> QED
        BY <1>1, <2>1, <2>2, <4>1, <4>2
    <3> QED
      BY <1>3, <3>2, <3>3 DEF Part, Right, Genuine
  <2>5. CASE p.at >= ServerWindow
    BY <1>1, <1>3, <2>1, <2>2, <2>5, Sizes DEF Part, Right
  <2> QED
    BY <2>4, <2>5 DEF Right
<1> QED
  BY <1>2, <1>3

LEMMA MergedIsClean ==
  ASSUME NEW q, NEW n \in Nat, NEW s \in States(q, n + 1), s.next <= n, Clean(s),
         NEW r \in Results(s.packet),
         \A k \in DOMAIN r.inject : Harmless(r.inject[k]),
         \A k \in DOMAIN r.modified : Right(r.modified[k]) /\ r.modified[k].ttl <= OwnTtl
  PROVE  Clean(Merged(s, r))
<1>1. /\ s.injects \in Seq(Kin(q)) /\ r.inject \in Seq(Kin(s.packet)) /\ r.modified \in Seq(Kin(s.packet))
  BY DEF States, Results
<1>2. Merged(s, r).packet = IF r.modified = << >> THEN s.packet ELSE r.modified[1]
  BY MergedIs
<1>3. Merged(s, r).injects = s.injects \o r.inject
  BY MergedIs
<1>4. \A k \in DOMAIN (s.injects \o r.inject) : Harmless((s.injects \o r.inject)[k])
  <2> DEFINE a == s.injects  b == r.inject  c == a \o b
  <2>1. /\ a \in Seq(Kin(q)) /\ b \in Seq(Kin(s.packet))
        /\ (\A k \in 1 .. Len(a) : Harmless(a[k])) /\ (\A k \in 1 .. Len(b) : Harmless(b[k]))
    BY <1>1 DEF Clean
  <2> HIDE DEF a, b
  <2>2. /\ DOMAIN c = 1 .. Len(a) + Len(b) /\ Len(a) \in Nat /\ Len(b) \in Nat
        /\ (\A k \in 1 .. Len(a) : c[k] = a[k]) /\ (\A k \in 1 .. Len(b) : c[Len(a) + k] = b[k])
    BY <2>1
  <2> HIDE DEF c
  <2>3. ASSUME NEW k \in DOMAIN c PROVE Harmless(c[k])
    <3>1. CASE k <= Len(a)
      BY <2>1, <2>2, <3>1
    <3>2. CASE k > Len(a)
      <4>1. k - Len(a) \in 1 .. Len(b) /\ Len(a) + (k - Len(a)) = k
        BY <2>2, <3>2
      <4> QED
        BY <2>1, <2>2, <4>1
    <3> QED
      BY <2>2, <3>1, <3>2
  <2> QED
    BY <2>3 DEF a, b, c
<1>5. Right(Merged(s, r).packet) /\ Merged(s, r).packet.ttl <= OwnTtl
  <2>1. CASE r.modified = << >>
    BY <1>2, <2>1 DEF Clean
  <2>2. CASE r.modified # << >>
    BY <1>1, <1>2, <2>2
  <2> QED
    BY <2>1, <2>2
<1> QED
  BY <1>3, <1>4, <1>5 DEF Clean

\* The rewritten injects, and the packet they return.
LEMMA RewrittenIsClean ==
  ASSUME OffsetLowers, NEW t \in InUse, t \in {"BadChecksum", "TtlManipulation"},
         NEW q, NEW n \in Nat, NEW s \in States(q, n + 1), s.next <= n, Clean(s)
  PROVE  Clean(Rewritten(t, s))
<1> DEFINE m == n + 1  u == Marked(t, s)  r == Again(t, s)
<1>1. m \in Nat /\ s \in States(q, m)
  OBVIOUS
<1> HIDE DEF m
<1>2. /\ u \in States(q, m) /\ u.next = s.next /\ u.packet = s.packet
      /\ DOMAIN u.injects = DOMAIN s.injects
      /\ \A i \in DOMAIN s.injects : u.injects[i] =
           IF t = "BadChecksum" THEN bad_checksum(s.injects[i]) ELSE ttl_manipulation(s.injects[i])
  <2>1. u \in States(q, m)
    BY <1>1, MarkedIs
  <2>2. u.next = s.next /\ u.packet = s.packet
    BY <1>1, MarkedKeeps
  <2>3. /\ DOMAIN u.injects = DOMAIN s.injects
        /\ \A i \in DOMAIN s.injects : u.injects[i] =
             IF t = "BadChecksum" THEN bad_checksum(s.injects[i]) ELSE ttl_manipulation(s.injects[i])
    BY <1>1, MarkedIs
  <2> HIDE DEF u
  <2> QED
    BY <2>1, <2>2, <2>3
<1>3. Rewritten(t, s) = Merged(u, r) /\ r \in Results(s.packet)
  BY <1>1, RewrittenIs
<1>4. t = "TtlManipulation" => ttl_value < OwnTtl
  BY Sizes DEF OffsetLowers, InUse, Stands
<1>5. ASSUME NEW p \in Packets, t = "TtlManipulation"
      PROVE  Ghost(ttl_manipulation(p)) /\ ttl_manipulation(p).ttl <= OwnTtl
  BY <1>4, <1>5, RewriteIs, Sizes DEF Ghost
<1>6. ASSUME NEW p \in Packets
      PROVE  /\ Genuine(p) => Genuine(bad_checksum(p)) /\ Genuine(ttl_manipulation(p))
             /\ Ghost(p) => Ghost(bad_checksum(p))
             /\ Right(p) => Right(bad_checksum(p)) /\ Right(ttl_manipulation(p))
  <2>1. bad_checksum(p).kind = p.kind /\ ttl_manipulation(p).kind = p.kind
    BY RewriteIs DEF Kin
  <2> QED
    BY <2>1, RewriteIs DEF Genuine, Ghost, Right
<1>7. s.packet \in Packets /\ \A i \in DOMAIN s.injects : s.injects[i] \in Packets
  BY <1>1 DEF States, Kin
<1>8. Clean(u)
  <2>1. ASSUME NEW i \in DOMAIN s.injects PROVE Harmless(u.injects[i])
    BY <1>2, <1>5, <1>6, <1>7 DEF Clean, Harmless
  <2> QED
    BY <1>2, <2>1 DEF Clean
<1>9. (\A k \in DOMAIN r.inject : Harmless(r.inject[k]))
      /\ \A k \in DOMAIN r.modified : Right(r.modified[k]) /\ r.modified[k].ttl <= OwnTtl
  <2>1. r \in {Passthrough, inject_only(bad_checksum(s.packet))}
        \/ (t = "TtlManipulation" /\ r = modified_only(ttl_manipulation(s.packet)))
    BY DEF Again
  <2>2. Harmless(bad_checksum(s.packet)) /\ Right(ttl_manipulation(s.packet))
    BY <1>6, <1>7, RightIsHarmless DEF Clean
  <2>3. CASE r = Passthrough
    BY <2>3 DEF Passthrough, Result
  <2>4. CASE r = inject_only(bad_checksum(s.packet))
    <3>1. r.inject = <<bad_checksum(s.packet)>> /\ r.modified = << >>
      BY <2>4 DEF inject_only, Result
    <3> HIDE DEF r
    <3> QED
      BY <2>2, <3>1
  <2>5. CASE t = "TtlManipulation" /\ r = modified_only(ttl_manipulation(s.packet))
    <3>1. r.inject = << >> /\ r.modified = <<ttl_manipulation(s.packet)>>
      BY <2>5 DEF modified_only, Result
    <3>2. ttl_manipulation(s.packet).ttl <= OwnTtl
      BY <1>5, <1>7, <2>5
    <3> HIDE DEF r
    <3> QED
      BY <2>2, <3>1, <3>2
  <2> QED
    BY <2>1, <2>3, <2>4, <2>5
<1> HIDE DEF u, r
<1>10. Clean(Merged(u, r))
  BY <1>1, <1>2, <1>3, <1>8, <1>9, MergedIsClean DEF m
<1> QED
  BY <1>3, <1>10
\* What one step of the pipeline makes of a clean state.
LEMMA ApplyIsClean ==
  ASSUME TypeInv, KeepsStream, OffsetLowers, Clean(state), ApplyTechnique
  PROVE  Clean(state')
<1> DEFINE t == group[state.next]  p == state.packet
<1>1. /\ state \in States(request, Len(group) + 1) /\ state.next <= Len(group)
      /\ Len(group) \in Nat /\ t \in InUse /\ p \in Packets
  BY ApplyIs DEF StateFacts, TypeInv
<1>2. t \notin EditsTheStream
  BY <1>1 DEF InUse, Stands, KeepsStream, EditsTheStream
<1>3. p.ttl <= OwnTtl /\ Right(p)
  BY DEF Clean
<1>4. ASSUME NEW r \in Results(p), state' = Merged(state, r),
             \A k \in DOMAIN r.inject : Decoyed(p, r.inject[k]) \/ Part(p, r.inject[k]),
             \A k \in DOMAIN r.modified : Kept(p, r.modified[k]) \/ Part(p, r.modified[k])
      PROVE  Clean(state')
  <2>1. \A k \in DOMAIN r.inject : r.inject[k] \in Kin(p)
    BY DEF Results
  <2>2. \A k \in DOMAIN r.modified : r.modified[k] \in Kin(p)
    BY DEF Results
  <2>3. ASSUME NEW k \in DOMAIN r.inject PROVE Harmless(r.inject[k])
    <3>1. CASE Decoyed(p, r.inject[k])
      BY <1>3, <3>1 DEF Decoyed, Harmless
    <3>2. CASE Part(p, r.inject[k])
      BY <1>1, <1>3, <2>1, <3>2, RightStays, RightIsHarmless
    <3> QED
      BY <1>4, <3>1, <3>2
  <2>4. ASSUME NEW k \in DOMAIN r.modified PROVE Right(r.modified[k]) /\ r.modified[k].ttl <= OwnTtl
    <3>1. Kept(p, r.modified[k]) \/ Part(p, r.modified[k])
      BY <1>4
    <3>2. Right(r.modified[k]) /\ r.modified[k].ttl = p.ttl
      BY <1>1, <1>3, <2>2, <3>1, RightStays
    <3> QED
      BY <1>3, <3>2
  <2> HIDE DEF t
  <2>5. Clean(Merged(state, r))
    BY <1>1, <2>3, <2>4, MergedIsClean
  <2> QED
    BY <1>4, <2>5
<1>5. CASE t \in {"BadChecksum", "TtlManipulation"} /\ state' = Rewritten(t, state)
  <2> HIDE DEF t
  <2> QED
    BY <1>1, <1>5, RewrittenIsClean
<1>6. ASSUME NEW r, r = Passthrough \/ Cut(p, r), state' = Merged(state, r) PROVE Clean(state')
  <2>1. CASE r = Passthrough
    <3>1. r \in Results(p) /\ r.inject = << >> /\ r.modified = << >>
      BY <2>1 DEF Passthrough, Result, Results
    <3> QED
      BY <1>4, <1>6, <3>1
  <2>2. CASE Cut(p, r)
    BY <1>4, <1>6, <2>2 DEF Cut, Deals
  <2> QED
    BY <1>6, <2>1, <2>2
<1>7. ASSUME NEW r, Tame(t, p, r), state' = Merged(state, r) PROVE Clean(state')
  BY <1>2, <1>4, <1>7 DEF Tame
<1> QED
  BY <1>5, <1>6, <1>7, ApplyIs

LEMMA StreamInit == Init => StreamInv
<1> SUFFICES ASSUME Init PROVE StreamInv
  OBVIOUS
<1>1. state = Idle /\ outbox = << >> /\ wire = {}
  BY DEF Init
<1> QED
  BY <1>1 DEF StreamInv

LEMMA StreamStep ==
  ASSUME KeepsStream, OffsetLowers, TypeInv, StreamInv, [Next]_vars
  PROVE  StreamInv'
<1> USE DEF StreamInv
<1>0. /\ Harmless(request) /\ Right(request) /\ request.ttl <= OwnTtl
  <2>1. Genuine(request) /\ request.ttl = OwnTtl /\ OwnTtl \in Nat
    <3>1. Units(request.kind) \in Nat
      BY RequestFields, UnitsFit
    <3> QED
      BY <3>1, RequestFields, Sizes DEF Genuine
  <2> QED
    BY <2>1 DEF Harmless, Right
<1>1. ASSUME NEW t \in TechniquesOf[request.kind], Add(t) PROVE StreamInv'
  BY <1>1 DEF Add
<1>2. ASSUME Register PROVE StreamInv'
  BY <1>2 DEF Register
<1>3. ASSUME Capture PROVE StreamInv'
  <2>1. wire' = wire /\ state = Idle
    BY <1>3 DEF Capture
  <2>2. CASE SeenBefore
    <3>1. outbox' = <<request>> /\ state' = Idle
      BY <1>3, <2>1, <2>2 DEF Capture
    <3> QED
      BY <1>0, <2>1, <3>1
  <2>3. CASE ~SeenBefore
    <3>1. state' = FromPacket(request) /\ outbox' = outbox
      BY <1>3, <2>3 DEF Capture
    <3>2. Clean(FromPacket(request))
      BY <1>0 DEF Clean, FromPacket
    <3> QED
      BY <2>1, <3>1, <3>2
  <2> QED
    BY <2>2, <2>3
<1>4. ASSUME ForgetSeq PROVE StreamInv'
  BY <1>4 DEF ForgetSeq
<1>5. ASSUME ApplyTechnique PROVE StreamInv'
  <2>1. state # Idle /\ UNCHANGED <<outbox, wire, received, request>>
    BY <1>5 DEF ApplyTechnique, MoreToApply
  <2>2. Clean(state')
    BY <1>5, <2>1, ApplyIsClean
  <2> QED
    BY <2>1, <2>2
<1>6. ASSUME Decide PROVE StreamInv'
  <2>1. /\ state # Idle /\ state' = Idle /\ outbox' = Decided(state)
        /\ UNCHANGED <<wire, received, request>>
    BY <1>6 DEF Decide
  <2>2. state.injects \in Seq(Kin(request)) /\ state.packet \in Kin(request)
    BY <2>1 DEF TypeInv, States
  <2>3. Harmless(state.packet) /\ \A k \in DOMAIN state.injects : Harmless(state.injects[k])
    BY <2>1, RightIsHarmless DEF Clean
  <2>4. \A k \in DOMAIN Decided(state) : Harmless(Decided(state)[k])
    <3> DEFINE a == state.injects  b == <<state.packet>>
    <3>1. a \in Seq(Kin(request)) /\ DOMAIN a = 1 .. Len(a) /\ Len(a) \in Nat
      BY <2>2
    <3>2. DOMAIN (a \o b) = 1 .. Len(a) + 1 /\ (a \o b)[Len(a) + 1] = state.packet
          /\ \A k \in 1 .. Len(a) : (a \o b)[k] = a[k]
      BY <2>2, <3>1
    <3>3. Decided(state) = a \o b \/ Decided(state) = a \o << >>
      BY DEF Decided
    <3>4. a \o << >> = a
      BY <3>1
    <3> HIDE DEF a
    <3>5. \A k \in DOMAIN (a \o b) : Harmless((a \o b)[k])
      <4> TAKE k \in DOMAIN (a \o b)
      <4>1. k \in 1 .. Len(a) \/ k = Len(a) + 1
        BY <3>1, <3>2
      <4> QED
        BY <2>3, <3>1, <3>2, <4>1 DEF a
    <3> QED
      BY <2>3, <3>3, <3>4, <3>5 DEF a
  <2> QED
    BY <2>1, <2>4
<1>7. ASSUME Send PROVE StreamInv'
  <2>1. /\ outbox \in Seq(Kin(request)) /\ outbox # << >> /\ outbox' = Tail(outbox)
        /\ wire' \subseteq wire \cup {Head(outbox)}
        /\ UNCHANGED <<state, received, request>>
    BY <1>7 DEF Send, TypeInv
  <2>2. Harmless(Head(outbox))
    BY <2>1
  <2>3. \A k \in DOMAIN Tail(outbox) : Harmless(Tail(outbox)[k])
    <3>1. /\ Tail(outbox) \in Seq(Kin(request)) /\ Len(Tail(outbox)) = Len(outbox) - 1
          /\ \A k \in 1 .. Len(Tail(outbox)) : Tail(outbox)[k] = outbox[k + 1]
      BY <2>1, HeadTailProperties
    <3>2. DOMAIN Tail(outbox) = 1 .. Len(Tail(outbox)) /\ Len(outbox) \in Nat
          /\ DOMAIN outbox = 1 .. Len(outbox)
      BY <2>1, <3>1
    <3>3. \A k \in 1 .. Len(Tail(outbox)) : k + 1 \in DOMAIN outbox
      BY <3>1, <3>2
    <3> QED
      BY <3>1, <3>2, <3>3
  <2> QED
    BY <2>1, <2>2, <2>3
<1>8. ASSUME NEW s \in wire, Receive(s) PROVE StreamInv'
  BY <1>8 DEF Receive
<1>9. ASSUME NEW s \in wire, Lose(s) PROVE StreamInv'
  BY <1>9 DEF Lose
<1>10. CASE UNCHANGED vars
  BY <1>10 DEF vars
<1> QED
  BY <1>1, <1>2, <1>3, <1>4, <1>5, <1>6, <1>7, <1>8, <1>9, <1>10 DEF Next

\* Whatever profile runs, as long as it does not change the client's bytes (KeepsStream)
\* and the configuration takes something from the TTL of decoys (OffsetLowers), no
\* composition of techniques sends foreign bytes in the place of the request's with the
\* reach of the client's packets (apply_with_runtime_context, desync/group.rs).
THEOREM ForeignStaysLowered ==
  ASSUME KeepsStream, OffsetLowers
  PROVE  Spec => []ForeignIsLowered
<1>1. TypeInv /\ StreamInv /\ [Next]_vars => StreamInv'
  BY StreamStep
<1>2. StreamInv => ForeignIsLowered
  BY DEF StreamInv, ForeignIsLowered, Harmless, ToSet
<1> QED
  BY <1>1, <1>2, StreamInit, TypeInvHolds, PTL DEF Spec
-----------------------------------------------------------------------------
(* What is decided for a TCP request holds each of its bytes once.           *)

\* A group that was validated splits once.
GroupInv ==
  registered =>
    \A i, j \in DOMAIN group : group[i] \in Split /\ group[j] \in Split => i = j

\* The packet passes, and arrives.
Fine(p) ==
  /\ p.form /\ p.ttl = OwnTtl /\ SumsHold(p)

\* The packet leaves the pipeline.
Sent(s) == s.modified_dirty \/ ~s.drop

\* Position i is in the injects once, or in the packet that leaves.
Exactly(s, i) ==
  \/ Sent(s) /\ Brings(s.packet, i) /\ NoneIn(s.injects, i)
  \/ OnceIn(s.injects, i) /\ (Sent(s) => ~Brings(s.packet, i))

\* The packet is the whole request still: all injects are decoys, and only an
\* editor has touched it.
Uncut(s) ==
  /\ ~s.drop
  /\ s.packet.at = 0 /\ Len(s.packet.data) = Units(request.kind)
  /\ \A i \in Wanted : NoneIn(s.injects, i)
  /\ s.modified_dirty => At(group, Editors) # {}

\* A split has cut it.
CutOnce(s) ==
  /\ \E j \in DOMAIN group : j < s.next /\ group[j] \in RealSplits
  /\ \A i \in Wanted : Exactly(s, i)

FlightInv ==
  (request.kind # "quic" /\ ~Damaged /\ state # Idle)
    => Fine(state.packet) /\ (Uncut(state) \/ CutOnce(state))

LEMMA GroupInit == Init => GroupInv
BY DEF Init, GroupInv

LEMMA ValidatedSplitsOnce ==
  ASSUME NEW g \in Seq(InUse), NEW i \in DOMAIN build_validated_group(g),
         NEW j \in DOMAIN build_validated_group(g),
         build_validated_group(g)[i] \in Split, build_validated_group(g)[j] \in Split
  PROVE  i = j
<1>1. CASE validate(g)
  <2>1. build_validated_group(g) = g /\ i \in At(g, Split) /\ j \in At(g, Split)
    BY <1>1 DEF build_validated_group, At
  <2>2. IsFiniteSet(At(g, Split)) /\ Cardinality(At(g, Split)) <= 1
    <3>1. DOMAIN g = 1 .. Len(g) /\ Len(g) \in Nat
      OBVIOUS
    <3>2. IsFiniteSet(1 .. Len(g)) /\ At(g, Split) \in SUBSET (1 .. Len(g))
      BY <3>1, FS_Interval DEF At
    <3> QED
      BY <1>1, <3>2, FS_Subset DEF validate
  <2>3. ASSUME i # j PROVE FALSE
    <3> DEFINE one == {i}  two == one \cup {j}  all == At(g, Split)
    <3>1. IsFiniteSet(one) /\ Cardinality(one) = 1
      BY FS_Singleton, Zenon
    <3>2. j \notin one /\ two \in SUBSET all
      BY <2>1, <2>3
    <3>3. IsFiniteSet(all) /\ Cardinality(all) <= 1
      BY <2>2
    <3>4. two = one \cup {j}
      OBVIOUS
    <3> HIDE DEF one, two, all
    <3>5. Cardinality(one \cup {j}) = IF j \in one THEN Cardinality(one) ELSE Cardinality(one) + 1
      BY <3>1, FS_AddElement
    <3>6. Cardinality(two) = 2
      BY <3>1, <3>2, <3>4, <3>5
    <3>7. Cardinality(two) <= Cardinality(all)
      BY <3>2, <3>3, FS_Subset
    <3>8. Cardinality(all) \in Nat
      BY <3>3, FS_CardinalityType
    <3> QED
      BY <3>3, <3>6, <3>7, <3>8
  <2> QED
    BY <2>3
<1>2. CASE ~validate(g)
  BY <1>2 DEF build_validated_group, Split
<1> QED
  BY <1>1, <1>2

LEMMA GroupStep == TypeInv /\ GroupInv /\ [Next]_vars => GroupInv'
<1> SUFFICES ASSUME TypeInv, GroupInv, [Next]_vars PROVE GroupInv'
  OBVIOUS
<1>1. CASE UNCHANGED <<group, registered>>
  BY <1>1 DEF GroupInv
<1>2. ASSUME NEW t \in TechniquesOf[request.kind], Add(t) PROVE GroupInv'
  BY <1>2, Zenon DEF Add, GroupInv
<1>3. CASE Register
  <2>1. group' = build_validated_group(group) /\ group \in Seq(InUse)
    BY <1>3 DEF Register, TypeInv
  <2> QED
    BY <2>1, ValidatedSplitsOnce DEF GroupInv
<1>4. CASE Capture \/ ForgetSeq \/ ApplyTechnique \/ Decide \/ Send
  BY <1>1, <1>4 DEF Capture, ForgetSeq, ApplyTechnique, Decide, Send
<1>5. CASE \E s \in wire : Receive(s) \/ Lose(s)
  BY <1>1, <1>5 DEF Receive, Lose
<1>6. CASE UNCHANGED vars
  BY <1>1, <1>6 DEF vars
<1> QED
  BY <1>2, <1>3, <1>4, <1>5, <1>6 DEF Next

\* What a sequence brings when more is put behind it.
LEMMA JoinIs ==
  ASSUME NEW S, NEW a \in Seq(S), NEW b \in Seq(S), NEW i
  PROVE  /\ NoneIn(a, i) /\ NoneIn(b, i) => NoneIn(a \o b, i)
         /\ NoneIn(a, i) /\ OnceIn(b, i) => OnceIn(a \o b, i)
         /\ OnceIn(a, i) /\ NoneIn(b, i) => OnceIn(a \o b, i)
<1> DEFINE c == a \o b  B(x) == Brings(x, i)
<1>1. /\ DOMAIN c = 1 .. Len(a) + Len(b) /\ Len(a) \in Nat /\ Len(b) \in Nat
      /\ DOMAIN a = 1 .. Len(a) /\ DOMAIN b = 1 .. Len(b)
      /\ \A k \in 1 .. Len(a) : c[k] = a[k]
      /\ \A k \in 1 .. Len(b) : c[Len(a) + k] = b[k]
  OBVIOUS
<1>2. \A k \in DOMAIN c : \/ k \in DOMAIN a /\ c[k] = a[k]
                          \/ k - Len(a) \in DOMAIN b /\ c[k] = b[k - Len(a)]
  <2> HIDE DEF c
  <2> TAKE k \in DOMAIN c
  <2>1. CASE k <= Len(a)
    BY <1>1, <2>1
  <2>2. CASE k > Len(a)
    <3>1. k - Len(a) \in 1 .. Len(b) /\ Len(a) + (k - Len(a)) = k
      BY <1>1, <2>2
    <3> QED
      BY <1>1, <3>1
  <2> QED
    BY <1>1, <2>1, <2>2
<1> HIDE DEF c, B
<1>3. ASSUME NoneIn(a, i), NoneIn(b, i) PROVE NoneIn(c, i)
  BY <1>2, <1>3 DEF NoneIn
<1>4. ASSUME NoneIn(a, i), OnceIn(b, i) PROVE OnceIn(c, i)
  <2>1. PICK k \in DOMAIN b : B(b[k]) /\ \A l \in DOMAIN b : B(b[l]) => l = k
    BY <1>4 DEF OnceIn, B
  <2>2. Len(a) + k \in DOMAIN c /\ B(c[Len(a) + k])
    BY <1>1, <2>1
  <2>3. ASSUME NEW l \in DOMAIN c, B(c[l]) PROVE l = Len(a) + k
    <3>1. l - Len(a) \in DOMAIN b /\ B(b[l - Len(a)])
      BY <1>2, <1>4, <2>3 DEF NoneIn, B
    <3>2. l - Len(a) = k
      BY <2>1, <3>1
    <3> QED
      BY <1>1, <3>1, <3>2
  <2> QED
    BY <2>2, <2>3 DEF OnceIn, B
<1>5. ASSUME OnceIn(a, i), NoneIn(b, i) PROVE OnceIn(c, i)
  <2>1. PICK k \in DOMAIN a : B(a[k]) /\ \A l \in DOMAIN a : B(a[l]) => l = k
    BY <1>5 DEF OnceIn, B
  <2>2. k \in DOMAIN c /\ B(c[k])
    BY <1>1, <2>1
  <2>3. ASSUME NEW l \in DOMAIN c, B(c[l]) PROVE l = k
    <3>1. l \in DOMAIN a /\ B(a[l])
      BY <1>2, <1>5, <2>3 DEF NoneIn, B
    <3> QED
      BY <2>1, <3>1
  <2> QED
    BY <2>2, <2>3 DEF OnceIn, B
<1> QED
  BY <1>3, <1>4, <1>5 DEF c

LEMMA FineStays ==
  ASSUME NEW p \in Packets, Fine(p), NEW q \in Kin(p), Intact(p, q) \/ Part(p, q)
  PROVE  /\ Fine(q)
         /\ Intact(p, q) => \A i : Brings(q, i) <=> Brings(p, i)
<1>1. q.link = p.link
  BY DEF Kin
<1>2. Fine(q)
  BY <1>1 DEF Fine, SumsHold, Intact, Part
<1>3. ASSUME Intact(p, q), NEW i PROVE Brings(q, i) <=> Brings(p, i)
  <2>1. Carries(q, i) <=> Carries(p, i)
    BY <1>3 DEF Intact, Carries
  <2>2. validate_before_send(q) /\ validate_before_send(p)
    BY <1>2 DEF Fine, validate_before_send
  <2>3. q.ttl >= OwnTtl /\ p.ttl >= OwnTtl /\ SumsHold(q) /\ SumsHold(p)
    BY <1>2, Sizes DEF Fine
  <2> QED
    BY <2>1, <2>2, <2>3 DEF Brings
<1> QED
  BY <1>2, <1>3

\* The positions of a request are below the server's window.
LEMMA WantedFits ==
  ASSUME TypeInv
  PROVE  /\ Units(request.kind) \in Nat \ {0}
         /\ \A i \in Wanted : i \in Int /\ 0 <= i /\ i < Units(request.kind) /\ i < ServerWindow
<1>1. Units(request.kind) \in Nat \ {0} /\ Units(request.kind) <= Length
  BY RequestFields, UnitsFit
<1> QED
  BY <1>1, Sizes DEF Wanted

\* The group's next technique edits the packet or adds decoys.
LEMMA TameFlies ==
  ASSUME TypeInv, OffsetLowers, request.kind # "quic", ~Damaged,
         NEW n \in Nat, NEW s \in States(request, n + 1), s.next <= n, ~s.drop,
         s.next \in DOMAIN group, group[s.next] \notin EditsTheStream,
         NEW r, Tame(group[s.next], s.packet, r),
         Fine(s.packet), Uncut(s) \/ CutOnce(s)
  PROVE  Fine(Merged(s, r).packet) /\ (Uncut(Merged(s, r)) \/ CutOnce(Merged(s, r)))
<1> DEFINE t == group[s.next]  p == s.packet  u == Merged(s, r)
<1>1. p \in Packets /\ p.kind = request.kind /\ p.link = request.link /\ r \in Results(p)
      /\ Kin(p) = Kin(request)
  BY KinOfKin DEF States, Kin, Tame
<1>2. ~Harms(t, p.link)
  BY <1>1 DEF Harms, Damaged, At
<1>3. /\ ~r.drop_original
      /\ \A k \in DOMAIN r.modified : Intact(p, r.modified[k])
      /\ (r.modified # << >> /\ Len(p.data) <= Units(p.kind)) => t \in Editors
  BY <1>1, <1>2 DEF Tame
<1>4. /\ u.next = s.next + 1 /\ u.packet = (IF r.modified = << >> THEN p ELSE r.modified[1])
      /\ u.injects = s.injects \o r.inject
  BY <1>1, MergedIs
<1>5. (u.modified_dirty <=> (s.modified_dirty \/ r.modified # << >>)) /\ ~u.drop
  <2>1. u.modified_dirty <=> (s.modified_dirty \/ r.modified # << >>)
    BY <1>1, MergedIs
  <2>2. u.drop <=> (s.drop \/ r.drop_original)
    BY <1>1, MergedIs
  <2> QED
    BY <1>3, <2>1, <2>2
<1> HIDE DEF u
<1>6. /\ Fine(u.packet) /\ u.packet.at = p.at /\ u.packet.data = p.data
      /\ \A i : Brings(u.packet, i) <=> Brings(p, i)
  <2>1. CASE r.modified = << >>
    BY <1>4, <2>1
  <2>2. CASE r.modified # << >>
    <3>1. r.modified[1] \in Kin(p) /\ Intact(p, r.modified[1])
      BY <1>1, <1>3, <2>2 DEF Results
    <3>2. u.packet = r.modified[1]
      BY <1>4, <2>2
    <3> HIDE DEF p
    <3>3. u.packet.at = p.at /\ u.packet.data = p.data
      BY <3>1, <3>2 DEF Intact
    <3>4. Fine(u.packet) /\ \A i : Brings(u.packet, i) <=> Brings(p, i)
      BY <1>1, <3>1, <3>2, FineStays DEF p
    <3> QED
      BY <3>3, <3>4
  <2> QED
    BY <2>1, <2>2
<1>7. s.injects \in Seq(Kin(request)) /\ r.inject \in Seq(Kin(request))
  BY <1>1 DEF States, Results
<1>8. ASSUME NEW i \in Wanted PROVE NoneIn(r.inject, i)
  <2>1. p.ttl <= OwnTtl /\ i \in Int /\ i < ServerWindow
    BY WantedFits, Sizes DEF Fine
  <2>2. \A k \in DOMAIN r.inject : r.inject[k] \in Kin(p) /\ Decoyed(p, r.inject[k])
    BY <1>1, <1>7 DEF Tame
  <2> QED
    BY <1>1, <2>1, <2>2, DecoysBringNothing DEF NoneIn
<1>9. CASE Uncut(s)
  <2>1. u.packet.at = 0 /\ Len(u.packet.data) = Units(request.kind)
    BY <1>6, <1>9 DEF Uncut
  <2>2. \A i \in Wanted : NoneIn(u.injects, i)
    BY <1>4, <1>7, <1>8, <1>9, JoinIs DEF Uncut
  <2>3. u.modified_dirty => At(group, Editors) # {}
    <3>1. CASE s.modified_dirty
      BY <1>9, <3>1 DEF Uncut
    <3>2. CASE r.modified # << >>
      <4>1. Len(p.data) <= Units(p.kind)
        BY <1>1, <1>9, WantedFits DEF Uncut
      <4>2. s.next \in At(group, Editors)
        BY <1>3, <3>2, <4>1 DEF At
      <4> QED
        BY <4>2
    <3> QED
      BY <1>5, <3>1, <3>2
  <2> QED
    BY <1>5, <1>6, <2>1, <2>2, <2>3 DEF Uncut, u
<1>10. CASE CutOnce(s)
  <2>1. \E j \in DOMAIN group : j < u.next /\ group[j] \in RealSplits
    <3>1. PICK j \in DOMAIN group : j < s.next /\ group[j] \in RealSplits
      BY <1>10 DEF CutOnce
    <3>2. j \in Nat /\ s.next \in Nat
      BY DEF TypeInv, States
    <3> QED
      BY <1>4, <3>1, <3>2
  <2>2. ASSUME NEW i \in Wanted PROVE Exactly(u, i)
    <3>1. Sent(s) /\ Sent(u)
      BY <1>5 DEF Sent
    <3>2. \/ Brings(p, i) /\ NoneIn(s.injects, i)
          \/ OnceIn(s.injects, i) /\ ~Brings(p, i)
      BY <1>10, <3>1 DEF CutOnce, Exactly
    <3>3. \/ Brings(p, i) /\ NoneIn(u.injects, i)
          \/ OnceIn(u.injects, i) /\ ~Brings(p, i)
      BY <1>4, <1>7, <1>8, <3>2, JoinIs
    <3> QED
      BY <1>6, <3>1, <3>3 DEF Exactly
  <2> QED
    BY <1>6, <2>1, <2>2 DEF CutOnce, u
<1> QED
  BY <1>9, <1>10

\* The group's next technique cuts the packet: it is the first that does.
LEMMA CutFlies ==
  ASSUME TypeInv, GroupInv, registered, OffsetLowers, request.kind # "quic", ~Damaged,
         NEW n \in Nat, NEW s \in States(request, n + 1), s.next <= n, ~s.drop,
         s.next \in DOMAIN group, group[s.next] \in RealSplits,
         NEW r, Cut(s.packet, r), Leaves(group[s.next], r),
         Fine(s.packet), Uncut(s) \/ CutOnce(s)
  PROVE  Fine(Merged(s, r).packet) /\ (Uncut(Merged(s, r)) \/ CutOnce(Merged(s, r)))
<1> DEFINE t == group[s.next]  p == s.packet  u == Merged(s, r)
<1>1. p \in Packets /\ r \in Results(p) /\ Kin(p) = Kin(request)
  BY KinOfKin DEF States, Kin, Cut
<1>2. Uncut(s)
  <2>1. ASSUME CutOnce(s) PROVE FALSE
    <3>1. PICK j \in DOMAIN group : j < s.next /\ group[j] \in RealSplits
      BY <2>1 DEF CutOnce
    <3>2. RealSplits \subseteq Split
      BY DEF RealSplits, Split
    <3>3. j = s.next /\ j \in Nat
      BY <3>1, <3>2 DEF GroupInv, TypeInv
    <3> QED
      BY <3>1, <3>3
  <2> QED
    BY <2>1
<1>3. /\ u.next = s.next + 1 /\ u.packet = (IF r.modified = << >> THEN p ELSE r.modified[1])
      /\ u.injects = s.injects \o r.inject
  BY <1>1, MergedIs
<1>4. u.modified_dirty <=> (s.modified_dirty \/ r.modified # << >>)
  BY <1>1, MergedIs
<1>5. u.drop <=> (s.drop \/ r.drop_original)
  BY <1>1, MergedIs
<1> HIDE DEF u
<1>6. Fine(u.packet)
  <2>1. CASE r.modified = << >>
    BY <1>3, <2>1
  <2>2. CASE r.modified # << >>
    <3>1. r.modified[1] \in Kin(p) /\ Part(p, r.modified[1])
      BY <1>1, <2>2 DEF Results, Cut, Deals
    <3> HIDE DEF p
    <3> QED
      BY <1>1, <1>3, <2>2, <3>1, FineStays DEF p
  <2> QED
    BY <2>1, <2>2
\* What replaces nothing is dropped, and no editor has made it stay.
<1>7. r.modified = << >> => ~Sent(u)
  <2>1. SUFFICES ASSUME r.modified = << >> PROVE ~Sent(u)
    OBVIOUS
  <2>2. u.drop
    BY <1>5, <2>1 DEF Cut
  <2>3. At(group, {"UnidirFrag", "TlsRecordFrag"}) # {}
    BY <2>1 DEF Leaves, At
  <2>4. At(group, Editors) = {}
    BY <2>3 DEF Damaged, Editors
  <2>5. ~s.modified_dirty
    BY <1>2, <2>4 DEF Uncut
  <2>6. ~u.modified_dirty
    BY <1>4, <2>1, <2>5
  <2> QED
    BY <2>2, <2>6 DEF Sent
<1>8. r.modified # << >> => Sent(u) /\ u.packet = r.modified[1]
  BY <1>3, <1>4 DEF Sent
<1>9. s.injects \in Seq(Kin(request)) /\ r.inject \in Seq(Kin(request))
      /\ (r.modified # << >> => 1 \in DOMAIN r.modified)
  BY <1>1 DEF States, Results
<1>10. ASSUME NEW i \in Wanted PROVE Exactly(u, i)
  <2>1. i \in p.at .. p.at + Len(p.data) - 1 /\ i < ServerWindow
    BY <1>2, WantedFits DEF Uncut
  <2>2. p.ttl = OwnTtl
    BY DEF Fine
  <2>3. \/ OnceIn(r.inject, i) /\ \A k \in DOMAIN r.modified : ~Brings(r.modified[k], i)
        \/ NoneIn(r.inject, i) /\ r.modified # << >> /\ Brings(r.modified[1], i)
    BY <2>1, <2>2 DEF Cut, Deals
  <2>4. NoneIn(s.injects, i)
    BY <1>2 DEF Uncut
  <2>5. CASE OnceIn(r.inject, i) /\ \A k \in DOMAIN r.modified : ~Brings(r.modified[k], i)
    <3>1. OnceIn(u.injects, i)
      BY <1>3, <1>9, <2>4, <2>5, JoinIs
    <3>2. Sent(u) => ~Brings(u.packet, i)
      BY <1>7, <1>8, <1>9, <2>5
    <3> QED
      BY <3>1, <3>2 DEF Exactly
  <2>6. CASE NoneIn(r.inject, i) /\ r.modified # << >> /\ Brings(r.modified[1], i)
    <3>1. NoneIn(u.injects, i)
      BY <1>3, <1>9, <2>4, <2>6, JoinIs
    <3> QED
      BY <1>8, <2>6, <3>1 DEF Exactly
  <2> QED
    BY <2>3, <2>5, <2>6
<1>11. s.next < u.next
  BY <1>3 DEF States
<1> QED
  BY <1>6, <1>10, <1>11 DEF CutOnce, u

\* BadChecksum: the group splits nothing, so that what it damages are decoys.
LEMMA BadChecksumFlies ==
  ASSUME TypeInv, request.kind # "quic", ~Damaged,
         allow_destructive_manipulation => "offload" \notin Networks,
         NEW n \in Nat, NEW s \in States(request, n + 1), s.next <= n, ~s.drop,
         s.next \in DOMAIN group, group[s.next] = "BadChecksum",
         Fine(s.packet), Uncut(s) \/ CutOnce(s)
  PROVE  /\ Fine(Rewritten("BadChecksum", s).packet)
         /\ Uncut(Rewritten("BadChecksum", s)) \/ CutOnce(Rewritten("BadChecksum", s))
<1> DEFINE m == n + 1  v == Marked("BadChecksum", s)  r == Again("BadChecksum", s)
           p == s.packet  u == Merged(v, r)
<1>1. m \in Nat /\ s \in States(request, m)
  OBVIOUS
<1>2. p \in Packets /\ Kin(p) = Kin(request) /\ p.link = request.link
  BY KinOfKin DEF States, Kin
<1>3. Uncut(s)
  <2>1. s.next \in At(group, {"BadChecksum"})
    BY DEF At
  <2>2. At(group, RealSplits) = {}
    BY <2>1 DEF Damaged
  <2> QED
    BY <2>2 DEF CutOnce, At
<1> HIDE DEF m
<1>4. v \in States(request, m) /\ v.next = s.next /\ v.packet = p
  <2>1. v \in States(request, m)
    BY <1>1, MarkedIs
  <2>2. v.next = s.next /\ v.packet = p
    BY <1>1, MarkedKeeps
  <2> HIDE DEF v
  <2> QED
    BY <2>1, <2>2
<1>5. DOMAIN v.injects = DOMAIN s.injects
      /\ \A i \in DOMAIN s.injects : v.injects[i] = bad_checksum(s.injects[i])
  BY <1>1, MarkedIs
<1>6. Rewritten("BadChecksum", s) = u /\ r \in Results(p)
  BY <1>1, RewrittenIs
<1>7. (v.drop <=> s.drop) /\ (v.modified_dirty <=> s.modified_dirty)
  BY <1>1, MarkedFlags
<1>8. r = Passthrough \/ (r = inject_only(bad_checksum(p)) /\ allow_destructive_manipulation
                          /\ p.link # "ipv6")
  BY DEF Again
<1>9. r.modified = << >> /\ ~r.drop_original
      /\ (r.inject = << >> \/ (r.inject = <<bad_checksum(p)>> /\ allow_destructive_manipulation
                               /\ p.link # "ipv6"))
  BY <1>8 DEF Passthrough, inject_only, Result
<1> HIDE DEF v, r
<1>10. u.packet = p /\ u.injects = v.injects \o r.inject
  <2>1. v \in States(request, n + 1) /\ v.next <= n /\ r \in Results(v.packet)
    BY <1>4, <1>6 DEF m
  <2>2. u.packet = IF r.modified = << >> THEN v.packet ELSE r.modified[1]
    BY <2>1, MergedIs
  <2>3. u.injects = v.injects \o r.inject
    BY <2>1, MergedIs
  <2> HIDE DEF u
  <2> QED
    BY <1>4, <1>9, <2>2, <2>3
<1>11. (u.modified_dirty <=> s.modified_dirty) /\ ~u.drop
  <2>1. u.modified_dirty <=> (v.modified_dirty \/ r.modified # << >>)
    BY <1>4, <1>6, MergedIs DEF m
  <2>2. u.drop <=> (v.drop \/ r.drop_original)
    BY <1>4, <1>6, MergedIs DEF m
  <2> QED
    BY <1>7, <1>9, <2>1, <2>2
\* A damaged packet brings no more than it did, and the client's own nothing.
<1>12. ASSUME NEW x \in Packets, NEW i, Brings(bad_checksum(x), i) PROVE Brings(x, i)
  <2>1. bad_checksum(x).form <=> x.form
    BY DEF bad_checksum, Packets, Segments
  <2>2. bad_checksum(x).ttl = x.ttl /\ (SumsHold(bad_checksum(x)) => SumsHold(x))
    BY DEF bad_checksum, Packets, Segments, SumsHold
  <2>3. Carries(bad_checksum(x), i) => Carries(x, i)
    BY RewriteIs DEF Carries
  <2> QED
    BY <1>12, <2>1, <2>2, <2>3 DEF Brings, validate_before_send
<1>13. ASSUME allow_destructive_manipulation, p.link # "ipv6", NEW i
       PROVE  ~Brings(bad_checksum(p), i)
  <2>1. p.link # "offload"
    BY <1>2, <1>13, RequestFields
  <2>2. bad_checksum(p).bad = {"ip", "tcp"} /\ bad_checksum(p).link = p.link
    BY <1>2, <1>13 DEF bad_checksum, Packets, Segments
  <2> QED
    BY <2>1, <2>2 DEF Brings, SumsHold
<1>14. s.injects \in Seq(Kin(request)) /\ v.injects \in Seq(Kin(request))
       /\ r.inject \in Seq(Kin(request))
  BY <1>1, <1>2, <1>4, <1>6 DEF States, Results
<1>15. ASSUME NEW i \in Wanted PROVE NoneIn(u.injects, i)
  <2>1. NoneIn(v.injects, i)
    <3>1. ASSUME NEW k \in DOMAIN v.injects PROVE ~Brings(v.injects[k], i)
      <4>1. s.injects[k] \in Packets /\ ~Brings(s.injects[k], i)
            /\ v.injects[k] = bad_checksum(s.injects[k])
        BY <1>3, <1>5, <1>14 DEF Kin, Uncut, NoneIn
      <4> QED
        BY <1>12, <4>1
    <3> QED
      BY <3>1 DEF NoneIn
  <2>2. NoneIn(r.inject, i)
    BY <1>9, <1>13 DEF NoneIn
  <2> QED
    BY <1>10, <1>14, <2>1, <2>2, JoinIs
<1> HIDE DEF u, p
<1>16. Fine(u.packet)
  BY <1>10 DEF p
<1>17. Uncut(u)
  BY <1>3, <1>10, <1>11, <1>15 DEF Uncut, p
<1> QED
  BY <1>6, <1>16, <1>17

\* What the theorem about flights takes for granted beside KeepsStream and
\* OffsetLowers: no profile rewrites the TTL of what was injected before, and the
\* driver does not repair the packets that BadChecksum damages on purpose.
FlightAssumption ==
  /\ KeepsStream /\ OffsetLowers /\ ~Used("TtlManipulation")
  /\ allow_destructive_manipulation => "offload" \notin Networks

LEMMA ApplyFlies ==
  ASSUME FlightAssumption, TypeInv, GroupInv, request.kind # "quic", ~Damaged,
         Fine(state.packet), Uncut(state) \/ CutOnce(state), ApplyTechnique
  PROVE  Fine(state'.packet) /\ (Uncut(state') \/ CutOnce(state'))
<1> DEFINE t == group[state.next]  p == state.packet  n == Len(group)
<1>1. /\ state \in States(request, n + 1) /\ state.next <= n /\ n \in Nat /\ ~state.drop
      /\ registered /\ state.next \in DOMAIN group /\ t \in InUse /\ p \in Packets
  BY ApplyIs DEF StateFacts, TypeInv
<1>2. t \notin EditsTheStream /\ t # "TtlManipulation"
  BY <1>1 DEF InUse, Stands, KeepsStream, EditsTheStream, FlightAssumption
<1>3. OffsetLowers /\ (allow_destructive_manipulation => "offload" \notin Networks)
  BY DEF FlightAssumption
<1> HIDE DEF n
<1>4. ASSUME NEW r, Tame(t, p, r), state' = Merged(state, r)
      PROVE  Fine(state'.packet) /\ (Uncut(state') \/ CutOnce(state'))
  BY <1>1, <1>2, <1>3, <1>4, TameFlies
<1>5. ASSUME NEW r, Cut(p, r), Leaves(t, r), t \in RealSplits, state' = Merged(state, r)
      PROVE  Fine(state'.packet) /\ (Uncut(state') \/ CutOnce(state'))
  BY <1>1, <1>3, <1>5, CutFlies
<1>6. CASE t = "BadChecksum" /\ state' = Rewritten(t, state)
  BY <1>1, <1>3, <1>6, BadChecksumFlies
<1>7. CASE t \in RealSplits
           /\ \E r : (r = Passthrough \/ (Cut(p, r) /\ Leaves(t, r))) /\ state' = Merged(state, r)
  <2>1. PICK r : (r = Passthrough \/ (Cut(p, r) /\ Leaves(t, r))) /\ state' = Merged(state, r)
    BY <1>7, ApplyIs DEF RealSplits
  <2>2. CASE r = Passthrough
    BY <1>1, <1>4, <2>1, <2>2, PassthroughIsTame
  <2>3. CASE Cut(p, r) /\ Leaves(t, r)
    BY <1>5, <1>7, <2>1, <2>3
  <2> QED
    BY <2>1, <2>2, <2>3
<1> HIDE DEF t, p
<1> QED
  BY <1>2, <1>4, <1>6, <1>7, ApplyIs DEF t, p

LEMMA FlightInit == Init => FlightInv
BY DEF Init, FlightInv

LEMMA FlightStep ==
  ASSUME FlightAssumption, TypeInv, GroupInv, FlightInv, [Next]_vars
  PROVE  FlightInv'
<1> SUFFICES ASSUME request'.kind # "quic", ~Damaged', state' # Idle
             PROVE  (Fine(state.packet))' /\ ((Uncut(state))' \/ (CutOnce(state))')
  BY DEF FlightInv
\* Outside of a request nothing is claimed; within one, group and request stay.
<1>1. ASSUME UNCHANGED <<request, group>>
      PROVE  /\ Damaged' = Damaged
             /\ (Uncut(state))' = Uncut(state') /\ (CutOnce(state))' = CutOnce(state')
             /\ (Fine(state.packet))' = Fine(state'.packet)
  <2>1. Damaged' = Damaged
    BY <1>1 DEF Damaged, At
  <2>2. (Fine(state.packet))' = Fine(state'.packet)
    BY DEF Fine, SumsHold
  <2>3. (Uncut(state))' = Uncut(state')
    BY <1>1 DEF Uncut, Wanted, NoneIn, Brings, At, Carries, SumsHold, validate_before_send
  <2>4. (CutOnce(state))' = CutOnce(state')
    BY <1>1 DEF CutOnce, Wanted
  <2> QED
    BY <2>1, <2>2, <2>3, <2>4
<1>2. CASE UNCHANGED <<request, group, state>>
  BY <1>1, <1>2 DEF FlightInv
<1>3. ASSUME NEW t \in TechniquesOf[request.kind], Add(t) PROVE FALSE
  BY <1>3 DEF Add, TypeInv
<1>4. CASE Register
  BY <1>4 DEF Register, TypeInv
<1>5. CASE Capture
  <2>1. state = Idle /\ state' = FromPacket(request) /\ UNCHANGED <<request, group>>
    BY <1>5 DEF Capture
  <2>2. Fine(state'.packet)
    <3>1. state'.packet = request
      BY <2>1 DEF FromPacket
    <3> QED
      BY <3>1, RequestFields DEF Fine, SumsHold
  <2>3. Uncut(state')
    <3>1. /\ state'.packet = request /\ state'.injects = << >>
          /\ ~state'.drop /\ ~state'.modified_dirty
      BY <2>1 DEF FromPacket
    <3>2. \A i \in Wanted : NoneIn(state'.injects, i)
      BY <3>1 DEF NoneIn
    <3> QED
      BY <3>1, <3>2, RequestFields DEF Uncut
  <2> QED
    BY <1>1, <2>1, <2>2, <2>3
<1>6. CASE ApplyTechnique
  <2>1. UNCHANGED <<request, group>> /\ state # Idle
    BY <1>6 DEF ApplyTechnique, MoreToApply
  <2>2. request.kind # "quic" /\ ~Damaged
    BY <1>1, <2>1
  <2>3. Fine(state.packet) /\ (Uncut(state) \/ CutOnce(state))
    BY <2>1, <2>2 DEF FlightInv
  <2> QED
    BY <1>1, <1>6, <2>1, <2>2, <2>3, ApplyFlies
<1>7. CASE Decide
  BY <1>7 DEF Decide
<1>8. CASE ForgetSeq \/ Send \/ (\E s \in wire : Receive(s) \/ Lose(s)) \/ UNCHANGED vars
  BY <1>2, <1>8 DEF ForgetSeq, Send, Receive, Lose, vars
<1> QED
  BY <1>3, <1>4, <1>5, <1>6, <1>7, <1>8 DEF Next

\* A decision made of such a state is whole.
LEMMA ExactlyIsWhole ==
  ASSUME TypeInv, NEW n, NEW s \in States(request, n), \A i \in Wanted : Exactly(s, i)
  PROVE  Whole(Decided(s))
<1> SUFFICES ASSUME NEW i \in Wanted
             PROVE  Cardinality({k \in DOMAIN Decided(s) : Brings(Decided(s)[k], i)}) = 1
  BY DEF Whole
<1>1. s.injects \in Seq(Kin(request)) /\ s.packet \in Kin(request)
  BY DEF States
<1>2. Decided(s) = s.injects \o (IF Sent(s) THEN <<s.packet>> ELSE << >>)
  BY DEF Decided, Sent
<1> DEFINE a == s.injects  b == IF Sent(s) THEN <<s.packet>> ELSE << >>
<1>3. a \in Seq(Kin(request)) /\ b \in Seq(Kin(request))
  BY <1>1
<1>4. Decided(s) = a \o b
  BY <1>2
<1>5. \/ NoneIn(a, i) /\ OnceIn(b, i)
      \/ OnceIn(a, i) /\ NoneIn(b, i)
  <2>1. CASE Sent(s) /\ Brings(s.packet, i) /\ NoneIn(s.injects, i)
    <3>1. b = <<s.packet>>
      BY <2>1
    <3>2. DOMAIN b = {1} /\ b[1] = s.packet
      BY <3>1
    <3> HIDE DEF b
    <3>3. OnceIn(b, i)
      BY <2>1, <3>2 DEF OnceIn
    <3> QED
      BY <2>1, <3>3
  <2>2. CASE OnceIn(s.injects, i) /\ (Sent(s) => ~Brings(s.packet, i))
    <3>1. ASSUME NEW k \in DOMAIN b PROVE Sent(s) /\ b[k] = s.packet
      <4>1. CASE Sent(s)
        BY <4>1
      <4>2. CASE ~Sent(s)
        BY <4>2
      <4> QED
        BY <4>1, <4>2
    <3>2. NoneIn(b, i)
      BY <2>2, <3>1 DEF NoneIn
    <3> QED
      BY <2>2, <3>2
  <2> QED
    BY <2>1, <2>2 DEF Exactly
<1> HIDE DEF a, b
<1>6. OnceIn(Decided(s), i)
  BY <1>3, <1>4, <1>5, JoinIs
<1> DEFINE f == Decided(s)
<1> HIDE DEF f
<1>7. PICK k \in DOMAIN f : Brings(f[k], i) /\ \A l \in DOMAIN f : Brings(f[l], i) => l = k
  BY <1>6 DEF OnceIn, f
<1>8. {l \in DOMAIN f : Brings(f[l], i)} = {k}
  BY <1>7
<1>9. Cardinality({k}) = 1
  BY FS_Singleton
<1> QED
  BY <1>8, <1>9 DEF f

LEMMA DecisionIsWhole ==
  ASSUME FlightAssumption, TypeInv, FlightInv, [Next]_vars,
         request.kind # "quic", ~Damaged, state # Idle, state' = Idle
  PROVE  Whole(outbox')
<1>1. Fine(state.packet) /\ (Uncut(state) \/ CutOnce(state))
  BY DEF FlightInv
<1>2. registered /\ state \in States(request, Len(group) + 1)
  BY DEF TypeInv
<1>3. Decide
  <2>1. ~ApplyTechnique
    <3>1. ASSUME ApplyTechnique PROVE FALSE
      <4>1. state' \in States(request, Len(group) + 1) /\ Len(group) \in Nat
        BY <3>1, ApplyTypes DEF TypeInv
      <4>2. state'.next >= 1
        BY <4>1 DEF States
      <4> QED
        BY <4>2 DEF Idle
    <3> QED
      BY <3>1
  <2>2. ASSUME UNCHANGED state PROVE FALSE
    BY <2>2
  <2>3. ~Capture /\ ~Register /\ ~ForgetSeq /\ ~Send /\ ~UNCHANGED vars
    BY <2>2 DEF Capture, Register, ForgetSeq, Send, vars
  <2>4. ~(\E t \in TechniquesOf[request.kind] : Add(t)) /\ ~(\E s \in wire : Receive(s) \/ Lose(s))
    BY <2>2 DEF Add, Receive, Lose
  <2> QED
    BY <2>1, <2>3, <2>4 DEF Next
<1>4. ASSUME NEW i \in Wanted PROVE Exactly(state, i)
  <2>1. CASE Uncut(state)
    <3>1. Brings(state.packet, i)
      <4>1. state.packet \in Packets
        BY <1>2 DEF States, Kin
      <4>2. /\ state.packet.ttl >= OwnTtl /\ SumsHold(state.packet)
            /\ validate_before_send(state.packet)
        BY <1>1, Sizes DEF Fine, validate_before_send
      <4>3. Carries(state.packet, i)
        BY <2>1, WantedFits DEF Uncut, Carries
      <4> QED
        BY <4>2, <4>3 DEF Brings
    <3> QED
      BY <2>1, <3>1 DEF Uncut, Exactly, Sent
  <2>2. CASE CutOnce(state)
    BY <2>2 DEF CutOnce
  <2> QED
    BY <1>1, <2>1, <2>2
<1>5. outbox' = Decided(state) /\ request' = request
  BY <1>3 DEF Decide
<1>6. Whole(Decided(state))
  BY <1>2, <1>4, ExactlyIsWhole
<1> QED
  BY <1>5, <1>6

\* What is decided for a TCP request holds each of its bytes once, whatever group
\* that keeps the stream has run and unless it is one of the Damaged: merging the
\* results, dropping the packet and sending it modified neither lose nor repeat a
\* byte (merge_into_state and into_result, desync/group.rs).
THEOREM FlightStaysWhole ==
  ASSUME FlightAssumption
  PROVE  Spec => FlightIsWhole
<1> DEFINE Claim == (request.kind # "quic" /\ state # Idle /\ state' = Idle /\ ~Damaged)
                      => Whole(outbox')
<1>1. TypeInv /\ GroupInv /\ [Next]_vars => GroupInv'
  BY GroupStep
<1>2. TypeInv /\ GroupInv /\ FlightInv /\ [Next]_vars => FlightInv'
  BY FlightStep
<1>3. TypeInv /\ FlightInv /\ [Next]_vars => [Claim]_vars
  BY DecisionIsWhole
<1> QED
  BY <1>1, <1>2, <1>3, TypeInvHolds, GroupInit, FlightInit, PTL DEF Spec, FlightIsWhole
=============================================================================
