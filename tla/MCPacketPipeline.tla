-------------------------- MODULE MCPacketPipeline --------------------------
(* Values for the small instance of PacketPipeline: two packets of one flow *)
(* around one that shows none; decisions with every way out of              *)
(* shard_process_one.                                                       *)
EXTENDS PacketPipeline

CONSTANTS f1, h1, h2, s1, s2

Interleaved == <<f1, None, f1>>
FirstBytes == <<h1, h2, h1>>
OwnShard == [k \in {f1, h1, h2} |-> IF k = f1 THEN s1 ELSE s2]

Decoyed == [decoys |-> <<"now">>, body |-> "rewritten"]
Malformed == [decoys |-> <<"malformed">>, body |-> "malformed"]
PacedUdp == [decoys |-> <<"laterRaw">>, body |-> "none"]

Mixed == {Decoyed, Malformed, PacedUdp}
=============================================================================
