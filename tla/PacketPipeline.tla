---------------------------- MODULE PacketPipeline ----------------------------
(***************************************************************************)
(* The packet path of ProcessingPipeline (src/core/src/engine/mod.rs): one *)
(* capture thread receives batches from the driver and hands each packet   *)
(* to the bounded queue of the shard its flow hashes to; one worker per    *)
(* shard decides on each packet, collects what is to be sent and flushes   *)
(* it; the DelayedInject thread sends the segments whose time has come.    *)
(*                                                                         *)
(* A packet is its arrival number.  What process_one_sync decides on a     *)
(* packet is a choice over Decisions: a sequence of decoys to inject, each *)
(* with the way it travels, and what becomes of the packet itself (its     *)
(* "body").  Decoys are numbered from 1; part 0 of a packet is its body.   *)
(*                                                                         *)
(* A due time is left out: any segment on the heap may be the next due.    *)
(* A thread reads the shutdown flag between two batches, before a receive  *)
(* that may block: what comes after the stop is still taken by a receive   *)
(* that began before it.                                                   *)
(***************************************************************************)
EXTENDS Integers, Sequences, FiniteSets

CONSTANTS NumPackets,  \* packets that arrive
          Flows, None, FlowOf,  \* the bidirectional flow of each packet, or None
          Heads, HeadOf,  \* the length and first bytes of each packet
          Shards, ShardOf,  \* the shard each flow and each head hashes to
          QueueDepth,  \* of a shard queue (8192 in the code)
          RecvBatch,   \* packets per receive (64)
          TxLimit,     \* actions after which a worker flushes (64)
          DelayDepth,  \* of the DelayedInject channel (10000)
          Decisions,   \* what process_one_sync may decide
          MayFail,     \* TRUE iff the driver may refuse a packet
          MayStop      \* TRUE iff the service may be told to stop

Packets == 1 .. NumPackets
Body == 0
DecoyKinds == {"now", "raw", "later", "laterRaw", "malformed"}
BodyKinds == {"original", "rewritten", "malformed", "none"}
Plan == [decoys : Seq(DecoyKinds), body : BodyKinds]

ASSUME PipelineAssumption ==
  /\ NumPackets \in Nat
  /\ IsFiniteSet(Shards)
  /\ FlowOf \in [Packets -> Flows \cup {None}] /\ HeadOf \in [Packets -> Heads]
  /\ ShardOf \in [Flows \cup Heads -> Shards]
  /\ QueueDepth \in Nat \ {0} /\ RecvBatch \in Nat \ {0} /\ TxLimit \in Nat \ {0}
  /\ DelayDepth \in Nat
  /\ Decisions \subseteq Plan
  /\ MayFail \in BOOLEAN /\ MayStop \in BOOLEAN

VARIABLES
  arrived,   \* packets the network stack has given to the driver
  received,  \* packets the capture thread has taken from the driver
  capturing, \* FALSE once the capture thread has returned
  receiving, \* TRUE while it is in the receive that follows its look at the flag
  recvBuf,   \* what is left of the batch being dispatched
  queue,     \* the bounded queue of each shard
  wpc,       \* where each worker is in its loop
  work,      \* the packet in a worker's hands, the decision on it, the next decoy
  txq,       \* tx_queue of each worker: the parts to send
  channel,   \* the channel into the DelayedInject thread
  heap,      \* the segments that thread holds until they are due
  stop,      \* shutdown_flag
  wire,      \* history: the parts sent, in order
  fate,      \* history: what became of a packet that was not sent
  bypassed   \* history: packets the capture thread sent itself

capture == <<arrived, received, capturing, receiving, recvBuf>>
delayed == <<channel, heap>>
vars == <<capture, queue, wpc, work, txq, delayed, stop, wire, fate, bypassed>>

Nothing == [pkt |-> 0, plan |-> [decoys |-> <<>>, body |-> "none"], next |-> 1]
Elems(seq) == {seq[i] : i \in 1 .. Len(seq)}

Init ==
  /\ arrived = 0 /\ received = 0 /\ capturing = TRUE /\ receiving = FALSE
  /\ recvBuf = <<>>
  /\ queue = [s \in Shards |-> <<>>]
  /\ wpc = [s \in Shards |-> "idle"]
  /\ work = [s \in Shards |-> Nothing]
  /\ txq = [s \in Shards |-> <<>>]
  /\ channel = <<>> /\ heap = {}
  /\ stop = FALSE
  /\ wire = <<>>
  /\ fate = [p \in Packets |-> "open"]
  /\ bypassed = {}

-----------------------------------------------------------------------------
(* The driver (external) and the control plane.                            *)

Arrive ==
  /\ arrived < NumPackets
  /\ arrived' = arrived + 1
  /\ UNCHANGED <<received, capturing, receiving, recvBuf, queue, wpc, work, txq, delayed,
                 stop, wire, fate, bypassed>>

Shutdown ==
  /\ MayStop /\ ~stop
  /\ stop' = TRUE
  /\ UNCHANGED <<capture, queue, wpc, work, txq, delayed, wire, fate, bypassed>>

\* A part handed to the driver goes out, unless the driver refuses it: the
\* result of send_batch and inject_raw_udp only feeds counters and the log.
Transmit(p, i) ==
  \/ /\ wire' = Append(wire, <<p, i>>)
     /\ UNCHANGED fate
  \/ /\ MayFail
     /\ fate' = IF i = Body THEN [fate EXCEPT ![p] = "lost"] ELSE fate
     /\ UNCHANGED wire

-----------------------------------------------------------------------------
(* capture_loop.                                                           *)

AvailableOffByOne(n) == received + n <= arrived + 1  \* variant
Available(n) == received + n <= arrived

\* The thread looks at the flag and either returns or goes on to receive.
CaptureCheck ==
  /\ capturing /\ ~receiving /\ recvBuf = <<>>
  /\ capturing' = ~stop /\ receiving' = ~stop
  /\ UNCHANGED <<arrived, received, recvBuf, queue, wpc, work, txq, delayed, stop, wire,
                 fate, bypassed>>

Receive(n) ==
  /\ receiving /\ recvBuf = <<>>
  /\ Available(n)
  /\ recvBuf' = [i \in 1 .. n |-> received + i]
  /\ received' = received + n
  /\ receiving' = FALSE
  /\ UNCHANGED <<arrived, capturing, queue, wpc, work, txq, delayed, stop, wire, fate,
                 bypassed>>

\* The receive returns without a packet, or fails: the loop is entered again.
ReceiveNothing ==
  /\ receiving
  /\ receiving' = FALSE
  /\ UNCHANGED <<arrived, received, capturing, recvBuf, queue, wpc, work, txq, delayed,
                 stop, wire, fate, bypassed>>

\* What is hashed: the flow, or the head of a packet that shows none.
Key(p) == IF FlowOf[p] \in Flows THEN FlowOf[p] ELSE HeadOf[p]

\* Variant: the hash depends on the packet, not on its flow.
shard_for_flowByPacket(p) ==
  IF p = 1 THEN ShardOf[Key(1)] ELSE CHOOSE s \in Shards : s # ShardOf[Key(1)]
shard_for_flow(p) == ShardOf[Key(p)]

\* try_send succeeds.
Enqueue(p, s) ==
  /\ wpc[s] # "stopped" /\ Len(queue[s]) < QueueDepth
  /\ queue' = [queue EXCEPT ![s] = Append(@, p)]
  /\ recvBuf' = Tail(recvBuf)
  /\ UNCHANGED <<capturing, wire, fate, bypassed>>

\* Variant: the packet that found the queue full is only released.
ForwardDirectlyDropped(p) == UNCHANGED <<wire, fate>>
ForwardDirectly(p) == Transmit(p, Body)

\* The queue is full: the capture thread itself sends the packet, unprocessed.
Overflow(p, s) ==
  /\ wpc[s] # "stopped" /\ Len(queue[s]) = QueueDepth
  /\ ForwardDirectly(p)
  /\ bypassed' = bypassed \cup {p}
  /\ recvBuf' = Tail(recvBuf)
  /\ UNCHANGED <<capturing, queue>>

Strand(S) == fate' = [p \in Packets |-> IF p \in S THEN "stranded" ELSE fate[p]]

\* The worker is gone: the capture thread returns with the rest of its batch.
Disconnected(s) ==
  /\ wpc[s] = "stopped"
  /\ Strand(Elems(recvBuf))
  /\ capturing' = FALSE /\ recvBuf' = <<>>
  /\ UNCHANGED <<queue, wire, bypassed>>

Dispatch ==
  /\ capturing /\ recvBuf # <<>>
  /\ LET p == Head(recvBuf)
         s == shard_for_flow(p)
     IN  Enqueue(p, s) \/ Overflow(p, s) \/ Disconnected(s)
  /\ UNCHANGED <<arrived, received, receiving, wpc, work, txq, delayed, stop>>

-----------------------------------------------------------------------------
(* shard_worker_loop and shard_process_one.                                *)

TakeFrom(s) ==
  /\ queue[s] # <<>>
  /\ queue' = [queue EXCEPT ![s] = Tail(@)]
  /\ wpc' = [wpc EXCEPT ![s] = "work"]
  /\ \E d \in Decisions :
       work' = [work EXCEPT ![s] = [pkt |-> Head(queue[s]), plan |-> d, next |-> 1]]
  /\ UNCHANGED <<capture, txq, delayed, stop, wire, fate, bypassed>>

\* The worker looks at the flag and waits for the first packet of a batch; it
\* looks again when the wait of 10 ms has ended without one.
Poll(s) ==
  /\ \/ wpc[s] = "idle" /\ ~stop /\ wpc' = [wpc EXCEPT ![s] = "wait"]
     \/ wpc[s] = "wait" /\ queue[s] = <<>> /\ wpc' = [wpc EXCEPT ![s] = "idle"]
  /\ UNCHANGED <<capture, queue, work, txq, delayed, stop, wire, fate, bypassed>>

TakeFirst(s) == wpc[s] = "wait" /\ TakeFrom(s)

\* The packets that are there already join the batch.
TakeNext(s) == wpc[s] = "drain" /\ Len(txq[s]) < TxLimit /\ TakeFrom(s)

NoMoreUnlessFull(s) == Len(txq[s]) >= TxLimit  \* variant: waits for a full batch
NoMore(s) == queue[s] = <<>> \/ Len(txq[s]) >= TxLimit

BatchDone(s) ==
  /\ wpc[s] = "drain" /\ NoMore(s)
  /\ wpc' = [wpc EXCEPT ![s] = "send"]
  /\ UNCHANGED <<capture, queue, work, txq, delayed, stop, wire, fate, bypassed>>

\* The worker leaves its loop; its receiver and what is queued are dropped.
WorkerStop(s) ==
  /\ wpc[s] = "idle" /\ stop
  /\ wpc' = [wpc EXCEPT ![s] = "stopped"]
  /\ Strand(Elems(queue[s]))
  /\ queue' = [queue EXCEPT ![s] = <<>>]
  /\ UNCHANGED <<capture, work, txq, delayed, stop, wire, bypassed>>

NextDecoy(s) == work[s].next
IsDecoy(s, kinds) ==
  /\ wpc[s] = "work" /\ NextDecoy(s) <= Len(work[s].plan.decoys)
  /\ work[s].plan.decoys[NextDecoy(s)] \in kinds
  /\ work' = [work EXCEPT ![s].next = @ + 1]
  /\ UNCHANGED <<capture, queue, wpc, heap, stop, bypassed>>

QueuePart(s, i) == txq' = [txq EXCEPT ![s] = Append(@, <<work[s].pkt, i>>)]
DelayFull == Len(channel) >= DelayDepth

\* A decoy that fails validation or has no direction is released.
DecoySkipped(s) ==
  /\ IsDecoy(s, {"malformed"})
  /\ UNCHANGED <<txq, channel, wire, fate>>

\* A decoy without delay, or one the delay channel has no room for.
DecoyQueued(s) ==
  /\ IsDecoy(s, IF DelayFull THEN {"now", "later"} ELSE {"now"})
  /\ QueuePart(s, NextDecoy(s))
  /\ UNCHANGED <<channel, wire, fate>>

\* An outbound UDP decoy leaves through the raw socket at once.
DecoyRaw(s) ==
  /\ IsDecoy(s, IF DelayFull THEN {"raw", "laterRaw"} ELSE {"raw"})
  /\ Transmit(work[s].pkt, NextDecoy(s))
  /\ UNCHANGED <<txq, channel>>

DecoyDelayed(s) ==
  /\ ~DelayFull
  /\ IsDecoy(s, {"later", "laterRaw"})
  /\ channel' = Append(channel, <<work[s].pkt, NextDecoy(s)>>)
  /\ UNCHANGED <<txq, wire, fate>>

\* Variant: the original follows its rewritten copy.
QueueBodyTwice(s) == LET b == <<work[s].pkt, Body>> IN
  IF work[s].plan.body = "rewritten" THEN txq' = [txq EXCEPT ![s] = @ \o <<b, b>>]
                                     ELSE QueuePart(s, Body)
\* Variant: the body is put before the decoys of its own packet.
QueueBodyFirst(s) == txq' = [txq EXCEPT ![s] = <<<<work[s].pkt, Body>>>> \o @]
QueueBody(s) == QueuePart(s, Body)

\* After the decoys comes the body: the original, a valid rewritten copy, or
\* nothing when the copy is malformed or the packet is dropped.
BodyStep(s) ==
  /\ wpc[s] = "work" /\ NextDecoy(s) > Len(work[s].plan.decoys)
  /\ \/ /\ work[s].plan.body \in {"original", "rewritten"}
        /\ QueueBody(s)
        /\ UNCHANGED fate
     \/ /\ work[s].plan.body \in {"malformed", "none"}
        /\ fate' = [fate EXCEPT ![work[s].pkt] =
                      IF work[s].plan.body = "none" THEN "dropped" ELSE "lost"]
        /\ UNCHANGED txq
  /\ work' = [work EXCEPT ![s] = Nothing]
  /\ wpc' = [wpc EXCEPT ![s] = "drain"]
  /\ UNCHANGED <<capture, queue, delayed, stop, wire, bypassed>>

\* Adjacent parts share a system call but keep their order.
SendPart(s) ==
  /\ wpc[s] = "send" /\ txq[s] # <<>>
  /\ LET part == Head(txq[s]) IN Transmit(part[1], part[2])
  /\ txq' = [txq EXCEPT ![s] = Tail(@)]
  /\ UNCHANGED <<capture, queue, wpc, work, delayed, stop, bypassed>>

FlushedEarly(s) == wpc[s] = "send"  \* variant: a batch is cleared after one send
Flushed(s) == wpc[s] = "send" /\ txq[s] = <<>>

SendDone(s) ==
  /\ Flushed(s)
  /\ wpc' = [wpc EXCEPT ![s] = "idle"]
  /\ txq' = [txq EXCEPT ![s] = <<>>]
  /\ UNCHANGED <<capture, queue, work, delayed, stop, wire, fate, bypassed>>

WorkerStep(s) ==
  \/ Poll(s) \/ TakeFirst(s) \/ TakeNext(s) \/ BatchDone(s) \/ WorkerStop(s)
  \/ DecoySkipped(s) \/ DecoyQueued(s) \/ DecoyRaw(s) \/ DecoyDelayed(s)
  \/ BodyStep(s) \/ SendPart(s) \/ SendDone(s)

-----------------------------------------------------------------------------
(* DelayedInject::run.                                                     *)

DelayReceive ==
  /\ channel # <<>>
  /\ heap' = heap \cup {Head(channel)}
  /\ channel' = Tail(channel)
  /\ UNCHANGED <<capture, queue, wpc, work, txq, stop, wire, fate, bypassed>>

DelayEmit ==
  \E part \in heap :
    /\ heap' = heap \ {part}
    /\ Transmit(part[1], part[2])
    /\ UNCHANGED <<capture, queue, wpc, work, txq, channel, stop, bypassed>>

-----------------------------------------------------------------------------
ReceiveSome == \E n \in 1 .. RecvBatch : Receive(n)
CaptureStep == Dispatch \/ CaptureCheck

Next == \/ Arrive \/ Shutdown
        \/ CaptureStep \/ ReceiveSome \/ ReceiveNothing
        \/ \E s \in Shards : WorkerStep(s)
        \/ DelayReceive \/ DelayEmit

Spec == Init /\ [][Next]_vars

\* Every thread keeps running, and the driver does not fail for ever to hand over
\* what it holds.  Nothing says that a receive returns when there is no packet.
FairSpec ==
  /\ Spec
  /\ WF_vars(CaptureStep) /\ SF_vars(ReceiveSome)
  /\ \A s \in Shards : WF_vars(WorkerStep(s))
  /\ WF_vars(DelayReceive) /\ WF_vars(DelayEmit)

-----------------------------------------------------------------------------
Part == Packets \X Nat

\* Type invariant: every variable stays in its range.
TypeOK ==
  /\ arrived \in 0 .. NumPackets /\ received \in 0 .. arrived
  /\ capturing \in BOOLEAN /\ receiving \in BOOLEAN /\ stop \in BOOLEAN
  /\ recvBuf \in Seq(Packets)
  /\ queue \in [Shards -> Seq(Packets)]
  /\ wpc \in [Shards -> {"idle", "wait", "work", "drain", "send", "stopped"}]
  /\ work \in [Shards -> [pkt : 0 .. NumPackets, plan : Plan, next : Nat \ {0}]]
  /\ txq \in [Shards -> Seq(Part)]
  /\ channel \in Seq(Part) /\ heap \subseteq Part
  /\ wire \in Seq(Part)
  /\ fate \in [Packets -> {"open", "dropped", "lost", "stranded"}]
  /\ bypassed \subseteq Packets

On(part) == \E i \in 1 .. Len(wire) : wire[i] = part

\* Nothing is duplicated: a part of a packet is sent at most once, whichever of
\* the capture thread, the workers and the delay thread sends it.
SentOnce == \A i, j \in 1 .. Len(wire) : wire[i] = wire[j] => i = j

\* The places where a packet whose fate is open can be.
Places(p) ==
  {<<"capture", i>> : i \in {i \in 1 .. Len(recvBuf) : recvBuf[i] = p}}
  \cup (UNION {{<<s, i>> : i \in {i \in 1 .. Len(queue[s]) : queue[s][i] = p}} : s \in Shards})
  \cup {<<s, "work">> : s \in {s \in Shards : work[s].pkt = p}}
  \cup (UNION {{<<s, "txq", i>> : i \in {i \in 1 .. Len(txq[s]) : txq[s][i] = <<p, Body>>}}
               : s \in Shards})
  \cup {<<"wire", i>> : i \in {i \in 1 .. Len(wire) : wire[i] = <<p, Body>>}}

\* Conservation: a packet taken from the driver is in exactly one place (the batch,
\* a queue, a worker's hands, a tx_queue, the wire) or its loss is accounted for,
\* and never both: no path releases a buffer that it or another still sends.
Accounted ==
  \A p \in 1 .. received : Cardinality(Places(p)) = IF fate[p] = "open" THEN 1 ELSE 0

\* "First inject decoy segments, then send the packet": a decoy that was queued
\* is never behind the body of its packet, on a worker's queue or on the wire,
\* unless it went through the delay thread.
DecoysLead ==
  \A p \in Packets :
    /\ \A s \in Shards : \A i, j \in 1 .. Len(txq[s]) :
         i < j /\ txq[s][i] = <<p, Body>> => txq[s][j][1] # p
    /\ On(<<p, Body>>) => \A s \in Shards : \A i \in 1 .. Len(txq[s]) : txq[s][i][1] # p

\* The status of each packet as PacketFate sees it.
Status == [p \in Packets |-> IF p > received THEN "outside"
                             ELSE IF On(<<p, Body>>)
                             THEN IF p \in bypassed THEN "bypassed" ELSE "sent"
                             ELSE IF fate[p] = "open" THEN "held" ELSE fate[p]]

Fates == INSTANCE PacketFate WITH status <- Status, FlowOf <- [p \in Packets |-> Key(p)]

\* The threads implement PacketFate: a packet settles once and for all, and the
\* packets of a flow (those that show none: of one head) leave in the order of
\* their capture, except one that is sent around a full queue by the capture thread.
ImplementsFates == Fates!Spec

\* Every packet that reaches the driver is settled, whatever the other threads do;
\* once the service stops, packets may be left in the driver, but none stays
\* forever in a buffer, a queue or a worker's hands.
EveryPacketSettles ==
  \A p \in Packets :
    arrived >= p ~> Status[p] \in Fates!Settled \/ (p > received /\ ~capturing)

\* Once told to stop, every worker leaves its loop, whatever it was doing.
WorkersStop == stop ~> \A s \in Shards : wpc[s] = "stopped"
=============================================================================
