------------------------- MODULE PacketPipelineProofs -------------------------
(* Proofs about PacketPipeline, for any number of packets, flows and shards,   *)
(* any assignment of flows to shards, any capacities and any decisions.        *)
EXTENDS PacketPipeline, FiniteSetTheorems, SequenceTheorems, TLAPS

\* The capture thread has handed on the packets up to this one.
Dispatched == received - Len(recvBuf)
Served(s) == work[s].pkt

\* Parts leave a worker in the order of their packets, and the body of a packet
\* behind its decoys.
Precedes(a, b) ==
  \/ a[1] < b[1]
  \/ a[1] = b[1] /\ a[2] # Body /\ (a[2] < b[2] \/ b[2] = Body)

\* The batch being dispatched is the last of what was received.
BatchInOrder ==
  /\ Len(recvBuf) <= received
  /\ \A i \in 1 .. Len(recvBuf) : recvBuf[i] = Dispatched + i

\* The line of a shard: the queue q, in front of it the packet h in the worker's
\* hands (0 for none) and the decoy n it is at, and in front of that the parts x it
\* is going to send.  All are of the shard's flows and of packets up to d, and all
\* are in the order of the capture.
QueueInOrder(s, q, d) ==
  \A i \in 1 .. Len(q) :
    /\ q[i] <= d /\ shard_for_flow(q[i]) = s
    /\ \A j \in 1 .. Len(q) : i < j => q[i] < q[j]

HandInOrder(s, q, h, d) ==
  h # 0 => /\ h <= d /\ shard_for_flow(h) = s
           /\ \A i \in 1 .. Len(q) : h < q[i]

TxqInOrder(s, q, h, n, x, d) ==
  \A i \in 1 .. Len(x) :
    /\ x[i][1] <= d /\ shard_for_flow(x[i][1]) = s
    /\ \A j \in 1 .. Len(q) : x[i][1] < q[j]
    /\ h # 0 => Precedes(x[i], <<h, n>>)
    /\ \A j \in 1 .. Len(x) : i < j => Precedes(x[i], x[j])

Line(s, q, h, n, x, d) ==
  QueueInOrder(s, q, d) /\ HandInOrder(s, q, h, d) /\ TxqInOrder(s, q, h, n, x, d)

LinesInOrder ==
  \A s \in Shards : Line(s, queue[s], Served(s), NextDecoy(s), txq[s], Dispatched)

HandsAgree == \A s \in Shards : wpc[s] = "work" <=> Served(s) # 0

\* A part that has left its worker is of a packet that is past the queues, and is
\* not waiting to be sent again.
Left(part) == On(part) \/ part \in heap \/ part \in Elems(channel)

\* A worker with these queue, hand and output is done with a part: it waits for no
\* decision, and if it is in hand the worker is behind it.
PastLine(part, q, h, n, x) ==
  /\ part[1] \notin Elems(q) /\ part \notin Elems(x)
  /\ h = part[1] => part[2] # Body /\ part[2] < n

\* Everybody is done with a part but the delay thread: it was taken from the driver
\* and its worker has nothing left to decide about it.
Past(part) ==
  /\ part[1] <= Dispatched
  /\ \A s \in Shards : PastLine(part, queue[s], Served(s), NextDecoy(s), txq[s])

LeftIsPast == \A part \in Part : Left(part) => Past(part)

\* The delay thread has decoys only, none of them twice, and none that was sent.
Distinct(seq) == \A i, j \in 1 .. Len(seq) : seq[i] = seq[j] => i = j

DelayedOnce ==
  /\ Distinct(channel)
  /\ \A part \in Elems(channel) : part \notin heap
  /\ \A part \in Elems(channel) \cup heap : part[2] # Body /\ ~On(part)

\* A packet whose fate is settled is nowhere, one that is not is somewhere: in the
\* batch, on the line of a shard, or on the wire.
OnLine(p, q, h, x) == p \in Elems(q) \/ h = p \/ <<p, Body>> \in Elems(x)
Aboard(s, p) == OnLine(p, queue[s], Served(s), txq[s])

Somewhere(p) ==
  p \in Elems(recvBuf) \/ (\E s \in Shards : Aboard(s, p)) \/ On(<<p, Body>>)

FateAgrees == \A p \in Packets :
  /\ p > received => fate[p] = "open"
  /\ p <= received => (fate[p] = "open" <=> Somewhere(p))

\* What the capture thread sent itself is settled.
BypassedIsSettled ==
  \A p \in bypassed : p <= Dispatched /\ (fate[p] # "open" \/ On(<<p, Body>>))

\* The body of a packet that was sent leaves no decoy behind on a worker's queue.
NoneBehindBody ==
  \A p \in Packets : On(<<p, Body>>) =>
    \A s \in Shards : \A part \in Elems(txq[s]) : part[1] # p

InOrder == BatchInOrder /\ LinesInOrder /\ HandsAgree
SentRight == LeftIsPast /\ DelayedOnce /\ SentOnce /\ NoneBehindBody
Settled == FateAgrees /\ BypassedIsSettled
PipelineInv == TypeOK /\ InOrder /\ SentRight /\ Settled

-----------------------------------------------------------------------------
(* The elements of a sequence.                                               *)

LEMMA ElemsEmpty == Elems(<<>>) = {}
BY EmptySeq DEF Elems

LEMMA ElemsAppend ==
  ASSUME NEW S, NEW q \in Seq(S), NEW e \in S
  PROVE  Elems(Append(q, e)) = Elems(q) \cup {e}
<1>1. /\ Len(Append(q, e)) = Len(q) + 1 /\ Append(q, e)[Len(q) + 1] = e /\ Len(q) \in Nat
      /\ \A i \in 1 .. Len(q) : Append(q, e)[i] = q[i]
  BY AppendProperties, LenProperties
<1>2. 1 .. Len(q) + 1 = (1 .. Len(q)) \cup {Len(q) + 1}
  BY <1>1
<1> QED
  BY <1>1, <1>2 DEF Elems

LEMMA ElemsTail ==
  ASSUME NEW S, NEW q \in Seq(S), q # <<>>
  PROVE  Elems(q) = {Head(q)} \cup Elems(Tail(q)) /\ Head(q) \in S
<1>1. /\ Head(q) = q[1] /\ Head(q) \in S /\ Len(Tail(q)) = Len(q) - 1
      /\ Len(q) \in Nat /\ Len(q) # 0
      /\ \A i \in 1 .. Len(Tail(q)) : Tail(q)[i] = q[i + 1]
  BY HeadTailProperties, LenProperties, EmptySeq
<1>2. ASSUME NEW i \in 1 .. Len(q)
      PROVE  q[i] \in {Head(q)} \cup Elems(Tail(q))
  <2>1. CASE i # 1
    <3>1. i - 1 \in 1 .. Len(Tail(q)) /\ (i - 1) + 1 = i
      BY <1>1, <2>1
    <3>2. q[i] = Tail(q)[i - 1]
      BY <1>1, <3>1
    <3> QED
      BY <3>1, <3>2 DEF Elems
  <2> QED
    BY <1>1, <2>1
<1>3. ASSUME NEW i \in 1 .. Len(Tail(q))
      PROVE  Tail(q)[i] \in Elems(q)
  <2>1. i + 1 \in 1 .. Len(q)
    BY <1>1
  <2> QED
    BY <1>1, <2>1 DEF Elems
<1>4. Head(q) \in Elems(q)
  BY <1>1 DEF Elems
<1>5. Elems(q) \subseteq {Head(q)} \cup Elems(Tail(q))
  BY <1>2 DEF Elems
<1>6. Elems(Tail(q)) \subseteq Elems(q)
  BY <1>3 DEF Elems
<1> QED
  BY <1>1, <1>4, <1>5, <1>6

LEMMA ElemsType ==
  ASSUME NEW S, NEW q \in Seq(S)
  PROVE  Elems(q) \subseteq S
BY ElementOfSeq DEF Elems

LEMMA DistinctAppend ==
  ASSUME NEW S, NEW q \in Seq(S), NEW e \in S, Distinct(q), e \notin Elems(q)
  PROVE  Distinct(Append(q, e))
<1> DEFINE r == Append(q, e)
<1>1. /\ Len(r) = Len(q) + 1 /\ r[Len(q) + 1] = e /\ Len(q) \in Nat
      /\ \A i \in 1 .. Len(q) : r[i] = q[i]
  BY AppendProperties, LenProperties
<1> HIDE DEF r
<1>2. \A i \in 1 .. Len(q) : r[i] # e
  BY <1>1 DEF Elems
<1>3. ASSUME NEW i \in 1 .. Len(r), NEW j \in 1 .. Len(r), r[i] = r[j]
      PROVE  i = j
  <2>1. /\ i \in 1 .. Len(q) \/ i = Len(q) + 1
        /\ j \in 1 .. Len(q) \/ j = Len(q) + 1
    BY <1>1
  <2> QED
    BY <1>1, <1>2, <1>3, <2>1 DEF Distinct
<1> QED
  BY <1>3 DEF Distinct, r

LEMMA DistinctTail ==
  ASSUME NEW S, NEW q \in Seq(S), Distinct(q), q # <<>>
  PROVE  Distinct(Tail(q)) /\ Head(q) \notin Elems(Tail(q))
<1> DEFINE r == Tail(q)
<1>1. /\ Head(q) = q[1] /\ Len(r) = Len(q) - 1 /\ Len(q) \in Nat /\ Len(q) # 0
      /\ \A i \in 1 .. Len(r) : r[i] = q[i + 1]
  BY HeadTailProperties, LenProperties, EmptySeq
<1> HIDE DEF r
<1>2. ASSUME NEW i \in 1 .. Len(r)
      PROVE  i + 1 \in 1 .. Len(q) /\ 1 \in 1 .. Len(q) /\ i + 1 # 1
  BY <1>1
<1>3. ASSUME NEW i \in 1 .. Len(r), NEW j \in 1 .. Len(r), r[i] = r[j]
      PROVE  i = j
  <2>1. i + 1 = j + 1
    BY <1>1, <1>2, <1>3 DEF Distinct
  <2> QED
    BY <2>1
<1>4. ASSUME NEW i \in 1 .. Len(r)
      PROVE  r[i] # Head(q)
  BY <1>1, <1>2 DEF Distinct
<1> QED
  BY <1>3, <1>4 DEF Distinct, Elems, r

-----------------------------------------------------------------------------
(* Types.                                                                    *)

LEMMA PartType ==
  ASSUME NEW x \in Part
  PROVE  x[1] \in Packets /\ x[2] \in Nat /\ x = <<x[1], x[2]>>
BY DEF Part

LEMMA TransmitType ==
  ASSUME TypeOK, NEW p \in Packets, NEW i \in Nat, Transmit(p, i)
  PROVE  wire' \in Seq(Part) /\ fate' \in [Packets -> {"open", "dropped", "lost", "stranded"}]
<1>1. <<p, i>> \in Part
  BY DEF Part
<1>2. wire \in Seq(Part)
  BY DEF TypeOK
<1>3. Append(wire, <<p, i>>) \in Seq(Part)
  BY <1>1, <1>2, AppendProperties
<1> QED
  BY <1>2, <1>3 DEF Transmit, TypeOK

LEMMA TypeInit == Init => TypeOK
<1> SUFFICES ASSUME Init PROVE TypeOK
  OBVIOUS
<1>1. Nothing \in [pkt : 0 .. NumPackets, plan : Plan, next : Nat \ {0}]
  BY PipelineAssumption DEF Nothing, Plan, BodyKinds
<1>2. <<>> \in Seq(Packets) /\ <<>> \in Seq(Part)
  BY EmptySeq
<1>3. work \in [Shards -> [pkt : 0 .. NumPackets, plan : Plan, next : Nat \ {0}]]
  BY <1>1 DEF Init
<1>4. /\ queue \in [Shards -> Seq(Packets)] /\ txq \in [Shards -> Seq(Part)]
      /\ recvBuf \in Seq(Packets) /\ channel \in Seq(Part) /\ wire \in Seq(Part)
  BY <1>2 DEF Init
<1>5. wpc \in [Shards -> {"idle", "wait", "work", "drain", "send", "stopped"}]
  BY DEF Init
<1>6. fate \in [Packets -> {"open", "dropped", "lost", "stranded"}]
  BY DEF Init
<1>7. arrived \in 0 .. NumPackets /\ received \in 0 .. arrived
  BY PipelineAssumption DEF Init
<1> QED
  BY <1>3, <1>4, <1>5, <1>6, <1>7 DEF Init, TypeOK

LEMMA CaptureType ==
  ASSUME TypeOK,
         \/ Arrive \/ Shutdown \/ CaptureCheck \/ ReceiveNothing \/ Dispatch
         \/ \E n \in 1 .. RecvBatch : Receive(n)
  PROVE  TypeOK'
<1> USE PipelineAssumption
<1>1. CASE Arrive
  BY <1>1 DEF Arrive, TypeOK, delayed
<1>2. CASE Shutdown
  BY <1>2 DEF Shutdown, TypeOK, delayed, capture
<1>3. CASE CaptureCheck \/ ReceiveNothing
  BY <1>3 DEF CaptureCheck, ReceiveNothing, TypeOK, delayed
<1>4. CASE Dispatch
  <2> DEFINE p == Head(recvBuf)
             s == shard_for_flow(p)
  <2>1. /\ recvBuf \in Seq(Packets) /\ recvBuf # <<>>
        /\ UNCHANGED <<arrived, received, receiving, wpc, work, txq, delayed, stop>>
        /\ Enqueue(p, s) \/ Overflow(p, s) \/ Disconnected(s)
    BY <1>4 DEF Dispatch, TypeOK
  <2>2. p \in Packets /\ Tail(recvBuf) \in Seq(Packets)
    BY <2>1, HeadTailProperties
  <2>3. s \in Shards
    BY <2>2 DEF shard_for_flow, Key
  <2> HIDE DEF p, s
  <2>4. CASE Enqueue(p, s)
    <3>1. Append(queue[s], p) \in Seq(Packets)
      BY <2>2, <2>3, AppendProperties DEF TypeOK
    <3> QED
      BY <2>1, <2>2, <2>3, <2>4, <3>1 DEF Enqueue, TypeOK, delayed
  <2>5. CASE Overflow(p, s)
    BY <2>1, <2>2, <2>5, TransmitType DEF Overflow, ForwardDirectly, Body, TypeOK, delayed
  <2>6. CASE Disconnected(s)
    <3>1. recvBuf' \in Seq(Packets)
      BY <2>6, EmptySeq DEF Disconnected
    <3>2. fate' \in [Packets -> {"open", "dropped", "lost", "stranded"}]
      BY <2>6 DEF Disconnected, Strand, TypeOK
    <3> QED
      BY <2>1, <2>6, <3>1, <3>2 DEF Disconnected, TypeOK, delayed
  <2> QED
    BY <2>1, <2>4, <2>5, <2>6
<1>5. CASE \E n \in 1 .. RecvBatch : Receive(n)
  <2>1. PICK n \in 1 .. RecvBatch : Receive(n)
    BY <1>5
  <2>2. received + n <= arrived
    BY <2>1 DEF Receive, Available
  <2>3. \A i \in 1 .. n : received + i \in Packets
    BY <2>2 DEF TypeOK, Packets
  <2>4. [i \in 1 .. n |-> received + i] \in Seq(Packets)
    BY <2>3
  <2>5. received + n \in 0 .. arrived /\ received' = received + n /\ recvBuf' \in Seq(Packets)
    BY <2>1, <2>2, <2>4 DEF Receive, TypeOK
  <2>6. /\ receiving' \in BOOLEAN
        /\ UNCHANGED <<arrived, capturing, queue, wpc, work, txq, delayed, stop, wire, fate,
                       bypassed>>
    BY <2>1 DEF Receive
  <2> QED
    BY <2>5, <2>6 DEF TypeOK, delayed
<1> QED
  BY <1>1, <1>2, <1>3, <1>4, <1>5

LEMMA TakeType ==
  ASSUME TypeOK, NEW s \in Shards, TakeFrom(s)
  PROVE  TypeOK'
<1>1. queue[s] \in Seq(Packets) /\ queue[s] # <<>>
  BY DEF TypeOK, TakeFrom
<1>2. Head(queue[s]) \in Packets /\ Tail(queue[s]) \in Seq(Packets)
  BY <1>1, HeadTailProperties
<1>3. PICK d \in Decisions :
        work' = [work EXCEPT ![s] = [pkt |-> Head(queue[s]), plan |-> d, next |-> 1]]
  BY DEF TakeFrom
<1>4. [pkt |-> Head(queue[s]), plan |-> d, next |-> 1]
        \in [pkt : 0 .. NumPackets, plan : Plan, next : Nat \ {0}]
  BY <1>2, PipelineAssumption DEF Packets
<1>5. work' \in [Shards -> [pkt : 0 .. NumPackets, plan : Plan, next : Nat \ {0}]]
  BY <1>3, <1>4 DEF TypeOK
<1>6. /\ queue' = [queue EXCEPT ![s] = Tail(queue[s])]
      /\ wpc' = [wpc EXCEPT ![s] = "work"]
      /\ UNCHANGED <<capture, txq, delayed, stop, wire, fate, bypassed>>
  BY DEF TakeFrom
<1>7. queue' \in [Shards -> Seq(Packets)]
  BY <1>2, <1>6 DEF TypeOK
<1>8. wpc' \in [Shards -> {"idle", "wait", "work", "drain", "send", "stopped"}]
  BY <1>6 DEF TypeOK
<1> QED
  BY <1>5, <1>6, <1>7, <1>8 DEF TypeOK, capture, delayed

\* A worker that is at work has a packet and a place in its plan.
LEMMA HandType ==
  ASSUME TypeOK, HandsAgree, NEW s \in Shards, wpc[s] = "work"
  PROVE  Served(s) \in Packets /\ NextDecoy(s) \in Nat \ {0}
BY DEF TypeOK, HandsAgree, Served, NextDecoy, Packets

LEMMA QueuePartType ==
  ASSUME TypeOK, HandsAgree, NEW s \in Shards, wpc[s] = "work", NEW i \in Nat, QueuePart(s, i)
  PROVE  /\ txq' \in [Shards -> Seq(Part)]
         /\ txq[s] \in Seq(Part) /\ <<Served(s), i>> \in Part
         /\ txq' = [txq EXCEPT ![s] = Append(txq[s], <<Served(s), i>>)]
<1>1. <<Served(s), i>> \in Part /\ txq[s] \in Seq(Part)
  BY HandType DEF Part, TypeOK
<1>2. Append(txq[s], <<Served(s), i>>) \in Seq(Part)
  BY <1>1, AppendProperties
<1>3. txq' = [txq EXCEPT ![s] = Append(txq[s], <<Served(s), i>>)]
  BY DEF QueuePart, Served
<1> QED
  BY <1>1, <1>2, <1>3 DEF TypeOK

LEMMA DecoyType ==
  ASSUME TypeOK, HandsAgree, NEW s \in Shards,
         DecoySkipped(s) \/ DecoyQueued(s) \/ DecoyRaw(s) \/ DecoyDelayed(s)
  PROVE  TypeOK'
<1>1. PICK kinds : IsDecoy(s, kinds)
  BY DEF DecoySkipped, DecoyQueued, DecoyRaw, DecoyDelayed
<1>2. /\ wpc[s] = "work" /\ work' = [work EXCEPT ![s].next = work[s].next + 1]
      /\ UNCHANGED <<capture, queue, wpc, heap, stop, bypassed>>
  BY <1>1 DEF IsDecoy
<1>3. work' \in [Shards -> [pkt : 0 .. NumPackets, plan : Plan, next : Nat \ {0}]]
  <2>1. work[s] \in [pkt : 0 .. NumPackets, plan : Plan, next : Nat \ {0}]
    BY DEF TypeOK
  <2>2. [work[s] EXCEPT !.next = work[s].next + 1]
          \in [pkt : 0 .. NumPackets, plan : Plan, next : Nat \ {0}]
    BY <2>1
  <2> QED
    BY <1>2, <2>2 DEF TypeOK
<1>4. Served(s) \in Packets /\ NextDecoy(s) \in Nat
  BY <1>2, HandType
<1>5. CASE DecoySkipped(s)
  BY <1>2, <1>3, <1>5 DEF DecoySkipped, TypeOK, capture
<1>6. CASE DecoyQueued(s)
  BY <1>2, <1>3, <1>4, <1>6, QueuePartType DEF DecoyQueued, TypeOK, capture
<1>7. CASE DecoyRaw(s)
  BY <1>2, <1>3, <1>4, <1>7, TransmitType DEF DecoyRaw, TypeOK, capture, Served
<1>8. CASE DecoyDelayed(s)
  <2>1. <<Served(s), NextDecoy(s)>> \in Part
    BY <1>4 DEF Part
  <2>2. channel' \in Seq(Part)
    BY <1>8, <2>1, AppendProperties DEF DecoyDelayed, TypeOK, Served
  <2> QED
    BY <1>2, <1>3, <1>8, <2>2 DEF DecoyDelayed, TypeOK, capture
<1> QED
  BY <1>5, <1>6, <1>7, <1>8

LEMMA BodyType ==
  ASSUME TypeOK, HandsAgree, NEW s \in Shards, BodyStep(s)
  PROVE  TypeOK'
<1>1. /\ wpc[s] = "work" /\ work' = [work EXCEPT ![s] = Nothing]
      /\ wpc' = [wpc EXCEPT ![s] = "drain"]
      /\ UNCHANGED <<capture, queue, delayed, stop, wire, bypassed>>
  BY DEF BodyStep
<1>2. Nothing \in [pkt : 0 .. NumPackets, plan : Plan, next : Nat \ {0}]
  BY PipelineAssumption DEF Nothing, Plan, BodyKinds
<1>3. work' \in [Shards -> [pkt : 0 .. NumPackets, plan : Plan, next : Nat \ {0}]]
  BY <1>1, <1>2 DEF TypeOK
<1>4. txq' \in [Shards -> Seq(Part)]
  BY <1>1, QueuePartType DEF BodyStep, QueueBody, Body, TypeOK
<1>5. fate' \in [Packets -> {"open", "dropped", "lost", "stranded"}]
  BY DEF BodyStep, TypeOK
<1> QED
  BY <1>1, <1>3, <1>4, <1>5 DEF TypeOK, capture, delayed

LEMMA WorkerType ==
  ASSUME TypeOK, HandsAgree, NEW s \in Shards, WorkerStep(s)
  PROVE  TypeOK'
<1>1. CASE TakeFirst(s) \/ TakeNext(s)
  BY <1>1, TakeType DEF TakeFirst, TakeNext
<1>2. CASE Poll(s) \/ BatchDone(s)
  BY <1>2 DEF Poll, BatchDone, TypeOK, capture, delayed
<1>3. CASE WorkerStop(s)
  BY <1>3 DEF WorkerStop, Strand, TypeOK, capture, delayed
<1>4. CASE SendPart(s)
  <2>1. txq[s] \in Seq(Part) /\ txq[s] # <<>>
    BY <1>4 DEF SendPart, TypeOK
  <2>2. Head(txq[s]) \in Part /\ Tail(txq[s]) \in Seq(Part)
    BY <2>1, HeadTailProperties
  <2>3. Head(txq[s])[1] \in Packets /\ Head(txq[s])[2] \in Nat
    BY <2>2, PartType
  <2> QED
    BY <1>4, <2>2, <2>3, TransmitType DEF SendPart, TypeOK, capture, delayed
<1>5. CASE SendDone(s)
  BY <1>5 DEF SendDone, TypeOK, capture, delayed
<1> QED
  BY <1>1, <1>2, <1>3, <1>4, <1>5, DecoyType, BodyType DEF WorkerStep

LEMMA DelayType == ASSUME TypeOK, DelayReceive \/ DelayEmit PROVE TypeOK'
<1>1. CASE DelayReceive
  <2>1. Head(channel) \in Part /\ Tail(channel) \in Seq(Part)
    BY <1>1, HeadTailProperties DEF DelayReceive, TypeOK
  <2> QED
    BY <1>1, <2>1 DEF DelayReceive, TypeOK, capture
<1>2. CASE DelayEmit
  <2>1. PICK part \in heap : heap' = heap \ {part} /\ Transmit(part[1], part[2])
          /\ UNCHANGED <<capture, queue, wpc, work, txq, channel, stop, bypassed>>
    BY <1>2 DEF DelayEmit
  <2>2. part[1] \in Packets /\ part[2] \in Nat
    BY PartType DEF TypeOK
  <2> QED
    BY <2>1, <2>2, TransmitType DEF TypeOK, capture
<1> QED
  BY <1>1, <1>2

LEMMA TypeStep == ASSUME TypeOK, HandsAgree, [Next]_vars PROVE TypeOK'
<1>1. CASE UNCHANGED vars
  BY <1>1 DEF vars, capture, delayed, TypeOK
<1> QED
  BY <1>1, CaptureType, WorkerType, DelayType DEF Next, CaptureStep, ReceiveSome

-----------------------------------------------------------------------------
(* The order of the packets between the driver and the wire.                 *)

LEMMA LineNumbers ==
  ASSUME NEW q \in Seq(Packets), NEW x \in Seq(Part)
  PROVE  /\ Len(q) \in Nat /\ Len(x) \in Nat
         /\ \A i \in 1 .. Len(q) : q[i] \in Packets /\ q[i] \in Nat
         /\ \A i \in 1 .. Len(x) : x[i] \in Part /\ x[i][1] \in Nat /\ x[i][2] \in Nat
<1>1. Packets \subseteq Nat
  BY PipelineAssumption DEF Packets
<1>2. ASSUME NEW i \in 1 .. Len(x)
      PROVE  x[i] \in Part /\ x[i][1] \in Nat /\ x[i][2] \in Nat
  <2>1. x[i] \in Part
    BY ElementOfSeq
  <2> QED
    BY <1>1, <2>1, PartType
<1>3. ASSUME NEW i \in 1 .. Len(q)
      PROVE  q[i] \in Packets /\ q[i] \in Nat
  BY <1>1, ElementOfSeq
<1> QED
  BY <1>2, <1>3, LenProperties

\* Other shards get the packets that are dispatched meanwhile.
LEMMA LinePasses ==
  ASSUME NEW s, NEW q \in Seq(Packets), NEW h \in Nat, NEW n \in Nat \ {0}, NEW x \in Seq(Part),
         NEW d \in Int, NEW e \in Int, d <= e, Line(s, q, h, n, x, d)
  PROVE  Line(s, q, h, n, x, e)
<1>1. QueueInOrder(s, q, e)
  BY LineNumbers DEF Line, QueueInOrder
<1>2. HandInOrder(s, q, h, e)
  BY DEF Line, HandInOrder
<1>3. TxqInOrder(s, q, h, n, x, e)
  BY LineNumbers DEF Line, TxqInOrder
<1> QED
  BY <1>1, <1>2, <1>3 DEF Line

\* try_send puts the packet behind all of them.
LEMMA LineGrows ==
  ASSUME NEW s, NEW q \in Seq(Packets), NEW h \in Nat, NEW n \in Nat \ {0}, NEW x \in Seq(Part),
         NEW d \in Int, Line(s, q, h, n, x, d),
         d + 1 \in Packets, shard_for_flow(d + 1) = s
  PROVE  Line(s, Append(q, d + 1), h, n, x, d + 1)
<1> DEFINE r == Append(q, d + 1)
<1>1. /\ r \in Seq(Packets) /\ Len(r) = Len(q) + 1 /\ r[Len(q) + 1] = d + 1
      /\ \A i \in 1 .. Len(q) : r[i] = q[i]
  BY AppendProperties
<1> HIDE DEF r
<1>2. ASSUME NEW i \in 1 .. Len(r)
      PROVE  (i \in 1 .. Len(q) /\ r[i] = q[i]) \/ (i = Len(q) + 1 /\ r[i] = d + 1)
  BY <1>1, LineNumbers
<1>3. QueueInOrder(s, r, d + 1)
  <2>1. ASSUME NEW i \in 1 .. Len(q)
        PROVE  q[i] <= d /\ q[i] < d + 1 /\ q[i] <= d + 1 /\ shard_for_flow(q[i]) = s
    <3>1. q[i] <= d /\ shard_for_flow(q[i]) = s
      BY DEF Line, QueueInOrder
    <3>2. q[i] \in Nat
      BY LineNumbers
    <3> QED
      BY <3>1, <3>2
  <2>2. ASSUME NEW i \in 1 .. Len(r), NEW j \in 1 .. Len(r), i < j
        PROVE  r[i] < r[j]
    <3>1. i \in 1 .. Len(q) /\ r[i] = q[i]
      BY <1>1, <1>2, <2>2, LineNumbers
    <3>2. CASE j \in 1 .. Len(q) /\ r[j] = q[j]
      BY <2>2, <3>1, <3>2 DEF Line, QueueInOrder
    <3> QED
      BY <1>2, <2>1, <3>1, <3>2
  <2>3. ASSUME NEW i \in 1 .. Len(r)
        PROVE  r[i] <= d + 1 /\ shard_for_flow(r[i]) = s
    BY <1>2, <2>1
  <2> QED
    BY <2>2, <2>3 DEF QueueInOrder
<1>4. HandInOrder(s, r, h, d + 1)
  BY <1>1, <1>2, LineNumbers DEF Line, HandInOrder
<1>5. TxqInOrder(s, r, h, n, x, d + 1)
  <2>1. ASSUME NEW i \in 1 .. Len(x)
        PROVE  x[i][1] <= d /\ x[i][1] < d + 1 /\ x[i][1] <= d + 1
    BY LineNumbers DEF Line, TxqInOrder
  <2>2. ASSUME NEW i \in 1 .. Len(x), NEW j \in 1 .. Len(r)
        PROVE  x[i][1] < r[j]
    BY <1>2, <2>1 DEF Line, TxqInOrder
  <2> QED
    BY <2>1, <2>2 DEF Line, TxqInOrder
<1> QED
  BY <1>3, <1>4, <1>5 DEF Line, r

\* The worker takes the first packet of its queue in hand.
LEMMA LineTakes ==
  ASSUME NEW s, NEW q \in Seq(Packets), NEW n \in Nat \ {0}, NEW x \in Seq(Part),
         NEW d \in Int, Line(s, q, 0, n, x, d), q # <<>>
  PROVE  Line(s, Tail(q), Head(q), 1, x, d)
<1> DEFINE r == Tail(q)
<1>1. /\ r \in Seq(Packets) /\ Len(r) = Len(q) - 1 /\ Head(q) = q[1] /\ Len(q) > 0
      /\ \A i \in 1 .. Len(r) : r[i] = q[i + 1]
  BY HeadTailProperties, EmptySeq
<1> HIDE DEF r
<1>2. q[1] \in Nat /\ \A i \in 1 .. Len(r) : i + 1 \in 1 .. Len(q)
  BY <1>1, LineNumbers
<1>3. QueueInOrder(s, r, d)
  <2>1. ASSUME NEW i \in 1 .. Len(r)
        PROVE  r[i] <= d /\ shard_for_flow(r[i]) = s
    BY <1>1, <1>2 DEF Line, QueueInOrder
  <2>2. ASSUME NEW i \in 1 .. Len(r), NEW j \in 1 .. Len(r), i < j
        PROVE  r[i] < r[j]
    <3>1. i + 1 \in 1 .. Len(q) /\ j + 1 \in 1 .. Len(q) /\ i + 1 < j + 1
      BY <1>2, <2>2
    <3> QED
      BY <1>1, <3>1 DEF Line, QueueInOrder
  <2> QED
    BY <2>1, <2>2 DEF QueueInOrder
<1>4. HandInOrder(s, r, Head(q), d)
  <2>1. 1 \in 1 .. Len(q)
    BY <1>1, LineNumbers
  <2>2. Head(q) <= d /\ shard_for_flow(Head(q)) = s
    BY <1>1, <2>1 DEF Line, QueueInOrder
  <2>3. ASSUME NEW i \in 1 .. Len(r)
        PROVE  Head(q) < r[i]
    <3>1. i + 1 \in 1 .. Len(q) /\ 1 < i + 1
      BY <1>2
    <3>2. q[1] < q[i + 1]
      BY <2>1, <3>1 DEF Line, QueueInOrder
    <3> QED
      BY <1>1, <3>2
  <2> QED
    BY <2>2, <2>3 DEF HandInOrder
<1>5. TxqInOrder(s, r, Head(q), 1, x, d)
  <2>1. ASSUME NEW i \in 1 .. Len(x)
        PROVE  /\ Precedes(x[i], <<Head(q), 1>>)
               /\ \A j \in 1 .. Len(r) : x[i][1] < r[j]
    <3>1. 1 \in 1 .. Len(q)
      BY <1>1, LineNumbers
    <3>2. x[i][1] < q[1]
      BY <3>1 DEF Line, TxqInOrder
    <3>3. Precedes(x[i], <<Head(q), 1>>)
      BY <1>1, <3>2 DEF Precedes
    <3> QED
      BY <1>1, <1>2, <3>3 DEF Line, TxqInOrder
  <2> QED
    BY <2>1 DEF Line, TxqInOrder
<1> QED
  BY <1>3, <1>4, <1>5 DEF Line, r

\* A decoy is passed over, or goes elsewhere.
LEMMA LineSkips ==
  ASSUME NEW s, NEW q \in Seq(Packets), NEW h \in Nat, NEW n \in Nat \ {0}, NEW x \in Seq(Part),
         NEW d \in Int, Line(s, q, h, n, x, d)
  PROVE  Line(s, q, h, n + 1, x, d)
<1>1. TxqInOrder(s, q, h, n + 1, x, d)
  <2>1. ASSUME NEW i \in 1 .. Len(x), h # 0
        PROVE  Precedes(x[i], <<h, n + 1>>)
    <3>1. Precedes(x[i], <<h, n>>) /\ x[i][2] \in Nat
      BY <2>1, LineNumbers DEF Line, TxqInOrder
    <3> QED
      BY <3>1 DEF Precedes, Body
  <2> QED
    BY <2>1 DEF Line, TxqInOrder
<1> QED
  BY <1>1 DEF Line

\* The part the worker is at, a decoy or the body, joins those it will send.
LEMMA LineQueues ==
  ASSUME NEW s, NEW q \in Seq(Packets), NEW h \in Nat \ {0}, NEW n \in Nat \ {0},
         NEW x \in Seq(Part), NEW d \in Int, Line(s, q, h, n, x, d),
         NEW i \in {Body, n}, <<h, i>> \in Part
  PROVE  /\ TxqInOrder(s, q, 0, 1, Append(x, <<h, i>>), d)
         /\ i = n => TxqInOrder(s, q, h, n + 1, Append(x, <<h, i>>), d)
<1> DEFINE y == Append(x, <<h, i>>)
<1>1. /\ y \in Seq(Part) /\ Len(y) = Len(x) + 1 /\ y[Len(x) + 1] = <<h, i>>
      /\ \A k \in 1 .. Len(x) : y[k] = x[k]
  BY AppendProperties
<1> HIDE DEF y
<1>2. ASSUME NEW k \in 1 .. Len(y)
      PROVE  (k \in 1 .. Len(x) /\ y[k] = x[k]) \/ (k = Len(x) + 1 /\ y[k] = <<h, i>>)
  BY <1>1, LineNumbers
<1>3. ASSUME NEW k \in 1 .. Len(x)
      PROVE  Precedes(x[k], <<h, i>>) /\ Precedes(x[k], <<h, n + 1>>)
  <2>1. Precedes(x[k], <<h, n>>) /\ x[k][1] \in Nat /\ x[k][2] \in Nat
    BY LineNumbers DEF Line, TxqInOrder
  <2> QED
    BY <2>1 DEF Precedes, Body
<1>4. i = n => Precedes(<<h, i>>, <<h, n + 1>>)
  BY DEF Precedes, Body
<1>5. ASSUME NEW k \in 1 .. Len(y)
      PROVE  /\ y[k][1] <= d /\ shard_for_flow(y[k][1]) = s
             /\ \A j \in 1 .. Len(q) : y[k][1] < q[j]
  BY <1>2 DEF Line, TxqInOrder, HandInOrder
<1>6. ASSUME NEW k \in 1 .. Len(y), NEW j \in 1 .. Len(y), k < j
      PROVE  Precedes(y[k], y[j])
  <2>1. k \in 1 .. Len(x) /\ y[k] = x[k]
    BY <1>1, <1>2, <1>6, LineNumbers
  <2>2. CASE j \in 1 .. Len(x) /\ y[j] = x[j]
    BY <1>6, <2>1, <2>2 DEF Line, TxqInOrder
  <2> QED
    BY <1>2, <1>3, <2>1, <2>2
<1>7. ASSUME NEW k \in 1 .. Len(y), i = n
      PROVE  Precedes(y[k], <<h, n + 1>>)
  BY <1>2, <1>3, <1>4, <1>7
<1>8. TxqInOrder(s, q, 0, 1, y, d)
  BY <1>5, <1>6 DEF TxqInOrder
<1>9. i = n => TxqInOrder(s, q, h, n + 1, y, d)
  BY <1>5, <1>6, <1>7 DEF TxqInOrder
<1> QED
  BY <1>8, <1>9 DEF y

LEMMA LineDecoys ==
  ASSUME NEW s, NEW q \in Seq(Packets), NEW h \in Nat \ {0}, NEW n \in Nat \ {0},
         NEW x \in Seq(Part), NEW d \in Int, Line(s, q, h, n, x, d), <<h, n>> \in Part
  PROVE  Line(s, q, h, n + 1, Append(x, <<h, n>>), d)
BY LineQueues DEF Line

\* The worker's hands are empty again, with the body sent on its way or not.
LEMMA LineEnds ==
  ASSUME NEW s, NEW q \in Seq(Packets), NEW h \in Nat \ {0}, NEW n \in Nat \ {0},
         NEW x \in Seq(Part), NEW d \in Int, Line(s, q, h, n, x, d), <<h, Body>> \in Part
  PROVE  Line(s, q, 0, 1, x, d) /\ Line(s, q, 0, 1, Append(x, <<h, Body>>), d)
<1>1. HandInOrder(s, q, 0, d) /\ TxqInOrder(s, q, 0, 1, x, d)
  BY DEF Line, HandInOrder, TxqInOrder
<1>2. TxqInOrder(s, q, 0, 1, Append(x, <<h, Body>>), d)
  BY LineQueues
<1> QED
  BY <1>1, <1>2 DEF Line

LEMMA LineSends ==
  ASSUME NEW s, NEW q \in Seq(Packets), NEW h \in Nat, NEW n \in Nat \ {0}, NEW x \in Seq(Part),
         NEW d \in Int, Line(s, q, h, n, x, d), x # <<>>
  PROVE  Line(s, q, h, n, Tail(x), d)
<1> DEFINE y == Tail(x)
<1>1. /\ y \in Seq(Part) /\ Len(y) = Len(x) - 1
      /\ \A i \in 1 .. Len(y) : y[i] = x[i + 1]
  BY HeadTailProperties
<1> HIDE DEF y
<1>2. \A i \in 1 .. Len(y) : i + 1 \in 1 .. Len(x)
  BY <1>1, LineNumbers
<1>3. TxqInOrder(s, q, h, n, y, d)
  <2>1. ASSUME NEW i \in 1 .. Len(y)
        PROVE  /\ y[i][1] <= d /\ shard_for_flow(y[i][1]) = s
               /\ \A j \in 1 .. Len(q) : y[i][1] < q[j]
               /\ h # 0 => Precedes(y[i], <<h, n>>)
    BY <1>1, <1>2 DEF Line, TxqInOrder
  <2>2. ASSUME NEW i \in 1 .. Len(y), NEW j \in 1 .. Len(y), i < j
        PROVE  Precedes(y[i], y[j])
    <3>1. i + 1 \in 1 .. Len(x) /\ j + 1 \in 1 .. Len(x) /\ i + 1 < j + 1
      BY <1>2, <2>2
    <3> QED
      BY <1>1, <3>1 DEF Line, TxqInOrder
  <2> QED
    BY <2>1, <2>2 DEF TxqInOrder
<1> QED
  BY <1>3 DEF Line, y

LEMMA LineStops ==
  ASSUME NEW s, NEW q, NEW h, NEW n, NEW x, NEW d, Line(s, q, h, n, x, d)
  PROVE  Line(s, <<>>, h, n, x, d)
BY EmptySeq DEF Line, QueueInOrder, HandInOrder, TxqInOrder

-----------------------------------------------------------------------------
(* The steps keep the order.                                                 *)

\* The types the lemmas above ask for.
LEMMA LineTyped ==
  ASSUME TypeOK, NEW s \in Shards
  PROVE  /\ queue[s] \in Seq(Packets) /\ txq[s] \in Seq(Part)
         /\ Served(s) \in Nat /\ NextDecoy(s) \in Nat \ {0}
BY PipelineAssumption DEF TypeOK, Served, NextDecoy

LEMMA BatchNumbers ==
  ASSUME TypeOK
  PROVE  received \in Nat /\ Len(recvBuf) \in Nat /\ Dispatched \in Int
<1>1. received \in Nat /\ Len(recvBuf) \in Nat
  BY PipelineAssumption DEF TypeOK
<1> QED
  BY <1>1 DEF Dispatched

LEMMA InOrderInit == Init => InOrder
<1> SUFFICES ASSUME Init PROVE InOrder
  OBVIOUS
<1>1. Len(recvBuf) = 0 /\ received = 0
  BY EmptySeq DEF Init
<1>2. \A s \in Shards : Len(queue[s]) = 0 /\ Len(txq[s]) = 0
  BY EmptySeq DEF Init
<1>3. \A s \in Shards : Served(s) = 0 /\ wpc[s] # "work"
  BY DEF Init, Served, Nothing
<1>4. BatchInOrder /\ HandsAgree
  BY <1>1, <1>3 DEF BatchInOrder, HandsAgree
<1>5. LinesInOrder
  BY <1>2, <1>3 DEF LinesInOrder, Line, QueueInOrder, HandInOrder, TxqInOrder
<1> QED
  BY <1>4, <1>5 DEF InOrder

\* Steps that move no packet, or that only take packets off the batch.
LEMMA PassOnKeepsOrder ==
  ASSUME TypeOK, InOrder, UNCHANGED <<queue, work, txq>>,
         \A s \in Shards : wpc'[s] = "work" <=> wpc[s] = "work",
         Dispatched <= Dispatched', Dispatched' \in Int, BatchInOrder'
  PROVE  InOrder'
<1>1. HandsAgree'
  BY DEF InOrder, HandsAgree, Served
<1>2. LinesInOrder'
  <2>1. ASSUME NEW s \in Shards
        PROVE  Line(s, queue[s], Served(s), NextDecoy(s), txq[s], Dispatched')
    BY LineTyped, BatchNumbers, LinePasses DEF InOrder, LinesInOrder
  <2> QED
    BY <2>1 DEF LinesInOrder, Line, QueueInOrder, HandInOrder, TxqInOrder, Served, NextDecoy,
                shard_for_flow, Key
<1> QED
  BY <1>1, <1>2 DEF InOrder

LEMMA StillKeepsOrder ==
  ASSUME TypeOK, InOrder, UNCHANGED <<received, recvBuf, queue, work, txq>>,
         \A s \in Shards : wpc'[s] = "work" <=> wpc[s] = "work"
  PROVE  InOrder'
<1>1. Dispatched' = Dispatched /\ Dispatched \in Int
  BY BatchNumbers DEF Dispatched
<1>2. BatchInOrder'
  BY <1>1 DEF InOrder, BatchInOrder
<1> QED
  BY <1>1, <1>2, PassOnKeepsOrder

LEMMA ReceiveKeepsOrder ==
  ASSUME TypeOK, InOrder, NEW n \in 1 .. RecvBatch, Receive(n)
  PROVE  InOrder'
<1>1. /\ recvBuf = <<>> /\ recvBuf' = [i \in 1 .. n |-> received + i]
      /\ received' = received + n /\ n \in Nat
      /\ UNCHANGED <<queue, wpc, work, txq>>
  BY PipelineAssumption DEF Receive
<1>2. Len(recvBuf) = 0 /\ Len(recvBuf') = n
  BY <1>1, EmptySeq
<1>3. Dispatched = received /\ Dispatched' = received
  BY <1>1, <1>2, BatchNumbers DEF Dispatched
<1>4. BatchInOrder'
  BY <1>1, <1>2, <1>3, BatchNumbers DEF BatchInOrder
<1> QED
  BY <1>1, <1>3, <1>4, BatchNumbers, PassOnKeepsOrder

\* The batch loses its first packet, which is the next in the order of capture.
LEMMA NextOfBatch ==
  ASSUME TypeOK, BatchInOrder, recvBuf # <<>>, recvBuf' = Tail(recvBuf), received' = received
  PROVE  /\ Head(recvBuf) = Dispatched + 1 /\ Head(recvBuf) \in Packets
         /\ Dispatched' = Dispatched + 1 /\ BatchInOrder'
         /\ Len(recvBuf) > 0 /\ Len(recvBuf') = Len(recvBuf) - 1
         /\ \A i \in 1 .. Len(recvBuf') : recvBuf'[i] = recvBuf[i + 1]
<1>1. recvBuf \in Seq(Packets)
  BY DEF TypeOK
<1>2. /\ Len(Tail(recvBuf)) = Len(recvBuf) - 1 /\ Len(recvBuf) > 0
      /\ \A i \in 1 .. Len(Tail(recvBuf)) : Tail(recvBuf)[i] = recvBuf[i + 1]
      /\ Head(recvBuf) = recvBuf[1] /\ Head(recvBuf) \in Packets
  BY <1>1, HeadTailProperties, EmptySeq
<1>3. Dispatched' = Dispatched + 1 /\ Dispatched \in Int
  BY <1>2, BatchNumbers DEF Dispatched
<1>4. BatchInOrder'
  <2>1. ASSUME NEW i \in 1 .. Len(recvBuf')
        PROVE  recvBuf'[i] = Dispatched' + i
    <3>1. recvBuf'[i] = recvBuf[i + 1] /\ i + 1 \in 1 .. Len(recvBuf)
      BY <1>2, BatchNumbers
    <3>2. recvBuf[i + 1] = Dispatched + (i + 1)
      BY <3>1 DEF BatchInOrder
    <3> QED
      BY <1>3, <3>1, <3>2
  <2>2. Len(recvBuf') <= received'
    BY <1>2, BatchNumbers DEF BatchInOrder
  <2> QED
    BY <2>1, <2>2 DEF BatchInOrder
<1>5. Head(recvBuf) = Dispatched + 1
  BY <1>2, BatchNumbers DEF BatchInOrder
<1> QED
  BY <1>2, <1>3, <1>4, <1>5

LEMMA EnqueueKeepsOrder ==
  ASSUME TypeOK, InOrder, recvBuf # <<>>, UNCHANGED <<received, wpc, work, txq>>,
         Enqueue(Head(recvBuf), shard_for_flow(Head(recvBuf)))
  PROVE  InOrder'
<1> DEFINE p == Head(recvBuf)
           s == shard_for_flow(p)
<1>1. /\ queue' = [queue EXCEPT ![s] = Append(queue[s], p)] /\ recvBuf' = Tail(recvBuf)
  BY DEF Enqueue
<1>2. /\ p = Dispatched + 1 /\ p \in Packets
      /\ Dispatched' = Dispatched + 1 /\ BatchInOrder'
  BY <1>1, NextOfBatch DEF InOrder
<1>3. s \in Shards /\ s = shard_for_flow(Dispatched + 1)
  BY <1>2, PipelineAssumption DEF shard_for_flow, Key
<1> HIDE DEF p, s
<1>4. \A t \in Shards : queue'[t] = IF t = s THEN Append(queue[s], p) ELSE queue[t]
  BY <1>1 DEF TypeOK
<1>5. ASSUME NEW t \in Shards
      PROVE  Line(t, queue'[t], Served(t), NextDecoy(t), txq[t], Dispatched + 1)
  <2>1. Line(t, queue[t], Served(t), NextDecoy(t), txq[t], Dispatched)
    BY DEF InOrder, LinesInOrder
  <2>2. CASE t = s
    BY <1>2, <1>3, <1>4, <2>1, <2>2, LineTyped, BatchNumbers, LineGrows
  <2>3. CASE t # s
    BY <1>4, <2>1, <2>3, LineTyped, BatchNumbers, LinePasses
  <2> QED
    BY <2>2, <2>3
<1>6. LinesInOrder'
  BY <1>2, <1>5 DEF LinesInOrder, Line, QueueInOrder, HandInOrder, TxqInOrder, Served, NextDecoy,
                    shard_for_flow, Key
<1>7. HandsAgree'
  BY DEF InOrder, HandsAgree, Served
<1> QED
  BY <1>2, <1>6, <1>7 DEF InOrder

LEMMA DispatchKeepsOrder == ASSUME TypeOK, InOrder, Dispatch PROVE InOrder'
<1> DEFINE p == Head(recvBuf)
           s == shard_for_flow(p)
<1>1. /\ recvBuf # <<>> /\ UNCHANGED <<received, wpc, work, txq>>
      /\ Enqueue(p, s) \/ Overflow(p, s) \/ Disconnected(s)
  BY DEF Dispatch
<1>2. CASE Overflow(p, s)
  <2>1. recvBuf' = Tail(recvBuf) /\ UNCHANGED queue
    BY <1>2 DEF Overflow
  <2>2. Dispatched' = Dispatched + 1 /\ BatchInOrder' /\ Dispatched \in Int
    BY <1>1, <2>1, NextOfBatch, BatchNumbers DEF InOrder
  <2> QED
    BY <1>1, <2>1, <2>2, PassOnKeepsOrder
<1>3. CASE Disconnected(s)
  <2>1. recvBuf' = <<>> /\ Len(recvBuf') = 0 /\ UNCHANGED queue
    BY <1>3, EmptySeq DEF Disconnected
  <2>2. Dispatched' = received /\ Dispatched <= received /\ received \in Int
    BY <1>1, <2>1, BatchNumbers DEF Dispatched
  <2>3. BatchInOrder'
    BY <1>1, <2>1, BatchNumbers DEF BatchInOrder
  <2> QED
    BY <1>1, <2>1, <2>2, <2>3, PassOnKeepsOrder
<1> QED
  BY <1>1, <1>2, <1>3, EnqueueKeepsOrder

-----------------------------------------------------------------------------
(* What the steps of a worker do to its line; the other lines stay.          *)

\* Nothing but the line of one shard moves.
OnlyLine(s) ==
  /\ UNCHANGED <<received, recvBuf>>
  /\ \A t \in Shards : t # s => /\ queue'[t] = queue[t] /\ work'[t] = work[t]
                                /\ txq'[t] = txq[t] /\ wpc'[t] = wpc[t]

LEMMA TakeMoves ==
  ASSUME TypeOK, NEW s \in Shards, TakeFrom(s)
  PROVE  /\ OnlyLine(s) /\ wpc'[s] = "work" /\ txq'[s] = txq[s]
         /\ queue[s] # <<>> /\ queue'[s] = Tail(queue[s])
         /\ work'[s].pkt = Head(queue[s]) /\ work'[s].next = 1
         /\ Head(queue[s]) \in Packets /\ Head(queue[s]) # 0
         /\ UNCHANGED <<channel, heap, wire, fate, bypassed>>
<1>1. PICK d \in Decisions :
        work' = [work EXCEPT ![s] = [pkt |-> Head(queue[s]), plan |-> d, next |-> 1]]
  BY DEF TakeFrom
<1>2. /\ queue[s] # <<>> /\ queue' = [queue EXCEPT ![s] = Tail(queue[s])]
      /\ wpc' = [wpc EXCEPT ![s] = "work"]
      /\ UNCHANGED <<received, recvBuf, txq, channel, heap, wire, fate, bypassed>>
  BY DEF TakeFrom, capture, delayed
<1>3. Head(queue[s]) \in Packets
  BY <1>2, HeadTailProperties DEF TypeOK
<1>4. Head(queue[s]) # 0
  BY <1>3 DEF Packets
<1> QED
  BY <1>1, <1>2, <1>3, <1>4 DEF TypeOK, OnlyLine

LEMMA DecoyMoves ==
  ASSUME TypeOK, HandsAgree, NEW s \in Shards,
         DecoySkipped(s) \/ DecoyQueued(s) \/ DecoyRaw(s) \/ DecoyDelayed(s)
  PROVE  /\ OnlyLine(s) /\ wpc[s] = "work" /\ wpc'[s] = wpc[s] /\ queue'[s] = queue[s]
         /\ work'[s].pkt = Served(s) /\ work'[s].next = NextDecoy(s) + 1
         /\ <<Served(s), NextDecoy(s)>> \in Part
         /\ Served(s) \in Packets /\ Served(s) \in Nat \ {0} /\ NextDecoy(s) \in Nat \ {0}
         /\ UNCHANGED <<heap, bypassed>>
         /\ IF DecoyQueued(s) THEN txq'[s] = Append(txq[s], <<Served(s), NextDecoy(s)>>)
                              ELSE txq'[s] = txq[s]
<1>1. PICK kinds : IsDecoy(s, kinds)
  BY DEF DecoySkipped, DecoyQueued, DecoyRaw, DecoyDelayed
<1>2. /\ wpc[s] = "work" /\ work' = [work EXCEPT ![s].next = work[s].next + 1]
      /\ UNCHANGED <<received, recvBuf, queue, wpc, heap, bypassed>>
  BY <1>1 DEF IsDecoy, capture
<1>3. /\ work'[s].pkt = Served(s) /\ work'[s].next = NextDecoy(s) + 1
      /\ \A t \in Shards : t # s => work'[t] = work[t]
  BY <1>2 DEF TypeOK, Served, NextDecoy
<1>4. Served(s) \in Packets /\ Served(s) \in Nat \ {0} /\ NextDecoy(s) \in Nat \ {0}
  BY <1>2, HandType DEF Packets
<1>5. <<Served(s), NextDecoy(s)>> \in Part
  BY <1>4 DEF Part
<1>6. CASE DecoyQueued(s)
  <2>1. txq' = [txq EXCEPT ![s] = Append(txq[s], <<Served(s), NextDecoy(s)>>)]
    BY <1>6 DEF DecoyQueued, QueuePart, Served
  <2>2. /\ txq'[s] = Append(txq[s], <<Served(s), NextDecoy(s)>>)
        /\ \A t \in Shards : t # s => txq'[t] = txq[t]
    BY <2>1 DEF TypeOK
  <2> QED
    BY <1>2, <1>3, <1>4, <1>5, <1>6, <2>2 DEF OnlyLine
<1>7. CASE ~DecoyQueued(s)
  <2>1. txq' = txq
    BY <1>7 DEF DecoySkipped, DecoyRaw, DecoyDelayed
  <2> QED
    BY <1>2, <1>3, <1>4, <1>5, <1>7, <2>1 DEF OnlyLine
<1> QED
  BY <1>6, <1>7

LEMMA BodyMoves ==
  ASSUME TypeOK, HandsAgree, NEW s \in Shards, BodyStep(s)
  PROVE  /\ OnlyLine(s) /\ wpc[s] = "work" /\ wpc'[s] = "drain" /\ queue'[s] = queue[s]
         /\ work'[s].pkt = 0 /\ work'[s].next = 1
         /\ <<Served(s), Body>> \in Part
         /\ Served(s) \in Packets /\ Served(s) \in Nat \ {0} /\ NextDecoy(s) \in Nat \ {0}
         /\ UNCHANGED <<channel, heap, wire, bypassed>>
         /\ \/ txq'[s] = Append(txq[s], <<Served(s), Body>>) /\ UNCHANGED fate
            \/ /\ txq'[s] = txq[s]
               /\ \E f \in {"dropped", "lost"} : fate' = [fate EXCEPT ![Served(s)] = f]
<1>1. /\ wpc[s] = "work" /\ work' = [work EXCEPT ![s] = Nothing]
      /\ wpc' = [wpc EXCEPT ![s] = "drain"]
      /\ UNCHANGED <<received, recvBuf, queue, channel, heap, wire, bypassed>>
  BY DEF BodyStep, capture, delayed
<1>2. /\ work'[s].pkt = 0 /\ work'[s].next = 1 /\ wpc'[s] = "drain"
      /\ \A t \in Shards : t # s => work'[t] = work[t] /\ wpc'[t] = wpc[t]
  BY <1>1 DEF TypeOK, Nothing
<1>3. Served(s) \in Packets /\ Served(s) \in Nat \ {0} /\ NextDecoy(s) \in Nat \ {0}
  BY <1>1, HandType DEF Packets
<1>4. <<Served(s), Body>> \in Part
  BY <1>3 DEF Part, Body
<1>5. CASE QueuePart(s, Body) /\ UNCHANGED fate
  <2>1. txq' = [txq EXCEPT ![s] = Append(txq[s], <<Served(s), Body>>)]
    BY <1>5 DEF QueuePart, Served
  <2>2. /\ txq'[s] = Append(txq[s], <<Served(s), Body>>)
        /\ \A t \in Shards : t # s => txq'[t] = txq[t]
    BY <2>1 DEF TypeOK
  <2> QED
    BY <1>1, <1>2, <1>3, <1>4, <1>5, <2>2 DEF OnlyLine
<1>6. CASE /\ UNCHANGED txq
           /\ \E f \in {"dropped", "lost"} : fate' = [fate EXCEPT ![Served(s)] = f]
  BY <1>1, <1>2, <1>3, <1>4, <1>6 DEF OnlyLine
<1> QED
  BY <1>5, <1>6 DEF BodyStep, QueueBody, Served

LEMMA SendMoves ==
  ASSUME TypeOK, NEW s \in Shards, SendPart(s)
  PROVE  /\ OnlyLine(s) /\ wpc[s] = "send" /\ wpc'[s] = wpc[s] /\ queue'[s] = queue[s]
         /\ work'[s] = work[s] /\ txq[s] # <<>> /\ txq'[s] = Tail(txq[s])
         /\ txq[s] \in Seq(Part) /\ Len(txq[s]) \in Nat /\ 1 \in 1 .. Len(txq[s])
         /\ Head(txq[s]) = txq[s][1] /\ Head(txq[s]) \in Part
         /\ Transmit(Head(txq[s])[1], Head(txq[s])[2])
         /\ UNCHANGED <<channel, heap, bypassed>>
<1>1. /\ wpc[s] = "send" /\ txq[s] # <<>> /\ txq' = [txq EXCEPT ![s] = Tail(txq[s])]
      /\ Transmit(Head(txq[s])[1], Head(txq[s])[2])
      /\ UNCHANGED <<received, recvBuf, queue, wpc, work, channel, heap, bypassed>>
  BY DEF SendPart, capture, delayed
<1>2. /\ txq'[s] = Tail(txq[s]) /\ \A t \in Shards : t # s => txq'[t] = txq[t]
  BY <1>1 DEF TypeOK
<1>3. /\ txq[s] \in Seq(Part) /\ Head(txq[s]) = txq[s][1] /\ Head(txq[s]) \in Part
  BY <1>1, LineTyped, HeadTailProperties
<1>4. Len(txq[s]) \in Nat /\ Len(txq[s]) # 0
  BY <1>1, <1>3, LenProperties, EmptySeq
<1> QED
  BY <1>1, <1>2, <1>3, <1>4 DEF OnlyLine

LEMMA StopMoves ==
  ASSUME TypeOK, HandsAgree, NEW s \in Shards, WorkerStop(s)
  PROVE  /\ OnlyLine(s) /\ wpc'[s] = "stopped" /\ queue'[s] = <<>> /\ txq'[s] = txq[s]
         /\ work'[s] = work[s] /\ Served(s) = 0
         /\ UNCHANGED <<channel, heap, wire, bypassed>>
<1>1. /\ wpc[s] = "idle" /\ wpc' = [wpc EXCEPT ![s] = "stopped"]
      /\ queue' = [queue EXCEPT ![s] = <<>>]
      /\ UNCHANGED <<received, recvBuf, work, txq, channel, heap, wire, bypassed>>
  BY DEF WorkerStop, capture, delayed
<1>2. /\ wpc'[s] = "stopped" /\ queue'[s] = <<>>
      /\ \A t \in Shards : t # s => queue'[t] = queue[t] /\ wpc'[t] = wpc[t]
  BY <1>1 DEF TypeOK
<1>3. Served(s) = 0
  BY <1>1 DEF HandsAgree
<1> QED
  BY <1>1, <1>2, <1>3 DEF OnlyLine

\* What is left of a step of a worker moves nothing.
LEMMA StillMoves ==
  ASSUME TypeOK, NEW s \in Shards, Poll(s) \/ BatchDone(s) \/ SendDone(s)
  PROVE  /\ UNCHANGED <<received, recvBuf, queue, work, txq, channel, heap, wire, fate, bypassed>>
         /\ \A t \in Shards : wpc'[t] = "work" <=> wpc[t] = "work"
BY DEF Poll, BatchDone, SendDone, Flushed, TypeOK, capture, delayed

-----------------------------------------------------------------------------
(* A worker keeps the order.                                                 *)

LEMMA LineKeepsOrder ==
  ASSUME TypeOK, InOrder, NEW s \in Shards, OnlyLine(s),
         Line(s, queue'[s], work'[s].pkt, work'[s].next, txq'[s], Dispatched),
         wpc'[s] = "work" <=> work'[s].pkt # 0
  PROVE  InOrder'
<1>1. Dispatched' = Dispatched
  BY DEF Dispatched, OnlyLine
<1>2. BatchInOrder'
  BY <1>1 DEF InOrder, BatchInOrder, OnlyLine
<1>3. HandsAgree'
  BY DEF InOrder, HandsAgree, Served, OnlyLine
<1>4. ASSUME NEW t \in Shards
      PROVE  Line(t, queue'[t], work'[t].pkt, work'[t].next, txq'[t], Dispatched)
  BY DEF InOrder, LinesInOrder, Served, NextDecoy, OnlyLine
<1>5. LinesInOrder'
  BY <1>1, <1>4 DEF LinesInOrder, Line, QueueInOrder, HandInOrder, TxqInOrder, Served, NextDecoy,
                    shard_for_flow, Key
<1> QED
  BY <1>2, <1>3, <1>5 DEF InOrder

LEMMA TakeKeepsOrder ==
  ASSUME TypeOK, InOrder, NEW s \in Shards, wpc[s] # "work", TakeFrom(s)
  PROVE  InOrder'
<1>1. Served(s) = 0
  BY DEF InOrder, HandsAgree
<1>2. Line(s, Tail(queue[s]), Head(queue[s]), 1, txq[s], Dispatched)
  BY <1>1, TakeMoves, LineTyped, BatchNumbers, LineTakes DEF InOrder, LinesInOrder
<1> QED
  BY <1>2, TakeMoves, LineKeepsOrder

LEMMA DecoyKeepsOrder ==
  ASSUME TypeOK, InOrder, NEW s \in Shards,
         DecoySkipped(s) \/ DecoyQueued(s) \/ DecoyRaw(s) \/ DecoyDelayed(s)
  PROVE  InOrder'
<1>1. Line(s, queue[s], Served(s), NextDecoy(s), txq[s], Dispatched) /\ HandsAgree
  BY DEF InOrder, LinesInOrder
<1>2. /\ Line(s, queue[s], Served(s), NextDecoy(s) + 1, txq[s], Dispatched)
      /\ <<Served(s), NextDecoy(s)>> \in Part /\ Served(s) \in Nat \ {0} =>
           Line(s, queue[s], Served(s), NextDecoy(s) + 1,
                Append(txq[s], <<Served(s), NextDecoy(s)>>), Dispatched)
  BY <1>1, LineTyped, BatchNumbers, LineDecoys, LineSkips
<1>3. Line(s, queue[s], Served(s), NextDecoy(s) + 1, txq'[s], Dispatched)
  BY <1>1, <1>2, DecoyMoves
<1> QED
  BY <1>1, <1>3, DecoyMoves, LineKeepsOrder

LEMMA BodyKeepsOrder ==
  ASSUME TypeOK, InOrder, NEW s \in Shards, BodyStep(s)
  PROVE  InOrder'
<1>1. Line(s, queue[s], Served(s), NextDecoy(s), txq[s], Dispatched) /\ HandsAgree
  BY DEF InOrder, LinesInOrder
<1>2. <<Served(s), Body>> \in Part /\ Served(s) \in Nat \ {0} =>
        /\ Line(s, queue[s], 0, 1, txq[s], Dispatched)
        /\ Line(s, queue[s], 0, 1, Append(txq[s], <<Served(s), Body>>), Dispatched)
  BY <1>1, LineTyped, BatchNumbers, LineEnds
<1>3. Line(s, queue[s], 0, 1, txq'[s], Dispatched)
  BY <1>1, <1>2, BodyMoves
<1> QED
  BY <1>1, <1>3, BodyMoves, LineKeepsOrder

LEMMA SendKeepsOrder ==
  ASSUME TypeOK, InOrder, NEW s \in Shards, SendPart(s)
  PROVE  InOrder'
<1>1. Line(s, queue[s], Served(s), NextDecoy(s), Tail(txq[s]), Dispatched)
  BY SendMoves, LineTyped, BatchNumbers, LineSends DEF InOrder, LinesInOrder
<1>2. wpc[s] = "work" <=> Served(s) # 0
  BY DEF InOrder, HandsAgree
<1> QED
  BY <1>1, <1>2, SendMoves, LineKeepsOrder DEF Served, NextDecoy

LEMMA WorkerKeepsOrder ==
  ASSUME TypeOK, InOrder, NEW s \in Shards, WorkerStep(s)
  PROVE  InOrder'
<1>1. CASE TakeFirst(s) \/ TakeNext(s)
  BY <1>1, TakeKeepsOrder DEF TakeFirst, TakeNext
<1>2. CASE Poll(s) \/ BatchDone(s) \/ SendDone(s)
  BY <1>2, StillMoves, StillKeepsOrder
<1>3. CASE WorkerStop(s)
  <2>1. Line(s, <<>>, Served(s), NextDecoy(s), txq[s], Dispatched)
    BY LineStops DEF InOrder, LinesInOrder
  <2> QED
    BY <1>3, <2>1, StopMoves, LineKeepsOrder DEF Served, NextDecoy, InOrder
<1> QED
  BY <1>1, <1>2, <1>3, DecoyKeepsOrder, BodyKeepsOrder, SendKeepsOrder DEF WorkerStep

LEMMA OrderStep == ASSUME TypeOK, InOrder, [Next]_vars PROVE InOrder'
<1>1. CASE Arrive \/ Shutdown \/ CaptureCheck \/ ReceiveNothing \/ DelayReceive \/ DelayEmit
  BY <1>1, StillKeepsOrder
     DEF Arrive, Shutdown, CaptureCheck, ReceiveNothing, DelayReceive, DelayEmit, capture
<1>2. CASE UNCHANGED vars
  BY <1>2, StillKeepsOrder DEF vars, capture
<1> QED
  BY <1>1, <1>2, ReceiveKeepsOrder, DispatchKeepsOrder, WorkerKeepsOrder
     DEF Next, CaptureStep, ReceiveSome

-----------------------------------------------------------------------------
(* A part that has left its worker stays past the worker's line.             *)

LEMMA PastGrows ==
  ASSUME NEW part, NEW q \in Seq(Packets), NEW h, NEW n, NEW x, NEW p \in Packets,
         PastLine(part, q, h, n, x), p # part[1]
  PROVE  PastLine(part, Append(q, p), h, n, x)
BY ElemsAppend DEF PastLine

LEMMA PastTakes ==
  ASSUME NEW part, NEW q \in Seq(Packets), NEW x, NEW h, NEW n,
         PastLine(part, q, h, n, x), q # <<>>
  PROVE  PastLine(part, Tail(q), Head(q), 1, x)
BY ElemsTail DEF PastLine

LEMMA PastDecoys ==
  ASSUME NEW part \in Part, NEW q, NEW h, NEW n \in Nat, NEW x \in Seq(Part),
         PastLine(part, q, h, n, x), <<h, n>> \in Part
  PROVE  PastLine(part, q, h, n + 1, x) /\ PastLine(part, q, h, n + 1, Append(x, <<h, n>>))
<1>1. part[2] \in Nat /\ (h = part[1] => part[2] # Body /\ part[2] < n + 1)
  BY PartType DEF PastLine
<1>2. part # <<h, n>>
  BY <1>1 DEF PastLine
<1>3. part \notin Elems(Append(x, <<h, n>>))
  BY <1>2, ElemsAppend DEF PastLine
<1> QED
  BY <1>1, <1>3 DEF PastLine

LEMMA PastEnds ==
  ASSUME NEW part \in Part, NEW q, NEW h, NEW n, NEW x \in Seq(Part),
         PastLine(part, q, h, n, x), <<h, Body>> \in Part
  PROVE  PastLine(part, q, 0, 1, x) /\ PastLine(part, q, 0, 1, Append(x, <<h, Body>>))
<1>1. part[1] # 0
  BY PartType DEF Packets
<1>2. part # <<h, Body>>
  BY DEF PastLine
<1>3. part \notin Elems(Append(x, <<h, Body>>))
  BY <1>2, ElemsAppend DEF PastLine
<1> QED
  BY <1>1, <1>3 DEF PastLine

LEMMA PastSends ==
  ASSUME NEW part, NEW q, NEW h, NEW n, NEW x \in Seq(Part),
         PastLine(part, q, h, n, x), x # <<>>
  PROVE  PastLine(part, q, h, n, Tail(x))
BY ElemsTail DEF PastLine

LEMMA LinePast ==
  ASSUME TypeOK, NEW s \in Shards, OnlyLine(s), NEW part \in Part, Past(part),
         PastLine(part, queue'[s], work'[s].pkt, work'[s].next, txq'[s])
  PROVE  Past(part)'
<1>1. Dispatched' = Dispatched
  BY DEF Dispatched, OnlyLine
<1>2. ASSUME NEW t \in Shards
      PROVE  PastLine(part, queue'[t], work'[t].pkt, work'[t].next, txq'[t])
  BY DEF Past, Served, NextDecoy, OnlyLine
<1> QED
  BY <1>1, <1>2 DEF Past, PastLine, Served, NextDecoy

\* More packets are handed on, but none of them is the part's.
LEMMA PassOnPast ==
  ASSUME UNCHANGED <<queue, work, txq>>, Dispatched \in Int, Dispatched' \in Int,
         Dispatched <= Dispatched', NEW part \in Part, Past(part)
  PROVE  Past(part)'
<1>1. part[1] <= Dispatched'
  BY PartType DEF Past, Packets
<1> QED
  BY <1>1 DEF Past, PastLine, Served, NextDecoy

LEMMA StillPast ==
  ASSUME UNCHANGED <<received, recvBuf, queue, work, txq>>, NEW part, Past(part)
  PROVE  Past(part)'
BY DEF Past, PastLine, Dispatched, Served, NextDecoy

LEMMA DispatchPast ==
  ASSUME TypeOK, InOrder, Dispatch, NEW part \in Part, Past(part)
  PROVE  Past(part)'
<1> DEFINE p == Head(recvBuf)
           s == shard_for_flow(p)
<1>1. /\ recvBuf # <<>> /\ UNCHANGED <<received, wpc, work, txq>>
      /\ Enqueue(p, s) \/ Overflow(p, s) \/ Disconnected(s)
  BY DEF Dispatch
<1>2. CASE Enqueue(p, s)
  <2>1. recvBuf' = Tail(recvBuf) /\ queue' = [queue EXCEPT ![s] = Append(queue[s], p)]
    BY <1>2 DEF Enqueue
  <2>2. p = Dispatched + 1 /\ p \in Packets /\ Dispatched' = Dispatched + 1 /\ Dispatched \in Int
    BY <1>1, <2>1, NextOfBatch, BatchNumbers DEF InOrder
  <2>3. part[1] \in Nat /\ part[1] <= Dispatched
    BY PartType DEF Past, Packets
  <2>4. p # part[1] /\ part[1] <= Dispatched'
    BY <2>2, <2>3
  <2> HIDE DEF p, s
  <2>5. \A t \in Shards : queue'[t] = IF t = s THEN Append(queue[s], p) ELSE queue[t]
    BY <2>1 DEF TypeOK
  <2>6. ASSUME NEW t \in Shards
        PROVE  PastLine(part, queue'[t], Served(t), NextDecoy(t), txq[t])
    <3>1. PastLine(part, queue[t], Served(t), NextDecoy(t), txq[t]) /\ queue[t] \in Seq(Packets)
      BY LineTyped DEF Past
    <3> QED
      BY <2>2, <2>4, <2>5, <3>1, PastGrows
  <2> QED
    BY <1>1, <2>4, <2>6 DEF Past, PastLine, Served, NextDecoy
<1>3. CASE Overflow(p, s)
  <2>1. recvBuf' = Tail(recvBuf) /\ UNCHANGED queue
    BY <1>3 DEF Overflow
  <2>2. Dispatched' = Dispatched + 1 /\ Dispatched \in Int
    BY <1>1, <2>1, NextOfBatch, BatchNumbers DEF InOrder
  <2> QED
    BY <1>1, <2>1, <2>2, PassOnPast
<1>4. CASE Disconnected(s)
  <2>1. recvBuf' = <<>> /\ Len(recvBuf') = 0 /\ UNCHANGED queue
    BY <1>4, EmptySeq DEF Disconnected
  <2>2. Dispatched' = received /\ Dispatched <= received /\ received \in Int /\ Dispatched \in Int
    BY <1>1, <2>1, BatchNumbers DEF Dispatched
  <2> QED
    BY <1>1, <2>1, <2>2, PassOnPast
<1> QED
  BY <1>1, <1>2, <1>3, <1>4

LEMMA WorkerPast ==
  ASSUME TypeOK, InOrder, NEW s \in Shards, WorkerStep(s), NEW part \in Part, Past(part)
  PROVE  Past(part)'
<1>1. /\ PastLine(part, queue[s], Served(s), NextDecoy(s), txq[s]) /\ HandsAgree
      /\ queue[s] \in Seq(Packets) /\ txq[s] \in Seq(Part) /\ NextDecoy(s) \in Nat
  BY LineTyped DEF Past, InOrder
<1>2. CASE TakeFrom(s)
  <2>1. queue[s] # <<>> => PastLine(part, Tail(queue[s]), Head(queue[s]), 1, txq[s])
    BY <1>1, PastTakes
  <2> QED
    BY <1>2, <2>1, TakeMoves, LinePast
<1>3. CASE Poll(s) \/ BatchDone(s) \/ SendDone(s)
  BY <1>3, StillMoves, StillPast
<1>4. CASE WorkerStop(s)
  <2>1. PastLine(part, <<>>, Served(s), NextDecoy(s), txq[s])
    BY <1>1, ElemsEmpty DEF PastLine
  <2> QED
    BY <1>1, <1>4, <2>1, StopMoves, LinePast DEF Served, NextDecoy
<1>5. CASE DecoySkipped(s) \/ DecoyQueued(s) \/ DecoyRaw(s) \/ DecoyDelayed(s)
  <2>1. <<Served(s), NextDecoy(s)>> \in Part =>
          /\ PastLine(part, queue[s], Served(s), NextDecoy(s) + 1, txq[s])
          /\ PastLine(part, queue[s], Served(s), NextDecoy(s) + 1,
                      Append(txq[s], <<Served(s), NextDecoy(s)>>))
    BY <1>1, PastDecoys
  <2>2. PastLine(part, queue[s], Served(s), NextDecoy(s) + 1, txq'[s])
    BY <1>1, <1>5, <2>1, DecoyMoves
  <2> QED
    BY <1>1, <1>5, <2>2, DecoyMoves, LinePast
<1>6. CASE BodyStep(s)
  <2>1. <<Served(s), Body>> \in Part =>
          /\ PastLine(part, queue[s], 0, 1, txq[s])
          /\ PastLine(part, queue[s], 0, 1, Append(txq[s], <<Served(s), Body>>))
    BY <1>1, PastEnds
  <2>2. PastLine(part, queue[s], 0, 1, txq'[s])
    BY <1>1, <1>6, <2>1, BodyMoves
  <2> QED
    BY <1>1, <1>6, <2>2, BodyMoves, LinePast
<1>7. CASE SendPart(s)
  <2>1. txq[s] # <<>> => PastLine(part, queue[s], Served(s), NextDecoy(s), Tail(txq[s]))
    BY <1>1, PastSends
  <2> QED
    BY <1>7, <2>1, SendMoves, LinePast DEF Served, NextDecoy
<1> QED
  BY <1>2, <1>3, <1>4, <1>5, <1>6, <1>7 DEF WorkerStep, TakeFirst, TakeNext

LEMMA PastStays ==
  ASSUME TypeOK, InOrder, [Next]_vars, NEW part \in Part, Past(part)
  PROVE  Past(part)'
<1>1. CASE \/ Arrive \/ Shutdown \/ CaptureCheck \/ ReceiveNothing \/ DelayReceive \/ DelayEmit
           \/ UNCHANGED vars
  BY <1>1, StillPast
     DEF Arrive, Shutdown, CaptureCheck, ReceiveNothing, DelayReceive, DelayEmit, capture, vars
<1>2. CASE \E n \in 1 .. RecvBatch : Receive(n)
  <2>1. PICK n \in 1 .. RecvBatch : Receive(n)
    BY <1>2
  <2>2. /\ recvBuf = <<>> /\ recvBuf' = [i \in 1 .. n |-> received + i]
        /\ received' = received + n /\ n \in Nat
        /\ UNCHANGED <<queue, work, txq>>
    BY <2>1, PipelineAssumption DEF Receive
  <2>3. Len(recvBuf) = 0 /\ Len(recvBuf') = n
    BY <2>2, EmptySeq
  <2>4. Dispatched = received /\ Dispatched' = received
    BY <2>2, <2>3, BatchNumbers DEF Dispatched
  <2> QED
    BY <2>2, <2>4, BatchNumbers, PassOnPast
<1> QED
  BY <1>1, <1>2, DispatchPast, WorkerPast DEF Next, CaptureStep, ReceiveSome

-----------------------------------------------------------------------------
(* What is sent, and what waits in the delay thread.                         *)

LEMMA OnWire == ASSUME NEW part PROVE On(part) <=> part \in Elems(wire)
BY DEF On, Elems

LEMMA TransmitOn ==
  ASSUME TypeOK, NEW p \in Packets, NEW i \in Nat, Transmit(p, i)
  PROVE  \/ /\ UNCHANGED fate
            /\ \A part \in Part : On(part)' <=> On(part) \/ part = <<p, i>>
            /\ SentOnce /\ ~On(<<p, i>>) => SentOnce'
         \/ /\ UNCHANGED wire
            /\ \A part \in Part : On(part)' <=> On(part)
            /\ SentOnce => SentOnce'
            /\ fate' = IF i = Body THEN [fate EXCEPT ![p] = "lost"] ELSE fate
<1>1. <<p, i>> \in Part /\ wire \in Seq(Part)
  BY DEF Part, TypeOK
<1>2. CASE wire' = Append(wire, <<p, i>>) /\ UNCHANGED fate
  <2>1. Elems(wire') = Elems(wire) \cup {<<p, i>>}
    BY <1>1, <1>2, ElemsAppend
  <2>2. ASSUME NEW part \in Part
        PROVE  On(part)' <=> On(part) \/ part = <<p, i>>
    BY <2>1 DEF On, Elems
  <2>3. ASSUME SentOnce, ~On(<<p, i>>)
        PROVE  SentOnce'
    <3>1. Distinct(wire) /\ <<p, i>> \notin Elems(wire)
      BY <2>3, OnWire DEF SentOnce, Distinct
    <3>2. Distinct(Append(wire, <<p, i>>))
      BY <1>1, <3>1, DistinctAppend
    <3> QED
      BY <1>2, <3>2 DEF SentOnce, Distinct
  <2> QED
    BY <1>2, <2>2, <2>3
<1>3. CASE UNCHANGED wire /\ fate' = IF i = Body THEN [fate EXCEPT ![p] = "lost"] ELSE fate
  BY <1>3 DEF On, SentOnce
<1> QED
  BY <1>2, <1>3 DEF Transmit

\* The next packet of the batch has nowhere been yet.
LEMMA AheadIsNotPast ==
  ASSUME TypeOK, NEW part, part[1] = Dispatched + 1
  PROVE  ~Past(part)
BY BatchNumbers DEF Past

LEMMA HandIsNotPast ==
  ASSUME NEW s \in Shards, NextDecoy(s) \in Nat
  PROVE  ~Past(<<Served(s), NextDecoy(s)>>) /\ ~Past(<<Served(s), Body>>)
BY DEF Past, PastLine

LEMMA TxqIsNotPast ==
  ASSUME NEW s \in Shards, NEW part \in Elems(txq[s])
  PROVE  ~Past(part)
BY DEF Past, PastLine

\* A part that leaves is past its own line and every other one.
LEMMA LineOther ==
  ASSUME NEW t, NEW q \in Seq(Packets), NEW h, NEW n, NEW x \in Seq(Part), NEW d,
         Line(t, q, h, n, x, d), NEW part \in Part, shard_for_flow(part[1]) # t
  PROVE  PastLine(part, q, h, n, x)
<1>1. part[1] # 0
  BY PartType DEF Packets
<1> QED
  BY <1>1 DEF Line, QueueInOrder, HandInOrder, TxqInOrder, PastLine, Elems

LEMMA LineAhead ==
  ASSUME NEW t, NEW q \in Seq(Packets), NEW h \in Nat, NEW n, NEW x \in Seq(Part), NEW d \in Int,
         Line(t, q, h, n, x, d), NEW part \in Part, d < part[1]
  PROVE  PastLine(part, q, h, n, x)
<1>1. part[1] \in Nat /\ part[1] # 0
  BY PartType DEF Packets
<1>2. \A i \in 1 .. Len(q) : q[i] # part[1]
  BY <1>1, LineNumbers DEF Line, QueueInOrder
<1>3. \A i \in 1 .. Len(x) : x[i] # part
  BY <1>1, LineNumbers DEF Line, TxqInOrder
<1>4. h # part[1]
  BY <1>1 DEF Line, HandInOrder
<1> QED
  BY <1>2, <1>3, <1>4 DEF PastLine, Elems

LEMMA LineHandLeaves ==
  ASSUME NEW s, NEW q \in Seq(Packets), NEW h \in Nat \ {0}, NEW n \in Nat \ {0},
         NEW x \in Seq(Part), NEW d, Line(s, q, h, n, x, d)
  PROVE  PastLine(<<h, n>>, q, h, n + 1, x)
<1>1. h \notin Elems(q)
  BY LineNumbers DEF Line, HandInOrder, Elems
<1>2. ASSUME NEW i \in 1 .. Len(x)
      PROVE  x[i] # <<h, n>>
  BY DEF Line, TxqInOrder, Precedes, Body
<1> QED
  BY <1>1, <1>2 DEF PastLine, Elems, Body

LEMMA LineTxqLeaves ==
  ASSUME NEW s, NEW q \in Seq(Packets), NEW h \in Nat, NEW n \in Nat \ {0},
         NEW x \in Seq(Part), NEW d, Line(s, q, h, n, x, d), x # <<>>
  PROVE  PastLine(Head(x), q, h, n, Tail(x))
<1> DEFINE y == Tail(x)
<1>1. /\ Len(y) = Len(x) - 1 /\ Head(x) = x[1] /\ Len(x) # 0 /\ Len(x) \in Nat
      /\ \A i \in 1 .. Len(y) : y[i] = x[i + 1]
  BY HeadTailProperties, EmptySeq, LenProperties
<1> HIDE DEF y
<1>2. 1 \in 1 .. Len(x) /\ \A i \in 1 .. Len(y) : i + 1 \in 1 .. Len(x) /\ 1 < i + 1
  BY <1>1
<1>3. /\ x[1][1] \in Nat /\ x[1][1] # 0 /\ x[1][2] \in Nat
  BY <1>2, LineNumbers, PartType DEF Packets
<1>4. x[1][1] \notin Elems(q)
  BY <1>2, <1>3, LineNumbers DEF Line, TxqInOrder, Elems
<1>5. h = x[1][1] => x[1][2] # Body /\ x[1][2] < n
  <2>1. h # 0 => Precedes(x[1], <<h, n>>)
    BY <1>2 DEF Line, TxqInOrder
  <2> QED
    BY <1>3, <2>1 DEF Precedes, Body
<1>6. ASSUME NEW i \in 1 .. Len(y)
      PROVE  y[i] # x[1]
  <2>1. Precedes(x[1], x[i + 1])
    BY <1>2 DEF Line, TxqInOrder
  <2> QED
    BY <1>1, <1>3, <2>1 DEF Precedes
<1> QED
  BY <1>1, <1>4, <1>5, <1>6 DEF PastLine, Elems, y

LEMMA OverflowPast ==
  ASSUME TypeOK, InOrder, Dispatch, UNCHANGED queue, recvBuf' = Tail(recvBuf),
         NEW part, part = <<Head(recvBuf), Body>>
  PROVE  /\ Head(recvBuf) \in Packets /\ Head(recvBuf) = Dispatched + 1
         /\ part \in Part /\ ~Past(part) /\ Past(part)'
<1>1. recvBuf # <<>> /\ UNCHANGED <<received, work, txq>>
  BY DEF Dispatch
<1>2. /\ Head(recvBuf) = Dispatched + 1 /\ Head(recvBuf) \in Packets
      /\ Dispatched' = Dispatched + 1 /\ Dispatched \in Int
  BY <1>1, NextOfBatch, BatchNumbers DEF InOrder
<1>3. part \in Part /\ part[1] = Dispatched + 1 /\ part[1] <= Dispatched' /\ Dispatched < part[1]
  BY <1>2 DEF Part, Body
<1>4. ASSUME NEW t \in Shards
      PROVE  PastLine(part, queue[t], Served(t), NextDecoy(t), txq[t])
  BY <1>2, <1>3, LineTyped, LineAhead DEF InOrder, LinesInOrder
<1>5. Past(part)'
  BY <1>1, <1>3, <1>4 DEF Past, PastLine, Served, NextDecoy
<1>6. ~Past(part)
  BY <1>3, AheadIsNotPast
<1> QED
  BY <1>2, <1>3, <1>5, <1>6

LEMMA HandPast ==
  ASSUME TypeOK, InOrder, NEW s \in Shards, DecoyRaw(s) \/ DecoyDelayed(s),
         NEW part, part = <<Served(s), NextDecoy(s)>>
  PROVE  part \in Part /\ ~Past(part) /\ Past(part)'
<1>1. /\ OnlyLine(s) /\ queue'[s] = queue[s] /\ txq' = txq
      /\ work'[s].pkt = Served(s) /\ work'[s].next = NextDecoy(s) + 1
      /\ part \in Part /\ Served(s) \in Nat \ {0} /\ NextDecoy(s) \in Nat \ {0}
  BY DecoyMoves DEF InOrder, DecoyRaw, DecoyDelayed
<1>2. ~Past(part)
  BY <1>1, HandIsNotPast
<1>3. /\ Line(s, queue[s], Served(s), NextDecoy(s), txq[s], Dispatched)
      /\ queue[s] \in Seq(Packets) /\ txq[s] \in Seq(Part)
  BY LineTyped DEF InOrder, LinesInOrder
<1>4. Served(s) <= Dispatched /\ shard_for_flow(Served(s)) = s
  BY <1>1, <1>3 DEF Line, HandInOrder
<1>5. PastLine(part, queue[s], Served(s), NextDecoy(s) + 1, txq[s])
  BY <1>1, <1>3, LineHandLeaves
<1>6. part[1] <= Dispatched /\ shard_for_flow(part[1]) = s
  BY <1>4
<1>7. ASSUME NEW t \in Shards, t # s
      PROVE  PastLine(part, queue[t], Served(t), NextDecoy(t), txq[t])
  BY <1>1, <1>6, <1>7, LineTyped, LineOther DEF InOrder, LinesInOrder
<1>8. ASSUME NEW t \in Shards
      PROVE  PastLine(part, queue'[t], work'[t].pkt, work'[t].next, txq'[t])
  BY <1>1, <1>5, <1>7 DEF OnlyLine, Served, NextDecoy
<1>9. Dispatched' = Dispatched
  BY <1>1 DEF OnlyLine, Dispatched
<1>10. Past(part)'
  BY <1>6, <1>8, <1>9 DEF Past, PastLine, Served, NextDecoy
<1> QED
  BY <1>1, <1>2, <1>10

LEMMA SendPast ==
  ASSUME TypeOK, InOrder, NEW s \in Shards, SendPart(s), NEW part, part = Head(txq[s])
  PROVE  ~Past(part) /\ Past(part)'
<1>1. /\ OnlyLine(s) /\ queue'[s] = queue[s] /\ txq'[s] = Tail(txq[s]) /\ work'[s] = work[s]
      /\ txq[s] # <<>> /\ part \in Part /\ part = txq[s][1] /\ 1 \in 1 .. Len(txq[s])
  BY SendMoves
<1>2. part \in Elems(txq[s])
  BY <1>1, LineTyped, ElemsTail
<1>3. ~Past(part)
  BY <1>2, TxqIsNotPast
<1>4. Line(s, queue[s], Served(s), NextDecoy(s), txq[s], Dispatched)
  BY DEF InOrder, LinesInOrder
<1>5. PastLine(part, queue[s], Served(s), NextDecoy(s), Tail(txq[s]))
  BY <1>1, <1>4, LineTyped, LineTxqLeaves
<1>6. part[1] <= Dispatched /\ shard_for_flow(part[1]) = s
  BY <1>1, <1>4 DEF Line, TxqInOrder
<1>7. ASSUME NEW t \in Shards, t # s
      PROVE  PastLine(part, queue[t], Served(t), NextDecoy(t), txq[t])
  BY <1>1, <1>6, <1>7, LineTyped, LineOther DEF InOrder, LinesInOrder
<1>8. ASSUME NEW t \in Shards
      PROVE  PastLine(part, queue'[t], work'[t].pkt, work'[t].next, txq'[t])
  BY <1>1, <1>5, <1>7 DEF OnlyLine, Served, NextDecoy
<1>9. Dispatched' = Dispatched
  BY <1>1 DEF OnlyLine, Dispatched
<1>10. Past(part)'
  BY <1>6, <1>8, <1>9 DEF Past, PastLine, Served, NextDecoy
<1> QED
  BY <1>3, <1>10

\* The parts a worker has yet to send after a step: some of those before, or of the
\* packet in its hands.
LEMMA TxqGrows ==
  ASSUME TypeOK, InOrder, [Next]_vars, NEW s \in Shards, NEW x \in Elems(txq'[s])
  PROVE  x \in Elems(txq[s]) \/ (Served(s) # 0 /\ x[1] = Served(s))
<1>1. CASE \E t \in Shards : WorkerStep(t)
  <2>1. PICK t \in Shards : WorkerStep(t)
    BY <1>1
  <2>2. HandsAgree /\ txq[t] \in Seq(Part)
    BY LineTyped DEF InOrder
  <2>3. CASE Poll(t) \/ BatchDone(t) \/ SendDone(t)
    BY <2>3, StillMoves
  <2>4. CASE TakeFrom(t) \/ WorkerStop(t)
    BY <2>2, <2>4, TakeMoves, StopMoves DEF OnlyLine
  <2>5. CASE DecoySkipped(t) \/ DecoyQueued(t) \/ DecoyRaw(t) \/ DecoyDelayed(t)
    <3>1. <<Served(t), NextDecoy(t)>> \in Part =>
            Elems(Append(txq[t], <<Served(t), NextDecoy(t)>>))
              = Elems(txq[t]) \cup {<<Served(t), NextDecoy(t)>>}
      BY <2>2, ElemsAppend
    <3>2. /\ OnlyLine(t) /\ <<Served(t), NextDecoy(t)>> \in Part /\ Served(t) # 0
          /\ \/ txq'[t] = txq[t]
             \/ txq'[t] = Append(txq[t], <<Served(t), NextDecoy(t)>>)
      BY <2>2, <2>5, DecoyMoves
    <3>3. CASE s = t
      <4>1. x \in Elems(txq[t]) \/ x = <<Served(t), NextDecoy(t)>>
        BY <3>1, <3>2, <3>3
      <4> QED
        BY <3>2, <3>3, <4>1
    <3> QED
      BY <3>2, <3>3 DEF OnlyLine
  <2>6. CASE BodyStep(t)
    <3>1. <<Served(t), Body>> \in Part =>
            Elems(Append(txq[t], <<Served(t), Body>>)) = Elems(txq[t]) \cup {<<Served(t), Body>>}
      BY <2>2, ElemsAppend
    <3>2. /\ OnlyLine(t) /\ <<Served(t), Body>> \in Part /\ Served(t) # 0
          /\ txq'[t] = txq[t] \/ txq'[t] = Append(txq[t], <<Served(t), Body>>)
      BY <2>2, <2>6, BodyMoves
    <3>3. CASE s = t
      <4>1. x \in Elems(txq[t]) \/ x = <<Served(t), Body>>
        BY <3>1, <3>2, <3>3
      <4> QED
        BY <3>2, <3>3, <4>1
    <3> QED
      BY <3>2, <3>3 DEF OnlyLine
  <2>7. CASE SendPart(t)
    <3>1. txq[t] # <<>> => Elems(Tail(txq[t])) \subseteq Elems(txq[t])
      BY <2>2, ElemsTail
    <3> QED
      BY <2>7, <3>1, SendMoves DEF OnlyLine
  <2> QED
    BY <2>1, <2>3, <2>4, <2>5, <2>6, <2>7 DEF WorkerStep, TakeFirst, TakeNext
<1>2. CASE UNCHANGED txq
  BY <1>2
<1> QED
  BY <1>1, <1>2 DEF Next, CaptureStep, ReceiveSome, Arrive, Shutdown, Dispatch, CaptureCheck,
                    ReceiveNothing, Receive,
                    DelayReceive, DelayEmit, vars

\* A part is handed to the driver by the thread that holds it, which lets go of it;
\* behind a body the worker holds no part of the same packet.
Sends(part) ==
  /\ Transmit(part[1], part[2]) /\ UNCHANGED <<channel, heap>>
  /\ ~Past(part) /\ Past(part)'
  /\ part[2] = Body => \A s \in Shards : \A x \in Elems(txq[s])' : x[1] # part[1]

\* A decoy is handed to the delay thread.
Delays(part) ==
  /\ part[2] # Body /\ channel' = Append(channel, part) /\ UNCHANGED <<heap, wire>>
  /\ ~Past(part) /\ Past(part)'

LEMMA OverflowSends ==
  ASSUME TypeOK, InOrder, Dispatch, Overflow(Head(recvBuf), shard_for_flow(Head(recvBuf))),
         NEW part, part = <<Head(recvBuf), Body>>
  PROVE  part \in Part /\ Sends(part)
<1>1. /\ UNCHANGED <<channel, heap, queue, txq>> /\ recvBuf' = Tail(recvBuf)
      /\ Transmit(part[1], part[2])
  BY DEF Dispatch, Overflow, ForwardDirectly, delayed
<1>2. part \in Part /\ part[1] = Dispatched + 1 /\ ~Past(part) /\ Past(part)'
  BY <1>1, OverflowPast
<1>3. ASSUME NEW s \in Shards, NEW x \in Elems(txq[s])
      PROVE  x[1] # part[1]
  <2>1. PICK i \in 1 .. Len(txq[s]) : x = txq[s][i]
    BY DEF Elems
  <2>2. x[1] <= Dispatched
    BY <2>1 DEF InOrder, LinesInOrder, Line, TxqInOrder
  <2> QED
    BY <1>2, <2>2, BatchNumbers
<1> QED
  BY <1>1, <1>2, <1>3 DEF Sends, Elems

LEMMA SendPartSends ==
  ASSUME TypeOK, InOrder, NEW s \in Shards, SendPart(s), NEW part, part = Head(txq[s])
  PROVE  part \in Part /\ Sends(part)
<1>1. /\ OnlyLine(s) /\ txq'[s] = Tail(txq[s]) /\ txq[s] # <<>> /\ txq[s] \in Seq(Part)
      /\ part \in Part /\ part = txq[s][1] /\ 1 \in 1 .. Len(txq[s]) /\ Len(txq[s]) \in Nat
      /\ Transmit(part[1], part[2]) /\ UNCHANGED <<channel, heap>>
  BY SendMoves
<1>2. ~Past(part) /\ Past(part)'
  BY SendPast
<1>3. \A t \in Shards : TxqInOrder(t, queue[t], Served(t), NextDecoy(t), txq[t], Dispatched)
  BY DEF InOrder, LinesInOrder, Line
<1>4. shard_for_flow(part[1]) = s
  BY <1>1, <1>3 DEF TxqInOrder
<1>5. ASSUME NEW t \in Shards, t # s, NEW x \in Elems(txq[t])
      PROVE  x[1] # part[1]
  BY <1>3, <1>4, <1>5 DEF TxqInOrder, Elems
<1>6. ASSUME NEW x \in Elems(Tail(txq[s])), part[2] = Body
      PROVE  x[1] # part[1]
  <2>1. PICK i \in 1 .. Len(Tail(txq[s])) : x = Tail(txq[s])[i]
    BY DEF Elems
  <2>2. /\ x = txq[s][i + 1] /\ Len(Tail(txq[s])) = Len(txq[s]) - 1
    BY <1>1, <2>1, HeadTailProperties
  <2>3. i + 1 \in 1 .. Len(txq[s]) /\ 1 < i + 1
    BY <1>1, <2>1, <2>2
  <2>4. Precedes(part, x)
    BY <1>1, <1>3, <2>2, <2>3 DEF TxqInOrder
  <2>5. part[1] \in Nat /\ x[1] \in Nat
    BY <1>1, <2>2, <2>3, LineNumbers, LineTyped
  <2> QED
    BY <1>6, <2>4, <2>5 DEF Precedes
<1>7. ASSUME NEW t \in Shards, NEW x \in Elems(txq'[t]), part[2] = Body
      PROVE  x[1] # part[1]
  BY <1>1, <1>5, <1>6, <1>7 DEF OnlyLine
<1> QED
  BY <1>1, <1>2, <1>7 DEF Sends, Elems

LEMMA HowPartsLeave ==
  ASSUME TypeOK, InOrder, [Next]_vars
  PROVE  \/ UNCHANGED <<channel, heap, wire>>
         \/ \E part \in Part : Sends(part) \/ Delays(part)
         \/ DelayReceive \/ DelayEmit
<1>1. CASE \/ Arrive \/ Shutdown \/ CaptureCheck \/ ReceiveNothing
           \/ (\E n \in 1 .. RecvBatch : Receive(n)) \/ UNCHANGED vars
  BY <1>1 DEF Arrive, Shutdown, CaptureCheck, ReceiveNothing, Receive, delayed, vars
<1>2. CASE Dispatch
  <2> DEFINE p == Head(recvBuf)
             s == shard_for_flow(p)
  <2>1. UNCHANGED <<channel, heap>> /\ (Enqueue(p, s) \/ Overflow(p, s) \/ Disconnected(s))
    BY <1>2 DEF Dispatch, delayed
  <2>2. CASE Overflow(p, s)
    BY <1>2, <2>2, OverflowSends
  <2> QED
    BY <2>1, <2>2 DEF Enqueue, Disconnected
<1>3. CASE \E s \in Shards : WorkerStep(s)
  <2>1. PICK s \in Shards : WorkerStep(s)
    BY <1>3
  <2>2. HandsAgree
    BY DEF InOrder
  <2>3. CASE TakeFrom(s) \/ WorkerStop(s) \/ BodyStep(s) \/ Poll(s) \/ BatchDone(s) \/ SendDone(s)
    BY <2>2, <2>3, TakeMoves, StopMoves, BodyMoves, StillMoves
  <2>4. CASE DecoySkipped(s) \/ DecoyQueued(s)
    BY <2>2, <2>4, DecoyMoves DEF DecoySkipped, DecoyQueued
  <2>5. CASE DecoyRaw(s) \/ DecoyDelayed(s)
    <3>1. PICK part : part = <<Served(s), NextDecoy(s)>>
      OBVIOUS
    <3>2. part \in Part /\ ~Past(part) /\ Past(part)'
      BY <2>5, <3>1, HandPast
    <3>3. part[1] = Served(s) /\ part[2] = NextDecoy(s) /\ part[2] # Body
      BY <2>2, <2>5, <3>1, DecoyMoves DEF Body
    <3>4. UNCHANGED heap
      BY <2>2, <2>5, DecoyMoves
    <3>5. CASE DecoyRaw(s)
      BY <3>2, <3>3, <3>4, <3>5 DEF DecoyRaw, Sends, Served
    <3>6. CASE DecoyDelayed(s)
      BY <3>1, <3>2, <3>3, <3>4, <3>6 DEF DecoyDelayed, Delays, Served
    <3> QED
      BY <2>5, <3>5, <3>6
  <2>6. CASE SendPart(s)
    BY <2>6, SendPartSends
  <2> QED
    BY <2>1, <2>3, <2>4, <2>5, <2>6 DEF WorkerStep, TakeFirst, TakeNext
<1> QED
  BY <1>1, <1>2, <1>3 DEF Next, CaptureStep, ReceiveSome

LEMMA LeftStays ==
  ASSUME TypeOK, InOrder, [Next]_vars, LeftIsPast,
         \A part \in Part : Left(part)' => Left(part) \/ Past(part)'
  PROVE  LeftIsPast'
<1>1. ASSUME NEW part \in Part, Left(part)'
      PROVE  Past(part)'
  BY <1>1, PastStays DEF LeftIsPast
<1> QED
  BY <1>1 DEF LeftIsPast, Part, Packets

\* No worker holds a part of a packet whose body was sent.
LEMMA NoneBehindStays ==
  ASSUME TypeOK, InOrder, SentRight, [Next]_vars, NEW p \in Packets, On(<<p, Body>>)
  PROVE  \A s \in Shards : \A x \in Elems(txq[s])' : x[1] # p
<1>1. <<p, Body>> \in Part
  BY DEF Part, Body
<1>2. Past(<<p, Body>>)
  BY <1>1 DEF SentRight, LeftIsPast, Left
<1>3. ASSUME NEW s \in Shards, NEW x \in Elems(txq'[s])
      PROVE  x[1] # p
  <2>1. CASE x \in Elems(txq[s])
    BY <2>1 DEF SentRight, NoneBehindBody
  <2>2. CASE x[1] = Served(s)
    BY <1>2, <2>2 DEF Past, PastLine
  <2> QED
    BY <2>1, <2>2, TxqGrows
<1> QED
  BY <1>3 DEF Elems

LEMMA StillRight ==
  ASSUME TypeOK, InOrder, SentRight, [Next]_vars, UNCHANGED <<channel, heap, wire>>
  PROVE  SentRight'
<1>1. LeftIsPast'
  BY LeftStays DEF Left, On, Elems, SentRight
<1>2. NoneBehindBody'
  BY NoneBehindStays DEF NoneBehindBody, On, Elems, Packets
<1> QED
  BY <1>1, <1>2 DEF SentRight, DelayedOnce, Distinct, Elems, On, SentOnce

LEMMA SendsRight ==
  ASSUME TypeOK, InOrder, SentRight, [Next]_vars, NEW part \in Part, Sends(part)
  PROVE  SentRight'
<1>1. /\ part[1] \in Packets /\ part[2] \in Nat /\ part = <<part[1], part[2]>>
      /\ UNCHANGED <<channel, heap>> /\ Past(part)'
  BY PartType DEF Sends
<1>2. ~On(part) /\ part \notin heap /\ part \notin Elems(channel)
  BY DEF Sends, SentRight, LeftIsPast, Left
<1>3. /\ SentOnce'
      /\ \A x \in Part : On(x)' => On(x) \/ x = part
  BY <1>1, <1>2, TransmitOn DEF Sends, SentRight
<1>4. Elems(channel)' = Elems(channel) /\ Elems(channel) \subseteq Part /\ heap \subseteq Part
  BY <1>1, ElemsType DEF Elems, TypeOK
<1>5. LeftIsPast'
  <2>1. ASSUME NEW x \in Part, Left(x)'
        PROVE  Left(x) \/ Past(x)'
    BY <1>1, <1>3, <1>4, <2>1 DEF Left
  <2> QED
    BY <2>1, LeftStays DEF SentRight
<1>6. DelayedOnce'
  <2>1. Distinct(channel)' /\ \A x \in Elems(channel)' : x \notin heap'
    BY <1>1, <1>4 DEF SentRight, DelayedOnce, Distinct
  <2>2. ASSUME NEW x \in Elems(channel)' \cup heap'
        PROVE  x[2] # Body /\ ~On(x)'
    <3>1. x \in Elems(channel) \cup heap /\ x \in Part /\ x # part
      BY <1>1, <1>2, <1>4
    <3> QED
      BY <1>3, <3>1 DEF SentRight, DelayedOnce
  <2> QED
    BY <2>1, <2>2 DEF DelayedOnce
<1>7. NoneBehindBody'
  <2>1. ASSUME NEW p \in Packets, On(<<p, Body>>)'
        PROVE  \A s \in Shards : \A x \in Elems(txq[s])' : x[1] # p
    <3>1. <<p, Body>> \in Part
      BY DEF Part, Body
    <3>2. CASE On(<<p, Body>>)
      BY <3>2, NoneBehindStays
    <3>3. CASE <<p, Body>> = part
      <4>1. part[1] = p /\ part[2] = Body
        BY <3>3
      <4> QED
        BY <4>1 DEF Sends
    <3> QED
      BY <1>3, <2>1, <3>1, <3>2, <3>3
  <2> QED
    BY <2>1 DEF NoneBehindBody, Packets
<1> QED
  BY <1>3, <1>5, <1>6, <1>7 DEF SentRight

LEMMA DelaysRight ==
  ASSUME TypeOK, InOrder, SentRight, [Next]_vars, NEW part \in Part, Delays(part)
  PROVE  SentRight'
<1>1. /\ part[2] # Body /\ channel' = Append(channel, part) /\ UNCHANGED <<heap, wire>>
      /\ Past(part)' /\ channel \in Seq(Part)
  BY DEF Delays, TypeOK
<1>2. ~On(part) /\ part \notin heap /\ part \notin Elems(channel)
  BY DEF Delays, SentRight, LeftIsPast, Left
<1>3. Elems(channel)' = Elems(channel) \cup {part} /\ Distinct(channel)'
  <2>1. Elems(channel') = Elems(channel) \cup {part} /\ Distinct(channel')
    BY <1>1, <1>2, ElemsAppend, DistinctAppend DEF SentRight, DelayedOnce
  <2> QED
    BY <2>1 DEF Elems, Distinct
<1>4. \A x : On(x)' <=> On(x)
  BY <1>1 DEF On
<1>5. LeftIsPast'
  <2>1. ASSUME NEW x \in Part, Left(x)'
        PROVE  Left(x) \/ Past(x)'
    BY <1>1, <1>3, <1>4, <2>1 DEF Left
  <2> QED
    BY <2>1, LeftStays DEF SentRight
<1>6. DelayedOnce'
  <2>1. \A x \in Elems(channel)' : x \notin heap'
    BY <1>1, <1>2, <1>3 DEF SentRight, DelayedOnce
  <2>2. \A x \in Elems(channel)' \cup heap' : x[2] # Body /\ ~On(x)'
    BY <1>1, <1>2, <1>3, <1>4 DEF SentRight, DelayedOnce
  <2> QED
    BY <1>3, <2>1, <2>2 DEF DelayedOnce
<1>7. NoneBehindBody'
  BY <1>1, NoneBehindStays DEF NoneBehindBody, On, Packets
<1>8. SentOnce'
  BY <1>1 DEF SentRight, SentOnce
<1> QED
  BY <1>5, <1>6, <1>7, <1>8 DEF SentRight

LEMMA DelayReceiveRight ==
  ASSUME TypeOK, InOrder, SentRight, DelayReceive
  PROVE  SentRight'
<1> DEFINE part == Head(channel)
<1>1. /\ channel # <<>> /\ channel \in Seq(Part) /\ channel' = Tail(channel)
      /\ heap' = heap \cup {part} /\ UNCHANGED <<wire, txq>> /\ [Next]_vars
  BY DEF DelayReceive, TypeOK, Next
<1>2. /\ Elems(channel) = {part} \cup Elems(Tail(channel))
      /\ Distinct(Tail(channel)) /\ part \notin Elems(Tail(channel)) /\ part \in Part
  BY <1>1, ElemsTail, DistinctTail DEF SentRight, DelayedOnce
<1> HIDE DEF part
<1>3. Elems(channel)' = Elems(Tail(channel)) /\ Distinct(channel)'
  BY <1>1, <1>2 DEF Elems, Distinct
<1>4. \A x : On(x)' <=> On(x)
  BY <1>1 DEF On
<1>5. LeftIsPast'
  <2>1. ASSUME NEW x \in Part, Left(x)'
        PROVE  Left(x)
    BY <1>1, <1>2, <1>3, <1>4, <2>1 DEF Left
  <2> QED
    BY <1>1, <2>1, LeftStays DEF SentRight
<1>6. DelayedOnce'
  <2>1. \A x \in Elems(channel)' : x \notin heap'
    BY <1>1, <1>2, <1>3 DEF SentRight, DelayedOnce
  <2>2. \A x \in Elems(channel)' \cup heap' : x[2] # Body /\ ~On(x)'
    BY <1>1, <1>2, <1>3, <1>4 DEF SentRight, DelayedOnce
  <2> QED
    BY <1>3, <2>1, <2>2 DEF DelayedOnce
<1>7. NoneBehindBody' /\ SentOnce'
  <2>1. SentOnce'
    BY <1>1 DEF SentRight, SentOnce
  <2>2. NoneBehindBody'
    BY <1>1, <1>4 DEF SentRight, NoneBehindBody, Packets, Elems
  <2> QED
    BY <2>1, <2>2
<1> QED
  BY <1>5, <1>6, <1>7 DEF SentRight

LEMMA DelayEmitRight ==
  ASSUME TypeOK, InOrder, SentRight, DelayEmit
  PROVE  SentRight'
<1>1. PICK part \in heap : heap' = heap \ {part} /\ Transmit(part[1], part[2])
        /\ UNCHANGED <<capture, queue, wpc, work, txq, channel, stop, bypassed>>
  BY DEF DelayEmit
<1>2. /\ part \in Part /\ part[1] \in Packets /\ part[2] \in Nat /\ part = <<part[1], part[2]>>
      /\ [Next]_vars
  BY PartType DEF TypeOK, Next
<1>3. part[2] # Body /\ ~On(part) /\ part \notin Elems(channel)
  BY DEF SentRight, DelayedOnce
<1>4. /\ SentOnce'
      /\ \A x \in Part : On(x)' => On(x) \/ x = part
  BY <1>1, <1>2, <1>3, TransmitOn DEF SentRight
<1>5. Elems(channel)' = Elems(channel) /\ Elems(channel) \subseteq Part /\ heap \subseteq Part
  BY <1>1, ElemsType DEF Elems, TypeOK
<1>6. LeftIsPast'
  <2>1. ASSUME NEW x \in Part, Left(x)'
        PROVE  Left(x)
    BY <1>1, <1>4, <1>5, <2>1 DEF Left
  <2> QED
    BY <1>2, <2>1, LeftStays DEF SentRight
<1>7. DelayedOnce'
  <2>1. Distinct(channel)' /\ \A x \in Elems(channel)' : x \notin heap'
    BY <1>1, <1>5 DEF SentRight, DelayedOnce, Distinct
  <2>2. ASSUME NEW x \in Elems(channel)' \cup heap'
        PROVE  x[2] # Body /\ ~On(x)'
    <3>1. x \in Elems(channel) \cup heap /\ x \in Part /\ x # part
      BY <1>1, <1>3, <1>5
    <3> QED
      BY <1>4, <3>1 DEF SentRight, DelayedOnce
  <2> QED
    BY <2>1, <2>2 DEF DelayedOnce
<1>8. NoneBehindBody'
  <2>1. ASSUME NEW p \in Packets, On(<<p, Body>>)'
        PROVE  On(<<p, Body>>)
    <3>1. <<p, Body>> \in Part /\ <<p, Body>> # part
      BY <1>3 DEF Part, Body
    <3> QED
      BY <1>4, <2>1, <3>1
  <2>2. UNCHANGED txq
    BY <1>1
  <2> QED
    BY <2>1, <2>2 DEF SentRight, NoneBehindBody, Packets, Elems
<1> QED
  BY <1>4, <1>6, <1>7, <1>8 DEF SentRight

LEMMA SentStep == ASSUME TypeOK, InOrder, SentRight, [Next]_vars PROVE SentRight'
BY HowPartsLeave, StillRight, SendsRight, DelaysRight, DelayReceiveRight, DelayEmitRight

-----------------------------------------------------------------------------
(* Where a packet is, and what becomes of it.                                *)

\* A packet is in one of three stretches: not handed on yet, on its own line, sent.
LEMMA WhereIs ==
  ASSUME TypeOK, InOrder, LeftIsPast, NEW p \in Packets
  PROVE  /\ p \in Nat /\ <<p, Body>> \in Part
         /\ p \in Elems(recvBuf) <=> Dispatched < p /\ p <= received
         /\ \A s \in Shards : Aboard(s, p) =>
              p <= Dispatched /\ shard_for_flow(p) = s /\ ~On(<<p, Body>>)
         /\ On(<<p, Body>>) => p <= Dispatched
<1>1. p \in Nat /\ <<p, Body>> \in Part
  BY DEF Part, Body, Packets
<1>2. p \in Elems(recvBuf) <=> Dispatched < p /\ p <= received
  <2>1. ASSUME NEW i \in 1 .. Len(recvBuf)
        PROVE  Dispatched < recvBuf[i] /\ recvBuf[i] <= received
    BY BatchNumbers DEF InOrder, BatchInOrder, Dispatched
  <2>2. ASSUME Dispatched < p, p <= received
        PROVE  p \in Elems(recvBuf)
    <3>1. p - Dispatched \in 1 .. Len(recvBuf) /\ Dispatched + (p - Dispatched) = p
      BY <1>1, <2>2, BatchNumbers DEF Dispatched
    <3>2. recvBuf[p - Dispatched] = p
      BY <3>1 DEF InOrder, BatchInOrder
    <3> QED
      BY <3>1, <3>2 DEF Elems
  <2> QED
    BY <2>1, <2>2 DEF Elems
<1>3. ASSUME NEW s \in Shards, Aboard(s, p)
      PROVE  p <= Dispatched /\ shard_for_flow(p) = s /\ ~On(<<p, Body>>)
  <2>1. Line(s, queue[s], Served(s), NextDecoy(s), txq[s], Dispatched)
    BY DEF InOrder, LinesInOrder
  <2>2. p # 0
    BY DEF Packets
  <2>3. p <= Dispatched /\ shard_for_flow(p) = s
    <3>1. CASE p \in Elems(queue[s])
      BY <2>1, <3>1 DEF Line, QueueInOrder, Elems
    <3>2. CASE Served(s) = p
      BY <2>1, <2>2, <3>2 DEF Line, HandInOrder
    <3>3. CASE <<p, Body>> \in Elems(txq[s])
      <4>1. PICK i \in 1 .. Len(txq[s]) : txq[s][i] = <<p, Body>>
        BY <3>3 DEF Elems
      <4>2. txq[s][i][1] = p
        BY <4>1
      <4> QED
        BY <2>1, <4>2 DEF Line, TxqInOrder
    <3> QED
      BY <1>3, <3>1, <3>2, <3>3 DEF Aboard, OnLine
  <2>4. ~Past(<<p, Body>>)
    BY <1>3 DEF Past, PastLine, Aboard, OnLine
  <2> QED
    BY <1>1, <2>3, <2>4 DEF LeftIsPast, Left
<1>4. On(<<p, Body>>) => p <= Dispatched
  BY <1>1 DEF LeftIsPast, Left, Past
<1> QED
  BY <1>1, <1>2, <1>3, <1>4

\* The line of a packet has it at one place at a time.
LEMMA LineHasOne ==
  ASSUME NEW s, NEW q \in Seq(Packets), NEW h \in Nat, NEW n \in Nat \ {0},
         NEW x \in Seq(Part), NEW d, Line(s, q, h, n, x, d), NEW p \in Packets
  PROVE  /\ p \in Elems(q) => h # p /\ <<p, Body>> \notin Elems(x)
         /\ h = p => <<p, Body>> \notin Elems(x)
         /\ Distinct(q) /\ Distinct(x)
<1>1. p \in Nat /\ p # 0
  BY DEF Packets
<1>2. ASSUME NEW i \in 1 .. Len(q)
      PROVE  q[i] \in Nat /\ (h = q[i] => h = 0)
  BY LineNumbers DEF Line, HandInOrder
<1>3. ASSUME NEW i \in 1 .. Len(x)
      PROVE  /\ x[i][1] \in Nat /\ x[i][2] \in Nat
             /\ \A j \in 1 .. Len(q) : x[i][1] # q[j]
             /\ h = p => x[i] # <<p, Body>>
  <2>1. x[i][1] \in Nat /\ x[i][2] \in Nat
    BY LineNumbers
  <2>2. ASSUME NEW j \in 1 .. Len(q)
        PROVE  x[i][1] # q[j]
    BY <2>1, LineNumbers DEF Line, TxqInOrder
  <2>3. h = p => x[i] # <<p, Body>>
    BY <1>1, <2>1 DEF Line, TxqInOrder, Precedes, Body
  <2> QED
    BY <2>1, <2>2, <2>3
<1>4. ASSUME NEW i \in 1 .. Len(q), NEW j \in 1 .. Len(q), q[i] = q[j]
      PROVE  i = j
  <2>1. ~(i < j) /\ ~(j < i)
    BY <1>2, <1>4 DEF Line, QueueInOrder
  <2> QED
    BY <2>1, LineNumbers
<1>5. ASSUME NEW i \in 1 .. Len(x), NEW j \in 1 .. Len(x), x[i] = x[j]
      PROVE  i = j
  <2>1. ~Precedes(x[i], x[j]) /\ ~Precedes(x[j], x[i])
    BY <1>3, <1>5 DEF Precedes
  <2>2. ~(i < j) /\ ~(j < i)
    BY <2>1 DEF Line, TxqInOrder
  <2> QED
    BY <2>2, LineNumbers
<1>6. p \in Elems(q) => h # p /\ <<p, Body>> \notin Elems(x)
  <2>1. ASSUME NEW i \in 1 .. Len(q), NEW j \in 1 .. Len(x), x[j] = <<q[i], Body>>
        PROVE  FALSE
    BY <1>3, <2>1
  <2> QED
    BY <1>1, <1>2, <2>1 DEF Elems
<1>7. h = p => <<p, Body>> \notin Elems(x)
  BY <1>3 DEF Elems
<1> QED
  BY <1>4, <1>5, <1>6, <1>7 DEF Distinct

LEMMA KeepFates ==
  ASSUME FateAgrees, UNCHANGED <<received, fate>>,
         \A p \in Packets : p <= received => (Somewhere(p)' <=> Somewhere(p))
  PROVE  FateAgrees'
BY DEF FateAgrees, Packets

LEMMA SettleFates ==
  ASSUME TypeOK, FateAgrees, UNCHANGED received, NEW S, NEW f, f # "open",
         fate' = [p \in Packets |-> IF p \in S THEN f ELSE fate[p]],
         \A p \in S : p <= received,
         \A p \in Packets : p <= received => (Somewhere(p)' <=> Somewhere(p) /\ p \notin S)
  PROVE  FateAgrees'
<1>1. ASSUME NEW p \in Packets
      PROVE  /\ p > received => fate'[p] = "open"
             /\ p <= received => (fate'[p] = "open" <=> Somewhere(p)')
  <2>1. fate'[p] = IF p \in S THEN f ELSE fate[p]
    OBVIOUS
  <2>2. p \in Nat /\ (p > received => p \notin S)
    BY BatchNumbers DEF Packets
  <2> QED
    BY <2>1, <2>2 DEF FateAgrees
<1> QED
  BY <1>1 DEF FateAgrees, Packets

LEMMA ExceptFate ==
  ASSUME TypeOK, NEW p \in Packets, NEW f, fate' = [fate EXCEPT ![p] = f]
  PROVE  fate' = [x \in Packets |-> IF x \in {p} THEN f ELSE fate[x]]
BY DEF TypeOK

\* What the steps of a worker do to what is on its line.
LEMMA TakeKeepsLine ==
  ASSUME NEW q \in Seq(Packets), NEW x, q # <<>>, NEW p \in Packets
  PROVE  OnLine(p, Tail(q), Head(q), x) <=> OnLine(p, q, 0, x)
<1>1. p # 0
  BY DEF Packets
<1> QED
  BY <1>1, ElemsTail DEF OnLine

LEMMA QueueKeepsLine ==
  ASSUME NEW q, NEW h, NEW x \in Seq(Part), NEW n \in Nat \ {0},
         <<h, n>> \in Part, <<h, Body>> \in Part, NEW p \in Packets
  PROVE  /\ OnLine(p, q, h, Append(x, <<h, n>>)) <=> OnLine(p, q, h, x)
         /\ OnLine(p, q, 0, Append(x, <<h, Body>>)) <=> OnLine(p, q, h, x)
<1>1. p # 0
  BY DEF Packets
<1>2. /\ Elems(Append(x, <<h, n>>)) = Elems(x) \cup {<<h, n>>}
      /\ Elems(Append(x, <<h, Body>>)) = Elems(x) \cup {<<h, Body>>}
  BY ElemsAppend
<1>3. <<p, Body>> # <<h, n>> /\ (<<p, Body>> = <<h, Body>> <=> p = h)
  BY DEF Body
<1> QED
  BY <1>1, <1>2, <1>3 DEF OnLine

LEMMA EndLeavesLine ==
  ASSUME NEW s, NEW q \in Seq(Packets), NEW h \in Nat, NEW n \in Nat \ {0},
         NEW x \in Seq(Part), NEW d, Line(s, q, h, n, x, d), NEW p \in Packets
  PROVE  OnLine(p, q, 0, x) <=> OnLine(p, q, h, x) /\ p # h
<1>1. p # 0
  BY DEF Packets
<1> QED
  BY <1>1, LineHasOne DEF OnLine

LEMMA SendLeavesLine ==
  ASSUME NEW s, NEW q \in Seq(Packets), NEW h \in Nat, NEW n \in Nat \ {0},
         NEW x \in Seq(Part), NEW d, Line(s, q, h, n, x, d), x # <<>>, NEW p \in Packets
  PROVE  OnLine(p, q, h, Tail(x)) <=> OnLine(p, q, h, x) /\ <<p, Body>> # Head(x)
<1>1. Elems(x) = {Head(x)} \cup Elems(Tail(x))
  BY ElemsTail
<1>2. Distinct(x)
  BY LineHasOne
<1>3. Head(x) \notin Elems(Tail(x))
  BY <1>2, DistinctTail
<1> QED
  BY <1>1, <1>3, LineHasOne DEF OnLine

LEMMA StopLeavesLine ==
  ASSUME NEW s, NEW q \in Seq(Packets), NEW h \in Nat, NEW n \in Nat \ {0},
         NEW x \in Seq(Part), NEW d, Line(s, q, h, n, x, d), NEW p \in Packets
  PROVE  OnLine(p, <<>>, h, x) <=> OnLine(p, q, h, x) /\ p \notin Elems(q)
BY LineHasOne, ElemsEmpty DEF OnLine

\* The step moves no body into or out of an output queue.
BodiesStay == \A p \in Packets : On(<<p, Body>>)' <=> On(<<p, Body>>)

LEMMA AboardMoves ==
  ASSUME TypeOK, NEW s \in Shards, OnlyLine(s), NEW p
  PROVE  /\ Aboard(s, p)' <=> OnLine(p, queue'[s], work'[s].pkt, txq'[s])
         /\ \A t \in Shards : t # s => (Aboard(t, p)' <=> Aboard(t, p))
<1>1. Aboard(s, p)' <=> OnLine(p, queue'[s], work'[s].pkt, txq'[s])
  BY DEF Aboard, OnLine, Served, Elems
<1>2. ASSUME NEW t \in Shards, t # s
      PROVE  Aboard(t, p)' <=> Aboard(t, p)
  BY <1>2 DEF OnlyLine, Aboard, OnLine, Served, Elems
<1> QED
  BY <1>1, <1>2

\* A worker leaves what it has to send and what its queue holds where it is, moves a
\* packet along its line, or lets it go.
LEMMA LineKeepsFates ==
  ASSUME TypeOK, FateAgrees, NEW s \in Shards, OnlyLine(s), UNCHANGED fate, BodiesStay,
         \A p \in Packets : OnLine(p, queue'[s], work'[s].pkt, txq'[s]) <=> Aboard(s, p)
  PROVE  FateAgrees'
<1>1. ASSUME NEW p \in Packets
      PROVE  Somewhere(p)' <=> Somewhere(p)
  <2>1. \A t \in Shards : Aboard(t, p)' <=> Aboard(t, p)
    BY AboardMoves
  <2>2. Elems(recvBuf)' = Elems(recvBuf) /\ (On(<<p, Body>>)' <=> On(<<p, Body>>))
    BY DEF OnlyLine, Elems, BodiesStay
  <2> QED
    BY <2>1, <2>2 DEF Somewhere
<1> QED
  BY <1>1, KeepFates DEF OnlyLine

LEMMA LineSettlesFates ==
  ASSUME TypeOK, InOrder, LeftIsPast, FateAgrees, NEW s \in Shards, OnlyLine(s), BodiesStay,
         NEW S \in SUBSET Packets, NEW f, f # "open", \A p \in S : Aboard(s, p),
         fate' = [p \in Packets |-> IF p \in S THEN f ELSE fate[p]],
         \A p \in Packets : OnLine(p, queue'[s], work'[s].pkt, txq'[s])
                              <=> Aboard(s, p) /\ p \notin S
  PROVE  FateAgrees'
<1>1. ASSUME NEW p \in Packets
      PROVE  /\ Somewhere(p)' <=> Somewhere(p) /\ p \notin S
             /\ p \in S => p <= received
  <2>1. /\ Aboard(s, p)' <=> Aboard(s, p) /\ p \notin S
        /\ \A t \in Shards : t # s => (Aboard(t, p)' <=> Aboard(t, p))
    BY AboardMoves
  <2>2. Elems(recvBuf)' = Elems(recvBuf) /\ (On(<<p, Body>>)' <=> On(<<p, Body>>))
    BY DEF OnlyLine, Elems, BodiesStay
  <2>3. CASE p \in S
    <3>1. p <= Dispatched /\ shard_for_flow(p) = s /\ ~On(<<p, Body>>) /\ p \in Nat
      BY <2>3, WhereIs
    <3>2. p \notin Elems(recvBuf) /\ p <= received
      BY <3>1, WhereIs, BatchNumbers DEF Dispatched
    <3>3. \A t \in Shards : ~Aboard(t, p)'
      BY <2>1, <2>3, <3>1, WhereIs
    <3> QED
      BY <2>2, <2>3, <3>1, <3>2, <3>3 DEF Somewhere
  <2>4. CASE p \notin S
    BY <2>1, <2>2, <2>4 DEF Somewhere
  <2> QED
    BY <2>3, <2>4
<1> QED
  BY <1>1, SettleFates DEF OnlyLine

LEMMA StillFates ==
  ASSUME TypeOK, FateAgrees, UNCHANGED <<received, recvBuf, queue, work, txq, wire, fate>>
  PROVE  FateAgrees'
<1>1. ASSUME NEW p \in Packets
      PROVE  Somewhere(p)' <=> Somewhere(p)
  BY DEF Somewhere, Aboard, OnLine, Served, Elems, On
<1> QED
  BY <1>1, KeepFates

LEMMA ReceiveFates ==
  ASSUME TypeOK, InOrder, LeftIsPast, FateAgrees, NEW n \in 1 .. RecvBatch, Receive(n)
  PROVE  FateAgrees'
<1>1. /\ recvBuf = <<>> /\ recvBuf' = [i \in 1 .. n |-> received + i]
      /\ received' = received + n /\ n \in Nat
      /\ UNCHANGED <<queue, work, txq, wire, fate>>
  BY PipelineAssumption DEF Receive
<1>2. Elems(recvBuf) = {} /\ Elems(recvBuf)' = {received + i : i \in 1 .. n}
  BY <1>1, ElemsEmpty DEF Elems
<1>3. Dispatched = received
  BY <1>1, EmptySeq, BatchNumbers DEF Dispatched
<1>4. ASSUME NEW p \in Packets
      PROVE  /\ p > received' => fate'[p] = "open"
             /\ p <= received' => (fate'[p] = "open" <=> Somewhere(p)')
  <2>1. \A s \in Shards : Aboard(s, p)' <=> Aboard(s, p)
    BY <1>1 DEF Aboard, OnLine, Served, Elems
  <2>2. On(<<p, Body>>)' <=> On(<<p, Body>>)
    BY <1>1 DEF On
  <2>3. CASE p <= received
    <3>1. p \notin Elems(recvBuf)'
      BY <1>2, <2>3, BatchNumbers
    <3>2. Somewhere(p)' <=> Somewhere(p)
      BY <1>2, <2>1, <2>2, <3>1 DEF Somewhere
    <3>3. ~(p > received')
      BY <1>1, <2>3, BatchNumbers DEF Packets
    <3> QED
      BY <1>1, <2>3, <3>2, <3>3 DEF FateAgrees
  <2>4. CASE p > received
    <3>1. fate[p] = "open"
      BY <2>4 DEF FateAgrees
    <3>2. p <= received' => p - received \in 1 .. n /\ received + (p - received) = p
      BY <1>1, <2>4, BatchNumbers DEF Packets
    <3>3. p <= received' => p \in Elems(recvBuf)'
      BY <1>2, <3>2
    <3> QED
      BY <1>1, <3>1, <3>3 DEF Somewhere
  <2> QED
    BY <2>3, <2>4, BatchNumbers DEF Packets
<1> QED
  BY <1>4 DEF FateAgrees, Packets

LEMMA EnqueueFates ==
  ASSUME TypeOK, InOrder, FateAgrees, recvBuf # <<>>, UNCHANGED <<received, work, txq>>,
         Enqueue(Head(recvBuf), shard_for_flow(Head(recvBuf)))
  PROVE  FateAgrees'
<1> DEFINE h == Head(recvBuf)
           s == shard_for_flow(h)
<1>1. /\ queue' = [queue EXCEPT ![s] = Append(queue[s], h)] /\ recvBuf' = Tail(recvBuf)
      /\ UNCHANGED <<wire, fate>>
  BY DEF Enqueue
<1>2. h \in Packets /\ Elems(recvBuf) = {h} \cup Elems(Tail(recvBuf))
  BY ElemsTail DEF TypeOK
<1>3. s \in Shards
  BY <1>2, PipelineAssumption DEF shard_for_flow, Key
<1> HIDE DEF h, s
<1>4. Elems(Append(queue[s], h)) = Elems(queue[s]) \cup {h}
  BY <1>2, <1>3, LineTyped, ElemsAppend
<1>5. \A t \in Shards : queue'[t] = IF t = s THEN Append(queue[s], h) ELSE queue[t]
  BY <1>1 DEF TypeOK
<1>6. ASSUME NEW p \in Packets
      PROVE  Somewhere(p)' <=> Somewhere(p)
  <2>1. ASSUME NEW t \in Shards
        PROVE  Aboard(t, p)' <=> OnLine(p, queue'[t], Served(t), txq[t])
    BY DEF Aboard, OnLine, Served, Elems
  <2>2. ASSUME NEW t \in Shards
        PROVE  Aboard(t, p)' <=> Aboard(t, p) \/ (t = s /\ p = h)
    BY <1>4, <1>5, <2>1 DEF Aboard, OnLine
  <2>3. On(<<p, Body>>)' <=> On(<<p, Body>>)
    BY <1>1 DEF On
  <2>4. Elems(recvBuf)' = Elems(Tail(recvBuf))
    BY <1>1 DEF Elems
  <2> QED
    BY <1>2, <1>3, <2>2, <2>3, <2>4 DEF Somewhere
<1> QED
  BY <1>1, <1>6, KeepFates

\* What the capture thread takes off the batch without a worker is sent or lost.
LEMMA OverflowFates ==
  ASSUME TypeOK, InOrder, LeftIsPast, FateAgrees, Dispatch,
         Overflow(Head(recvBuf), shard_for_flow(Head(recvBuf)))
  PROVE  FateAgrees'
<1> DEFINE h == Head(recvBuf)
<1>1. /\ recvBuf # <<>> /\ recvBuf' = Tail(recvBuf) /\ Transmit(h, Body)
      /\ UNCHANGED <<received, queue, work, txq>>
  BY DEF Dispatch, Overflow, ForwardDirectly
<1>2. recvBuf \in Seq(Packets) /\ Elems(recvBuf) = {h} \cup Elems(Tail(recvBuf))
  BY <1>1, ElemsTail DEF TypeOK
<1>3. h \in Packets /\ h = Dispatched + 1 /\ Dispatched' = Dispatched + 1
  BY <1>1, NextOfBatch DEF InOrder
<1>4. Elems(recvBuf)' = Elems(Tail(recvBuf))
  BY <1>1 DEF Elems
<1>5. h \notin Elems(Tail(recvBuf))
  <2>1. ASSUME NEW i \in 1 .. Len(recvBuf'), recvBuf'[i] = h
        PROVE  FALSE
    <3>1. BatchInOrder'
      BY <1>1, NextOfBatch DEF InOrder
    <3>2. h = Dispatched' + i
      BY <2>1, <3>1 DEF BatchInOrder
    <3> QED
      BY <1>3, <3>2, BatchNumbers
  <2> QED
    BY <1>1, <2>1 DEF Elems
<1> HIDE DEF h
<1>6. \A p : \A s \in Shards : Aboard(s, p)' <=> Aboard(s, p)
  BY <1>1 DEF Aboard, OnLine, Served, Elems
<1>7. \A s \in Shards : ~Aboard(s, h)
  <2>1. ~(h <= Dispatched)
    BY <1>3, BatchNumbers
  <2> QED
    BY <1>3, <2>1, WhereIs
<1>8. ~On(<<h, Body>>) /\ h <= received
  <2>1. h \in Elems(recvBuf)
    BY <1>2
  <2> QED
    BY <1>3, <2>1, WhereIs, BatchNumbers
<1>9. CASE /\ UNCHANGED fate
           /\ \A part \in Part : On(part)' <=> On(part) \/ part = <<h, Body>>
  <2>1. ASSUME NEW p \in Packets
        PROVE  Somewhere(p)' <=> Somewhere(p)
    <3>1. On(<<p, Body>>)' <=> On(<<p, Body>>) \/ p = h
      BY <1>9 DEF Part, Body
    <3> QED
      BY <1>2, <1>4, <1>6, <3>1 DEF Somewhere
  <2> QED
    BY <1>1, <1>9, <2>1, KeepFates
<1>10. CASE /\ \A part \in Part : On(part)' <=> On(part)
            /\ fate' = [fate EXCEPT ![h] = "lost"]
  <2>1. fate' = [p \in Packets |-> IF p \in {h} THEN "lost" ELSE fate[p]]
    BY <1>3, <1>10, ExceptFate
  <2>2. ASSUME NEW p \in Packets
        PROVE  Somewhere(p)' <=> Somewhere(p) /\ p \notin {h}
    <3>1. On(<<p, Body>>)' <=> On(<<p, Body>>)
      BY <1>10 DEF Part, Body
    <3> QED
      BY <1>2, <1>4, <1>5, <1>6, <1>7, <1>8, <3>1 DEF Somewhere
  <2> QED
    BY <1>1, <1>8, <2>1, <2>2, SettleFates
<1> QED
  BY <1>1, <1>3, <1>9, <1>10, TransmitOn DEF Body

LEMMA DisconnectedFates ==
  ASSUME TypeOK, InOrder, LeftIsPast, FateAgrees, Dispatch,
         Disconnected(shard_for_flow(Head(recvBuf)))
  PROVE  FateAgrees'
<1>1. /\ fate' = [p \in Packets |-> IF p \in Elems(recvBuf) THEN "stranded" ELSE fate[p]]
      /\ recvBuf' = <<>> /\ UNCHANGED <<received, queue, work, txq, wire>>
  BY DEF Dispatch, Disconnected, Strand
<1>2. ASSUME NEW p \in Packets
      PROVE  Somewhere(p)' <=> Somewhere(p) /\ p \notin Elems(recvBuf)
  <2>1. \A s \in Shards : Aboard(s, p)' <=> Aboard(s, p)
    BY <1>1 DEF Aboard, OnLine, Served, Elems
  <2>2. On(<<p, Body>>)' <=> On(<<p, Body>>)
    BY <1>1 DEF On
  <2>3. Elems(recvBuf)' = {}
    BY <1>1, ElemsEmpty DEF Elems
  <2>4. p \in Elems(recvBuf) => ~On(<<p, Body>>) /\ \A s \in Shards : ~Aboard(s, p)
    BY WhereIs, BatchNumbers
  <2> QED
    BY <2>1, <2>2, <2>3, <2>4 DEF Somewhere
<1>3. \A p \in Elems(recvBuf) : p <= received
  BY ElemsType, WhereIs DEF TypeOK
<1> QED
  BY <1>1, <1>2, <1>3, SettleFates

LEMMA WireStays == UNCHANGED wire => BodiesStay
BY DEF BodiesStay, On

LEMMA DecoyStays ==
  ASSUME TypeOK, NEW part \in Part, part[2] # Body, Transmit(part[1], part[2])
  PROVE  BodiesStay /\ UNCHANGED fate
<1>1. part[1] \in Packets /\ part[2] \in Nat /\ part = <<part[1], part[2]>>
  BY PartType
<1>2. ASSUME NEW p \in Packets
      PROVE  On(<<p, Body>>)' <=> On(<<p, Body>>)
  <2>1. <<p, Body>> \in Part /\ <<p, Body>> # part
    BY DEF Part, Body
  <2> QED
    BY <1>1, <2>1, TransmitOn
<1>3. UNCHANGED fate
  BY <1>1, TransmitOn
<1> QED
  BY <1>2, <1>3 DEF BodiesStay

LEMMA TakeFates ==
  ASSUME TypeOK, InOrder, FateAgrees, NEW s \in Shards, wpc[s] # "work", TakeFrom(s)
  PROVE  FateAgrees'
<1>1. Served(s) = 0
  BY DEF InOrder, HandsAgree
<1>2. \A p \in Packets : queue[s] # <<>> =>
        (OnLine(p, Tail(queue[s]), Head(queue[s]), txq[s]) <=> Aboard(s, p))
  BY <1>1, LineTyped, TakeKeepsLine DEF Aboard
<1>3. OnlyLine(s) /\ UNCHANGED fate /\ BodiesStay
  BY TakeMoves, WireStays
<1>4. \A p \in Packets : OnLine(p, queue'[s], work'[s].pkt, txq'[s]) <=> Aboard(s, p)
  BY <1>2, TakeMoves
<1> QED
  BY <1>3, <1>4, LineKeepsFates

LEMMA DecoyFates ==
  ASSUME TypeOK, InOrder, FateAgrees, NEW s \in Shards,
         DecoySkipped(s) \/ DecoyQueued(s) \/ DecoyRaw(s) \/ DecoyDelayed(s)
  PROVE  FateAgrees'
<1>1. /\ OnlyLine(s) /\ queue'[s] = queue[s] /\ work'[s].pkt = Served(s)
      /\ NextDecoy(s) \in Nat \ {0} /\ Served(s) \in Packets
      /\ <<Served(s), NextDecoy(s)>> \in Part
      /\ \/ txq'[s] = txq[s]
         \/ txq'[s] = Append(txq[s], <<Served(s), NextDecoy(s)>>)
  BY DecoyMoves DEF InOrder
<1>2. <<Served(s), Body>> \in Part
  BY <1>1 DEF Part, Body
<1>3. \A p \in Packets :
        OnLine(p, queue[s], Served(s), Append(txq[s], <<Served(s), NextDecoy(s)>>))
          <=> Aboard(s, p)
  BY <1>1, <1>2, LineTyped, QueueKeepsLine DEF Aboard
<1>4. \A p \in Packets : OnLine(p, queue'[s], work'[s].pkt, txq'[s]) <=> Aboard(s, p)
  BY <1>1, <1>3 DEF Aboard
<1>5. UNCHANGED fate /\ BodiesStay
  <2>1. CASE DecoyRaw(s)
    <3>1. PICK part \in Part : part = <<Served(s), NextDecoy(s)>>
      BY <1>1
    <3>2. part[2] # Body /\ Transmit(part[1], part[2])
      BY <1>1, <2>1, <3>1 DEF DecoyRaw, Body, Served
    <3> QED
      BY <3>2, DecoyStays
  <2> QED
    BY <2>1, WireStays DEF DecoySkipped, DecoyQueued, DecoyDelayed
<1> QED
  BY <1>1, <1>4, <1>5, LineKeepsFates

LEMMA BodyFates ==
  ASSUME TypeOK, InOrder, LeftIsPast, FateAgrees, NEW s \in Shards, BodyStep(s)
  PROVE  FateAgrees'
<1>1. /\ OnlyLine(s) /\ queue'[s] = queue[s] /\ work'[s].pkt = 0 /\ BodiesStay
      /\ Served(s) \in Packets /\ NextDecoy(s) \in Nat \ {0} /\ <<Served(s), Body>> \in Part
      /\ \/ txq'[s] = Append(txq[s], <<Served(s), Body>>) /\ UNCHANGED fate
         \/ /\ txq'[s] = txq[s]
            /\ \E f \in {"dropped", "lost"} : fate' = [fate EXCEPT ![Served(s)] = f]
  BY BodyMoves, WireStays DEF InOrder
<1>2. <<Served(s), NextDecoy(s)>> \in Part
  BY <1>1 DEF Part
<1>3. Line(s, queue[s], Served(s), NextDecoy(s), txq[s], Dispatched)
  BY DEF InOrder, LinesInOrder
<1>4. CASE txq'[s] = Append(txq[s], <<Served(s), Body>>) /\ UNCHANGED fate
  <2>1. \A p \in Packets :
          OnLine(p, queue[s], 0, Append(txq[s], <<Served(s), Body>>)) <=> Aboard(s, p)
    BY <1>1, <1>2, LineTyped, QueueKeepsLine DEF Aboard
  <2> QED
    BY <1>1, <1>4, <2>1, LineKeepsFates
<1>5. CASE /\ txq'[s] = txq[s]
           /\ \E f \in {"dropped", "lost"} : fate' = [fate EXCEPT ![Served(s)] = f]
  <2>1. PICK f \in {"dropped", "lost"} : fate' = [fate EXCEPT ![Served(s)] = f]
    BY <1>5
  <2>2. fate' = [p \in Packets |-> IF p \in {Served(s)} THEN f ELSE fate[p]]
    BY <1>1, <2>1, ExceptFate
  <2>3. \A p \in Packets : OnLine(p, queue[s], 0, txq[s]) <=> Aboard(s, p) /\ p # Served(s)
    BY <1>3, LineTyped, EndLeavesLine DEF Aboard
  <2>4. \A p \in Packets : OnLine(p, queue'[s], work'[s].pkt, txq'[s])
                             <=> Aboard(s, p) /\ p \notin {Served(s)}
    BY <1>1, <1>5, <2>3
  <2>5. {Served(s)} \in SUBSET Packets /\ \A p \in {Served(s)} : Aboard(s, p)
    BY <1>1 DEF Aboard, OnLine
  <2>6. f # "open"
    OBVIOUS
  <2> QED
    BY <1>1, <2>2, <2>4, <2>5, <2>6, LineSettlesFates
<1> QED
  BY <1>1, <1>4, <1>5

LEMMA StopFates ==
  ASSUME TypeOK, InOrder, LeftIsPast, FateAgrees, NEW s \in Shards, WorkerStop(s)
  PROVE  FateAgrees'
<1>1. /\ OnlyLine(s) /\ queue'[s] = <<>> /\ txq'[s] = txq[s] /\ work'[s] = work[s]
      /\ BodiesStay
      /\ fate' = [p \in Packets |-> IF p \in Elems(queue[s]) THEN "stranded" ELSE fate[p]]
  BY StopMoves, WireStays DEF InOrder, WorkerStop, Strand
<1>2. Line(s, queue[s], Served(s), NextDecoy(s), txq[s], Dispatched)
  BY DEF InOrder, LinesInOrder
<1>3. \A p \in Packets :
        OnLine(p, <<>>, Served(s), txq[s]) <=> Aboard(s, p) /\ p \notin Elems(queue[s])
  BY <1>2, LineTyped, StopLeavesLine DEF Aboard
<1>4. \A p \in Packets : OnLine(p, queue'[s], work'[s].pkt, txq'[s])
                           <=> Aboard(s, p) /\ p \notin Elems(queue[s])
  BY <1>1, <1>3 DEF Served
<1>5. Elems(queue[s]) \in SUBSET Packets /\ \A p \in Elems(queue[s]) : Aboard(s, p)
  BY LineTyped, ElemsType DEF Aboard, OnLine
<1> QED
  BY <1>1, <1>4, <1>5, LineSettlesFates

LEMMA SendFates ==
  ASSUME TypeOK, InOrder, LeftIsPast, FateAgrees, NEW s \in Shards, SendPart(s)
  PROVE  FateAgrees'
<1> DEFINE part == Head(txq[s])
<1>1. /\ OnlyLine(s) /\ queue'[s] = queue[s] /\ work'[s].pkt = Served(s)
      /\ txq[s] # <<>> /\ txq'[s] = Tail(txq[s]) /\ txq[s] \in Seq(Part)
      /\ part \in Part /\ Transmit(part[1], part[2])
  BY SendMoves DEF Served
<1>2. Line(s, queue[s], Served(s), NextDecoy(s), txq[s], Dispatched)
  BY DEF InOrder, LinesInOrder
<1>3. \A p \in Packets : OnLine(p, queue[s], Served(s), Tail(txq[s]))
                           <=> Aboard(s, p) /\ <<p, Body>> # part
  BY <1>1, <1>2, LineTyped, SendLeavesLine DEF Aboard
<1>4. \A p \in Packets : OnLine(p, queue'[s], work'[s].pkt, txq'[s])
                           <=> Aboard(s, p) /\ <<p, Body>> # part
  BY <1>1, <1>3
<1>5. part \in Elems(txq[s])
  BY <1>1, ElemsTail
<1>6. part[1] \in Packets /\ part[2] \in Nat /\ part = <<part[1], part[2]>>
  BY <1>1, PartType
<1> HIDE DEF part
<1>7. CASE part[2] # Body
  <2>1. BodiesStay /\ UNCHANGED fate
    BY <1>1, <1>7, DecoyStays
  <2>2. \A p \in Packets : <<p, Body>> # part
    BY <1>7
  <2> QED
    BY <1>1, <1>4, <2>1, <2>2, LineKeepsFates
<1>8. CASE part[2] = Body
  <2> DEFINE h == part[1]
  <2>1. part = <<h, Body>> /\ h \in Packets /\ Aboard(s, h)
    BY <1>5, <1>6, <1>8 DEF Aboard, OnLine
  <2> HIDE DEF h
  <2>2. \A p \in Packets : OnLine(p, queue'[s], work'[s].pkt, txq'[s])
                             <=> Aboard(s, p) /\ p # h
    BY <1>4, <2>1
  <2>3. CASE /\ UNCHANGED fate
             /\ \A x \in Part : On(x)' <=> On(x) \/ x = <<h, Body>>
    <3>1. ASSUME NEW p \in Packets
          PROVE  Somewhere(p)' <=> Somewhere(p)
      <4>1. On(<<p, Body>>)' <=> On(<<p, Body>>) \/ p = h
        BY <2>3 DEF Part, Body
      <4>2. /\ Aboard(s, p)' <=> Aboard(s, p) /\ p # h
            /\ \A t \in Shards : t # s => (Aboard(t, p)' <=> Aboard(t, p))
        BY <1>1, <2>2, AboardMoves
      <4>3. Elems(recvBuf)' = Elems(recvBuf)
        BY <1>1 DEF OnlyLine, Elems
      <4> QED
        BY <2>1, <4>1, <4>2, <4>3 DEF Somewhere
    <3>2. UNCHANGED received
      BY <1>1 DEF OnlyLine
    <3> QED
      BY <2>3, <3>1, <3>2, KeepFates
  <2>4. CASE /\ \A x \in Part : On(x)' <=> On(x)
             /\ fate' = [fate EXCEPT ![h] = "lost"]
    <3>1. fate' = [p \in Packets |-> IF p \in {h} THEN "lost" ELSE fate[p]]
      BY <2>1, <2>4, ExceptFate
    <3>2. BodiesStay
      BY <2>4 DEF BodiesStay, Part, Body
    <3>3. {h} \in SUBSET Packets /\ \A p \in {h} : Aboard(s, p)
      BY <2>1
    <3>4. \A p \in Packets : OnLine(p, queue'[s], work'[s].pkt, txq'[s])
                               <=> Aboard(s, p) /\ p \notin {h}
      BY <2>2
    <3> QED
      BY <1>1, <3>1, <3>2, <3>3, <3>4, LineSettlesFates
  <2>5. Transmit(h, Body)
    BY <1>1, <1>8 DEF h
  <2> QED
    BY <2>1, <2>3, <2>4, <2>5, TransmitOn DEF Body
<1> QED
  BY <1>7, <1>8

LEMMA FateStep ==
  ASSUME TypeOK, InOrder, SentRight, FateAgrees, [Next]_vars
  PROVE  FateAgrees'
<1>1. LeftIsPast
  BY DEF SentRight
<1>2. CASE Arrive \/ Shutdown \/ CaptureCheck \/ ReceiveNothing \/ DelayReceive \/ UNCHANGED vars
  BY <1>2, StillFates DEF Arrive, Shutdown, CaptureCheck, ReceiveNothing, DelayReceive, capture,
                          vars
<1>3. CASE Dispatch
  BY <1>1, <1>3, EnqueueFates, OverflowFates, DisconnectedFates DEF Dispatch
<1>4. CASE DelayEmit
  <2>1. PICK part \in heap : heap' = heap \ {part} /\ Transmit(part[1], part[2])
          /\ UNCHANGED <<capture, queue, wpc, work, txq, channel, stop, bypassed>>
    BY <1>4 DEF DelayEmit
  <2>2. part \in Part /\ part[2] # Body
    BY DEF SentRight, DelayedOnce, TypeOK
  <2>3. BodiesStay /\ UNCHANGED fate
    BY <2>1, <2>2, DecoyStays
  <2>4. ASSUME NEW p \in Packets
        PROVE  Somewhere(p)' <=> Somewhere(p)
    <3>1. \A s \in Shards : Aboard(s, p)' <=> Aboard(s, p)
      BY <2>1 DEF Aboard, OnLine, Served, Elems
    <3>2. Elems(recvBuf)' = Elems(recvBuf)
      BY <2>1 DEF Elems, capture
    <3> QED
      BY <2>3, <3>1, <3>2 DEF Somewhere, BodiesStay
  <2> QED
    BY <2>1, <2>3, <2>4, KeepFates DEF capture
<1>5. CASE \E s \in Shards : WorkerStep(s)
  <2>1. PICK s \in Shards : WorkerStep(s)
    BY <1>5
  <2>2. CASE TakeFirst(s) \/ TakeNext(s)
    BY <2>2, TakeFates DEF TakeFirst, TakeNext
  <2>3. CASE Poll(s) \/ BatchDone(s) \/ SendDone(s)
    BY <2>3, StillMoves, StillFates
  <2> QED
    BY <1>1, <2>1, <2>2, <2>3, DecoyFates, BodyFates, StopFates, SendFates DEF WorkerStep
<1> QED
  BY <1>1, <1>2, <1>3, <1>4, <1>5, ReceiveFates DEF Next, CaptureStep, ReceiveSome

LEMMA DispatchedGrows ==
  ASSUME TypeOK, InOrder, [Next]_vars
  PROVE  Dispatched \in Int /\ Dispatched' \in Int /\ Dispatched <= Dispatched'
<1>1. CASE UNCHANGED <<received, recvBuf>>
  BY <1>1, BatchNumbers DEF Dispatched
<1>2. CASE \E n \in 1 .. RecvBatch : Receive(n)
  <2>1. PICK n \in 1 .. RecvBatch : Receive(n)
    BY <1>2
  <2>2. /\ recvBuf = <<>> /\ recvBuf' = [i \in 1 .. n |-> received + i]
        /\ received' = received + n /\ n \in Nat
    BY <2>1, PipelineAssumption DEF Receive
  <2>3. Len(recvBuf) = 0 /\ Len(recvBuf') = n
    BY <2>2, EmptySeq
  <2> QED
    BY <2>2, <2>3, BatchNumbers DEF Dispatched
<1>3. CASE Dispatch
  <2>1. recvBuf # <<>> /\ UNCHANGED received /\ (recvBuf' = Tail(recvBuf) \/ recvBuf' = <<>>)
    BY <1>3 DEF Dispatch, Enqueue, Overflow, Disconnected
  <2>2. CASE recvBuf' = Tail(recvBuf)
    BY <2>1, <2>2, NextOfBatch, BatchNumbers DEF InOrder
  <2>3. CASE recvBuf' = <<>>
    BY <2>1, <2>3, EmptySeq, BatchNumbers DEF Dispatched
  <2> QED
    BY <2>1, <2>2, <2>3
<1>4. CASE \E s \in Shards : WorkerStep(s)
  <2>1. PICK s \in Shards : WorkerStep(s)
    BY <1>4
  <2>2. UNCHANGED <<received, recvBuf>>
    BY <2>1, TakeMoves, DecoyMoves, BodyMoves, SendMoves, StopMoves, StillMoves
       DEF WorkerStep, TakeFirst, TakeNext, OnlyLine, InOrder
  <2> QED
    BY <1>1, <2>2
<1> QED
  BY <1>1, <1>2, <1>3, <1>4
     DEF Next, CaptureStep, ReceiveSome, Arrive, Shutdown, CaptureCheck, ReceiveNothing,
         DelayReceive, DelayEmit, capture, vars

\* What was sent stays sent, and a packet that was lost stays lost.
HistoryStays(p) ==
  /\ On(<<p, Body>>) => On(<<p, Body>>)'
  /\ fate[p] # "open" => fate'[p] # "open"

LEMMA HistoryGrows ==
  ASSUME TypeOK, InOrder, [Next]_vars, NEW p \in Packets
  PROVE  HistoryStays(p)
<1>1. <<p, Body>> \in Part
  BY DEF Part, Body
<1>2. CASE UNCHANGED <<wire, fate>>
  BY <1>2 DEF On, HistoryStays
<1>3. ASSUME NEW x \in Packets, NEW i \in Nat, Transmit(x, i)
      PROVE  HistoryStays(p)
  BY <1>1, <1>3, TransmitOn DEF TypeOK, HistoryStays
<1>4. ASSUME NEW S, Strand(S), UNCHANGED wire
      PROVE  HistoryStays(p)
  BY <1>4 DEF Strand, On, HistoryStays
<1>5. CASE Dispatch
  <2> DEFINE h == Head(recvBuf)
             s == shard_for_flow(h)
  <2>1. /\ recvBuf \in Seq(Packets) /\ recvBuf # <<>>
        /\ Enqueue(h, s) \/ Overflow(h, s) \/ Disconnected(s)
    BY <1>5 DEF Dispatch, TypeOK
  <2>2. h \in Packets
    BY <2>1, HeadTailProperties
  <2>3. CASE Enqueue(h, s)
    BY <1>2, <2>3 DEF Enqueue
  <2>4. CASE Overflow(h, s)
    BY <1>3, <2>2, <2>4 DEF Overflow, ForwardDirectly, Body
  <2>5. CASE Disconnected(s)
    BY <1>4, <2>5 DEF Disconnected
  <2> QED
    BY <2>1, <2>3, <2>4, <2>5
<1>6. CASE \E s \in Shards : WorkerStep(s)
  <2>1. PICK s \in Shards : WorkerStep(s)
    BY <1>6
  <2>2. HandsAgree
    BY DEF InOrder
  <2>3. CASE \/ TakeFrom(s) \/ Poll(s) \/ BatchDone(s) \/ SendDone(s) \/ DecoySkipped(s)
             \/ DecoyQueued(s)
             \/ DecoyDelayed(s)
    BY <1>2, <2>3, TakeMoves, StillMoves DEF DecoySkipped, DecoyQueued, DecoyDelayed
  <2>4. CASE WorkerStop(s)
    BY <1>4, <2>4 DEF WorkerStop
  <2>5. CASE DecoyRaw(s)
    <3>1. Served(s) \in Packets /\ NextDecoy(s) \in Nat
      BY <2>2, <2>5, DecoyMoves
    <3> QED
      BY <1>3, <2>5, <3>1 DEF DecoyRaw, Served
  <2>6. CASE BodyStep(s)
    <3>1. UNCHANGED wire /\ (UNCHANGED fate \/ \E f \in {"dropped", "lost"} :
                                                  fate' = [fate EXCEPT ![Served(s)] = f])
      BY <2>2, <2>6, BodyMoves
    <3>2. fate[p] # "open" => fate'[p] # "open"
      BY <3>1 DEF TypeOK
    <3> QED
      BY <3>1, <3>2 DEF HistoryStays, On
  <2>7. CASE SendPart(s)
    <3>1. /\ Transmit(Head(txq[s])[1], Head(txq[s])[2])
          /\ Head(txq[s])[1] \in Packets /\ Head(txq[s])[2] \in Nat
      BY <2>7, SendMoves, PartType
    <3> QED
      BY <1>3, <3>1
  <2> QED
    BY <2>1, <2>3, <2>4, <2>5, <2>6, <2>7 DEF WorkerStep, TakeFirst, TakeNext
<1>7. CASE DelayEmit
  <2>1. PICK part \in heap : Transmit(part[1], part[2])
    BY <1>7 DEF DelayEmit
  <2>2. part[1] \in Packets /\ part[2] \in Nat
    BY PartType DEF TypeOK
  <2> QED
    BY <1>3, <2>1, <2>2
<1>8. CASE Arrive \/ Shutdown \/ CaptureCheck \/ ReceiveNothing \/ DelayReceive \/ UNCHANGED vars
           \/ \E n \in 1 .. RecvBatch : Receive(n)
  BY <1>2, <1>8 DEF Arrive, Shutdown, CaptureCheck, ReceiveNothing, DelayReceive, Receive, vars
<1> QED
  BY <1>5, <1>6, <1>7, <1>8 DEF Next, CaptureStep, ReceiveSome

LEMMA BypassedStep ==
  ASSUME TypeOK, InOrder, BypassedIsSettled, [Next]_vars
  PROVE  BypassedIsSettled'
<1>1. ASSUME NEW p \in bypassed
      PROVE  p \in Packets /\ p <= Dispatched' /\ (fate'[p] # "open" \/ On(<<p, Body>>)')
  <2>1. p \in Packets /\ p <= Dispatched /\ (fate[p] # "open" \/ On(<<p, Body>>))
    BY DEF BypassedIsSettled, TypeOK
  <2>2. p <= Dispatched'
    BY <2>1, DispatchedGrows DEF Packets
  <2> QED
    BY <2>1, <2>2, HistoryGrows DEF HistoryStays
<1>2. CASE UNCHANGED bypassed
  BY <1>1, <1>2 DEF BypassedIsSettled
<1>3. CASE Dispatch /\ Overflow(Head(recvBuf), shard_for_flow(Head(recvBuf)))
  <2> DEFINE h == Head(recvBuf)
  <2>1. /\ recvBuf # <<>> /\ recvBuf' = Tail(recvBuf) /\ Transmit(h, Body)
        /\ bypassed' = bypassed \cup {h} /\ UNCHANGED <<received, queue, work, txq>>
    BY <1>3 DEF Dispatch, Overflow, ForwardDirectly
  <2>2. h \in Packets /\ h <= Dispatched' /\ <<h, Body>> \in Part
    BY <2>1, NextOfBatch, BatchNumbers DEF InOrder, Part, Body
  <2> HIDE DEF h
  <2>3. ASSUME NEW p, p = h
        PROVE  fate'[p] # "open" \/ On(<<p, Body>>)'
    BY <2>1, <2>2, <2>3, TransmitOn DEF Body, TypeOK
  <2>4. ASSUME NEW p \in bypassed'
        PROVE  p <= Dispatched' /\ (fate'[p] # "open" \/ On(<<p, Body>>)')
    BY <1>1, <2>1, <2>2, <2>3
  <2> QED
    BY <2>4 DEF BypassedIsSettled
<1>4. \/ UNCHANGED bypassed
      \/ Dispatch /\ Overflow(Head(recvBuf), shard_for_flow(Head(recvBuf)))
  <2>1. CASE Dispatch
    BY <2>1 DEF Dispatch, Enqueue, Disconnected
  <2>2. CASE \E s \in Shards : WorkerStep(s)
    BY <2>2, TakeMoves, DecoyMoves, BodyMoves, SendMoves, StopMoves, StillMoves
       DEF WorkerStep, TakeFirst, TakeNext, InOrder
  <2> QED
    BY <2>1, <2>2 DEF Next, CaptureStep, ReceiveSome, Arrive, Shutdown, CaptureCheck,
                      ReceiveNothing, Receive, DelayReceive,
                      DelayEmit, vars
<1> QED
  BY <1>2, <1>3, <1>4

-----------------------------------------------------------------------------
(* The theorems.                                                             *)

LEMMA PipelineInit == Init => PipelineInv
<1> SUFFICES ASSUME Init PROVE PipelineInv
  OBVIOUS
<1>1. /\ wire = <<>> /\ Len(wire) = 0 /\ channel = <<>> /\ Len(channel) = 0 /\ heap = {}
      /\ Elems(channel) = {} /\ Elems(recvBuf) = {} /\ received = 0 /\ bypassed = {}
      /\ fate = [p \in Packets |-> "open"]
  BY EmptySeq, ElemsEmpty DEF Init
<1>2. \A part : ~On(part) /\ ~Left(part)
  BY <1>1 DEF On, Left
<1>3. SentRight
  BY <1>1, <1>2 DEF SentRight, LeftIsPast, DelayedOnce, Distinct, SentOnce, NoneBehindBody
<1>4. \A p \in Packets : p > received
  BY <1>1 DEF Packets
<1>5. FateAgrees
  BY <1>1, <1>4 DEF FateAgrees, Packets
<1>6. BypassedIsSettled
  BY <1>1 DEF BypassedIsSettled
<1> QED
  BY <1>3, <1>5, <1>6, TypeInit, InOrderInit DEF PipelineInv, Settled

\* The inductive invariant: the order of what is between the driver and the wire is
\* what keeps the places of a packet apart.
LEMMA PipelineStep == ASSUME PipelineInv, [Next]_vars PROVE PipelineInv'
BY TypeStep, OrderStep, SentStep, FateStep, BypassedStep DEF PipelineInv, Settled, InOrder

\* The inductive invariant: every component is in range, every line of a shard is in
\* the order of arrival, what was sent left the pipeline, and every packet that was
\* taken has its place or its fate.
THEOREM PipelineHolds == Spec => []PipelineInv
BY PipelineInit, PipelineStep, PTL DEF Spec

\* The threads of the pipeline keep their queues, channels and histories in range.
THEOREM PipelineTypes == Spec => []TypeOK
<1>1. PipelineInv => TypeOK
  BY DEF PipelineInv
<1> QED
  BY <1>1, PipelineHolds, PTL

\* A part of a packet is sent at most once, whichever of the capture thread, the
\* workers and the delay thread sends it.
THEOREM PartsAreSentOnce == Spec => []SentOnce
<1>1. PipelineInv => SentOnce
  BY DEF PipelineInv, SentRight
<1> QED
  BY <1>1, PipelineHolds, PTL

\* First the decoys, then the packet: no queued decoy is behind the body of its packet.
THEOREM DecoysComeFirst == Spec => []DecoysLead
<1>1. ASSUME PipelineInv
      PROVE  DecoysLead
  <2>1. ASSUME NEW p \in Packets, NEW s \in Shards,
               NEW i \in 1 .. Len(txq[s]), NEW j \in 1 .. Len(txq[s]),
               i < j, txq[s][i] = <<p, Body>>
        PROVE  txq[s][j][1] # p
    <3>1. Precedes(txq[s][i], txq[s][j])
      BY <1>1, <2>1 DEF PipelineInv, InOrder, LinesInOrder, Line, TxqInOrder
    <3>2. p \in Nat /\ txq[s][j][1] \in Nat
      BY <1>1, LineTyped, LineNumbers DEF PipelineInv, Packets
    <3> QED
      BY <2>1, <3>1, <3>2 DEF Precedes
  <2>2. ASSUME NEW p \in Packets, On(<<p, Body>>), NEW s \in Shards, NEW i \in 1 .. Len(txq[s])
        PROVE  txq[s][i][1] # p
    BY <1>1, <2>2 DEF PipelineInv, SentRight, NoneBehindBody, Elems
  <2> QED
    BY <2>1, <2>2 DEF DecoysLead
<1> QED
  BY <1>1, PipelineHolds, PTL

\* Where a sequence holds an element.
Indices(q, e) == {i \in 1 .. Len(q) : q[i] = e}

LEMMA IndicesOf ==
  ASSUME NEW q, NEW e
  PROVE  /\ e \notin Elems(q) => Indices(q, e) = {}
         /\ e \in Elems(q) /\ Distinct(q) => \E i : Indices(q, e) = {i}
<1>1. e \notin Elems(q) => Indices(q, e) = {}
  BY DEF Elems, Indices
<1>2. ASSUME e \in Elems(q), Distinct(q)
      PROVE  \E i : Indices(q, e) = {i}
  <2>1. PICK i \in 1 .. Len(q) : q[i] = e
    BY <1>2 DEF Elems
  <2>2. \A j \in 1 .. Len(q) : q[j] = e => j = i
    BY <1>2, <2>1 DEF Distinct
  <2>3. Indices(q, e) = {i}
    BY <2>1, <2>2 DEF Indices
  <2> QED
    BY <2>3
<1> QED
  BY <1>1, <1>2

LEMMA PlacesOf ==
  ASSUME NEW p, NEW x
  PROVE  x \in Places(p) <=>
           \/ \E i \in Indices(recvBuf, p) : x = <<"capture", i>>
           \/ \E s \in Shards : \E i \in Indices(queue[s], p) : x = <<s, i>>
           \/ \E s \in Shards : Served(s) = p /\ x = <<s, "work">>
           \/ \E s \in Shards : \E i \in Indices(txq[s], <<p, Body>>) : x = <<s, "txq", i>>
           \/ \E i \in Indices(wire, <<p, Body>>) : x = <<"wire", i>>
<1> DEFINE InCapture == {<<"capture", i>> : i \in {i \in 1 .. Len(recvBuf) : recvBuf[i] = p}}
           InQueue(s) == {<<s, i>> : i \in {i \in 1 .. Len(queue[s]) : queue[s][i] = p}}
           InHand == {<<s, "work">> : s \in {s \in Shards : work[s].pkt = p}}
           InTxq(s) == {<<s, "txq", i>> : i \in {i \in 1 .. Len(txq[s]) : txq[s][i] = <<p, Body>>}}
           OnTheWire == {<<"wire", i>> : i \in {i \in 1 .. Len(wire) : wire[i] = <<p, Body>>}}
<1>1. x \in InCapture <=> \E i \in Indices(recvBuf, p) : x = <<"capture", i>>
  BY Zenon DEF Indices
<1>2. \A s : x \in InQueue(s) <=> \E i \in Indices(queue[s], p) : x = <<s, i>>
  BY Zenon DEF Indices
<1>3. x \in InHand <=> \E s \in Shards : Served(s) = p /\ x = <<s, "work">>
  BY Zenon DEF Served
<1>4. \A s : x \in InTxq(s) <=> \E i \in Indices(txq[s], <<p, Body>>) : x = <<s, "txq", i>>
  BY Zenon DEF Indices
<1>5. x \in OnTheWire <=> \E i \in Indices(wire, <<p, Body>>) : x = <<"wire", i>>
  BY Zenon DEF Indices
<1> DEFINE InQueues == UNION {InQueue(s) : s \in Shards}
           InTxqs == UNION {InTxq(s) : s \in Shards}
<1>6. Places(p) = InCapture \cup InQueues \cup InHand \cup InTxqs \cup OnTheWire
  BY DEF Places
<1> HIDE DEF InCapture, InQueue, InHand, InTxq, OnTheWire
<1>7. /\ x \in InQueues <=> \E s \in Shards : x \in InQueue(s)
      /\ x \in InTxqs <=> \E s \in Shards : x \in InTxq(s)
  OBVIOUS
<1> HIDE DEF InQueues, InTxqs
<1>8. x \in Places(p) <=>
        \/ x \in InCapture \/ (\E s \in Shards : x \in InQueue(s)) \/ x \in InHand
        \/ (\E s \in Shards : x \in InTxq(s)) \/ x \in OnTheWire
  BY <1>6, <1>7
<1>9. /\ (\E s \in Shards : x \in InQueue(s))
            <=> \E s \in Shards : \E i \in Indices(queue[s], p) : x = <<s, i>>
      /\ (\E s \in Shards : x \in InTxq(s))
            <=> \E s \in Shards : \E i \in Indices(txq[s], <<p, Body>>) : x = <<s, "txq", i>>
  BY <1>2, <1>4, Zenon
<1> QED
  BY <1>1, <1>3, <1>5, <1>8, <1>9, Zenon

\* A packet that is somewhere is in exactly one place.
LEMMA OnePlace ==
  ASSUME PipelineInv, NEW p \in Packets
  PROVE  /\ ~Somewhere(p) => Places(p) = {}
         /\ Somewhere(p) => \E x : Places(p) = {x}
<1>1. TypeOK /\ InOrder /\ LeftIsPast
  BY DEF PipelineInv, SentRight
<1>2. p \in Nat /\ p # 0
  BY DEF Packets
<1>3. Distinct(recvBuf)
  BY <1>1, BatchNumbers DEF InOrder, BatchInOrder, Distinct
<1>4. Distinct(wire)
  BY DEF PipelineInv, SentRight, SentOnce, Distinct
<1>5. ASSUME NEW s \in Shards
      PROVE  /\ Distinct(queue[s]) /\ Distinct(txq[s])
             /\ p \in Elems(queue[s]) => Served(s) # p /\ <<p, Body>> \notin Elems(txq[s])
             /\ Served(s) = p => <<p, Body>> \notin Elems(txq[s])
  <2>1. /\ Line(s, queue[s], Served(s), NextDecoy(s), txq[s], Dispatched)
        /\ queue[s] \in Seq(Packets) /\ txq[s] \in Seq(Part)
        /\ Served(s) \in Nat /\ NextDecoy(s) \in Nat \ {0}
    BY <1>1, LineTyped DEF InOrder, LinesInOrder
  <2> QED
    BY <2>1, LineHasOne
<1>6. /\ p \in Elems(recvBuf) => ~On(<<p, Body>>) /\ \A s \in Shards : ~Aboard(s, p)
      /\ On(<<p, Body>>) => \A s \in Shards : ~Aboard(s, p)
      /\ \A s, t \in Shards : Aboard(s, p) /\ Aboard(t, p) => s = t
  BY <1>1, <1>2, WhereIs, BatchNumbers
<1>7. /\ p \notin Elems(recvBuf) => Indices(recvBuf, p) = {}
      /\ ~On(<<p, Body>>) => Indices(wire, <<p, Body>>) = {}
      /\ \A s \in Shards : ~Aboard(s, p) =>
           Indices(queue[s], p) = {} /\ Served(s) # p /\ Indices(txq[s], <<p, Body>>) = {}
  BY IndicesOf, OnWire DEF Aboard, OnLine
<1>8. ASSUME NEW x
      PROVE  x \in Places(p) <=>
           \/ \E i \in Indices(recvBuf, p) : x = <<"capture", i>>
           \/ \E s \in Shards : \E i \in Indices(queue[s], p) : x = <<s, i>>
           \/ \E s \in Shards : Served(s) = p /\ x = <<s, "work">>
           \/ \E s \in Shards : \E i \in Indices(txq[s], <<p, Body>>) : x = <<s, "txq", i>>
           \/ \E i \in Indices(wire, <<p, Body>>) : x = <<"wire", i>>
  BY PlacesOf
<1>9. CASE ~Somewhere(p)
  <2>1. \A x : x \notin Places(p)
    BY <1>7, <1>8, <1>9 DEF Somewhere
  <2> QED
    BY <1>9, <2>1
<1>10. CASE p \in Elems(recvBuf)
  <2>1. PICK i : Indices(recvBuf, p) = {i}
    BY <1>3, <1>10, IndicesOf
  <2>2. \A x : x \in Places(p) <=> x = <<"capture", i>>
    BY <1>6, <1>7, <1>8, <1>10, <2>1
  <2>3. Places(p) = {<<"capture", i>>}
    BY <2>2
  <2> QED
    BY <1>10, <2>3 DEF Somewhere
<1>11. CASE On(<<p, Body>>)
  <2>1. PICK i : Indices(wire, <<p, Body>>) = {i}
    BY <1>4, <1>11, IndicesOf, OnWire
  <2>2. \A x : x \in Places(p) <=> x = <<"wire", i>>
    BY <1>6, <1>7, <1>8, <1>11, <2>1
  <2>3. Places(p) = {<<"wire", i>>}
    BY <2>2
  <2> QED
    BY <1>11, <2>3 DEF Somewhere
<1>12. ASSUME NEW s \in Shards, Aboard(s, p)
       PROVE  \E x : Places(p) = {x}
  <2>1. /\ Indices(recvBuf, p) = {} /\ Indices(wire, <<p, Body>>) = {}
        /\ \A t \in Shards : t # s => /\ Indices(queue[t], p) = {} /\ Served(t) # p
                                      /\ Indices(txq[t], <<p, Body>>) = {}
    BY <1>6, <1>7, <1>12
  <2>2. ASSUME NEW x
        PROVE  x \in Places(p) <=>
                 \/ \E i \in Indices(queue[s], p) : x = <<s, i>>
                 \/ Served(s) = p /\ x = <<s, "work">>
                 \/ \E i \in Indices(txq[s], <<p, Body>>) : x = <<s, "txq", i>>
    BY <1>8, <2>1
  <2>3. CASE p \in Elems(queue[s])
    <3>1. PICK i : Indices(queue[s], p) = {i}
      BY <1>5, <2>3, IndicesOf
    <3>2. Served(s) # p /\ Indices(txq[s], <<p, Body>>) = {}
      BY <1>5, <2>3, IndicesOf
    <3>3. \A x : x \in Places(p) <=> x = <<s, i>>
      BY <2>2, <3>1, <3>2
    <3>4. Places(p) = {<<s, i>>}
      BY <3>3
    <3> QED
      BY <3>4
  <2>4. CASE Served(s) = p
    <3>1. Indices(queue[s], p) = {} /\ Indices(txq[s], <<p, Body>>) = {}
      BY <1>5, <2>4, IndicesOf
    <3>2. \A x : x \in Places(p) <=> x = <<s, "work">>
      BY <2>2, <2>4, <3>1
    <3>3. Places(p) = {<<s, "work">>}
      BY <3>2
    <3> QED
      BY <3>3
  <2>5. CASE <<p, Body>> \in Elems(txq[s])
    <3>1. PICK i : Indices(txq[s], <<p, Body>>) = {i}
      BY <1>5, <2>5, IndicesOf
    <3>2. Served(s) # p /\ Indices(queue[s], p) = {}
      BY <1>5, <2>5, IndicesOf
    <3>3. \A x : x \in Places(p) <=> x = <<s, "txq", i>>
      BY <2>2, <3>1, <3>2
    <3>4. Places(p) = {<<s, "txq", i>>}
      BY <3>3
    <3> QED
      BY <3>4
  <2> QED
    BY <1>12, <2>3, <2>4, <2>5 DEF Aboard, OnLine
<1> QED
  BY <1>9, <1>10, <1>11, <1>12 DEF Somewhere

\* A packet taken from the driver is in one place or its loss is accounted for.
THEOREM PacketsAreAccounted == Spec => []Accounted
<1>1. ASSUME PipelineInv
      PROVE  Accounted
  <2>1. ASSUME NEW p \in 1 .. received
        PROVE  Cardinality(Places(p)) = IF fate[p] = "open" THEN 1 ELSE 0
    <3>1. received \in Nat /\ received <= NumPackets /\ NumPackets \in Nat
      BY <1>1, PipelineAssumption DEF PipelineInv, TypeOK
    <3>2. p \in Packets /\ p <= received
      BY <3>1 DEF Packets
    <3>3. fate[p] = "open" <=> Somewhere(p)
      BY <1>1, <3>2 DEF PipelineInv, Settled, FateAgrees
    <3>4. CASE Somewhere(p)
      <4>1. PICK x : Places(p) = {x}
        BY <1>1, <3>2, <3>4, OnePlace
      <4>2. Cardinality({x}) = 1
        BY FS_Singleton
      <4> QED
        BY <3>3, <3>4, <4>1, <4>2
    <3>5. CASE ~Somewhere(p)
      <4>1. Places(p) = {}
        BY <1>1, <3>2, <3>5, OnePlace
      <4> QED
        BY <3>3, <3>5, <4>1, FS_EmptySet
    <3> QED
      BY <3>4, <3>5
  <2> QED
    BY <2>1 DEF Accounted
<1> QED
  BY <1>1, PipelineHolds, PTL

-----------------------------------------------------------------------------
(* The threads implement PacketFate.                                         *)

LEMMA StatusOf ==
  /\ Status = [p \in Packets |-> Status[p]] /\ Status' = [p \in Packets |-> Status'[p]]
  /\ \A p \in Packets :
       /\ Status[p] = IF p > received THEN "outside"
                      ELSE IF On(<<p, Body>>)
                           THEN IF p \in bypassed THEN "bypassed" ELSE "sent"
                           ELSE IF fate[p] = "open" THEN "held" ELSE fate[p]
       /\ Status'[p] = IF p > received' THEN "outside"
                       ELSE IF On(<<p, Body>>)'
                            THEN IF p \in bypassed' THEN "bypassed" ELSE "sent"
                            ELSE IF fate'[p] = "open" THEN "held" ELSE fate'[p]
BY DEF Status, Packets

\* A packet is held while it is between the driver and the wire.
LEMMA HeldIs ==
  ASSUME PipelineInv, NEW p \in Packets
  PROVE  /\ Status[p] = "held" <=> p <= received /\ fate[p] = "open" /\ ~On(<<p, Body>>)
         /\ Status[p] = "held" <=>
              p \in Elems(recvBuf) \/ \E s \in Shards : Aboard(s, p)
         /\ Status[p] = "held" => p \notin bypassed
<1>1. TypeOK /\ InOrder /\ LeftIsPast
  BY DEF PipelineInv, SentRight
<1>2. received \in Nat /\ p \in Nat
  BY <1>1, BatchNumbers DEF Packets
<1>3. Status[p] = "held" <=> p <= received /\ fate[p] = "open" /\ ~On(<<p, Body>>)
  <2>1. fate[p] \in {"open", "dropped", "lost", "stranded"}
    BY <1>1 DEF TypeOK
  <2>2. fate[p] # "held"
    BY <2>1
  <2>3. p > received <=> ~(p <= received)
    BY <1>2
  <2> QED
    BY <2>2, <2>3, StatusOf
<1>4. /\ p \in Elems(recvBuf) => p <= received /\ ~On(<<p, Body>>)
      /\ \A s \in Shards : Aboard(s, p) => p <= received /\ ~On(<<p, Body>>)
  <2>1. Dispatched <= received /\ Dispatched \in Int
    BY <1>1, BatchNumbers DEF Dispatched
  <2>2. p \in Elems(recvBuf) => p <= received /\ ~On(<<p, Body>>)
    BY <1>1, <1>2, <2>1, WhereIs
  <2>3. \A s \in Shards : Aboard(s, p) => p <= Dispatched /\ ~On(<<p, Body>>)
    BY <1>1, WhereIs
  <2> QED
    BY <1>2, <2>1, <2>2, <2>3
<1>5. p <= received => (fate[p] = "open" <=> Somewhere(p))
  BY DEF PipelineInv, Settled, FateAgrees
<1>6. p \in bypassed => fate[p] # "open" \/ On(<<p, Body>>)
  BY DEF PipelineInv, Settled, BypassedIsSettled
<1> QED
  BY <1>3, <1>4, <1>5, <1>6 DEF Somewhere

LEMMA StatusStays ==
  ASSUME UNCHANGED <<received, fate, bypassed>>, BodiesStay
  PROVE  UNCHANGED Status
<1>1. \A p \in Packets : Status'[p] = Status[p]
  BY StatusOf DEF BodiesStay
<1> QED
  BY <1>1, StatusOf

\* Packets that are held settle, the others keep their status.
LEMMA StatusSettles ==
  ASSUME UNCHANGED received, UNCHANGED bypassed, BodiesStay, NEW S,
         NEW f \in {"dropped", "lost", "stranded"},
         \A p \in Packets : fate'[p] = IF p \in S THEN f ELSE fate[p],
         \A p \in S \cap Packets : Status[p] = "held"
  PROVE  \A p \in Packets : Status'[p] = IF p \in S THEN f ELSE Status[p]
<1>1. ASSUME NEW p \in Packets
      PROVE  Status'[p] = IF p \in S THEN f ELSE Status[p]
  <2>1. fate'[p] = IF p \in S THEN f ELSE fate[p]
    OBVIOUS
  <2>2. f # "open" /\ f # "held"
    OBVIOUS
  <2>3. CASE p \in S
    <3>1. ~(p > received) /\ ~On(<<p, Body>>)
      BY <2>3, StatusOf
    <3>2. ~(p > received') /\ ~On(<<p, Body>>)'
      BY <3>1 DEF BodiesStay
    <3> QED
      BY <2>1, <2>2, <2>3, <3>2, StatusOf
  <2>4. CASE p \notin S
    BY <2>1, <2>4, StatusOf DEF BodiesStay
  <2> QED
    BY <2>3, <2>4
<1> QED
  BY <1>1

LEMMA StatusSettlesOne ==
  ASSUME TypeOK, UNCHANGED received, UNCHANGED bypassed, BodiesStay, NEW p \in Packets,
         NEW f \in {"dropped", "lost"}, fate' = [fate EXCEPT ![p] = f], Status[p] = "held"
  PROVE  Fates!Discard(p)
<1>1. PICK S : S = {p}
  OBVIOUS
<1>2. \A x \in Packets : fate'[x] = IF x \in S THEN f ELSE fate[x]
  BY <1>1 DEF TypeOK
<1>3. f \in {"dropped", "lost", "stranded"} /\ \A x \in S \cap Packets : Status[x] = "held"
  BY <1>1
<1>4. \A x \in Packets : Status'[x] = IF x \in S THEN f ELSE Status[x]
  BY <1>2, <1>3, StatusSettles
<1>5. Status' = [Status EXCEPT ![p] = f]
  BY <1>1, <1>4, StatusOf
<1> QED
  BY <1>5 DEF Fates!Discard

LEMMA StrandImplements ==
  ASSUME PipelineInv, UNCHANGED <<received, bypassed, wire>>,
         NEW S \in SUBSET Packets, Strand(S), \A p \in S : Status[p] = "held"
  PROVE  Fates!Strand
<1>1. \A p \in Packets : fate'[p] = IF p \in S THEN "stranded" ELSE fate[p]
  BY DEF Strand
<1>2. Status' = [p \in Packets |-> IF p \in S THEN "stranded" ELSE Status[p]]
  <2>1. \A p \in Packets : Status'[p] = IF p \in S THEN "stranded" ELSE Status[p]
    BY <1>1, WireStays, StatusSettles
  <2> QED
    BY <2>1, StatusOf
<1>3. S \in SUBSET {p \in Packets : Status[p] = "held"}
  OBVIOUS
<1>4. Fates!Packets = Packets
  BY DEF Fates!Packets, Packets
<1> QED
  BY <1>2, <1>3, <1>4 DEF Fates!Strand

LEMMA ReceiveImplements ==
  ASSUME PipelineInv, NEW n \in 1 .. RecvBatch, Receive(n)
  PROVE  Fates!Capture
<1>1. /\ received' = received + n /\ n \in Nat /\ n > 0 /\ received + n <= arrived
      /\ UNCHANGED <<bypassed, wire, fate>>
  BY PipelineAssumption DEF Receive, Available
<1>2. /\ received \in Nat /\ arrived \in Nat /\ NumPackets \in Nat
      /\ arrived <= NumPackets /\ TypeOK
  BY PipelineAssumption DEF PipelineInv, TypeOK
<1> DEFINE last == received + n
<1>3. last \in Packets /\ last > received
  BY <1>1, <1>2 DEF Packets
<1>4. Status[last] = "outside"
  BY <1>3, StatusOf
<1>5. ASSUME NEW p \in Packets
      PROVE  Status'[p] = IF p <= last /\ Status[p] = "outside" THEN "held" ELSE Status[p]
  <2>1. On(<<p, Body>>)' <=> On(<<p, Body>>)
    BY <1>1 DEF On
  <2>2. On(<<p, Body>>) => p <= Dispatched
    BY WhereIs DEF PipelineInv, SentRight
  <2>3. p \in Nat /\ Dispatched <= received /\ Dispatched \in Int
    BY <1>2, BatchNumbers DEF Packets, Dispatched
  <2>4. p > received => fate[p] = "open" /\ ~On(<<p, Body>>)
    BY <1>2, <2>2, <2>3 DEF PipelineInv, Settled, FateAgrees
  <2>5. CASE p > last
    <3>1. p > received /\ p > received'
      BY <1>1, <1>2, <2>3, <2>5
    <3>2. Status'[p] = "outside" /\ Status[p] = "outside"
      BY <3>1, StatusOf
    <3>3. ~(p <= last)
      BY <1>1, <1>2, <2>3, <2>5
    <3> QED
      BY <3>2, <3>3
  <2>6. CASE p <= last /\ p > received
    <3>1. ~(p > received')
      BY <1>1, <1>2, <2>3, <2>6
    <3>2. Status'[p] = "held"
      BY <1>1, <2>1, <2>4, <2>6, <3>1, StatusOf
    <3>3. Status[p] = "outside"
      BY <2>6, StatusOf
    <3> QED
      BY <2>6, <3>2, <3>3
  <2>7. CASE ~(p > received)
    <3>1. ~(p > received')
      BY <1>1, <1>2, <2>3, <2>7
    <3>2. Status'[p] = Status[p]
      BY <1>1, <2>1, <2>7, <3>1, StatusOf
    <3>3. Status[p] # "outside"
      BY <1>2, <2>7, StatusOf DEF TypeOK
    <3> QED
      BY <3>2, <3>3
  <2> QED
    BY <1>1, <1>2, <2>3, <2>5, <2>6, <2>7
<1> HIDE DEF last
<1>6. Status' = [p \in Packets |-> IF p <= last /\ Status[p] = "outside" THEN "held" ELSE Status[p]]
  BY <1>5, StatusOf
<1>7. Fates!Packets = Packets
  BY DEF Fates!Packets, Packets
<1> QED
  BY <1>3, <1>4, <1>6, <1>7 DEF Fates!Capture

LEMMA OverflowImplements ==
  ASSUME PipelineInv, Dispatch, Overflow(Head(recvBuf), shard_for_flow(Head(recvBuf)))
  PROVE  \E p \in Packets : Fates!Bypass(p) \/ Fates!Discard(p)
<1>1. PICK h : h = Head(recvBuf)
  OBVIOUS
<1>2. /\ recvBuf # <<>> /\ recvBuf \in Seq(Packets) /\ Transmit(h, Body)
      /\ bypassed' = bypassed \cup {h} /\ UNCHANGED received /\ TypeOK
  BY <1>1 DEF Dispatch, Overflow, ForwardDirectly, PipelineInv, TypeOK
<1>3. h \in Packets /\ h \in Elems(recvBuf)
  BY <1>1, <1>2, ElemsTail
<1>4. /\ Status[h] = "held" /\ fate[h] = "open" /\ ~On(<<h, Body>>) /\ h <= received
      /\ h \notin bypassed
  BY <1>3, HeldIs
<1>5. ~(h > received) /\ ~(h > received')
  BY <1>2, <1>3, <1>4, BatchNumbers DEF Packets
<1>6. CASE UNCHANGED fate /\ \A x \in Part : On(x)' <=> On(x) \/ x = <<h, Body>>
  <2>1. ASSUME NEW p \in Packets
        PROVE  Status'[p] = IF p = h THEN "bypassed" ELSE Status[p]
    <3>1. On(<<p, Body>>)' <=> On(<<p, Body>>) \/ p = h
      BY <1>6 DEF Part, Body
    <3> QED
      BY <1>2, <1>5, <1>6, <3>1, StatusOf
  <2>2. Status' = [Status EXCEPT ![h] = "bypassed"]
    BY <2>1, StatusOf
  <2> QED
    BY <1>3, <1>4, <2>2 DEF Fates!Bypass
<1>7. CASE /\ \A x \in Part : On(x)' <=> On(x)
           /\ fate' = [fate EXCEPT ![h] = "lost"]
  <2>1. ASSUME NEW p \in Packets
        PROVE  Status'[p] = IF p = h THEN "lost" ELSE Status[p]
    <3>1. On(<<p, Body>>)' <=> On(<<p, Body>>)
      BY <1>7 DEF Part, Body
    <3>2. fate'[p] = IF p = h THEN "lost" ELSE fate[p]
      BY <1>2, <1>7 DEF TypeOK
    <3>3. CASE p = h
      BY <1>4, <1>5, <3>1, <3>2, <3>3, StatusOf
    <3>4. CASE p # h
      BY <1>2, <3>1, <3>2, <3>4, StatusOf
    <3> QED
      BY <3>3, <3>4
  <2>2. Status' = [Status EXCEPT ![h] = "lost"]
    BY <2>1, StatusOf
  <2> QED
    BY <1>3, <1>4, <2>2 DEF Fates!Discard
<1> QED
  BY <1>2, <1>3, <1>6, <1>7, TransmitOn DEF Body

\* The body at the head of a tx_queue: no earlier packet of its flow is held.
LEMMA NoneEarlierHeld ==
  ASSUME PipelineInv, NEW s \in Shards, NEW p \in Packets,
         txq[s] # <<>>, Head(txq[s]) = <<p, Body>>,
         NEW q \in Packets, q < p, Key(q) = Key(p)
  PROVE  Status[q] # "held"
<1>1. TypeOK /\ InOrder /\ LeftIsPast
  BY DEF PipelineInv, SentRight
<1>2. /\ queue[s] \in Seq(Packets) /\ txq[s] \in Seq(Part) /\ Head(txq[s]) = txq[s][1]
      /\ Len(txq[s]) \in Nat /\ Len(txq[s]) # 0
      /\ Line(s, queue[s], Served(s), NextDecoy(s), txq[s], Dispatched)
  BY <1>1, LineTyped, HeadTailProperties, EmptySeq, LenProperties DEF InOrder, LinesInOrder
<1>3. p \in Nat /\ q \in Nat /\ q # 0
  BY DEF Packets
<1>4. 1 \in 1 .. Len(txq[s]) /\ txq[s][1][1] = p /\ txq[s][1][2] = Body
  BY <1>2
<1>5. p <= Dispatched /\ shard_for_flow(p) = s
  BY <1>2, <1>4 DEF Line, TxqInOrder
<1>6. shard_for_flow(q) = s
  BY <1>5 DEF shard_for_flow, Key
<1>7. q \notin Elems(recvBuf)
  <2>1. ~(Dispatched < q)
    BY <1>1, <1>3, <1>5, BatchNumbers
  <2> QED
    BY <1>1, <2>1, WhereIs
<1>8. ~Aboard(s, q)
  <2>1. ASSUME NEW j \in 1 .. Len(queue[s])
        PROVE  queue[s][j] # q
    <3>1. p < queue[s][j]
      BY <1>2, <1>4 DEF Line, TxqInOrder
    <3> QED
      BY <1>3, <3>1
  <2>2. Served(s) # q
    <3>1. Served(s) # 0 => Precedes(txq[s][1], <<Served(s), NextDecoy(s)>>)
      BY <1>2, <1>4 DEF Line, TxqInOrder
    <3> QED
      BY <1>3, <1>4, <3>1 DEF Precedes
  <2>3. ASSUME NEW j \in 1 .. Len(txq[s])
        PROVE  txq[s][j] # <<q, Body>>
    <3>1. CASE j = 1
      BY <1>3, <1>4, <3>1
    <3>2. CASE j # 1
      <4>1. 1 < j
        BY <1>2, <3>2
      <4>2. Precedes(txq[s][1], txq[s][j])
        BY <1>2, <1>4, <4>1 DEF Line, TxqInOrder
      <4> QED
        BY <1>3, <1>4, <4>2 DEF Precedes
    <3> QED
      BY <3>1, <3>2
  <2> QED
    BY <2>1, <2>2, <2>3 DEF Aboard, OnLine, Elems
<1>9. \A t \in Shards : ~Aboard(t, q)
  BY <1>1, <1>6, <1>8, WhereIs
<1> QED
  BY <1>7, <1>9, HeldIs

LEMMA SendImplements ==
  ASSUME PipelineInv, NEW s \in Shards, SendPart(s)
  PROVE  UNCHANGED Status \/ \E p \in Packets : Fates!Send(p) \/ Fates!Discard(p)
<1>1. TypeOK
  BY DEF PipelineInv
<1>2. PICK part \in Part : part = Head(txq[s])
  BY <1>1, SendMoves
<1>3. /\ txq[s] # <<>> /\ txq[s] \in Seq(Part) /\ Transmit(part[1], part[2])
      /\ UNCHANGED <<received, bypassed>>
  BY <1>1, <1>2, SendMoves DEF OnlyLine
<1>4. CASE part[2] # Body
  BY <1>1, <1>3, <1>4, DecoyStays, StatusStays
<1>5. CASE part[2] = Body
  <2>1. PICK h \in Packets : part = <<h, Body>> /\ part[1] = h
    BY <1>5, PartType
  <2>2. Aboard(s, h)
    BY <1>2, <1>3, <2>1, ElemsTail DEF Aboard, OnLine
  <2>3. /\ Status[h] = "held" /\ fate[h] = "open" /\ ~On(<<h, Body>>) /\ h <= received
        /\ h \notin bypassed
    BY <2>2, HeldIs
  <2>4. ~(h > received) /\ ~(h > received')
    BY <1>1, <1>3, <2>3, BatchNumbers DEF Packets
  <2>5. CASE UNCHANGED fate /\ \A x \in Part : On(x)' <=> On(x) \/ x = <<h, Body>>
    <3>1. ASSUME NEW p \in Packets
          PROVE  Status'[p] = IF p = h THEN "sent" ELSE Status[p]
      <4>1. On(<<p, Body>>)' <=> On(<<p, Body>>) \/ p = h
        BY <2>5 DEF Part, Body
      <4> QED
        BY <1>3, <2>3, <2>4, <2>5, <4>1, StatusOf
    <3>2. Status' = [Status EXCEPT ![h] = "sent"]
      BY <3>1, StatusOf
    <3>3. ASSUME NEW q \in 1 .. h - 1,
                 [p \in Packets |-> Key(p)][q] = [p \in Packets |-> Key(p)][h]
          PROVE  Status[q] # "held"
      <4>1. q \in Packets /\ q < h
        BY PipelineAssumption DEF Packets
      <4>2. Key(q) = Key(h)
        BY <3>3, <4>1
      <4> QED
        BY <1>2, <1>3, <2>1, <4>1, <4>2, NoneEarlierHeld
    <3> QED
      BY <2>3, <3>2, <3>3 DEF Fates!Send
  <2>6. CASE (\A x \in Part : On(x)' <=> On(x)) /\ fate' = [fate EXCEPT ![h] = "lost"]
    <3>1. BodiesStay
      BY <2>6 DEF BodiesStay, Part, Body
    <3>2. Fates!Discard(h)
      BY <1>1, <1>3, <2>3, <2>6, <3>1, StatusSettlesOne
    <3> QED
      BY <3>2
  <2>7. Transmit(h, Body)
    BY <1>3, <1>5, <2>1
  <2> QED
    BY <1>1, <2>5, <2>6, <2>7, TransmitOn DEF Body
<1> QED
  BY <1>4, <1>5

LEMMA WorkerImplements ==
  ASSUME PipelineInv, NEW s \in Shards, WorkerStep(s)
  PROVE  \/ UNCHANGED Status \/ Fates!Strand
         \/ \E p \in Packets : Fates!Send(p) \/ Fates!Discard(p)
<1>1. TypeOK /\ HandsAgree
  BY DEF PipelineInv, InOrder
<1>2. CASE TakeFrom(s)
  BY <1>1, <1>2, TakeMoves, WireStays, StatusStays DEF OnlyLine
<1>3. CASE Poll(s) \/ BatchDone(s) \/ SendDone(s)
  BY <1>1, <1>3, StillMoves, WireStays, StatusStays
<1>4. CASE WorkerStop(s)
  <2>1. /\ UNCHANGED <<received, bypassed, wire>> /\ Strand(Elems(queue[s]))
    BY <1>1, <1>4, StopMoves DEF WorkerStop, OnlyLine
  <2>2. Elems(queue[s]) \in SUBSET Packets
    BY <1>1, LineTyped, ElemsType
  <2>3. ASSUME NEW p \in Elems(queue[s])
        PROVE  Status[p] = "held"
    BY <2>2, HeldIs DEF Aboard, OnLine
  <2> QED
    BY <2>1, <2>2, <2>3, StrandImplements
<1>5. CASE DecoySkipped(s) \/ DecoyQueued(s) \/ DecoyRaw(s) \/ DecoyDelayed(s)
  <2>1. /\ UNCHANGED <<received, bypassed>> /\ <<Served(s), NextDecoy(s)>> \in Part
        /\ NextDecoy(s) \in Nat \ {0}
    BY <1>1, <1>5, DecoyMoves DEF OnlyLine
  <2>2. CASE DecoyRaw(s)
    <3>1. PICK part \in Part : part = <<Served(s), NextDecoy(s)>>
      BY <2>1
    <3>2. part[2] # Body /\ Transmit(part[1], part[2])
      BY <2>1, <2>2, <3>1 DEF DecoyRaw, Body, Served
    <3> QED
      BY <1>1, <2>1, <3>2, DecoyStays, StatusStays
  <2>3. CASE UNCHANGED <<wire, fate>>
    BY <2>1, <2>3, WireStays, StatusStays
  <2> QED
    BY <1>5, <2>2, <2>3 DEF DecoySkipped, DecoyQueued, DecoyDelayed
<1>6. CASE BodyStep(s)
  <2>1. /\ UNCHANGED received /\ UNCHANGED bypassed /\ BodiesStay /\ Served(s) \in Packets
        /\ \/ UNCHANGED fate
           \/ \E f \in {"dropped", "lost"} : fate' = [fate EXCEPT ![Served(s)] = f]
    BY <1>1, <1>6, BodyMoves, WireStays DEF OnlyLine
  <2>2. Status[Served(s)] = "held"
    BY <2>1, HeldIs DEF Aboard, OnLine
  <2>3. CASE UNCHANGED fate
    BY <2>1, <2>3, StatusStays
  <2>4. ASSUME NEW f \in {"dropped", "lost"}, fate' = [fate EXCEPT ![Served(s)] = f]
        PROVE  \E p \in Packets : Fates!Discard(p)
    <3>1. PICK h \in Packets : h = Served(s)
      BY <2>1
    <3>2. Fates!Discard(h)
      BY <1>1, <2>1, <2>2, <2>4, <3>1, StatusSettlesOne
    <3> QED
      BY <3>2
  <2> QED
    BY <2>1, <2>3, <2>4
<1> QED
  BY <1>2, <1>3, <1>4, <1>5, <1>6, SendImplements DEF WorkerStep, TakeFirst, TakeNext

LEMMA FatesStep == ASSUME PipelineInv, [Next]_vars PROVE [Fates!Next]_Status
<1>1. TypeOK /\ Fates!Packets = Packets
  BY DEF PipelineInv, Fates!Packets, Packets
<1>2. CASE Arrive \/ Shutdown \/ CaptureCheck \/ ReceiveNothing \/ DelayReceive \/ UNCHANGED vars
  <2>1. UNCHANGED <<received, fate, bypassed, wire>>
    BY <1>2 DEF Arrive, Shutdown, CaptureCheck, ReceiveNothing, DelayReceive, capture, vars
  <2> QED
    BY <2>1, WireStays, StatusStays
<1>3. CASE \E n \in 1 .. RecvBatch : Receive(n)
  BY <1>3, ReceiveImplements DEF Fates!Next
<1>4. CASE Dispatch
  <2> DEFINE p == Head(recvBuf)
             s == shard_for_flow(p)
  <2>1. UNCHANGED received /\ (Enqueue(p, s) \/ Overflow(p, s) \/ Disconnected(s))
    BY <1>4 DEF Dispatch
  <2>2. CASE Enqueue(p, s)
    BY <2>1, <2>2, WireStays, StatusStays DEF Enqueue
  <2>3. CASE Overflow(p, s)
    BY <1>1, <1>4, <2>3, OverflowImplements DEF Fates!Next
  <2>4. CASE Disconnected(s)
    <3>1. /\ UNCHANGED <<received, bypassed, wire>> /\ Strand(Elems(recvBuf))
      BY <2>1, <2>4 DEF Disconnected
    <3>2. Elems(recvBuf) \in SUBSET Packets
      BY <1>1, ElemsType DEF TypeOK
    <3>3. ASSUME NEW q \in Elems(recvBuf)
          PROVE  Status[q] = "held"
      BY <3>2, HeldIs
    <3>4. Fates!Strand
      BY <3>1, <3>2, <3>3, StrandImplements
    <3> QED
      BY <3>4 DEF Fates!Next
  <2> QED
    BY <2>1, <2>2, <2>3, <2>4
<1>5. CASE \E s \in Shards : WorkerStep(s)
  BY <1>1, <1>5, WorkerImplements DEF Fates!Next
<1>6. CASE DelayEmit
  <2>1. PICK part \in heap : Transmit(part[1], part[2]) /\ UNCHANGED <<received, bypassed>>
    BY <1>6 DEF DelayEmit, capture
  <2>2. part \in Part /\ part[2] # Body
    BY DEF PipelineInv, SentRight, DelayedOnce, TypeOK
  <2> QED
    BY <1>1, <2>1, <2>2, DecoyStays, StatusStays
<1> QED
  BY <1>2, <1>3, <1>4, <1>5, <1>6 DEF Next, CaptureStep, ReceiveSome

LEMMA FatesInit == Init => Fates!Init
<1> SUFFICES ASSUME Init PROVE Fates!Init
  OBVIOUS
<1>1. \A p \in Packets : p > received
  BY DEF Init, Packets
<1>2. \A p \in Packets : Status[p] = "outside"
  BY <1>1, StatusOf
<1>3. Status = [p \in Packets |-> "outside"]
  BY <1>2, StatusOf
<1> QED
  BY <1>3 DEF Fates!Init, Fates!Packets, Packets

\* Refinement: whatever the threads do, a packet settles once, and the packets of a
\* flow that the workers send leave in the order of their capture.
THEOREM PipelineImplementsFates == Spec => ImplementsFates
<1>1. PipelineInv /\ [Next]_vars => [Fates!Next]_Status
  BY FatesStep
<1> QED
  BY <1>1, FatesInit, PipelineHolds, PTL DEF Spec, ImplementsFates, Fates!Spec
=============================================================================
