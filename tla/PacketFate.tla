------------------------------ MODULE PacketFate ------------------------------
(***************************************************************************)
(* What the pipeline promises about captured packets, without threads or   *)
(* queues: packets are captured in arrival order, and each of them settles *)
(* exactly once.  Those of one flow that are sent leave in the order of    *)
(* their capture, except a packet that is let through past a full queue.   *)
(***************************************************************************)
EXTENDS Integers

CONSTANTS NumPackets, FlowOf

VARIABLE status  \* of each packet

Packets == 1 .. NumPackets
Settled == {"sent", "bypassed", "dropped", "lost", "stranded"}

Init == status = [p \in Packets |-> "outside"]

\* A batch of packets leaves the driver, in arrival order.
Capture ==
  \E last \in Packets :
    /\ status[last] = "outside"
    /\ status' = [p \in Packets |->
                    IF p <= last /\ status[p] = "outside" THEN "held" ELSE status[p]]

Send(p) ==
  /\ status[p] = "held"
  /\ \A q \in 1 .. p - 1 : FlowOf[q] = FlowOf[p] => status[q] # "held"
  /\ status' = [status EXCEPT ![p] = "sent"]

Bypass(p) ==
  /\ status[p] = "held"
  /\ status' = [status EXCEPT ![p] = "bypassed"]

Discard(p) ==
  /\ status[p] = "held"
  /\ \E fate \in {"dropped", "lost"} : status' = [status EXCEPT ![p] = fate]

\* A thread that stops takes with it the packets that only it could reach.
Strand ==
  \E S \in SUBSET {p \in Packets : status[p] = "held"} :
    status' = [p \in Packets |-> IF p \in S THEN "stranded" ELSE status[p]]

Next == Capture \/ Strand \/ \E p \in Packets : Send(p) \/ Bypass(p) \/ Discard(p)

Spec == Init /\ [][Next]_status
=============================================================================
