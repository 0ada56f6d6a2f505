-------------------------- MODULE PointToPointLink --------------------------
(***************************************************************************)
(* One direction of a link: a PointToPointNetDevice with the PriorityQueue *)
(* the driver gives it, and the PointToPointChannel to the device at the   *)
(* other end.  The link is up, as it is once the device is attached, and   *)
(* the receiving device has no error model.                                *)
(*                                                                         *)
(* The queue is that of PriorityQueue; its counters are what is stored, as *)
(* PriorityQueue!CountersAgree says they are; bytes are counted as the     *)
(* members of a set, as they are there.  A tick is the time in which one   *)
(* unit of size is transmitted.  alone is what the link is compared with:  *)
(* the ticks that a link which carries only the packets of class 0         *)
(* accepted here would still need for them.                                *)
(***************************************************************************)
EXTENDS Integers, Sequences, FiniteSets, FiniteSetsExt

CONSTANTS NumClasses, Priorities, Flows, Sizes, Mode, MaxPackets, MaxBytes,
          BackgroundDrop,  \* these as in PriorityQueue
          MaxOnWire        \* bound on the packets that are on the channel

ASSUME MaxOnWireAssumption == MaxOnWire \in Nat /\ MaxOnWire > 1
ASSUME QueueAssumption ==
  /\ NumClasses \in Nat \ {0}
  /\ Priorities \subseteq Nat /\ Sizes \subseteq Nat \ {0} /\ IsFiniteSet(Sizes) /\ Sizes /= {}

VARIABLES
  m_packets,         \* the sub-queues of m_queue
  m_txMachineState,
  m_currentPkt,
  remaining,         \* ticks until TransmitComplete
  wire,              \* the packets with a Receive scheduled, in order
  alone

transmitter == <<m_txMachineState, m_currentPkt, remaining>>
vars == <<m_packets, transmitter, wire, alone>>

Classes == 0 .. NumClasses - 1
NoPacket == [flow |-> "none", prio |-> NumClasses, size |-> 0]

Cells(q) == UNION {{k} \X (1 .. q[k].size) : k \in DOMAIN q}
Bytes(q) == Cardinality(Cells(q))
m_bytesInSubQueue == [i \in Classes |-> Bytes(m_packets[i])]
m_nPackets == MapThenSumSet(LAMBDA i : Len(m_packets[i]), Classes)
m_nBytes   == MapThenSumSet(LAMBDA i : Bytes(m_packets[i]), Classes)

Queue == INSTANCE PriorityQueue
           WITH m_totalpackets <- m_nPackets, m_bytesInQueue <- m_nBytes, Watched <- 0, returned <- NoPacket

Top(p) == Queue!ClassOf(p) = 0

Init ==
  /\ m_packets = [i \in Classes |-> <<>>]
  /\ m_txMachineState = "READY" /\ m_currentPkt = NoPacket /\ remaining = 0
  /\ wire = <<>>
  /\ alone = 0
-----------------------------------------------------------------------------
\* The device's TransmitStart and the channel's.
TransmitStart(p) ==
  /\ m_txMachineState' = "BUSY" /\ m_currentPkt' = p /\ remaining' = p.size
  /\ wire' = Append(wire, p)

\* Mutant: the lowest class goes first.
TransmitFromLowest(q) ==
  LET i == Max({c \in Classes : q[c] # <<>>})
  IN /\ m_packets' = [q EXCEPT ![i] = Tail(@)]
     /\ TransmitStart(Head(q[i]))

\* Dequeue from the sub-queues q, which are not all empty, and transmit.
TransmitFrom(q) ==
  LET i == Min({c \in Classes : q[c] # <<>>})
  IN /\ m_packets' = [q EXCEPT ![i] = Tail(@)]
     /\ TransmitStart(Head(q[i]))

Enqueued(p) == [Queue!Without(Queue!Evicted(p)) EXCEPT ![Queue!ClassOf(p)] = Append(@, p)]

\* Send, when m_queue refuses the packet.
SendRefused(p) ==
  /\ Queue!Refuses(p) \/ BackgroundDrop
  /\ m_packets' = Queue!Without(Queue!Evicted(p))
  /\ UNCHANGED <<transmitter, wire, alone>>

\* Mutant: a device that is READY sends the packet past the queue.
SendAcceptedPast(p) ==
  /\ ~Queue!Refuses(p)
  /\ alone' = IF Top(p) THEN alone + p.size ELSE alone
  /\ IF m_txMachineState = "READY"
     THEN Len(wire) < MaxOnWire /\ m_packets' = Enqueued(p) /\ TransmitStart(p)
     ELSE m_packets' = Enqueued(p) /\ UNCHANGED <<transmitter, wire>>

\* Send.  A device that is READY enqueues the packet too, and dequeues.
SendAccepted(p) ==
  /\ ~Queue!Refuses(p)
  /\ alone' = IF Top(p) THEN alone + p.size ELSE alone
  /\ IF m_txMachineState = "READY"
     THEN Len(wire) < MaxOnWire /\ TransmitFrom(Enqueued(p))
     ELSE m_packets' = Enqueued(p) /\ UNCHANGED <<transmitter, wire>>

\* Mutant: m_currentPkt is not reset when the queue is empty.
TransmitCompleteKeeps ==
  /\ m_txMachineState = "BUSY" /\ remaining = 0
  /\ IF \A i \in Classes : m_packets[i] = <<>>
     THEN m_txMachineState' = "READY" /\ UNCHANGED <<m_currentPkt, remaining, m_packets, wire>>
     ELSE Len(wire) < MaxOnWire /\ TransmitFrom(m_packets)
  /\ UNCHANGED alone

\* Mutant: the device waits for the next Send to look into its queue.
TransmitCompleteRests ==
  /\ m_txMachineState = "BUSY" /\ remaining = 0
  /\ m_txMachineState' = "READY" /\ m_currentPkt' = NoPacket
  /\ UNCHANGED <<remaining, m_packets, wire, alone>>

TransmitComplete ==
  /\ m_txMachineState = "BUSY" /\ remaining = 0
  /\ IF \A i \in Classes : m_packets[i] = <<>>
     THEN m_txMachineState' = "READY" /\ m_currentPkt' = NoPacket /\ UNCHANGED <<remaining, m_packets, wire>>
     ELSE Len(wire) < MaxOnWire /\ TransmitFrom(m_packets)
  /\ UNCHANGED alone

\* The first packet on the channel arrives, after its transmission is complete.
Receive ==
  /\ Len(wire) > (IF m_txMachineState = "BUSY" THEN 1 ELSE 0)
  /\ wire' = Tail(wire)
  /\ UNCHANGED <<m_packets, transmitter, alone>>

\* A sender whose flow is complete flushes the queue of its device.
FlushOutFlowPackets(f) ==
  /\ m_packets' = Queue!Without(Queue!OfFlow(f))
  /\ UNCHANGED <<transmitter, wire, alone>>

\* The event TransmitComplete is not late.
Tick ==
  /\ m_txMachineState = "BUSY" => remaining > 0
  /\ remaining' = IF remaining > 0 THEN remaining - 1 ELSE 0
  /\ alone' = IF alone > 0 THEN alone - 1 ELSE 0
  /\ UNCHANGED <<m_packets, m_txMachineState, m_currentPkt, wire>>

Next ==
  \/ \E p \in Queue!Packets : SendRefused(p)
  \/ \E p \in Queue!Packets : SendAccepted(p)
  \/ TransmitComplete
  \/ Receive
  \/ \E f \in Flows : FlushOutFlowPackets(f)
  \/ Tick

Spec == Init /\ [][Next]_vars

\* Scheduled events happen and time goes on.
FairSpec == Spec /\ WF_vars(TransmitComplete) /\ WF_vars(Receive) /\ WF_vars(Tick)
-----------------------------------------------------------------------------
TypeOK ==
  /\ m_packets \in [Classes -> Seq(Queue!Packets)]
  /\ m_currentPkt \in Queue!Packets \cup {NoPacket}
  /\ m_txMachineState = IF m_currentPkt = NoPacket THEN "READY" ELSE "BUSY"
  /\ remaining \in 0 .. m_currentPkt.size
  /\ wire \in Seq(Queue!Packets) /\ alone \in Nat

\* The transmitter does not rest while a packet waits: Send and
\* TransmitComplete both look at the queue, and nothing else would.
WorkConserving == m_txMachineState = "READY" => \A i \in Classes : m_packets[i] = <<>>

\* Low priority traffic costs ordinary traffic nothing: what is accepted in class 0 is never
\* behind a link without lower classes by more than what has been transmitted
\* of one packet of a lower class, because a transmission is not interrupted.
Backlog == Bytes(m_packets[0]) + (IF Top(m_currentPkt) THEN remaining ELSE 0)

LateByOnePacket ==
  Backlog - alone \in 0 .. (IF Top(m_currentPkt) \/ m_currentPkt = NoPacket THEN Max(Sizes)
                            ELSE m_currentPkt.size - remaining)

\* What is accepted in class 0 arrives, once and in order, whatever is
\* dropped, evicted or flushed of the other classes.
Link == INSTANCE FifoLink
          WITH Packets <- {p \in Queue!Packets : Top(p)},
               transit <- SelectSeq(wire, Top) \o m_packets[0]
TopArrivesInOrder == Link!Spec
=============================================================================
