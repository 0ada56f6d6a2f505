---------------------------- MODULE DropTailQueue ----------------------------
(***************************************************************************)
(* ns3::DropTailQueue (drop-tail-queue.cc) behind ns3::Queue (queue.cc):   *)
(* one FIFO that refuses a packet when it is full and never loses one it   *)
(* has accepted.  It is the queue an ordinary TCP packet meets when there  *)
(* is no RC3 in the network, and serves as the abstract specification of   *)
(* the top class of PriorityQueue.                                         *)
(***************************************************************************)
EXTENDS Integers, Sequences

CONSTANTS
  Packets,      \* the packets that may arrive: records with a field "size"
  Mode,         \* "packets" or "bytes": QUEUE_MODE_PACKETS, QUEUE_MODE_BYTES
  MaxPackets,   \* m_maxPackets
  MaxBytes      \* m_maxBytes

VARIABLES
  m_packets,      \* the queue
  m_bytesInQueue, \* its size in bytes
  returned        \* what the last call of Enqueue or Dequeue returned

vars == <<m_packets, m_bytesInQueue, returned>>

Accepted(p) == [call |-> "Enqueue", packet |-> p, ok |-> TRUE]
Refused(p)  == [call |-> "Enqueue", packet |-> p, ok |-> FALSE]
Sent(p)     == [call |-> "Dequeue", packet |-> p, ok |-> TRUE]
Nothing     == [call |-> "none"]

Init ==
  /\ m_packets = <<>>
  /\ m_bytesInQueue = 0
  /\ returned = Nothing

Full(p) ==
  \/ Mode = "packets" /\ Len(m_packets) >= MaxPackets
  \/ Mode = "bytes" /\ m_bytesInQueue + p.size >= MaxBytes

Enqueue(p) ==
  \/ /\ Full(p)
     /\ returned' = Refused(p)
     /\ UNCHANGED <<m_packets, m_bytesInQueue>>
  \/ /\ ~Full(p)
     /\ m_packets' = Append(m_packets, p)
     /\ m_bytesInQueue' = m_bytesInQueue + p.size
     /\ returned' = Accepted(p)

Dequeue ==
  /\ m_packets # <<>>
  /\ m_packets' = Tail(m_packets)
  /\ m_bytesInQueue' = m_bytesInQueue - Head(m_packets).size
  /\ returned' = Sent(Head(m_packets))

Next == Dequeue \/ \E p \in Packets : Enqueue(p)

Spec == Init /\ [][Next]_vars

=============================================================================
