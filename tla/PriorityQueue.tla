---------------------------- MODULE PriorityQueue ----------------------------
(***************************************************************************)
(* ns3::PriorityQueue (priority-queue.cc) behind its base class ns3::Queue *)
(* (queue.cc): the output queue RC3 puts on every link.  Packets are kept  *)
(* in NumClasses sub-queues, class 0 the highest.  A full queue makes room *)
(* for a packet by dropping packets of lower classes, from the tail of the *)
(* lowest class upwards; the sender of a completed flow may flush what is  *)
(* left of it from the lower classes.                                      *)
(*                                                                         *)
(* A slot <<i, k>> is the k-th place of class i.  Packets and bytes are    *)
(* counted as cardinalities of sets of slots and of bytes, so that the     *)
(* counters the code keeps are compared with what is really stored.        *)
(***************************************************************************)
EXTENDS Integers, Sequences, FiniteSets, Ranking

CONSTANTS
  NumClasses,    \* NUM_PRIORITY_QUEUES
  Priorities,    \* the priorities a MyPriorityTag may carry, beyond the
                 \* classes too; a packet without a tag counts as priority 0
  Flows,         \* the flow ids of the tags
  Sizes,         \* the packet sizes
  Mode,          \* m_mode: "packets" or "bytes"
  MaxPackets,    \* m_maxPackets
  MaxBytes,      \* m_maxBytes
  BackgroundDrop,\* m_backgrounddrop > 0
  Watched        \* the lowest class whose calls "returned" records

ASSUME ClassesAssumption == NumClasses \in Nat \ {0} /\ Watched \in 0 .. NumClasses - 1
ASSUME PacketsAssumption == Priorities \subseteq Nat /\ Sizes \subseteq Nat \ {0} /\ IsFiniteSet(Sizes)
ASSUME LimitsAssumption  == MaxPackets \in Nat /\ MaxBytes \in Nat
ASSUME ModeAssumption    == Mode \in {"packets", "bytes"} /\ BackgroundDrop \in BOOLEAN

Classes == 0 .. NumClasses - 1
Packets == [flow : Flows, prio : Priorities, size : Sizes]

VARIABLES
  m_packets,         \* the sub-queues
  m_bytesInSubQueue, \* PriorityQueue's counters
  m_bytesInQueue,
  m_totalpackets,
  m_nBytes,          \* Queue's counters
  m_nPackets,
  returned           \* what the last call about a class up to Watched returned

counters == <<m_bytesInSubQueue, m_bytesInQueue, m_totalpackets, m_nBytes, m_nPackets>>
vars == <<m_packets, counters, returned>>

-----------------------------------------------------------------------------
(* Slots and what they hold, for sub-queues q. *)

SlotsOf(q)     == UNION {{i} \X DOMAIN q[i] : i \in Classes}
Packet(q, s)   == q[s[1]][s[2]]
Cells(q, R)    == UNION {{s} \X (1 .. Packet(q, s).size) : s \in R}
BytesOf(q, R)  == Cardinality(Cells(q, R))
InClass(R, i)  == {s \in R : s[1] = i}

Slots    == SlotsOf(m_packets)
Bytes(R) == BytesOf(m_packets, R)

\* The sub-queues once the slots in R are taken out: what stays keeps its order.
KeptIn(q, R, i) == {k \in DOMAIN q[i] : <<i, k>> \notin R}
Remove(q, R) ==
  [i \in Classes |->
     [n \in 1 .. Cardinality(KeptIn(q, R, i)) |-> q[i][NthOf(KeptIn(q, R, i), n)]]]

Without(R) == Remove(m_packets, R)

\* Mutant: Queue::Enqueue forgets to count the bytes of the packet.
AccountBaseForgets(R, c, n, size) ==
  /\ m_bytesInSubQueue' = [i \in Classes |-> m_bytesInSubQueue[i] - Bytes(InClass(R, i))
                                             + (IF i = c THEN size ELSE 0)]
  /\ m_bytesInQueue' = m_bytesInQueue - Bytes(R) + size
  /\ m_totalpackets' = m_totalpackets - Cardinality(R) + n
  /\ m_nBytes' = m_nBytes - Bytes(R)
  /\ m_nPackets' = m_nPackets - Cardinality(R) + n

\* The counters once R is taken out and n packets of size bytes in all are
\* added to class c.  Queue and PriorityQueue each keep a pair of totals.
Account(R, c, n, size) ==
  /\ m_bytesInSubQueue' = [i \in Classes |-> m_bytesInSubQueue[i] - Bytes(InClass(R, i))
                                             + (IF i = c THEN size ELSE 0)]
  /\ m_bytesInQueue' = m_bytesInQueue - Bytes(R) + size
  /\ m_totalpackets' = m_totalpackets - Cardinality(R) + n
  /\ m_nBytes' = m_nBytes - Bytes(R) + size
  /\ m_nPackets' = m_nPackets - Cardinality(R) + n

-----------------------------------------------------------------------------
(* Making room. *)

\* A priority beyond the last class is stored in the last class, but
\* DropPacket is called with the priority of the tag.
ClassOf(p) == IF p.prio >= NumClasses THEN NumClasses - 1 ELSE p.prio

Lower(p) == {s \in Slots : s[1] > p.prio}

\* Mutant: DropPacket looks through the classes from the highest down.
DroppedBeforeUpsideDown(s) == {t \in Slots : t[1] < s[1] \/ (t[1] = s[1] /\ t[2] > s[2])}

\* The slots DropPacket empties before it comes to s: it looks for the last
\* packet of the lowest class that is not empty.
DroppedBefore(s) == {t \in Slots : t[1] > s[1] \/ (t[1] = s[1] /\ t[2] > s[2])}

\* Mutants: > where the code has >=.
TooManyPacketsOffByOne     == m_totalpackets > MaxPackets
TooManyBytesOffByOne(R, p) == m_bytesInQueue - Bytes(R) + p.size > MaxBytes

TooManyPackets     == m_totalpackets >= MaxPackets
TooManyBytes(R, p) == m_bytesInQueue - Bytes(R) + p.size >= MaxBytes

\* In packets mode DropPacket is called once; in bytes mode until p fits or
\* nothing of a lower class is left, so s goes when p does not fit without
\* what is dropped before s.
Evicted(p) ==
  {s \in Lower(p) :
     \/ Mode = "packets" /\ TooManyPackets /\ DroppedBefore(s) = {}
     \/ Mode = "bytes" /\ TooManyBytes(DroppedBefore(s), p)}

\* Mutant: a packet that does not fit is refused before room is made.
RefusesAtOnce(p) ==
  \/ Mode = "packets" /\ TooManyPackets /\ Lower(p) = {}
  \/ Mode = "bytes" /\ TooManyBytes({}, p)

Refuses(p) ==
  \/ Mode = "packets" /\ TooManyPackets /\ Lower(p) = {}
  \/ Mode = "bytes" /\ TooManyBytes(Evicted(p), p)

-----------------------------------------------------------------------------
Accepted(p) == [call |-> "Enqueue", packet |-> p, ok |-> TRUE]
Refused(p)  == [call |-> "Enqueue", packet |-> p, ok |-> FALSE]
Sent(p)     == [call |-> "Dequeue", packet |-> p, ok |-> TRUE]
Nothing     == [call |-> "none"]

Return(c, r) == returned' = IF c <= Watched THEN r ELSE returned

Init ==
  /\ m_packets = [i \in Classes |-> <<>>]
  /\ m_bytesInSubQueue = [i \in Classes |-> 0]
  /\ m_bytesInQueue = 0
  /\ m_totalpackets = 0
  /\ m_nBytes = 0
  /\ m_nPackets = 0
  /\ returned = Nothing

\* Queue::Enqueue: what was evicted is lost even when p is refused after all.
EnqueueRefused(p) ==
  /\ Refuses(p) \/ BackgroundDrop
  /\ m_packets' = Without(Evicted(p))
  /\ Account(Evicted(p), ClassOf(p), 0, 0)
  /\ Return(ClassOf(p), Refused(p))

EnqueueAccepted(p) ==
  /\ ~Refuses(p)
  /\ m_packets' = [Without(Evicted(p)) EXCEPT ![ClassOf(p)] = Append(@, p)]
  /\ Account(Evicted(p), ClassOf(p), 1, p.size)
  /\ Return(ClassOf(p), Accepted(p))

\* Queue::Dequeue: the first packet of the highest class that is not empty.
Dequeue(i) ==
  /\ m_packets[i] # <<>>
  /\ \A j \in Classes : j < i => m_packets[j] = <<>>
  /\ m_packets' = [m_packets EXCEPT ![i] = Tail(@)]
  /\ Account({<<i, 1>>}, i, 0, 0)
  /\ Return(i, Sent(Head(m_packets[i])))

\* FlushOutFlowPackets: class 0 is never flushed.
OfFlow(f) == {s \in Slots : s[1] > 0 /\ Packet(m_packets, s).flow = f}

\* Mutant: packets are erased without the counters.
FlushOutUncounted(f) ==
  /\ m_packets' = Without(OfFlow(f))
  /\ UNCHANGED <<counters, returned>>

FlushOutFlowPackets(f) ==
  /\ m_packets' = Without(OfFlow(f))
  /\ Account(OfFlow(f), 0, 0, 0)
  /\ UNCHANGED returned

Next ==
  \/ \E p \in Packets : EnqueueRefused(p)
  \/ \E p \in Packets : EnqueueAccepted(p)
  \/ \E i \in Classes : Dequeue(i)
  \/ \E f \in Flows : FlushOutFlowPackets(f)

Spec == Init /\ [][Next]_vars

-----------------------------------------------------------------------------
(* Properties. *)

\* The state has its type: sub-queues of packets, counters that did not wrap.
TypeOK ==
  /\ m_packets \in [Classes -> Seq(Packets)]
  /\ m_bytesInSubQueue \in [Classes -> Nat]
  /\ m_bytesInQueue \in Nat
  /\ m_totalpackets \in Nat
  /\ m_nBytes \in Nat
  /\ m_nPackets \in Nat

\* The counters of the base class and of the queue, kept by six functions
\* in two files, all tell what is really stored: IsEmpty, the device and the
\* admission test never act on a count that has drifted.
CountersAgree ==
  /\ m_totalpackets = Cardinality(Slots)
  /\ m_nPackets = Cardinality(Slots)
  /\ m_bytesInSubQueue = [i \in Classes |-> Bytes(InClass(Slots, i))]
  /\ m_bytesInQueue = Bytes(Slots)
  /\ m_nBytes = Bytes(Slots)

\* The buffer is never over its limit, although a packet is let in on the
\* strength of evictions: MaxPackets is reached, MaxBytes never is.
WithinLimit ==
  /\ Mode = "packets" => Cardinality(Slots) <= MaxPackets
  /\ Mode = "bytes" /\ Slots # {} => Bytes(Slots) < MaxBytes

\* RC3's claim that low priority traffic costs ordinary traffic nothing, for
\* the buffer: class 0 accepts, refuses and sends exactly what a DropTailQueue
\* of the same size does that no packet of another class ever enters.
TopClass == INSTANCE DropTailQueue
              WITH Packets <- {p \in Packets : ClassOf(p) = 0},
                   m_packets <- m_packets[0],
                   m_bytesInQueue <- m_bytesInSubQueue[0]
TopClassIsDropTail == TopClass!Spec
=============================================================================
