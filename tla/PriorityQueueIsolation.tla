----------------------- MODULE PriorityQueueIsolation -----------------------
(***************************************************************************)
(* The classes 0 .. Watched of a PriorityQueue, taken on their own, are    *)
(* again a PriorityQueue: one of fewer classes, which the lower classes of *)
(* this one never enter.                                                   *)
(***************************************************************************)
EXTENDS PriorityQueue

UpperSlots == {s \in Slots : s[1] <= Watched}

\* What RC3's levels rely on: a recursive low priority loop at one level sees
\* only the traffic of its own level and above.  The lower classes decide
\* neither which packet is accepted, evicted or sent in the upper classes nor
\* what their counters say.
Upper == INSTANCE PriorityQueue
           WITH NumClasses <- Watched + 1,
                Priorities <- {n \in Priorities : n <= Watched},
                m_packets <- [i \in 0 .. Watched |-> m_packets[i]],
                m_bytesInSubQueue <- [i \in 0 .. Watched |-> m_bytesInSubQueue[i]],
                m_bytesInQueue <- Bytes(UpperSlots),
                m_nBytes <- Bytes(UpperSlots),
                m_totalpackets <- Cardinality(UpperSlots),
                m_nPackets <- Cardinality(UpperSlots)
UpperClassesAlone == Upper!Spec
=============================================================================
