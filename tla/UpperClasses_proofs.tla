------------------------- MODULE UpperClasses_proofs -------------------------
(***************************************************************************)
(* The classes of a PriorityQueue down to Watched implement a              *)
(* PriorityQueue of their own, whatever the classes, the packets, the      *)
(* limits and the mode.                                                    *)
(*                                                                         *)
(* The queue cut off behind class Watched loses a slot or gains a packet   *)
(* exactly as the whole queue does in these classes.  What a packet        *)
(* evicts from them is the same with and without the lower classes: the    *)
(* lower ones are evicted first, so that they make no difference once the  *)
(* upper ones are reached.                                                 *)
(***************************************************************************)
EXTENDS PriorityQueueIsolation, PriorityQueue_proofs

UpperOf(R) == {s \in R : s[1] <= Watched}

\* The queue with nothing in the classes behind Watched.
Cut(q) == [i \in Classes |-> IF i <= Watched THEN q[i] ELSE <<>>]

-----------------------------------------------------------------------------
(* The queue cut off. *)

\* Classes are integers, and the watched ones are classes.
LEMMA ClassNumbers == Classes \in SUBSET Int /\ Watched \in Nat /\ 0 .. Watched = {i \in Classes : i <= Watched}
BY ClassesAssumption DEF Classes

\* What the queue cut off holds is what the queue holds in the watched classes.
LEMMA CutHolds ==
  ASSUME NEW q \in SubQueues
  PROVE  /\ Cut(q) \in SubQueues
         /\ SlotsOf(Cut(q)) = UpperOf(SlotsOf(q))
         /\ \A R \in SUBSET UpperOf(SlotsOf(q)) : BytesOf(Cut(q), R) = BytesOf(q, R)
<1>1. Cut(q) \in SubQueues
  <2>1. \A i \in Classes : q[i] \in Seq(Packets) /\ <<>> \in Seq(Packets)
    BY DEF SubQueues
  <2> QED
    BY <2>1 DEF Cut, SubQueues
<1>2. \A i \in Classes : DOMAIN Cut(q)[i] = IF i <= Watched THEN DOMAIN q[i] ELSE {}
  BY DEF Cut
<1>3. SlotsOf(Cut(q)) = UpperOf(SlotsOf(q))
  <2>1. ASSUME NEW s \in SlotsOf(Cut(q))
        PROVE  s \in UpperOf(SlotsOf(q))
    BY <1>1, <1>2, SlotType DEF UpperOf
  <2>2. ASSUME NEW s \in UpperOf(SlotsOf(q))
        PROVE  s \in SlotsOf(Cut(q))
    BY <1>1, <1>2, SlotType DEF UpperOf
  <2> QED
    BY <2>1, <2>2
<1>4. ASSUME NEW R \in SUBSET UpperOf(SlotsOf(q))
      PROVE  BytesOf(Cut(q), R) = BytesOf(q, R)
  <2>1. \A s \in R : Packet(Cut(q), s) = Packet(q, s)
    BY SlotType DEF Packet, Cut, UpperOf
  <2>2. Cells(Cut(q), R) = Cells(q, R)
    BY <2>1 DEF Cells
  <2> QED
    BY <2>2 DEF BytesOf
<1> QED
  BY <1>1, <1>3, <1>4

\* q2 has in the watched classes what q has there but for the slots R.
LEMMA CutCounts ==
  ASSUME NEW q \in SubQueues, NEW q2 \in SubQueues, NEW R \in SUBSET UpperOf(SlotsOf(q)),
         Moved(Cut(q), Cut(q2), R)
  PROVE  /\ Cardinality(UpperOf(SlotsOf(q2))) = Cardinality(UpperOf(SlotsOf(q))) - Cardinality(R)
         /\ BytesOf(q2, UpperOf(SlotsOf(q2)))
              = BytesOf(q, UpperOf(SlotsOf(q))) - BytesOf(q, R)
         /\ Cardinality(UpperOf(SlotsOf(q))) \in Nat /\ Cardinality(R) \in Nat
         /\ BytesOf(q, UpperOf(SlotsOf(q))) \in Nat /\ BytesOf(q, R) \in Nat
<1>1. Cut(q) \in SubQueues /\ Cut(q2) \in SubQueues /\ R \in SUBSET SlotsOf(Cut(q))
  BY CutHolds
<1>2. /\ Cardinality(SlotsOf(Cut(q2))) = Cardinality(SlotsOf(Cut(q))) - Cardinality(R)
      /\ BytesOf(Cut(q2), SlotsOf(Cut(q2))) = BytesOf(Cut(q), SlotsOf(Cut(q))) - BytesOf(Cut(q), R)
  BY <1>1, MovedCounts
<1>3. /\ SlotsOf(Cut(q)) = UpperOf(SlotsOf(q)) /\ SlotsOf(Cut(q2)) = UpperOf(SlotsOf(q2))
      /\ BytesOf(Cut(q), R) = BytesOf(q, R)
      /\ BytesOf(Cut(q), SlotsOf(Cut(q))) = BytesOf(q, UpperOf(SlotsOf(q)))
      /\ BytesOf(Cut(q2), SlotsOf(Cut(q2))) = BytesOf(q2, UpperOf(SlotsOf(q2)))
  BY CutHolds
<1>4. /\ IsFiniteSet(SlotsOf(Cut(q))) /\ IsFiniteSet(R)
      /\ BytesOf(Cut(q), SlotsOf(Cut(q))) \in Nat /\ BytesOf(Cut(q), R) \in Nat
  <2>1. SlotsOf(Cut(q)) \in SUBSET SlotsOf(Cut(q))
    OBVIOUS
  <2> QED
    BY <1>1, <2>1, CellsFinite
<1>5. Cardinality(SlotsOf(Cut(q))) \in Nat /\ Cardinality(R) \in Nat
  BY <1>4, FS_CardinalityType
<1> QED
  BY <1>2, <1>3, <1>4, <1>5

\* Slots are taken out of the watched classes as if there were no others.
LEMMA CutRemove ==
  ASSUME NEW q \in SubQueues, NEW R \in SUBSET SlotsOf(q)
  PROVE  Cut(Remove(q, R)) = Remove(Cut(q), UpperOf(R))
<1>1. ASSUME NEW i \in Classes, i <= Watched
      PROVE  Cut(Remove(q, R))[i] = Remove(Cut(q), UpperOf(R))[i]
  <2>1. Cut(q)[i] = q[i] /\ Cut(Remove(q, R))[i] = Remove(q, R)[i]
    BY <1>1 DEF Cut
  <2>2. KeptIn(Cut(q), UpperOf(R), i) = KeptIn(q, R, i)
    BY <1>1, <2>1 DEF KeptIn, UpperOf
  <2> QED
    BY <2>1, <2>2 DEF Remove
<1>2. ASSUME NEW i \in Classes, ~(i <= Watched)
      PROVE  Cut(Remove(q, R))[i] = Remove(Cut(q), UpperOf(R))[i]
  <2>1. Cut(q)[i] = <<>> /\ Cut(Remove(q, R))[i] = <<>>
    BY <1>2 DEF Cut
  <2>2. KeptIn(Cut(q), UpperOf(R), i) = {}
    BY <2>1 DEF KeptIn
  <2>3. Cardinality({}) = 0
    BY FS_EmptySet
  <2>4. Remove(Cut(q), UpperOf(R))[i] = <<>>
    <3>1. UpperOf(R) \in SUBSET SlotsOf(Cut(q)) /\ Cut(q) \in SubQueues
      BY CutHolds DEF UpperOf
    <3>2. Remove(Cut(q), UpperOf(R)) \in SubQueues
      BY <3>1, RemoveMoves
    <3>3. Remove(Cut(q), UpperOf(R))[i] \in Seq(Packets)
      BY <3>2 DEF SubQueues
    <3>4. DOMAIN Remove(Cut(q), UpperOf(R))[i] = {}
      BY <2>2, <2>3 DEF Remove
    <3>5. Len(Remove(Cut(q), UpperOf(R))[i]) = 0
      <4> DEFINE s == Remove(Cut(q), UpperOf(R))[i]
      <4>1. Len(s) \in Nat /\ DOMAIN s = 1 .. Len(s)
        BY <3>3, LenProperties
      <4> HIDE DEF s
      <4>2. Len(s) > 0 => 1 \in DOMAIN s
        BY <4>1
      <4>3. DOMAIN s = {}
        BY <3>4 DEF s
      <4>4. Len(s) = 0
        BY <4>1, <4>2, <4>3
      <4> QED
        BY <4>4 DEF s
    <3> QED
      BY <3>3, <3>5, EmptySeq
  <2> QED
    BY <2>1, <2>4
<1>3. /\ Cut(Remove(q, R)) = [i \in Classes |-> Cut(Remove(q, R))[i]]
      /\ Remove(Cut(q), UpperOf(R)) = [i \in Classes |-> Remove(Cut(q), UpperOf(R))[i]]
  BY DEF Cut, Remove
<1> QED
  BY <1>1, <1>2, <1>3

\* Counting what is left in the watched classes once R is taken out.
LEMMA UpperTaken ==
  ASSUME NEW q \in SubQueues, NEW R \in SUBSET SlotsOf(q)
  PROVE  LET q2 == Remove(q, R)
         IN  /\ q2 \in SubQueues
             /\ Cardinality(UpperOf(SlotsOf(q2)))
                  = Cardinality(UpperOf(SlotsOf(q))) - Cardinality(UpperOf(R))
             /\ BytesOf(q2, UpperOf(SlotsOf(q2)))
                  = BytesOf(q, UpperOf(SlotsOf(q))) - BytesOf(q, UpperOf(R))
             /\ Cardinality(UpperOf(SlotsOf(q))) \in Nat /\ Cardinality(UpperOf(R)) \in Nat
             /\ BytesOf(q, UpperOf(SlotsOf(q))) \in Nat /\ BytesOf(q, UpperOf(R)) \in Nat
<1> DEFINE q2 == Remove(q, R)
           U == UpperOf(R)
<1>1. q2 \in SubQueues
  BY RemoveMoves
<1>2. U \in SUBSET UpperOf(SlotsOf(q))
  BY DEF UpperOf
<1>3. Cut(q) \in SubQueues /\ U \in SUBSET SlotsOf(Cut(q))
  BY <1>2, CutHolds
<1>4. Cut(q2) = Remove(Cut(q), U)
  BY CutRemove
<1>5. Moved(Cut(q), Cut(q2), U)
  <2> HIDE DEF U, q2
  <2> QED
    BY <1>3, <1>4, RemoveMoves
<1> HIDE DEF U, q2
<1>6. /\ Cardinality(UpperOf(SlotsOf(q2))) = Cardinality(UpperOf(SlotsOf(q))) - Cardinality(U)
      /\ BytesOf(q2, UpperOf(SlotsOf(q2)))
           = BytesOf(q, UpperOf(SlotsOf(q))) - BytesOf(q, U)
      /\ Cardinality(UpperOf(SlotsOf(q))) \in Nat /\ Cardinality(U) \in Nat
      /\ BytesOf(q, UpperOf(SlotsOf(q))) \in Nat /\ BytesOf(q, U) \in Nat
  BY <1>1, <1>2, <1>5, CutCounts
<1> QED
  BY <1>1, <1>6 DEF U, q2

\* Counting a packet appended to a watched class.
LEMMA UpperAppended ==
  ASSUME NEW q \in SubQueues, NEW c \in Classes, c <= Watched, NEW p \in Packets
  PROVE  LET q2 == [q EXCEPT ![c] = Append(@, p)]
         IN  /\ q2 \in SubQueues
             /\ Cardinality(UpperOf(SlotsOf(q2))) = Cardinality(UpperOf(SlotsOf(q))) + 1
             /\ BytesOf(q2, UpperOf(SlotsOf(q2))) = BytesOf(q, UpperOf(SlotsOf(q))) + p.size
<1> DEFINE q2 == [q EXCEPT ![c] = Append(@, p)]
           s2 == <<c, Len(q[c]) + 1>>
<1>1. q2 \in SubQueues /\ s2 \in SlotsOf(q2) /\ Packet(q2, s2) = p
  BY AppendMoves
<1>2. Cut(q) \in SubQueues /\ Cut(q)[c] = q[c] /\ Cut(q2) = [Cut(q) EXCEPT ![c] = Append(@, p)]
  <2>1. Cut(q) \in SubQueues
    BY CutHolds
  <2>2. Cut(q)[c] = q[c]
    BY DEF Cut
  <2>3. \A i \in Classes : Cut(q2)[i] = [Cut(q) EXCEPT ![c] = Append(@, p)][i]
    BY DEF Cut, SubQueues
  <2>4. Cut(q2) = [i \in Classes |-> Cut(q2)[i]]
    BY DEF Cut
  <2>5. [Cut(q) EXCEPT ![c] = Append(@, p)] = [i \in Classes |-> [Cut(q) EXCEPT ![c] = Append(@, p)][i]]
    BY DEF Cut
  <2> QED
    BY <2>1, <2>2, <2>3, <2>4, <2>5
<1>3. Moved(Cut(q2), Cut(q), {s2})
  <2>1. s2 = <<c, Len(Cut(q)[c]) + 1>>
    BY <1>2
  <2>2. Moved([Cut(q) EXCEPT ![c] = Append(@, p)], Cut(q), {<<c, Len(Cut(q)[c]) + 1>>})
    BY <1>2, AppendMoves
  <2> HIDE DEF q2, s2
  <2> QED
    BY <1>2, <2>1, <2>2
<1>4. s2[1] = c
  OBVIOUS
<1> HIDE DEF q2, s2
<1>5. {s2} \in SUBSET UpperOf(SlotsOf(q2))
  BY <1>1, <1>4 DEF UpperOf
<1>6. Cardinality({s2}) = 1 /\ BytesOf(q2, {s2}) = p.size
  BY <1>1, OneSlot
<1>7. /\ Cardinality(UpperOf(SlotsOf(q))) = Cardinality(UpperOf(SlotsOf(q2))) - 1
      /\ BytesOf(q, UpperOf(SlotsOf(q))) = BytesOf(q2, UpperOf(SlotsOf(q2))) - p.size
      /\ Cardinality(UpperOf(SlotsOf(q2))) \in Nat
      /\ BytesOf(q2, UpperOf(SlotsOf(q2))) \in Nat
      /\ p.size \in Nat
  BY <1>1, <1>3, <1>5, <1>6, CutCounts
<1>8. Cardinality(UpperOf(SlotsOf(q2))) = Cardinality(UpperOf(SlotsOf(q))) + 1
  BY <1>7
<1>9. BytesOf(q2, UpperOf(SlotsOf(q2))) = BytesOf(q, UpperOf(SlotsOf(q))) + p.size
  BY <1>7
<1> QED
  BY <1>1, <1>8, <1>9 DEF q2
\* Counting when the first packet of a watched class is taken.
LEMMA UpperFirst ==
  ASSUME NEW q \in SubQueues, NEW i \in Classes, i <= Watched, q[i] # <<>>
  PROVE  LET q2 == [q EXCEPT ![i] = Tail(@)]
         IN  /\ Cardinality(UpperOf(SlotsOf(q2))) = Cardinality(UpperOf(SlotsOf(q))) - 1
             /\ BytesOf(q2, UpperOf(SlotsOf(q2)))
                  = BytesOf(q, UpperOf(SlotsOf(q))) - BytesOf(q, {<<i, 1>>})
             /\ Cardinality(UpperOf(SlotsOf(q))) \in Nat
             /\ BytesOf(q, UpperOf(SlotsOf(q))) \in Nat /\ BytesOf(q, {<<i, 1>>}) \in Nat
<1> DEFINE q2 == [q EXCEPT ![i] = Tail(@)]
           R == {<<i, 1>>}
<1>1. q2 \in SubQueues /\ <<i, 1>> \in SlotsOf(q)
  BY TailMoves
<1>2. Cut(q) \in SubQueues /\ Cut(q)[i] = q[i] /\ Cut(q2) = [Cut(q) EXCEPT ![i] = Tail(@)]
  <2>1. Cut(q) \in SubQueues
    BY CutHolds
  <2>2. Cut(q)[i] = q[i]
    BY DEF Cut
  <2>3. \A j \in Classes : Cut(q2)[j] = [Cut(q) EXCEPT ![i] = Tail(@)][j]
    BY DEF Cut, SubQueues
  <2>4. Cut(q2) = [j \in Classes |-> Cut(q2)[j]]
    BY DEF Cut
  <2>5. [Cut(q) EXCEPT ![i] = Tail(@)] = [j \in Classes |-> [Cut(q) EXCEPT ![i] = Tail(@)][j]]
    BY DEF Cut
  <2> QED
    BY <2>1, <2>2, <2>3, <2>4, <2>5
<1>3. Moved(Cut(q), Cut(q2), R)
  <2>1. Moved(Cut(q), [Cut(q) EXCEPT ![i] = Tail(@)], {<<i, 1>>})
    BY <1>2, TailMoves
  <2> HIDE DEF q2
  <2> QED
    BY <1>2, <2>1
<1>4. R \in SUBSET UpperOf(SlotsOf(q)) /\ Cardinality(R) = 1
  BY <1>1, OneSlot DEF UpperOf
<1> HIDE DEF q2, R
<1>5. /\ Cardinality(UpperOf(SlotsOf(q2))) = Cardinality(UpperOf(SlotsOf(q))) - Cardinality(R)
      /\ BytesOf(q2, UpperOf(SlotsOf(q2))) = BytesOf(q, UpperOf(SlotsOf(q))) - BytesOf(q, R)
      /\ Cardinality(UpperOf(SlotsOf(q))) \in Nat
      /\ BytesOf(q, UpperOf(SlotsOf(q))) \in Nat /\ BytesOf(q, R) \in Nat
  BY <1>1, <1>3, <1>4, CutCounts
<1> QED
  BY <1>4, <1>5 DEF q2, R

-----------------------------------------------------------------------------
(* The names of the queue of watched classes. *)

\* The watched classes are the classes of the smaller queue, and its slots
\* and bytes are the ones of these classes.
LEMMA UpperNames ==
  ASSUME m_packets \in SubQueues
  PROVE  /\ Upper!Classes = 0 .. Watched
         /\ UpperSlots = UpperOf(Slots)
         /\ Upper!Slots = UpperSlots
         /\ \A R \in SUBSET UpperSlots : Upper!Bytes(R) = Bytes(R)
         /\ \A S : Upper!Cardinality(S) = Cardinality(S)
         /\ \A R, i : Upper!InClass(R, i) = InClass(R, i)
<1> DEFINE u == [i \in 0 .. Watched |-> m_packets[i]]
<1>1. Upper!Classes = 0 .. Watched
  BY ClassNumbers DEF Upper!Classes
<1>2. UpperSlots = UpperOf(Slots)
  BY DEF UpperSlots, UpperOf
<1>3. Upper!Slots = UpperSlots
  <2>1. Upper!Slots = UNION {{i} \X DOMAIN m_packets[i] : i \in 0 .. Watched}
    BY <1>1 DEF Upper!Slots, Upper!SlotsOf
  <2>2. ASSUME NEW s \in Upper!Slots
        PROVE  s \in UpperSlots
    <3>1. PICK i \in 0 .. Watched : s \in {i} \X DOMAIN m_packets[i]
      BY <2>1
    <3>2. i \in Classes /\ i <= Watched
      BY ClassNumbers
    <3> QED
      BY <3>1, <3>2 DEF UpperSlots, Slots, SlotsOf
  <2>3. ASSUME NEW s \in UpperSlots
        PROVE  s \in Upper!Slots
    <3>1. s = <<s[1], s[2]>> /\ s[1] \in Classes /\ s[2] \in DOMAIN m_packets[s[1]] /\ s[1] <= Watched
      BY SlotType DEF UpperSlots, Slots
    <3>2. s[1] \in 0 .. Watched
      BY <3>1, ClassNumbers
    <3> QED
      BY <2>1, <3>1, <3>2
  <2> QED
    BY <2>2, <2>3
<1>4. \A S : Upper!Cardinality(S) = Cardinality(S)
  BY DEF Upper!Cardinality, Cardinality
<1>5. ASSUME NEW R \in SUBSET UpperSlots
      PROVE  Upper!Bytes(R) = Bytes(R)
  <2>1. \A s \in R : s[1] \in 0 .. Watched
    <3>1. \A s \in R : s[1] \in Classes /\ s[1] <= Watched
      BY SlotType DEF UpperSlots, Slots
    <3> QED
      BY <3>1, ClassNumbers
  <2>2. \A s \in R : Upper!Packet(u, s) = Packet(m_packets, s)
    BY <2>1 DEF Upper!Packet, Packet
  <2>3. Upper!Cells(u, R) = Cells(m_packets, R)
    <3> HIDE DEF u
    <3> QED
      BY <2>2 DEF Upper!Cells, Cells
  <2> QED
    BY <1>4, <2>3 DEF Upper!Bytes, Upper!BytesOf, Bytes, BytesOf
<1>6. \A R, i : Upper!InClass(R, i) = InClass(R, i)
  BY DEF Upper!InClass, InClass
<1> QED
  BY <1>1, <1>2, <1>3, <1>4, <1>5, <1>6

\* Taking slots out of the smaller queue.
LEMMA UpperWithout ==
  ASSUME m_packets \in SubQueues, NEW R \in SUBSET Slots
  PROVE  Upper!Without(UpperOf(R)) = [i \in 0 .. Watched |-> Without(R)[i]]
<1> DEFINE u == [i \in 0 .. Watched |-> m_packets[i]]
<1>1. \A K, n : Upper!NthOf(K, n) = NthOf(K, n)
  BY UpperNames DEF Upper!NthOf, NthOf, Upper!Rank, Rank
<1>2. ASSUME NEW i \in 0 .. Watched
      PROVE  Upper!KeptIn(u, UpperOf(R), i) = KeptIn(m_packets, R, i)
  BY ClassNumbers DEF Upper!KeptIn, KeptIn, UpperOf
<1>3. ASSUME NEW i \in 0 .. Watched
      PROVE  Without(R)[i] = [n \in 1 .. Cardinality(KeptIn(m_packets, R, i)) |->
                                m_packets[i][NthOf(KeptIn(m_packets, R, i), n)]]
  BY ClassNumbers DEF Without, Remove
<1>4. Upper!Without(UpperOf(R)) =
        [i \in 0 .. Watched |->
           [n \in 1 .. Cardinality(KeptIn(m_packets, R, i)) |->
              m_packets[i][NthOf(KeptIn(m_packets, R, i), n)]]]
  <2>1. Upper!Without(UpperOf(R)) =
          [i \in 0 .. Watched |->
             [n \in 1 .. Upper!Cardinality(Upper!KeptIn(u, UpperOf(R), i)) |->
                u[i][Upper!NthOf(Upper!KeptIn(u, UpperOf(R), i), n)]]]
    BY UpperNames DEF Upper!Without, Upper!Remove
  <2>2. \A i \in 0 .. Watched : u[i] = m_packets[i]
    OBVIOUS
  <2> HIDE DEF u
  <2> QED
    BY <1>1, <1>2, <2>1, <2>2, UpperNames
<1> QED
  BY <1>3, <1>4

\* A packet of a watched class is one of the smaller queue, of the same class.
LEMMA UpperPackets ==
  ASSUME Watched < NumClasses - 1, NEW p \in Packets
  PROVE  /\ p.prio \in Nat
         /\ ClassOf(p) <= Watched <=> p.prio <= Watched
         /\ ClassOf(p) <= Watched => p \in Upper!Packets /\ Upper!ClassOf(p) = ClassOf(p)
                                     /\ ClassOf(p) = p.prio
<1>1. p.prio \in Nat /\ p.prio \in Priorities /\ p.flow \in Flows /\ p.size \in Sizes
      /\ p = [flow |-> p.flow, prio |-> p.prio, size |-> p.size]
  BY PacketsAssumption DEF Packets
<1>2. NumClasses \in Nat \ {0} /\ Watched \in Nat
  BY ClassesAssumption
<1>3. ClassOf(p) <= Watched <=> p.prio <= Watched
  BY <1>1, <1>2 DEF ClassOf
<1>4. ASSUME p.prio <= Watched
      PROVE  p \in Upper!Packets /\ Upper!ClassOf(p) = ClassOf(p) /\ ClassOf(p) = p.prio
  <2>1. p \in Upper!Packets
    BY <1>1, <1>4 DEF Upper!Packets
  <2>2. ClassOf(p) = p.prio
    BY <1>1, <1>2, <1>4 DEF ClassOf
  <2>3. Upper!ClassOf(p) = p.prio
    BY <1>1, <1>2, <1>4 DEF Upper!ClassOf
  <2> QED
    BY <2>1, <2>2, <2>3
<1> QED
  BY <1>1, <1>3, <1>4
-----------------------------------------------------------------------------
(* What a packet evicts, and whether it is refused. *)

Behind == Slots \ UpperSlots

\* DropPacket comes to the watched classes when nothing is left behind them.
LEMMA DroppedBehind ==
  ASSUME m_packets \in SubQueues, NEW s \in UpperSlots
  PROVE  /\ Behind \in SUBSET DroppedBefore(s)
         /\ DroppedBefore(s) \in SUBSET Slots
         /\ Upper!DroppedBefore(s) = UpperOf(DroppedBefore(s))
         /\ Upper!DroppedBefore(s) = DroppedBefore(s) \ Behind
         /\ Upper!DroppedBefore(s) \in SUBSET UpperSlots
<1>1. \A t \in Slots : t[1] \in Int
  BY SlotType, ClassNumbers DEF Slots
<1>2. s \in Slots /\ s[1] <= Watched /\ Watched \in Int
  BY ClassNumbers DEF UpperSlots
<1>3. Behind \in SUBSET DroppedBefore(s)
  BY <1>1, <1>2 DEF Behind, UpperSlots, DroppedBefore
<1>4. Upper!DroppedBefore(s) = UpperOf(DroppedBefore(s))
  BY UpperNames DEF Upper!DroppedBefore, DroppedBefore, UpperOf
<1>5. DroppedBefore(s) \in SUBSET Slots
  BY DEF DroppedBefore
<1> QED
  BY <1>3, <1>4, <1>5 DEF Behind, UpperSlots, UpperOf

\* The bytes of the watched classes are what all but the others' bytes are.
LEMMA BytesBehind ==
  ASSUME m_packets \in SubQueues, NEW S \in SUBSET Slots, Behind \in SUBSET S
  PROVE  /\ Bytes(Slots) - Bytes(S) = Bytes(UpperSlots) - Bytes(S \ Behind)
         /\ Bytes(Slots) \in Nat /\ Bytes(S) \in Nat /\ Bytes(UpperSlots) \in Nat
         /\ Bytes(S \ Behind) \in Nat /\ Bytes(Behind) \in Nat
         /\ Bytes(UpperSlots) = Bytes(Slots) - Bytes(Behind)
<1>1. UpperSlots = Slots \ Behind /\ Behind \in SUBSET Slots
  BY DEF Behind, UpperSlots
<1>2. /\ Slots \in SUBSET SlotsOf(m_packets) /\ S \in SUBSET SlotsOf(m_packets)
      /\ UpperSlots \in SUBSET SlotsOf(m_packets) /\ S \ Behind \in SUBSET SlotsOf(m_packets)
      /\ Behind \in SUBSET SlotsOf(m_packets)
  BY <1>1 DEF Slots
<1>3. Bytes(UpperSlots) = Bytes(Slots) - Bytes(Behind)
  BY <1>1, <1>2, Parts DEF Bytes
<1>4. Bytes(S \ Behind) = Bytes(S) - Bytes(Behind)
  BY <1>2, Parts DEF Bytes
<1>5. /\ Bytes(Slots) \in Nat /\ Bytes(S) \in Nat /\ Bytes(UpperSlots) \in Nat
      /\ Bytes(S \ Behind) \in Nat /\ Bytes(Behind) \in Nat
  BY <1>2, CellsFinite DEF Bytes
<1> QED
  BY <1>3, <1>4, <1>5

\* In packets mode the watched classes can only be full when nothing is stored
\* behind them.
LEMMA FullIsAllUpper ==
  ASSUME Inv, WithinLimit, Mode = "packets"
  PROVE  Upper!TooManyPackets <=> TooManyPackets /\ Behind = {}
<1>1. m_packets \in SubQueues /\ UpperSlots \in SUBSET Slots /\ (Behind = {} <=> UpperSlots = Slots)
  BY DEF Inv, UpperSlots, Behind
<1>2. IsFiniteSet(Slots)
  BY <1>1, CellsFinite DEF Slots
<1>3. /\ Cardinality(Slots) \in Nat /\ Cardinality(UpperSlots) \in Nat
      /\ Cardinality(UpperSlots) <= Cardinality(Slots)
      /\ Cardinality(Slots) = Cardinality(UpperSlots) => UpperSlots = Slots
  BY <1>1, <1>2, FS_Subset, FS_CardinalityType
<1>4. Cardinality(Slots) <= MaxPackets /\ m_totalpackets = Cardinality(Slots) /\ MaxPackets \in Nat
  BY LimitsAssumption DEF WithinLimit, Inv, CountersAgree
<1>5. Upper!TooManyPackets <=> Cardinality(UpperSlots) >= MaxPackets
  BY DEF Upper!TooManyPackets
<1>6. TooManyPackets <=> Cardinality(Slots) >= MaxPackets
  BY <1>4 DEF TooManyPackets
<1> QED
  BY <1>1, <1>3, <1>4, <1>5, <1>6

\* In bytes mode a slot of the watched classes is reached in the whole queue
\* with the same bytes before it as in the smaller one.
LEMMA SameBytesBefore ==
  ASSUME Inv, NEW p, NEW s \in UpperSlots
  PROVE  Upper!TooManyBytes(Upper!DroppedBefore(s), p) <=> TooManyBytes(DroppedBefore(s), p)
<1>1. m_packets \in SubQueues /\ m_bytesInQueue = Bytes(Slots)
  BY DEF Inv, CountersAgree
<1>2. Upper!Bytes(Upper!DroppedBefore(s)) = Bytes(DroppedBefore(s) \ Behind)
  BY <1>1, DroppedBehind, UpperNames
<1>3. Bytes(Slots) - Bytes(DroppedBefore(s)) = Bytes(UpperSlots) - Bytes(DroppedBefore(s) \ Behind)
  BY <1>1, DroppedBehind, BytesBehind
<1> QED
  BY <1>1, <1>2, <1>3 DEF Upper!TooManyBytes, TooManyBytes

\* A packet of a watched class evicts from the watched classes the same slots.
LEMMA UpperEvicts ==
  ASSUME Inv, WithinLimit, NEW p \in Packets
  PROVE  Upper!Evicted(p) = UpperOf(Evicted(p)) /\ UpperOf(Evicted(p)) \in SUBSET UpperSlots
<1>1. m_packets \in SubQueues
  BY DEF Inv
<1>2. Upper!Lower(p) = UpperOf(Lower(p))
  BY <1>1, UpperNames DEF Upper!Lower, Lower, UpperOf
<1>3. Lower(p) \in SUBSET Slots /\ UpperOf(Lower(p)) \in SUBSET UpperSlots
  BY DEF Lower, UpperOf, UpperSlots
<1>4. ASSUME NEW s \in UpperOf(Lower(p)), Mode = "packets"
      PROVE  Upper!TooManyPackets /\ Upper!DroppedBefore(s) = {}
               <=> TooManyPackets /\ DroppedBefore(s) = {}
  <2>1. s \in UpperSlots
    BY <1>3
  <2>2. Behind \in SUBSET DroppedBefore(s) /\ Upper!DroppedBefore(s) = DroppedBefore(s) \ Behind
    BY <1>1, <2>1, DroppedBehind
  <2>3. Upper!TooManyPackets <=> TooManyPackets /\ Behind = {}
    BY <1>4, FullIsAllUpper
  <2> QED
    BY <2>2, <2>3
<1>5. ASSUME NEW s \in UpperOf(Lower(p))
      PROVE  Upper!TooManyBytes(Upper!DroppedBefore(s), p) <=> TooManyBytes(DroppedBefore(s), p)
  BY <1>3, SameBytesBefore
<1>6. Upper!Evicted(p) = {s \in UpperOf(Lower(p)) :
         \/ Mode = "packets" /\ Upper!TooManyPackets /\ Upper!DroppedBefore(s) = {}
         \/ Mode = "bytes" /\ Upper!TooManyBytes(Upper!DroppedBefore(s), p)}
  BY <1>2 DEF Upper!Evicted
<1>7. Upper!Evicted(p) = {s \in UpperOf(Lower(p)) :
         \/ Mode = "packets" /\ TooManyPackets /\ DroppedBefore(s) = {}
         \/ Mode = "bytes" /\ TooManyBytes(DroppedBefore(s), p)}
  BY <1>4, <1>5, <1>6
<1>8. Upper!Evicted(p) = UpperOf(Evicted(p))
  BY <1>7 DEF Evicted, UpperOf
<1> QED
  BY <1>3, <1>8 DEF UpperOf, Evicted

\* In bytes mode, when something is left behind the watched classes, the
\* packet fits, with the lower classes and all the more without them.
LEMMA FitsBefore ==
  ASSUME Inv, Mode = "bytes", NEW p \in Packets, p.prio <= Watched, ~(Behind \subseteq Evicted(p))
  PROVE  /\ ~TooManyBytes(Evicted(p), p)
         /\ ~(Bytes(UpperSlots) - Bytes(UpperOf(Evicted(p))) + p.size >= MaxBytes)
<1>1. m_packets \in SubQueues /\ m_bytesInQueue = Bytes(Slots)
  BY DEF Inv, CountersAgree
<1>2. Behind \ Evicted(p) \in SUBSET Slots /\ Behind \ Evicted(p) # {}
  BY DEF Behind
<1>3. PICK t \in Behind \ Evicted(p) : (Behind \ Evicted(p)) \cap DroppedBefore(t) = {}
  BY <1>1, <1>2, FirstDropped
<1>4. /\ p.prio \in Nat /\ Watched \in Nat /\ \A s \in Slots : s[1] \in Int
      /\ t \in Slots /\ t[1] > Watched
  <2>1. \A s \in Slots : s[1] \in Int
    BY <1>1, SlotType, ClassNumbers DEF Slots
  <2>2. t \in Slots /\ ~(t[1] <= Watched)
    BY <1>3 DEF Behind, UpperSlots
  <2>3. p.prio \in Nat /\ Watched \in Nat
    BY ClassNumbers, PacketsAssumption DEF Packets
  <2> QED
    BY <2>1, <2>2, <2>3
<1>5. t \in Lower(p) /\ DroppedBefore(t) \in SUBSET Behind
  BY <1>4 DEF Lower, DroppedBefore, Behind, UpperSlots
<1>6. DroppedBefore(t) \in SUBSET Evicted(p)
  BY <1>3, <1>5
<1>7. ~TooManyBytes(DroppedBefore(t), p)
  BY <1>3, <1>5 DEF Evicted
<1>8. Evicted(p) \in SUBSET Slots /\ Behind \in SUBSET Slots
  BY DEF Evicted, Lower, Behind
<1>9. /\ Bytes(DroppedBefore(t)) \in Nat /\ Bytes(Evicted(p)) \in Nat /\ Bytes(Behind) \in Nat
      /\ Bytes(DroppedBefore(t)) <= Bytes(Evicted(p))
      /\ Bytes(DroppedBefore(t)) <= Bytes(Behind)
  BY <1>1, <1>5, <1>6, <1>8, PartOfBytes
<1>10. Bytes(UpperSlots) = Bytes(Slots) - Bytes(Behind) /\ Bytes(Slots) \in Nat /\ Bytes(UpperSlots) \in Nat
  BY <1>1, <1>8, BytesBehind
<1>11. Bytes(UpperOf(Evicted(p))) \in Nat
  <2>1. UpperOf(Evicted(p)) \in SUBSET Slots
    BY <1>8 DEF UpperOf
  <2> QED
    BY <1>1, <2>1, CellsFinite DEF Slots, Bytes
<1>12. p.size \in Nat /\ MaxBytes \in Nat
  BY PacketsAssumption, LimitsAssumption DEF Packets
<1>13. ~(Bytes(Slots) - Bytes(DroppedBefore(t)) + p.size >= MaxBytes)
  BY <1>1, <1>7 DEF TooManyBytes
<1>14. ~TooManyBytes(Evicted(p), p)
  BY <1>1, <1>9, <1>10, <1>12, <1>13 DEF TooManyBytes
<1> QED
  BY <1>9, <1>10, <1>11, <1>12, <1>13, <1>14

\* A packet of a watched class is refused by the whole queue exactly when the
\* smaller one refuses it.
LEMMA UpperRefuses ==
  ASSUME Inv, WithinLimit, NEW p \in Packets, p.prio <= Watched
  PROVE  Upper!Refuses(p) <=> Refuses(p)
<1>1. m_packets \in SubQueues /\ m_bytesInQueue = Bytes(Slots)
  BY DEF Inv, CountersAgree
<1>2. CASE Mode = "packets"
  <2>1. Upper!TooManyPackets <=> TooManyPackets /\ Behind = {}
    BY <1>2, FullIsAllUpper
  <2>2. Upper!Lower(p) = UpperOf(Lower(p))
    BY <1>1, UpperNames DEF Upper!Lower, Lower, UpperOf
  <2>3. Lower(p) = {} <=> UpperOf(Lower(p)) = {} /\ Behind = {}
    <3>1. /\ p.prio \in Nat /\ Watched \in Nat
          /\ \A s \in Slots : s[1] \in Int
      BY <1>1, SlotType, ClassNumbers, PacketsAssumption DEF Slots, Packets
    <3> QED
      BY <3>1 DEF Lower, UpperOf, Behind, UpperSlots
  <2>4. Upper!Refuses(p) <=> Upper!TooManyPackets /\ Upper!Lower(p) = {}
    BY <1>2 DEF Upper!Refuses
  <2>5. Refuses(p) <=> TooManyPackets /\ Lower(p) = {}
    BY <1>2 DEF Refuses
  <2> QED
    BY <2>1, <2>2, <2>3, <2>4, <2>5
<1>3. CASE Mode = "bytes"
  <2>1. Upper!Refuses(p) <=> Bytes(UpperSlots) - Bytes(UpperOf(Evicted(p))) + p.size >= MaxBytes
    <3>1. Upper!Evicted(p) = UpperOf(Evicted(p)) /\ UpperOf(Evicted(p)) \in SUBSET UpperSlots
      BY UpperEvicts
    <3>2. Upper!Bytes(Upper!Evicted(p)) = Bytes(UpperOf(Evicted(p)))
      BY <1>1, <3>1, UpperNames
    <3> QED
      BY <1>3, <3>2 DEF Upper!Refuses, Upper!TooManyBytes
  <2>2. Refuses(p) <=> TooManyBytes(Evicted(p), p)
    BY <1>3 DEF Refuses
  <2>3. CASE Behind \subseteq Evicted(p)
    <3>1. Evicted(p) \in SUBSET Slots /\ UpperOf(Evicted(p)) = Evicted(p) \ Behind
      BY DEF Evicted, Lower, UpperOf, Behind, UpperSlots
    <3>2. Bytes(Slots) - Bytes(Evicted(p)) = Bytes(UpperSlots) - Bytes(UpperOf(Evicted(p)))
      BY <1>1, <2>3, <3>1, BytesBehind
    <3> QED
      BY <1>1, <2>1, <2>2, <3>2 DEF TooManyBytes
  <2>4. CASE ~(Behind \subseteq Evicted(p))
    BY <1>3, <2>1, <2>2, <2>4, FitsBefore
  <2> QED
    BY <2>3, <2>4
<1> QED
  BY <1>2, <1>3, ModeAssumption
-----------------------------------------------------------------------------
(* Every call is a call of the smaller queue, or nothing to it. *)

\* What Account does to the counters of the watched classes, when what it is
\* told has become of the queue.
LEMMA UpperAccount ==
  ASSUME Inv, NEW R \in SUBSET Slots, NEW c \in Classes, NEW n, NEW size, Account(R, c, n, size),
         Cardinality(UpperSlots') = Cardinality(UpperSlots) - Cardinality(UpperOf(R)) + n,
         Bytes(UpperSlots)' = Bytes(UpperSlots) - Bytes(UpperOf(R)) + size
  PROVE  Upper!Account(UpperOf(R), c, n, size)
<1>1. m_packets \in SubQueues /\ UpperOf(R) \in SUBSET UpperSlots
  BY DEF Inv, UpperOf, UpperSlots
<1>2. Upper!Bytes(UpperOf(R)) = Bytes(UpperOf(R)) /\ Upper!Cardinality(UpperOf(R)) = Cardinality(UpperOf(R))
  BY <1>1, UpperNames
<1>3. ASSUME NEW i \in 0 .. Watched
      PROVE  /\ Upper!Bytes(Upper!InClass(UpperOf(R), i)) = Bytes(InClass(R, i))
             /\ m_bytesInSubQueue'[i] = m_bytesInSubQueue[i] - Bytes(InClass(R, i))
                                        + (IF i = c THEN size ELSE 0)
  <2>1. i \in Classes /\ i <= Watched
    BY ClassNumbers
  <2>2. InClass(UpperOf(R), i) = InClass(R, i) /\ InClass(R, i) \in SUBSET UpperSlots
    BY <1>1, <2>1 DEF InClass, UpperOf
  <2>3. Upper!Bytes(Upper!InClass(UpperOf(R), i)) = Bytes(InClass(R, i))
    BY <1>1, <2>2, UpperNames
  <2> QED
    BY <2>1, <2>3 DEF Account
<1>4. [i \in 0 .. Watched |-> m_bytesInSubQueue[i]]'
        = [i \in Upper!Classes |-> [j \in 0 .. Watched |-> m_bytesInSubQueue[j]][i]
                                   - Upper!Bytes(Upper!InClass(UpperOf(R), i))
                                   + (IF i = c THEN size ELSE 0)]
  BY <1>1, <1>3, UpperNames
<1> QED
  BY <1>2, <1>4 DEF Upper!Account

\* Slots R taken out of the queue are taken out of the smaller one, where they
\* are of the watched classes.
LEMMA UpperRemoved ==
  ASSUME Inv, NEW R \in SUBSET Slots, NEW c \in Classes,
         m_packets' = Without(R), Account(R, c, 0, 0)
  PROVE  /\ [i \in 0 .. Watched |-> m_packets[i]]' = Upper!Without(UpperOf(R))
         /\ Upper!Account(UpperOf(R), c, 0, 0)
<1>1. m_packets \in SubQueues /\ R \in SUBSET SlotsOf(m_packets)
  BY DEF Inv, Slots
<1>2. m_packets' = Remove(m_packets, R)
  BY DEF Without
<1>3. /\ UpperSlots = UpperOf(SlotsOf(m_packets)) /\ UpperSlots' = UpperOf(SlotsOf(m_packets'))
  BY DEF UpperSlots, UpperOf, Slots
<1>4. /\ Cardinality(UpperSlots') = Cardinality(UpperSlots) - Cardinality(UpperOf(R))
      /\ Bytes(UpperSlots)' = Bytes(UpperSlots) - Bytes(UpperOf(R))
      /\ Cardinality(UpperSlots) \in Nat /\ Cardinality(UpperOf(R)) \in Nat
      /\ Bytes(UpperSlots) \in Nat /\ Bytes(UpperOf(R)) \in Nat
  BY <1>1, <1>2, <1>3, UpperTaken DEF Bytes
<1>5. /\ Cardinality(UpperSlots') = Cardinality(UpperSlots) - Cardinality(UpperOf(R)) + 0
      /\ Bytes(UpperSlots)' = Bytes(UpperSlots) - Bytes(UpperOf(R)) + 0
  BY <1>4
<1>6. Upper!Account(UpperOf(R), c, 0, 0)
  BY <1>5, UpperAccount
<1>7. [i \in 0 .. Watched |-> m_packets[i]]' = Upper!Without(UpperOf(R))
  BY <1>1, UpperWithout
<1> QED
  BY <1>6, <1>7

\* A call that leaves the watched classes as they were changes nothing of the
\* smaller queue.
LEMMA UpperSame ==
  ASSUME Inv, NEW R \in SUBSET Slots, UpperOf(R) = {}, NEW c \in Classes, Watched < c,
         NEW n, NEW size, Account(R, c, n, size), m_packets' \in SubQueues,
         \A i \in 0 .. Watched : m_packets'[i] = m_packets[i], returned' = returned
  PROVE  UNCHANGED Upper!vars
<1>1. m_packets \in SubQueues
  BY DEF Inv
<1>2. \A i \in 0 .. Watched : i \in Classes /\ i <= Watched
  BY ClassNumbers
<1>3. [i \in 0 .. Watched |-> m_packets[i]]' = [i \in 0 .. Watched |-> m_packets[i]]
  OBVIOUS
<1>4. ASSUME NEW i \in 0 .. Watched
      PROVE  m_bytesInSubQueue'[i] = m_bytesInSubQueue[i]
  <2>1. i # c /\ InClass(R, i) = {}
    BY <1>2, ClassNumbers DEF UpperOf, InClass
  <2>2. Bytes({}) = 0
    <3>1. Cells(m_packets, {}) = {}
      BY DEF Cells
    <3> QED
      BY <3>1, FS_EmptySet DEF Bytes, BytesOf
  <2>3. m_bytesInSubQueue'[i] = m_bytesInSubQueue[i] - 0 + 0
    BY <1>2, <2>1, <2>2 DEF Account
  <2>4. m_bytesInSubQueue[i] \in Nat
    <3>1. m_bytesInSubQueue[i] = Bytes(InClass(Slots, i))
      BY <1>2 DEF Inv, CountersAgree
    <3>2. InClass(Slots, i) \in SUBSET SlotsOf(m_packets)
      BY DEF InClass, Slots
    <3> QED
      BY <1>1, <3>1, <3>2, CellsFinite DEF Bytes
  <2> QED
    BY <2>3, <2>4
<1>5. UpperSlots' = UpperSlots
  <2>1. \A q \in SubQueues : \A s : s \in UpperOf(SlotsOf(q)) <=>
           s = <<s[1], s[2]>> /\ s[1] \in 0 .. Watched /\ s[2] \in DOMAIN q[s[1]]
    BY SlotType, ClassNumbers DEF UpperOf
  <2>2. UpperSlots = UpperOf(SlotsOf(m_packets)) /\ UpperSlots' = UpperOf(SlotsOf(m_packets'))
    BY DEF UpperSlots, UpperOf, Slots
  <2> QED
    BY <1>1, <2>1, <2>2
<1>6. Bytes(UpperSlots)' = Bytes(UpperSlots)
  <2>1. \A s \in UpperSlots : Packet(m_packets', s) = Packet(m_packets, s)
    <3>1. \A s \in UpperSlots : s[1] \in 0 .. Watched
      BY <1>1, SlotType, ClassNumbers DEF UpperSlots, Slots
    <3> QED
      BY <3>1 DEF Packet
  <2>2. Cells(m_packets', UpperSlots) = Cells(m_packets, UpperSlots)
    BY <2>1 DEF Cells
  <2> QED
    BY <1>5, <2>2 DEF Bytes, BytesOf
<1>7. [i \in 0 .. Watched |-> m_bytesInSubQueue[i]]' = [i \in 0 .. Watched |-> m_bytesInSubQueue[i]]
  BY <1>4
<1> QED
  BY <1>3, <1>5, <1>6, <1>7 DEF Upper!vars, Upper!counters

\* Calls about the classes behind Watched touch nothing of the smaller queue.
LEMMA BehindStep ==
  ASSUME Inv, Watched < NumClasses - 1, NEW p \in Packets, Watched < ClassOf(p),
         EnqueueRefused(p) \/ EnqueueAccepted(p)
  PROVE  UNCHANGED Upper!vars
<1>1. m_packets \in SubQueues
  BY DEF Inv
<1>2. ClassOf(p) \in Classes /\ Evicted(p) \in SUBSET Slots
  BY EvictedType
<1>3. UpperOf(Evicted(p)) = {}
  <2>1. p.prio \in Nat /\ Watched \in Nat /\ ~(p.prio <= Watched)
    BY <1>2, UpperPackets, ClassNumbers
  <2>2. \A s \in Evicted(p) : s[1] > p.prio /\ s[1] \in Int
    BY <1>1, SlotType, ClassNumbers DEF Evicted, Lower, Slots
  <2> QED
    BY <2>1, <2>2 DEF UpperOf
<1>4. \A i \in 0 .. Watched : i \in Classes /\ i # ClassOf(p) /\ Without(Evicted(p))[i] = m_packets[i]
  <2>1. ASSUME NEW i \in 0 .. Watched
        PROVE  i \in Classes /\ i # ClassOf(p) /\ \A s \in Evicted(p) : s[1] # i
    BY <1>2, <1>3, ClassNumbers DEF UpperOf
  <2> QED
    BY <1>1, <1>2, <2>1, Untouched DEF Without, Slots
<1>5. Without(Evicted(p)) \in SubQueues
  BY <1>1, <1>2, RemoveMoves DEF Without, Slots
<1>6. ClassOf(p) \in Int /\ Watched \in Int
  BY <1>2, ClassesAssumption DEF Classes
<1>7. CASE EnqueueRefused(p)
  <2>1. m_packets' = Without(Evicted(p)) /\ Account(Evicted(p), ClassOf(p), 0, 0) /\ returned' = returned
    BY <1>6, <1>7 DEF EnqueueRefused, Return
  <2> QED
    BY <1>2, <1>3, <1>4, <1>5, <2>1, UpperSame
<1>8. CASE EnqueueAccepted(p)
  <2>1. /\ m_packets' = [Without(Evicted(p)) EXCEPT ![ClassOf(p)] = Append(@, p)]
        /\ Account(Evicted(p), ClassOf(p), 1, p.size)
        /\ returned' = returned
    BY <1>6, <1>8 DEF EnqueueAccepted, Return
  <2>2. m_packets' \in SubQueues
    BY <1>2, <1>5, <2>1, AppendMoves
  <2>3. \A i \in 0 .. Watched : m_packets'[i] = m_packets[i]
    BY <1>4, <1>5, <2>1 DEF SubQueues
  <2> QED
    BY <1>2, <1>3, <2>1, <2>2, <2>3, UpperSame
<1> QED
  BY <1>7, <1>8

\* A packet of a watched class is enqueued in the smaller queue too.
LEMMA UpperEnqueue ==
  ASSUME Inv, WithinLimit, Watched < NumClasses - 1, NEW p \in Packets, ~(Watched < ClassOf(p)),
         EnqueueRefused(p) \/ EnqueueAccepted(p)
  PROVE  Upper!Next
<1>1. m_packets \in SubQueues
  BY DEF Inv
<1>2. ClassOf(p) \in Classes /\ Evicted(p) \in SUBSET Slots /\ ClassOf(p) <= Watched /\ ClassOf(p) \in 0 .. Watched
  <2>1. ClassOf(p) \in Classes /\ Evicted(p) \in SUBSET Slots
    BY EvictedType
  <2>2. ClassOf(p) \in Nat /\ Watched \in Nat
    BY <2>1, ClassesAssumption DEF Classes
  <2> QED
    BY <2>1, <2>2
<1>3. /\ p \in Upper!Packets /\ Upper!ClassOf(p) = ClassOf(p) /\ p.prio <= Watched
      /\ Upper!Evicted(p) = UpperOf(Evicted(p)) /\ (Upper!Refuses(p) <=> Refuses(p))
  BY <1>2, UpperPackets, UpperEvicts, UpperRefuses
<1>4. CASE EnqueueRefused(p)
  <2>1. /\ Refuses(p) \/ BackgroundDrop
        /\ m_packets' = Without(Evicted(p))
        /\ Account(Evicted(p), ClassOf(p), 0, 0)
        /\ returned' = Refused(p)
    BY <1>2, <1>4 DEF EnqueueRefused, Return
  <2>2. /\ [i \in 0 .. Watched |-> m_packets[i]]' = Upper!Without(UpperOf(Evicted(p)))
        /\ Upper!Account(UpperOf(Evicted(p)), ClassOf(p), 0, 0)
    BY <1>2, <2>1, UpperRemoved
  <2>3. Upper!Return(ClassOf(p), Upper!Refused(p))
    BY <1>2, <2>1 DEF Upper!Return, Upper!Refused, Refused
  <2>4. Upper!EnqueueRefused(p)
    BY <1>3, <2>1, <2>2, <2>3 DEF Upper!EnqueueRefused
  <2> QED
    BY <1>3, <2>4 DEF Upper!Next
<1>5. CASE EnqueueAccepted(p)
  <2> DEFINE R == Evicted(p)
             c == ClassOf(p)
             q1 == Without(R)
  <2>1. /\ ~Refuses(p)
        /\ m_packets' = [q1 EXCEPT ![c] = Append(@, p)]
        /\ Account(R, c, 1, p.size)
        /\ returned' = Accepted(p)
    BY <1>2, <1>5 DEF EnqueueAccepted, Return
  <2> HIDE DEF R, c
  <2>2. R \in SUBSET Slots /\ R \in SUBSET SlotsOf(m_packets) /\ c \in Classes /\ c <= Watched /\ c \in 0 .. Watched
    BY <1>2 DEF R, c, Slots
  <2>3. UpperSlots = UpperOf(SlotsOf(m_packets)) /\ UpperSlots' = UpperOf(SlotsOf(m_packets'))
    BY DEF UpperSlots, UpperOf, Slots
  <2>4. /\ q1 \in SubQueues
        /\ Cardinality(UpperOf(SlotsOf(q1))) = Cardinality(UpperSlots) - Cardinality(UpperOf(R))
        /\ BytesOf(q1, UpperOf(SlotsOf(q1))) = Bytes(UpperSlots) - Bytes(UpperOf(R))
    BY <1>1, <2>2, <2>3, UpperTaken DEF Without, Bytes
  <2> HIDE DEF q1
  <2>5. /\ Cardinality(UpperSlots') = Cardinality(UpperOf(SlotsOf(q1))) + 1
        /\ Bytes(UpperSlots)' = BytesOf(q1, UpperOf(SlotsOf(q1))) + p.size
    BY <2>1, <2>2, <2>3, <2>4, UpperAppended DEF Bytes
  <2>6. Upper!Account(UpperOf(R), c, 1, p.size)
    BY <2>1, <2>2, <2>4, <2>5, UpperAccount
  <2>7. [i \in 0 .. Watched |-> m_packets[i]]' = [Upper!Without(UpperOf(R)) EXCEPT ![c] = Append(@, p)]
    <3>1. Upper!Without(UpperOf(R)) = [i \in 0 .. Watched |-> q1[i]]
      BY <1>1, <2>2, UpperWithout DEF q1
    <3>2. \A i \in 0 .. Watched : m_packets'[i] = IF i = c THEN Append(q1[c], p) ELSE q1[i]
      BY <2>1, <2>4, ClassNumbers DEF SubQueues
    <3> QED
      BY <2>2, <3>1, <3>2
  <2>8. Upper!Return(c, Upper!Accepted(p))
    BY <2>1, <2>2 DEF Upper!Return, Upper!Accepted, Accepted
  <2>9. Upper!EnqueueAccepted(p)
    BY <1>3, <2>1, <2>6, <2>7, <2>8 DEF Upper!EnqueueAccepted, R, c
  <2> QED
    BY <1>3, <2>9 DEF Upper!Next
<1> QED
  BY <1>4, <1>5

\* The packet sent is the one the smaller queue sends, or of no watched class.
LEMMA UpperDequeue ==
  ASSUME Inv, NEW i \in Classes, Dequeue(i)
  PROVE  [Upper!Next]_(Upper!vars)
<1>1. m_packets \in SubQueues
  BY DEF Inv
<1>2. /\ m_packets[i] # <<>> /\ \A j \in Classes : j < i => m_packets[j] = <<>>
      /\ m_packets' = [m_packets EXCEPT ![i] = Tail(@)]
      /\ Account({<<i, 1>>}, i, 0, 0)
      /\ Return(i, Sent(Head(m_packets[i])))
  BY DEF Dequeue
<1>3. m_packets' \in SubQueues /\ {<<i, 1>>} \in SUBSET Slots
  BY <1>1, <1>2, TailMoves DEF Slots
<1>4. i \in Int /\ Watched \in Int
  BY ClassNumbers
<1>5. CASE i <= Watched
  <2>1. i \in 0 .. Watched /\ UpperOf({<<i, 1>>}) = {<<i, 1>>} /\ Cardinality({<<i, 1>>}) = 1
    <3>1. <<i, 1>> \in SlotsOf(m_packets)
      BY <1>3 DEF Slots
    <3> QED
      BY <1>1, <1>5, <3>1, OneSlot, ClassNumbers DEF UpperOf
  <2>2. UpperSlots = UpperOf(SlotsOf(m_packets)) /\ UpperSlots' = UpperOf(SlotsOf(m_packets'))
    BY DEF UpperSlots, UpperOf, Slots
  <2>3. /\ Cardinality(UpperSlots') = Cardinality(UpperSlots) - Cardinality(UpperOf({<<i, 1>>})) + 0
        /\ Bytes(UpperSlots)' = Bytes(UpperSlots) - Bytes(UpperOf({<<i, 1>>})) + 0
    <3>1. /\ Cardinality(UpperSlots') = Cardinality(UpperSlots) - 1
          /\ Bytes(UpperSlots)' = Bytes(UpperSlots) - Bytes({<<i, 1>>})
          /\ Cardinality(UpperSlots) \in Nat
          /\ Bytes(UpperSlots) \in Nat /\ Bytes({<<i, 1>>}) \in Nat
      BY <1>1, <1>2, <1>5, <2>2, UpperFirst DEF Bytes
    <3> QED
      BY <2>1, <3>1
  <2>4. Upper!Account({<<i, 1>>}, i, 0, 0)
    BY <1>2, <1>3, <2>1, <2>3, UpperAccount
  <2>5. [j \in 0 .. Watched |-> m_packets[j]]' = [[j \in 0 .. Watched |-> m_packets[j]] EXCEPT ![i] = Tail(@)]
    BY <1>1, <1>2, <2>1, ClassNumbers DEF SubQueues
  <2>6. Upper!Return(i, Upper!Sent(Head(m_packets[i])))
    BY <1>2 DEF Upper!Return, Return, Upper!Sent, Sent
  <2>7. /\ [j \in 0 .. Watched |-> m_packets[j]][i] = m_packets[i]
        /\ \A j \in Upper!Classes : j < i => [k \in 0 .. Watched |-> m_packets[k]][j] = <<>>
    BY <1>1, <1>2, <2>1, UpperNames, ClassNumbers
  <2>8. Upper!Dequeue(i)
    BY <1>2, <2>4, <2>5, <2>6, <2>7 DEF Upper!Dequeue
  <2> QED
    BY <1>1, <2>1, <2>8, UpperNames DEF Upper!Next
<1>6. CASE ~(i <= Watched)
  <2>1. Watched < i /\ UpperOf({<<i, 1>>}) = {} /\ returned' = returned
    BY <1>2, <1>4, <1>6 DEF UpperOf, Return
  <2>2. \A j \in 0 .. Watched : m_packets'[j] = m_packets[j]
    BY <1>1, <1>2, <1>6, ClassNumbers DEF SubQueues
  <2> QED
    BY <1>2, <1>3, <2>1, <2>2, UpperSame
<1> QED
  BY <1>5, <1>6

\* A flush of the queue flushes the smaller one.
LEMMA UpperFlush ==
  ASSUME Inv, NEW f \in Flows, FlushOutFlowPackets(f)
  PROVE  Upper!Next
<1>1. m_packets \in SubQueues /\ OfFlow(f) \in SUBSET Slots
  BY DEF Inv, OfFlow
<1>2. m_packets' = Without(OfFlow(f)) /\ Account(OfFlow(f), 0, 0, 0) /\ returned' = returned
  BY DEF FlushOutFlowPackets
<1>3. Upper!OfFlow(f) = UpperOf(OfFlow(f))
  <2>1. \A s \in UpperSlots : s[1] \in 0 .. Watched
    BY <1>1, SlotType, ClassNumbers DEF UpperSlots, Slots
  <2>2. \A s \in UpperSlots : Upper!Packet([i \in 0 .. Watched |-> m_packets[i]], s) = Packet(m_packets, s)
    BY <2>1 DEF Upper!Packet, Packet
  <2>3. Upper!OfFlow(f) = {s \in UpperSlots : s[1] > 0 /\ Packet(m_packets, s).flow = f}
    BY <1>1, <2>2, UpperNames DEF Upper!OfFlow
  <2> QED
    BY <2>3 DEF OfFlow, UpperOf, UpperSlots
<1>4. /\ [i \in 0 .. Watched |-> m_packets[i]]' = Upper!Without(UpperOf(OfFlow(f)))
      /\ Upper!Account(UpperOf(OfFlow(f)), 0, 0, 0)
  BY <1>1, <1>2, TopIsClass, UpperRemoved
<1>5. Upper!FlushOutFlowPackets(f)
  BY <1>2, <1>3, <1>4 DEF Upper!FlushOutFlowPackets
<1> QED
  BY <1>5 DEF Upper!Next

\* The smaller queue starts empty.
LEMMA UpperInit == Init => Upper!Init
<1> SUFFICES ASSUME Init
             PROVE  Upper!Init
  OBVIOUS
<1>1. m_packets \in SubQueues /\ \A i \in 0 .. Watched : m_packets[i] = <<>> /\ m_bytesInSubQueue[i] = 0
  BY ClassNumbers DEF Init, SubQueues
<1>2. UpperSlots = {}
  <2>1. \A i \in Classes : DOMAIN m_packets[i] = {}
    BY DEF Init
  <2> QED
    BY <2>1 DEF UpperSlots, Slots, SlotsOf
<1>3. Cells(m_packets, {}) = {}
  BY DEF Cells
<1>4. Cardinality(UpperSlots) = 0 /\ Bytes(UpperSlots) = 0
  BY <1>2, <1>3, FS_EmptySet DEF Bytes, BytesOf
<1>5. Upper!Classes = 0 .. Watched
  BY <1>1, UpperNames
<1> QED
  BY <1>1, <1>4, <1>5 DEF Upper!Init, Upper!Nothing, Init, Nothing

\* RC3's levels do not disturb each other upwards: the classes down to Watched
\* accept, evict, refuse, send and count exactly as a queue without the classes
\* behind them does, background drops or not.
THEOREM UpperAlwaysAlone ==
  ASSUME Watched < NumClasses - 1
  PROVE  Spec => UpperClassesAlone
<1>1. Inv /\ WithinLimit /\ [Next]_vars => [Upper!Next]_(Upper!vars)
  <2> SUFFICES ASSUME Inv, WithinLimit, [Next]_vars
               PROVE  [Upper!Next]_(Upper!vars)
    OBVIOUS
  <2>1. ASSUME NEW p \in Packets, EnqueueRefused(p) \/ EnqueueAccepted(p)
        PROVE  [Upper!Next]_(Upper!vars)
    BY <2>1, BehindStep, UpperEnqueue
  <2>2. ASSUME NEW i \in Classes, Dequeue(i)
        PROVE  [Upper!Next]_(Upper!vars)
    BY <2>2, UpperDequeue
  <2>3. ASSUME NEW f \in Flows, FlushOutFlowPackets(f)
        PROVE  [Upper!Next]_(Upper!vars)
    BY <2>3, UpperFlush
  <2>4. CASE UNCHANGED vars
    BY <2>4 DEF vars, counters, Upper!vars, Upper!counters, UpperSlots, Slots, Bytes
  <2> QED
    BY <2>1, <2>2, <2>3, <2>4 DEF Next
<1> QED
  BY <1>1, UpperInit, SpecInv, AlwaysWithinLimit, PTL DEF Spec, UpperClassesAlone, Upper!Spec
=============================================================================
