----------------------- MODULE PointToPointLink_proofs -----------------------
(***************************************************************************)
(* What PointToPointLink promises for any classes, packets and limits: the *)
(* transmitter never rests while a packet waits, and the packets of class  *)
(* 0 are never behind a link of their own by more than what has been       *)
(* transmitted of one packet of a lower class.                             *)
(***************************************************************************)
EXTENDS PointToPointLink, Ranking_proofs

Empty(q) == \A i \in Classes : q[i] = <<>>

\* Taking packets out of empty sub-queues leaves them empty.
LEMMA NothingFromEmpty ==
  ASSUME Empty(m_packets), NEW R
  PROVE  Empty(Queue!Without(R))
<1> SUFFICES ASSUME NEW i \in Classes
             PROVE  Queue!Without(R)[i] = <<>>
  BY DEF Empty
<1>1. Queue!KeptIn(m_packets, R, i) = {}
  BY DEF Empty, Queue!KeptIn
<1>2. Queue!Cardinality(Queue!KeptIn(m_packets, R, i)) = 0
  <2>1. Cardinality({}) = 0
    BY FS_EmptySet
  <2>2. Queue!Cardinality({}) = Cardinality({})
    BY DEF Queue!Cardinality, Cardinality
  <2> QED
    BY <1>1, <2>1, <2>2
<1>3. Queue!Classes = Classes
  BY DEF Queue!Classes, Classes
<1> DEFINE kept == Queue!KeptIn(m_packets, R, i)
           nth(n) == m_packets[i][Queue!NthOf(kept, n)]
<1>4. Queue!Without(R)[i] = [n \in 1 .. Queue!Cardinality(kept) |-> nth(n)]
  BY <1>3 DEF Queue!Without, Queue!Remove
<1>5. 1 .. Queue!Cardinality(kept) = {}
  BY <1>2
<1> HIDE DEF nth, kept
<1>6. [n \in 1 .. Queue!Cardinality(kept) |-> nth(n)] = <<>>
  BY <1>5
<1> QED
  BY <1>4, <1>6

\* PointToPointNetDevice: TransmitComplete goes on while the queue has packets
\* and Send starts a device that is READY, so a packet never waits for the
\* next Send.
THEOREM LinkConservesWork == Spec => []WorkConserving
<1>1. Init => WorkConserving
  BY DEF Init, WorkConserving
<1>2. WorkConserving /\ [Next]_vars => WorkConserving'
  <2> SUFFICES ASSUME WorkConserving, [Next]_vars, m_txMachineState' = "READY"
               PROVE  Empty(m_packets')
    BY DEF WorkConserving, Empty
  <2>1. ASSUME m_txMachineState = "READY" PROVE Empty(m_packets)
    BY <2>1 DEF WorkConserving, Empty
  <2>2. ASSUME NEW p \in Queue!Packets, SendRefused(p) PROVE Empty(m_packets')
    BY <2>1, <2>2, NothingFromEmpty DEF SendRefused, transmitter
  <2>3. ASSUME NEW p \in Queue!Packets, SendAccepted(p) PROVE Empty(m_packets')
    BY <2>3 DEF SendAccepted, TransmitFrom, TransmitStart, transmitter
  <2>4. CASE TransmitComplete
    BY <2>4 DEF TransmitComplete, TransmitFrom, TransmitStart, Empty
  <2>5. CASE Receive
    BY <2>1, <2>5 DEF Receive, transmitter
  <2>6. ASSUME NEW f \in Flows, FlushOutFlowPackets(f) PROVE Empty(m_packets')
    BY <2>1, <2>6, NothingFromEmpty DEF FlushOutFlowPackets, transmitter
  <2>7. CASE Tick
    BY <2>1, <2>7 DEF Tick
  <2>8. CASE UNCHANGED vars
    BY <2>1, <2>8 DEF vars, transmitter
  <2> QED
    BY <2>2, <2>3, <2>4, <2>5, <2>6, <2>7, <2>8 DEF Next
<1> QED
  BY <1>1, <1>2, PTL DEF Spec
-----------------------------------------------------------------------------
(* The bytes of a sub-queue. *)

P == Queue!Packets

LEMMA PacketType ==
  /\ \A p \in P : p.size \in Nat \ {0} /\ p.prio \in Nat /\ p.size \in Sizes
  /\ NoPacket \notin P /\ NoPacket.size = 0 /\ NoPacket.prio = NumClasses
BY QueueAssumption DEF P, Queue!Packets, NoPacket

\* One packet is so many cells.
LEMMA CellsOfOne ==
  ASSUME NEW k, NEW n \in Nat
  PROVE  IsFiniteSet({k} \X (1 .. n)) /\ Cardinality({k} \X (1 .. n)) = n
<1>1. IsFiniteSet({k}) /\ Cardinality({k}) = 1
  BY FS_Singleton
<1>2. IsFiniteSet(1 .. n) /\ Cardinality(1 .. n) = n
  BY UpTo
<1>3. Cardinality({k} \X (1 .. n)) = Cardinality({k}) * Cardinality(1 .. n) /\ IsFiniteSet({k} \X (1 .. n))
  BY <1>1, <1>2, FS_Product
<1> QED
  BY <1>1, <1>2, <1>3

LEMMA CellsFinite ==
  ASSUME NEW q \in Seq(P)
  PROVE  IsFiniteSet(Cells(q)) /\ Bytes(q) \in Nat
<1> DEFINE piece == [k \in DOMAIN q |-> {k} \X (1 .. q[k].size)]
           pieces == {{k} \X (1 .. q[k].size) : k \in DOMAIN q}
<1>1. IsFiniteSet(DOMAIN q) /\ \A k \in DOMAIN q : q[k] \in P
  <2>1. DOMAIN q = 1 .. Len(q) /\ Len(q) \in Nat /\ \A k \in DOMAIN q : q[k] \in P
    OBVIOUS
  <2> QED
    BY <2>1, UpTo
<1>2. IsFiniteSet(pieces)
  <2>1. piece \in Surjection(DOMAIN q, pieces)
    <3>1. piece \in [DOMAIN q -> pieces]
      OBVIOUS
    <3>2. \A t \in pieces : \E k \in DOMAIN q : piece[k] = t
      OBVIOUS
    <3> QED
      BY <3>1, <3>2 DEF Surjection
  <2> HIDE DEF piece, pieces
  <2> QED
    BY <1>1, <2>1, FS_Surjection
<1>3. ASSUME NEW t \in pieces PROVE IsFiniteSet(t)
  <2>1. PICK k \in DOMAIN q : t = {k} \X (1 .. q[k].size)
    OBVIOUS
  <2>2. q[k].size \in Nat
    BY <1>1, PacketType
  <2> QED
    BY <2>1, <2>2, CellsOfOne
<1>4. IsFiniteSet(Cells(q))
  <2> HIDE DEF pieces
  <2>1. IsFiniteSet(UNION pieces)
    BY <1>2, <1>3, FS_UNION
  <2> QED
    BY <2>1 DEF Cells, pieces
<1> QED
  BY <1>4, FS_CardinalityType DEF Bytes

LEMMA BytesEmpty == Bytes(<<>>) = 0
<1>1. Cells(<<>>) = {}
  BY DEF Cells
<1> QED
  BY <1>1, FS_EmptySet DEF Bytes

\* A packet put behind a sub-queue adds its size.
LEMMA BytesAppended ==
  ASSUME NEW q \in Seq(P), NEW p \in P
  PROVE  Append(q, p) \in Seq(P) /\ Bytes(Append(q, p)) = Bytes(q) + p.size
<1> DEFINE n == Len(q) + 1
           C == Cells(q)
           D == {n} \X (1 .. p.size)
<1>1. /\ Append(q, p) \in Seq(P) /\ DOMAIN q = 1 .. Len(q) /\ Len(q) \in Nat
      /\ DOMAIN Append(q, p) = (DOMAIN q) \cup {n} /\ n \notin DOMAIN q
      /\ Append(q, p)[n] = p /\ \A k \in DOMAIN q : Append(q, p)[k] = q[k]
  OBVIOUS
<1>2. Cells(Append(q, p)) = C \cup D
  BY <1>1 DEF Cells
<1>3. C \cap D = {}
  BY <1>1 DEF Cells
<1>4. p.size \in Nat
  BY PacketType
<1>5. IsFiniteSet(C) /\ IsFiniteSet(D) /\ Cardinality(D) = p.size /\ Cardinality(C) \in Nat
  BY <1>4, CellsFinite, CellsOfOne DEF Bytes
<1> HIDE DEF C, D
<1>6. Cardinality(C \cup D) = Cardinality(C) + Cardinality(D) - Cardinality(C \cap D)
  BY <1>5, FS_Union
<1>7. Cardinality(C \cap D) = 0
  BY <1>3, FS_EmptySet
<1> QED
  BY <1>1, <1>2, <1>4, <1>5, <1>6, <1>7 DEF Bytes, C

\* The packet taken from the front takes its size with it.
LEMMA BytesTaken ==
  ASSUME NEW q \in Seq(P), q # <<>>
  PROVE  Head(q) \in P /\ Tail(q) \in Seq(P) /\ Bytes(q) = Head(q).size + Bytes(Tail(q))
<1> DEFINE C == Cells(Tail(q))
           D == {1} \X (1 .. Head(q).size)
           E == {<<x[1] + 1, x[2]>> : x \in C}
           f == [x \in C |-> <<x[1] + 1, x[2]>>]
<1>1. /\ Head(q) \in P /\ Tail(q) \in Seq(P) /\ Head(q) = q[1] /\ Len(q) \in Nat \ {0} /\ DOMAIN q = 1 .. Len(q)
      /\ DOMAIN Tail(q) = 1 .. Len(q) - 1
      /\ \A k \in DOMAIN Tail(q) : Tail(q)[k] = q[k + 1]
  OBVIOUS
<1>2. Cells(q) = D \cup E
  <2>1. ASSUME NEW x \in Cells(q) PROVE x \in D \cup E
    <3>1. PICK k \in DOMAIN q : x \in {k} \X (1 .. q[k].size)
      BY DEF Cells
    <3>2. CASE k = 1
      BY <1>1, <3>1, <3>2
    <3>3. CASE k # 1
      <4>1. k - 1 \in DOMAIN Tail(q) /\ Tail(q)[k - 1] = q[k]
        BY <1>1, <3>3
      <4>2. <<k - 1, x[2]>> \in C /\ x = <<k, x[2]>>
        BY <3>1, <4>1 DEF Cells
      <4>3. x = <<(k - 1) + 1, x[2]>>
        BY <1>1, <4>2
      <4> QED
        BY <4>2, <4>3
    <3> QED
      BY <3>2, <3>3
  <2>2. ASSUME NEW x \in C PROVE <<x[1] + 1, x[2]>> \in Cells(q)
    <3>1. PICK k \in DOMAIN Tail(q) : x \in {k} \X (1 .. Tail(q)[k].size)
      BY DEF Cells
    <3>2. k + 1 \in DOMAIN q /\ Tail(q)[k] = q[k + 1]
      BY <1>1
    <3>3. <<k + 1, x[2]>> \in {k + 1} \X (1 .. q[k + 1].size) /\ x[1] = k
      BY <3>1, <3>2
    <3> QED
      BY <3>2, <3>3 DEF Cells
  <2>3. D \subseteq Cells(q)
    BY <1>1 DEF Cells
  <2> QED
    BY <2>1, <2>2, <2>3
<1>3. ASSUME NEW x \in C PROVE x[1] \in Nat \ {0} /\ x = <<x[1], x[2]>>
  BY <1>1 DEF Cells
<1>4. D \cap E = {}
  BY <1>3
<1>5. f \in Bijection(C, E)
  <2>1. f \in [C -> E] /\ \A t \in E : \E x \in C : f[x] = t
    OBVIOUS
  <2>2. \A x, y \in C : f[x] = f[y] => x = y
    <3> SUFFICES ASSUME NEW x \in C, NEW y \in C, f[x] = f[y] PROVE x = y
      OBVIOUS
    <3>1. x[1] + 1 = y[1] + 1 /\ x[2] = y[2]
      OBVIOUS
    <3> QED
      BY <1>3, <3>1
  <2> QED
    BY <2>1, <2>2 DEF Bijection, Injection, Surjection, IsInjective
<1>6. IsFiniteSet(C) /\ Head(q).size \in Nat /\ Cardinality(C) \in Nat
  BY <1>1, CellsFinite, PacketType DEF Bytes
<1>7. IsFiniteSet(D) /\ Cardinality(D) = Head(q).size
  BY <1>6, CellsOfOne
<1> HIDE DEF C, D, E, f
<1>8. IsFiniteSet(E) /\ Cardinality(E) = Cardinality(C)
  BY <1>5, <1>6, FS_Bijection DEF ExistsBijection
<1>9. Cardinality(D \cup E) = Cardinality(D) + Cardinality(E) - Cardinality(D \cap E)
  BY <1>7, <1>8, FS_Union
<1>10. Cardinality(D \cap E) = 0
  BY <1>4, FS_EmptySet
<1> QED
  BY <1>1, <1>2, <1>6, <1>7, <1>8, <1>9, <1>10 DEF Bytes, C
-----------------------------------------------------------------------------
(* The sub-queues. *)

LEMMA TopIsClass == 0 \in Classes /\ Queue!Classes = Classes
BY QueueAssumption DEF Classes, Queue!Classes

\* Sub-queues hold the packets of their class.
InClass(i) == {p \in P : Queue!ClassOf(p) = i}
SubQueues == {q \in [Classes -> Seq(P)] : \A i \in Classes : q[i] \in Seq(InClass(i))}

LEMMA ClassOfHead ==
  ASSUME NEW q \in SubQueues, NEW i \in Classes, q[i] # <<>>
  PROVE  Head(q[i]) \in P /\ Queue!ClassOf(Head(q[i])) = i /\ [q EXCEPT ![i] = Tail(@)] \in SubQueues
<1>1. q[i] \in Seq(InClass(i)) /\ q \in [Classes -> Seq(P)] /\ q[i] \in Seq(P)
  BY DEF SubQueues
<1>2. Head(q[i]) \in InClass(i) /\ Tail(q[i]) \in Seq(InClass(i)) /\ Tail(q[i]) \in Seq(P)
  BY <1>1
<1> QED
  BY <1>1, <1>2 DEF SubQueues, InClass

\* Taking slots out leaves sub-queues, and nothing is missing from a class no
\* slot of which is taken.
LEMMA WithoutType ==
  ASSUME m_packets \in SubQueues, NEW R
  PROVE  /\ Queue!Without(R) \in SubQueues
         /\ (\A s \in R : s[1] # 0) => Queue!Without(R)[0] = m_packets[0]
<1> DEFINE K(i) == Queue!KeptIn(m_packets, R, i)
           row(i) == [n \in 1 .. Cardinality(K(i)) |-> m_packets[i][NthOf(K(i), n)]]
<1>1. Queue!Without(R) = [i \in Classes |-> row(i)]
  <2>1. \A S : Queue!Cardinality(S) = Cardinality(S)
    BY DEF Queue!Cardinality, Cardinality
  <2>2. \A S, n : Queue!NthOf(S, n) = NthOf(S, n)
    BY <2>1 DEF Queue!NthOf, NthOf, Queue!Rank, Rank
  <2> QED
    BY <2>1, <2>2, TopIsClass DEF Queue!Without, Queue!Remove
<1>2. \A i \in Classes : K(i) \in SUBSET DOMAIN m_packets[i] /\ m_packets[i] \in Seq(P) /\ m_packets[i] \in Seq(InClass(i))
  BY DEF Queue!KeptIn, SubQueues
<1>3. ASSUME NEW i \in Classes
      PROVE  /\ row(i) \in Seq(P) /\ row(i) \in Seq(InClass(i))
             /\ K(i) = DOMAIN m_packets[i] => row(i) = m_packets[i]
  <2> DEFINE k == K(i)
             q == m_packets[i]
  <2>1. k \in SUBSET DOMAIN q /\ q \in Seq(P) /\ q \in Seq(InClass(i))
    BY <1>2
  <2> HIDE DEF k, q
  <2>2. /\ [n \in 1 .. Cardinality(k) |-> q[NthOf(k, n)]] \in Seq(P)
        /\ k = DOMAIN q => [n \in 1 .. Cardinality(k) |-> q[NthOf(k, n)]] = q
    BY <2>1, ChosenType
  <2>3. [n \in 1 .. Cardinality(k) |-> q[NthOf(k, n)]] \in Seq(InClass(i))
    BY <2>1, ChosenType
  <2> QED
    BY <2>2, <2>3 DEF k, q
<1>4. (\A s \in R : s[1] # 0) => K(0) = DOMAIN m_packets[0]
  <2>1. \A k : <<0, k>>[1] = 0
    OBVIOUS
  <2> QED
    BY <2>1 DEF Queue!KeptIn
<1> HIDE DEF row, K
<1> QED
  BY <1>1, <1>3, <1>4, TopIsClass DEF SubQueues

\* Neither DropPacket nor a flush takes anything out of class 0.
LEMMA TopStays ==
  /\ \A p \in P : \A s \in Queue!Evicted(p) : s[1] # 0
  /\ \A f : \A s \in Queue!OfFlow(f) : s[1] # 0
<1>1. ASSUME NEW p \in P, NEW s \in Queue!Evicted(p), s[1] = 0 PROVE FALSE
  <2>1. s[1] > p.prio /\ p.prio \in Nat
    BY <1>1, PacketType DEF Queue!Evicted, Queue!Lower
  <2> QED
    BY <1>1, <2>1
<1>2. ASSUME NEW f, NEW s \in Queue!OfFlow(f), s[1] = 0 PROVE FALSE
  BY <1>2 DEF Queue!OfFlow
<1> QED
  BY <1>1, <1>2

\* What is enqueued is in its class, behind what was kept.
LEMMA EnqueuedType ==
  ASSUME m_packets \in SubQueues, NEW p \in P
  PROVE  /\ Queue!ClassOf(p) \in Classes /\ (Top(p) <=> Queue!ClassOf(p) = 0)
         /\ Enqueued(p) \in SubQueues
         /\ Enqueued(p)[Queue!ClassOf(p)] # <<>>
         /\ Enqueued(p)[0] = IF Top(p) THEN Append(m_packets[0], p) ELSE m_packets[0]
         /\ Empty(m_packets) => Enqueued(p) = [[i \in Classes |-> <<>>] EXCEPT ![Queue!ClassOf(p)] = <<p>>]
<1> DEFINE c == Queue!ClassOf(p)
           q == Queue!Without(Queue!Evicted(p))
<1>1. c \in Classes /\ p \in InClass(c)
  BY PacketType, QueueAssumption DEF Queue!ClassOf, Classes, InClass
<1>2. q \in SubQueues /\ q[0] = m_packets[0]
  BY WithoutType, TopStays
<1>3. Enqueued(p) = [q EXCEPT ![c] = Append(@, p)]
  BY DEF Enqueued
<1>4. Top(p) <=> c = 0
  BY DEF Top
<1>5. Empty(m_packets) => Empty(q)
  BY NothingFromEmpty
<1> HIDE DEF c, q
<1>6. /\ Append(q[c], p) \in Seq(P) /\ Append(q[c], p) # <<>>
      /\ Append(q[c], p) \in Seq(InClass(c))
  <2>1. q[c] \in Seq(P) /\ q[c] \in Seq(InClass(c))
    BY <1>1, <1>2 DEF SubQueues
  <2>2. Append(q[c], p) \in Seq(P) /\ Append(q[c], p) # <<>>
    BY <2>1
  <2>3. Append(q[c], p) \in Seq(InClass(c))
    <3>1. \A C : p \in C /\ q[c] \in Seq(C) => Append(q[c], p) \in Seq(C)
      OBVIOUS
    <3> QED
      BY <1>1, <2>1, <3>1
  <2> QED
    BY <2>2, <2>3
<1>7. Enqueued(p) \in SubQueues
  BY <1>1, <1>2, <1>3, <1>6 DEF SubQueues
<1>8. q \in [Classes -> Seq(P)]
  BY <1>2 DEF SubQueues
<1>9. ASSUME Empty(m_packets)
      PROVE  Enqueued(p) = [[i \in Classes |-> <<>>] EXCEPT ![c] = <<p>>]
  <2>1. q = [i \in Classes |-> <<>>]
    BY <1>5, <1>8, <1>9 DEF Empty
  <2>2. Append(q[c], p) = <<p>>
    BY <1>1, <2>1
  <2> QED
    BY <1>1, <1>3, <1>8, <2>1, <2>2
<1> QED
  BY <1>1, <1>2, <1>3, <1>4, <1>6, <1>7, <1>8, <1>9, TopIsClass DEF c

\* The device dequeues the first packet of the highest class that has one.
LEMMA TransmitFromType ==
  ASSUME NEW q \in SubQueues, NEW c \in Classes, q[c] # <<>>, TransmitFrom(q)
  PROVE  \E i \in Classes :
           /\ q[i] # <<>> /\ \A j \in Classes : j < i => q[j] = <<>>
           /\ m_packets' = [q EXCEPT ![i] = Tail(@)] /\ m_packets' \in SubQueues
           /\ Head(q[i]) \in P /\ (Top(Head(q[i])) <=> i = 0)
           /\ TransmitStart(Head(q[i]))
<1> DEFINE K == {d \in Classes : q[d] # <<>>}
           i == Min(K)
<1>1. K \in SUBSET Int /\ IsFiniteSet(K) /\ K # {}
  <2>1. IsFiniteSet(Classes) /\ Classes \in SUBSET Int
    BY QueueAssumption, FS_Interval DEF Classes
  <2> QED
    BY <2>1, FS_Subset
<1>2. \E k \in K : \A j \in K : k <= j
  BY <1>1, Least
<1>3. i \in K /\ \A j \in K : i <= j
  <2> HIDE DEF K
  <2> QED
    BY <1>2 DEF Min
<1>4. i \in Classes /\ q[i] # <<>> /\ \A j \in Classes : j < i => q[j] = <<>>
  <2>1. i \in Classes /\ q[i] # <<>> /\ \A j \in Classes : q[j] # <<>> => i <= j
    BY <1>3
  <2>2. i \in Int /\ \A j \in Classes : j \in Int
    BY <1>1, <1>3 DEF Classes
  <2> HIDE DEF i
  <2> QED
    BY <2>1, <2>2
<1>5. m_packets' = [q EXCEPT ![i] = Tail(@)] /\ TransmitStart(Head(q[i]))
  BY DEF TransmitFrom
<1> HIDE DEF i, K
<1>6. /\ Head(q[i]) \in P /\ Queue!ClassOf(Head(q[i])) = i
      /\ [q EXCEPT ![i] = Tail(@)] \in SubQueues
  BY <1>4, ClassOfHead
<1> QED
  BY <1>4, <1>5, <1>6 DEF Top
-----------------------------------------------------------------------------
(* The types. *)

\* What TypeOK says, and that a sub-queue holds packets of its class only.
LinkTypes ==
  /\ m_packets \in SubQueues
  /\ m_currentPkt \in P \cup {NoPacket}
  /\ m_txMachineState = IF m_currentPkt = NoPacket THEN "READY" ELSE "BUSY"
  /\ remaining \in 0 .. m_currentPkt.size
  /\ wire \in Seq(P) /\ alone \in Nat

LEMMA TransmitStartType ==
  ASSUME LinkTypes, NEW p \in P, TransmitStart(p)
  PROVE  /\ m_currentPkt' \in P \cup {NoPacket}
         /\ m_txMachineState' = IF m_currentPkt' = NoPacket THEN "READY" ELSE "BUSY"
         /\ remaining' \in 0 .. m_currentPkt'.size
         /\ wire' \in Seq(P)
<1>1. p # NoPacket /\ p.size \in Nat \ {0}
  BY PacketType
<1>2. wire' \in Seq(P)
  <2>1. wire \in Seq(P) /\ wire' = Append(wire, p)
    BY DEF LinkTypes, TransmitStart
  <2> QED
    BY <2>1
<1> QED
  BY <1>1, <1>2 DEF TransmitStart

LEMMA InitialTypes == Init => LinkTypes
<1> SUFFICES ASSUME Init PROVE LinkTypes
  OBVIOUS
<1>1. m_packets \in SubQueues
  <2>1. m_packets = [i \in Classes |-> <<>>]
    BY DEF Init
  <2>2. \A S : <<>> \in Seq(S)
    OBVIOUS
  <2> QED
    BY <2>1, <2>2 DEF SubQueues
<1>2. wire \in Seq(P)
  BY DEF Init
<1> QED
  BY <1>1, <1>2, PacketType DEF Init, LinkTypes

LEMMA TypesKept == LinkTypes /\ [Next]_vars => LinkTypes'
<1> SUFFICES ASSUME LinkTypes, [Next]_vars PROVE LinkTypes'
  OBVIOUS
<1> USE DEF LinkTypes
<1>1. ASSUME NEW p \in P, SendRefused(p) PROVE LinkTypes'
  BY <1>1, WithoutType DEF SendRefused, transmitter
<1>2. ASSUME NEW p \in P, SendAccepted(p) PROVE LinkTypes'
  <2>1. alone' \in Nat
    BY <1>2, PacketType DEF SendAccepted
  <2>2. /\ Queue!ClassOf(p) \in Classes /\ Enqueued(p) \in SubQueues
        /\ Enqueued(p)[Queue!ClassOf(p)] # <<>>
    BY EnqueuedType
  <2>3. CASE m_txMachineState = "READY"
    <3>1. TransmitFrom(Enqueued(p))
      BY <1>2, <2>3 DEF SendAccepted
    <3>2. PICK i \in Classes :
            /\ m_packets' \in SubQueues /\ Head(Enqueued(p)[i]) \in P
            /\ TransmitStart(Head(Enqueued(p)[i]))
      BY <2>2, <3>1, TransmitFromType
    <3> QED
      BY <2>1, <3>2, TransmitStartType
  <2>4. CASE m_txMachineState # "READY"
    BY <1>2, <2>1, <2>2, <2>4 DEF SendAccepted, transmitter
  <2> QED
    BY <2>3, <2>4
<1>3. CASE TransmitComplete
  <2>1. CASE Empty(m_packets)
    BY <1>3, <2>1, PacketType DEF TransmitComplete, Empty
  <2>2. CASE ~Empty(m_packets)
    <3>1. TransmitFrom(m_packets) /\ alone' = alone
      BY <1>3, <2>2 DEF TransmitComplete, Empty
    <3>2. PICK c \in Classes : m_packets[c] # <<>>
      BY <2>2 DEF Empty
    <3>3. PICK i \in Classes :
            /\ m_packets' \in SubQueues /\ Head(m_packets[i]) \in P
            /\ TransmitStart(Head(m_packets[i]))
      BY <3>1, <3>2, TransmitFromType
    <3> QED
      BY <3>1, <3>3, TransmitStartType
  <2> QED
    BY <2>1, <2>2
<1>4. CASE Receive
  <2>1. wire' \in Seq(P)
    <3>1. wire \in Seq(P) /\ wire # <<>> /\ wire' = Tail(wire)
      BY <1>4 DEF Receive
    <3> QED
      BY <3>1
  <2> QED
    BY <1>4, <2>1 DEF Receive, transmitter
<1>5. ASSUME NEW f \in Flows, FlushOutFlowPackets(f) PROVE LinkTypes'
  BY <1>5, WithoutType DEF FlushOutFlowPackets, transmitter
<1>6. CASE Tick
  <2>1. m_currentPkt.size \in Nat
    BY PacketType
  <2>2. remaining' \in 0 .. m_currentPkt.size /\ alone' \in Nat
    BY <1>6, <2>1 DEF Tick
  <2> QED
    BY <1>6, <2>2 DEF Tick
<1>7. CASE UNCHANGED vars
  BY <1>7 DEF vars, transmitter
<1> QED
  BY <1>1, <1>2, <1>3, <1>4, <1>5, <1>6, <1>7 DEF Next, P

\* PointToPointNetDevice: what is sent, waits or is on the channel is always a
\* packet that was handed to Send, and the state of the transmitter says
\* whether there is a current packet.
THEOREM LinkTypeCorrect == Spec => []TypeOK
<1>1. LinkTypes => TypeOK
  BY DEF LinkTypes, TypeOK, SubQueues, P
<1> QED
  BY <1>1, InitialTypes, TypesKept, PTL DEF Spec
-----------------------------------------------------------------------------
(* The delay of class 0. *)

LEMMA MaxSize == Max(Sizes) \in Nat /\ \A p \in P : p.size <= Max(Sizes)
<1>1. Sizes \in SUBSET Int /\ IsFiniteSet(Sizes) /\ Sizes # {} /\ Sizes \in SUBSET Nat
  BY QueueAssumption
<1>2. \E k \in Sizes : \A j \in Sizes : j <= k
  BY <1>1, Greatest
<1>3. \E k \in Sizes : \A j \in Sizes : k >= j
  BY <1>1, <1>2
<1>4. Max(Sizes) \in Sizes /\ \A j \in Sizes : Max(Sizes) >= j
  BY <1>3 DEF Max
<1> HIDE DEF P
<1>5. \A p \in P : p.size \in Sizes
  BY PacketType
<1> QED
  BY <1>1, <1>4, <1>5

\* Everything the bound is made of is a natural number.
LEMMA BacklogType ==
  ASSUME LinkTypes
  PROVE  /\ Bytes(m_packets[0]) \in Nat /\ m_packets[0] \in Seq(P)
         /\ remaining \in Nat /\ alone \in Nat
         /\ m_currentPkt.size \in Nat /\ remaining <= m_currentPkt.size
         /\ m_currentPkt.size <= Max(Sizes) /\ Max(Sizes) \in Nat
<1>1. m_packets[0] \in Seq(P)
  BY TopIsClass DEF LinkTypes, SubQueues
<1>2. m_currentPkt.size \in Nat /\ m_currentPkt.size <= Max(Sizes) /\ Max(Sizes) \in Nat
  BY PacketType, MaxSize DEF LinkTypes
<1> QED
  BY <1>1, <1>2, CellsFinite DEF LinkTypes

\* A device that is READY has no backlog, and the link of class 0 has none either.
LEMMA NothingToDo ==
  ASSUME LinkTypes, LateByOnePacket, Bytes(m_packets[0]) = 0, remaining = 0
  PROVE  alone = 0
BY BacklogType DEF LateByOnePacket, Backlog

\* A packet of class 0 goes first, any other only when class 0 is empty.
LEMMA LateAtStart ==
  ASSUME LinkTypes, LateByOnePacket, remaining = 0,
         NEW c \in Classes, m_packets[c] # <<>>, TransmitFrom(m_packets), alone' = alone
  PROVE  LateByOnePacket'
<1>1. PICK i \in Classes :
        /\ m_packets[i] # <<>> /\ \A j \in Classes : j < i => m_packets[j] = <<>>
        /\ m_packets' = [m_packets EXCEPT ![i] = Tail(@)]
        /\ Head(m_packets[i]) \in P /\ (Top(Head(m_packets[i])) <=> i = 0)
        /\ TransmitStart(Head(m_packets[i]))
  BY TransmitFromType DEF LinkTypes
<1> DEFINE h == Head(m_packets[i])
<1>2. h \in P /\ h # NoPacket /\ h.size \in Nat /\ (Top(h) <=> i = 0)
  BY <1>1, PacketType
<1>3. m_currentPkt' = h /\ remaining' = h.size
  BY <1>1 DEF TransmitStart
<1>4. m_packets \in [Classes -> Seq(P)] /\ 0 \in Classes
  BY TopIsClass DEF LinkTypes, SubQueues
<1>5. CASE i = 0
  <2>1. Bytes(m_packets[0]) = h.size + Bytes(m_packets'[0])
    <3>1. m_packets'[0] = Tail(m_packets[0])
      BY <1>1, <1>4, <1>5
    <3> QED
      BY <1>1, <1>4, <1>5, <3>1, BytesTaken
  <2>2. Bytes(m_packets'[0]) \in Nat
    <3>1. Tail(m_packets[0]) \in Seq(P) /\ m_packets'[0] = Tail(m_packets[0])
      BY <1>1, <1>4, <1>5, BytesTaken
    <3> QED
      BY <3>1, CellsFinite
  <2>3. Backlog = Bytes(m_packets[0])
    BY BacklogType DEF Backlog
  <2>4. Top(m_currentPkt') /\ Backlog' = Bytes(m_packets'[0]) + h.size
    BY <1>2, <1>3, <1>5 DEF Backlog
  <2>5. Backlog' = Backlog
    <3> HIDE DEF h
    <3> QED
      BY <1>2, <2>1, <2>2, <2>3, <2>4
  <2>6. Backlog - alone \in 0 .. Max(Sizes)
    BY <2>3, BacklogType DEF LateByOnePacket
  <2> QED
    BY <2>4, <2>5, <2>6 DEF LateByOnePacket
<1>6. CASE i # 0
  <2>1. m_packets[0] = <<>> /\ m_packets'[0] = <<>>
    <3>1. i \in Nat
      BY DEF Classes
    <3> QED
      BY <1>1, <1>4, <1>6, <3>1
  <2>2. Bytes(m_packets[0]) = 0 /\ Bytes(m_packets'[0]) = 0
    BY <2>1, BytesEmpty
  <2>3. alone = 0
    BY <2>2, NothingToDo
  <2>4. ~Top(m_currentPkt') /\ Backlog' = 0
    BY <1>2, <1>3, <1>6, <2>2 DEF Backlog
  <2>5. m_currentPkt' # NoPacket /\ m_currentPkt'.size - remaining' = 0
    BY <1>2, <1>3
  <2> QED
    BY <2>3, <2>4, <2>5 DEF LateByOnePacket
<1> QED
  BY <1>5, <1>6

\* A device that is READY sends the packet it is given at once.
LEMMA SentAtOnce ==
  ASSUME LinkTypes, WorkConserving, LateByOnePacket, m_txMachineState = "READY",
         NEW p \in P, SendAccepted(p)
  PROVE  LateByOnePacket'
<1> DEFINE c == Queue!ClassOf(p)
<1>1. Empty(m_packets) /\ remaining = 0 /\ alone = 0
  <2>1. Empty(m_packets)
    BY DEF WorkConserving, Empty
  <2>2. remaining = 0
    BY PacketType DEF LinkTypes
  <2>3. Bytes(m_packets[0]) = 0
    BY <2>1, TopIsClass, BytesEmpty DEF Empty
  <2> QED
    BY <2>1, <2>2, <2>3, NothingToDo
<1>2. /\ c \in Classes /\ (Top(p) <=> c = 0)
      /\ Enqueued(p) \in SubQueues /\ Enqueued(p)[c] # <<>>
      /\ Enqueued(p) = [[i \in Classes |-> <<>>] EXCEPT ![c] = <<p>>]
  BY <1>1, EnqueuedType DEF LinkTypes
<1> HIDE DEF c
<1>3. TransmitFrom(Enqueued(p)) /\ alone' = IF Top(p) THEN alone + p.size ELSE alone
  BY DEF SendAccepted
<1>4. PICK i \in Classes :
        /\ Enqueued(p)[i] # <<>>
        /\ m_packets' = [Enqueued(p) EXCEPT ![i] = Tail(@)]
        /\ TransmitStart(Head(Enqueued(p)[i]))
  BY <1>2, <1>3, TransmitFromType
<1>5. i = c /\ Enqueued(p)[i] = <<p>>
  BY <1>2, <1>4
<1>6. m_currentPkt' = p /\ remaining' = p.size
  BY <1>4, <1>5 DEF TransmitStart
<1>7. m_packets'[0] = <<>>
  <2>1. CASE c = 0
    <3>1. m_packets'[0] = Tail(<<p>>)
      BY <1>2, <1>4, <1>5, <2>1, TopIsClass
    <3> QED
      BY <3>1
  <2>2. CASE c # 0
    BY <1>2, <1>4, <1>5, <2>2, TopIsClass
  <2> QED
    BY <2>1, <2>2
<1>8. p.size \in Nat /\ p # NoPacket /\ p.size <= Max(Sizes) /\ Max(Sizes) \in Nat
  BY PacketType, MaxSize
<1>9. Backlog' = alone'
  <2>1. Bytes(m_packets'[0]) = 0
    BY <1>7, BytesEmpty
  <2>2. CASE Top(p)
    BY <1>1, <1>3, <1>6, <1>8, <2>1, <2>2 DEF Backlog
  <2>3. CASE ~Top(p)
    BY <1>1, <1>3, <1>6, <2>1, <2>3 DEF Backlog
  <2> QED
    BY <2>2, <2>3
<1>10. Backlog' - alone' = 0
  BY <1>1, <1>3, <1>8, <1>9
<1> QED
  BY <1>6, <1>8, <1>10 DEF LateByOnePacket

\* A tick serves both links, and a link that is not busy has nothing to serve.
LEMMA LateAfterTick ==
  ASSUME LinkTypes, WorkConserving, LateByOnePacket, Tick
  PROVE  LateByOnePacket'
<1> DEFINE B == Bytes(m_packets[0])
           S == m_currentPkt.size
           M == Max(Sizes)
<1>1. /\ B \in Nat /\ remaining \in Nat /\ alone \in Nat /\ S \in Nat
      /\ remaining <= S /\ S <= M /\ M \in Nat
  BY BacklogType
<1>2. /\ m_packets' = m_packets /\ m_currentPkt' = m_currentPkt
      /\ remaining' = (IF remaining > 0 THEN remaining - 1 ELSE 0)
      /\ alone' = (IF alone > 0 THEN alone - 1 ELSE 0)
  BY DEF Tick
<1>3. CASE m_currentPkt = NoPacket
  <2>1. remaining = 0 /\ B = 0
    BY <1>3, PacketType, TopIsClass, BytesEmpty DEF LinkTypes, WorkConserving
  <2>2. alone = 0
    BY <2>1, NothingToDo
  <2>3. Backlog' - alone' = 0
    BY <1>2, <2>1, <2>2 DEF Backlog
  <2> QED
    BY <1>1, <1>2, <1>3, <2>3 DEF LateByOnePacket
<1>4. CASE m_currentPkt # NoPacket
  <2>1. remaining > 0 /\ remaining' = remaining - 1
    BY <1>2, <1>4 DEF LinkTypes, Tick
  <2>2. CASE Top(m_currentPkt)
    <3>1. B + remaining - alone \in 0 .. M
      <4>1. Backlog - alone \in 0 .. M /\ Backlog = B + remaining
        BY <2>2 DEF LateByOnePacket, Backlog
      <4> QED
        BY <1>1, <4>1
    <3>2. Backlog' = B + remaining'
      BY <1>2, <2>2 DEF Backlog
    <3>3. Backlog' - alone' \in 0 .. M
      <4> HIDE DEF B, M
      <4> QED
        BY <1>1, <1>2, <2>1, <3>1, <3>2
    <3> QED
      BY <1>2, <2>2, <3>3 DEF LateByOnePacket
  <2>3. CASE ~Top(m_currentPkt)
    <3>1. B - alone \in 0 .. S - remaining
      BY <1>1, <1>4, <2>3 DEF LateByOnePacket, Backlog
    <3>2. Backlog' = B
      BY <1>1, <1>2, <2>3 DEF Backlog
    <3>3. Backlog' - alone' \in 0 .. S - remaining'
      <4> HIDE DEF B, M, S
      <4> QED
        BY <1>1, <1>2, <2>1, <3>1, <3>2
    <3> QED
      BY <1>2, <1>4, <2>3, <3>3 DEF LateByOnePacket
  <2> QED
    BY <2>2, <2>3
<1> QED
  BY <1>3, <1>4

\* PointToPointNetDevice with the queue of the RC3 driver: the low classes cost
\* class 0 no more than what has been transmitted of the one packet that was
\* on its way, whatever is sent, evicted, dropped and flushed.
THEOREM TopIsHardlyDelayed == Spec => []LateByOnePacket
<1>1. Init => LateByOnePacket
  <2> SUFFICES ASSUME Init PROVE LateByOnePacket
    OBVIOUS
  <2>1. Backlog = 0 /\ alone = 0 /\ m_currentPkt = NoPacket
    BY TopIsClass, BytesEmpty DEF Init, Backlog
  <2> QED
    BY <2>1, MaxSize DEF LateByOnePacket
<1>2. LinkTypes /\ WorkConserving /\ LateByOnePacket /\ [Next]_vars => LateByOnePacket'
  <2> SUFFICES ASSUME LinkTypes, WorkConserving, LateByOnePacket, [Next]_vars
               PROVE  LateByOnePacket'
    OBVIOUS
  <2>1. ASSUME m_packets'[0] = m_packets[0], alone' = alone, UNCHANGED transmitter
        PROVE  LateByOnePacket'
    BY <2>1 DEF transmitter, LateByOnePacket, Backlog
  <2>2. ASSUME NEW p \in P, SendRefused(p) PROVE LateByOnePacket'
    BY <2>1, <2>2, WithoutType, TopStays DEF SendRefused, LinkTypes
  <2>3. ASSUME NEW p \in P, SendAccepted(p) PROVE LateByOnePacket'
    <3>1. CASE m_txMachineState = "READY"
      BY <2>3, <3>1, SentAtOnce
    <3>2. CASE m_txMachineState # "READY"
      <4>1. /\ m_packets'[0] = IF Top(p) THEN Append(m_packets[0], p) ELSE m_packets[0]
            /\ alone' = IF Top(p) THEN alone + p.size ELSE alone
            /\ UNCHANGED transmitter
        BY <2>3, <3>2, EnqueuedType DEF SendAccepted, LinkTypes
      <4>2. CASE ~Top(p)
        BY <2>1, <4>1, <4>2
      <4>3. CASE Top(p)
        <5>1. p.size \in Nat /\ m_packets[0] \in Seq(P)
          BY PacketType, BacklogType
        <5>2. Bytes(m_packets'[0]) = Bytes(m_packets[0]) + p.size /\ alone' = alone + p.size
          BY <4>1, <4>3, <5>1, BytesAppended
        <5>3. Backlog' = Backlog + p.size /\ Backlog \in Int
          BY <4>1, <5>1, <5>2, BacklogType DEF Backlog, transmitter
        <5>4. Backlog' - alone' = Backlog - alone
          BY <5>1, <5>2, <5>3, BacklogType
        <5> QED
          BY <4>1, <5>4 DEF transmitter, LateByOnePacket
      <4> QED
        BY <4>2, <4>3
    <3> QED
      BY <3>1, <3>2
  <2>4. CASE TransmitComplete
    <3>1. remaining = 0 /\ alone' = alone
      BY <2>4 DEF TransmitComplete
    <3>2. CASE Empty(m_packets)
      <4>1. m_currentPkt' = NoPacket /\ remaining' = 0 /\ m_packets' = m_packets
        BY <2>4, <3>1, <3>2 DEF TransmitComplete, Empty
      <4>2. Bytes(m_packets[0]) = 0
        BY <3>2, TopIsClass, BytesEmpty DEF Empty
      <4>3. alone = 0
        BY <3>1, <4>2, NothingToDo
      <4>4. Backlog' - alone' = 0
        BY <3>1, <4>1, <4>2, <4>3 DEF Backlog
      <4> QED
        BY <4>1, <4>4, MaxSize DEF LateByOnePacket
    <3>3. CASE ~Empty(m_packets)
      <4>1. TransmitFrom(m_packets)
        BY <2>4, <3>3 DEF TransmitComplete, Empty
      <4>2. PICK c \in Classes : m_packets[c] # <<>>
        BY <3>3 DEF Empty
      <4> QED
        BY <3>1, <4>1, <4>2, LateAtStart
    <3> QED
      BY <3>2, <3>3
  <2>5. CASE Receive
    BY <2>1, <2>5 DEF Receive
  <2>6. ASSUME NEW f \in Flows, FlushOutFlowPackets(f) PROVE LateByOnePacket'
    BY <2>1, <2>6, WithoutType, TopStays DEF FlushOutFlowPackets, LinkTypes
  <2>7. CASE Tick
    BY <2>7, LateAfterTick
  <2>8. CASE UNCHANGED vars
    BY <2>1, <2>8 DEF vars
  <2> QED
    BY <2>2, <2>3, <2>4, <2>5, <2>6, <2>7, <2>8 DEF Next, P
<1> QED
  BY <1>1, <1>2, InitialTypes, TypesKept, LinkConservesWork, PTL DEF Spec
=============================================================================
