------------------------ MODULE PriorityQueue_proofs ------------------------
(***************************************************************************)
(* PriorityQueue counts right, whatever the classes, the packets, the      *)
(* limits and the mode: its type, CountersAgree and WithinLimit are        *)
(* invariants, and its class 0 implements DropTailQueue: no packet of a    *)
(* lower class is ever the reason that one of class 0 is refused or waits. *)
(*                                                                         *)
(* Taking slots out renumbers the slots behind them.  The argument is that *)
(* the renumbering is a bijection of the slots that stay, and so, byte by  *)
(* byte, of what they hold.                                                *)
(***************************************************************************)
EXTENDS PriorityQueue, Ranking_proofs, FunctionTheorems, SequenceTheorems

SubQueues == [Classes -> Seq(Packets)]

-----------------------------------------------------------------------------
(* Slots and bytes are finite. *)

\* A queue has finitely many places.
LEMMA SlotsFinite ==
  ASSUME NEW q \in SubQueues
  PROVE  IsFiniteSet(SlotsOf(q))
<1> DEFINE rows == {{i} \X DOMAIN q[i] : i \in Classes}
<1>1. IsFiniteSet(Classes)
  BY ClassesAssumption, FS_Interval DEF Classes
<1>2. IsFiniteSet(rows)
  <2> DEFINE row == [i \in Classes |-> {i} \X DOMAIN q[i]]
  <2>1. row \in Surjection(Classes, rows)
    <3>1. row \in [Classes -> rows]
      OBVIOUS
    <3>2. \A t \in rows : \E i \in Classes : row[i] = t
      OBVIOUS
    <3> QED
      BY <3>1, <3>2 DEF Surjection
  <2> HIDE DEF row, rows
  <2> QED
    BY <1>1, <2>1, FS_Surjection
<1>3. ASSUME NEW t \in rows
      PROVE  IsFiniteSet(t)
  <2>1. PICK i \in Classes : t = {i} \X DOMAIN q[i]
    OBVIOUS
  <2>2. q[i] \in Seq(Packets)
    BY DEF SubQueues
  <2>3. IsFiniteSet(DOMAIN q[i])
    <3>1. DOMAIN q[i] = 1 .. Len(q[i]) /\ Len(q[i]) \in Nat
      BY <2>2
    <3> QED
      BY <3>1, UpTo
  <2>4. IsFiniteSet({i})
    BY FS_Singleton
  <2> QED
    BY <2>1, <2>3, <2>4, FS_Product
<1> QED
  <2> HIDE DEF rows
  <2>1. IsFiniteSet(UNION rows)
    BY <1>2, <1>3, FS_UNION
  <2> QED
    BY <2>1 DEF SlotsOf, rows

\* A slot is a class and a place of its sub-queue, where a packet is stored.
LEMMA SlotType ==
  ASSUME NEW q \in SubQueues
  PROVE  /\ \A s \in SlotsOf(q) : /\ s = <<s[1], s[2]>>
                                  /\ s[1] \in Classes
                                  /\ s[2] \in DOMAIN q[s[1]]
                                  /\ Packet(q, s) \in Packets
                                  /\ Packet(q, s).size \in Nat
         /\ \A i \in Classes : \A k \in DOMAIN q[i] : <<i, k>> \in SlotsOf(q)
<1>1. ASSUME NEW s \in SlotsOf(q)
      PROVE  s = <<s[1], s[2]>> /\ s[1] \in Classes /\ s[2] \in DOMAIN q[s[1]]
  <2>1. PICK i \in Classes : s \in {i} \X DOMAIN q[i]
    BY DEF SlotsOf
  <2>2. s = <<s[1], s[2]>> /\ s[1] = i /\ s[2] \in DOMAIN q[i]
    BY <2>1
  <2> QED
    BY <2>2
<1>2. ASSUME NEW s \in SlotsOf(q)
      PROVE  Packet(q, s) \in Packets /\ Packet(q, s).size \in Nat
  <2>1. q[s[1]] \in Seq(Packets)
    BY <1>1 DEF SubQueues
  <2>2. Packet(q, s) \in Packets
    BY <1>1, <2>1, ElementOfSeq DEF Packet
  <2> QED
    BY <2>2, PacketsAssumption DEF Packets
<1>3. ASSUME NEW i \in Classes, NEW k \in DOMAIN q[i]
      PROVE  <<i, k>> \in SlotsOf(q)
  BY DEF SlotsOf
<1> QED
  BY <1>1, <1>2, <1>3

\* The packets of a queue have finitely many bytes.
LEMMA CellsFinite ==
  ASSUME NEW q \in SubQueues, NEW R \in SUBSET SlotsOf(q)
  PROVE  /\ IsFiniteSet(R)
         /\ IsFiniteSet(Cells(q, R))
         /\ BytesOf(q, R) \in Nat
<1> DEFINE pieces == {{s} \X (1 .. Packet(q, s).size) : s \in R}
<1>1. IsFiniteSet(R)
  BY SlotsFinite, FS_Subset
<1>2. IsFiniteSet(pieces)
  <2> DEFINE piece == [s \in R |-> {s} \X (1 .. Packet(q, s).size)]
  <2>1. piece \in Surjection(R, pieces)
    <3>1. piece \in [R -> pieces]
      OBVIOUS
    <3>2. \A t \in pieces : \E s \in R : piece[s] = t
      OBVIOUS
    <3> QED
      BY <3>1, <3>2 DEF Surjection
  <2> HIDE DEF piece, pieces
  <2> QED
    BY <1>1, <2>1, FS_Surjection
<1>3. ASSUME NEW t \in pieces
      PROVE  IsFiniteSet(t)
  <2>1. PICK s \in R : t = {s} \X (1 .. Packet(q, s).size)
    OBVIOUS
  <2>2. Packet(q, s).size \in Nat
    BY SlotType
  <2>3. IsFiniteSet(1 .. Packet(q, s).size)
    BY <2>2, UpTo
  <2>4. IsFiniteSet({s})
    BY FS_Singleton
  <2> QED
    BY <2>1, <2>3, <2>4, FS_Product
<1>4. IsFiniteSet(Cells(q, R))
  <2> HIDE DEF pieces
  <2>1. IsFiniteSet(UNION pieces)
    BY <1>2, <1>3, FS_UNION
  <2> QED
    BY <2>1 DEF Cells, pieces
<1> QED
  BY <1>1, <1>4, FS_CardinalityType DEF BytesOf
-----------------------------------------------------------------------------
(* What a bijection of slots preserves. *)

\* Slots R2 that hold what the slots R hold are as many and as large.
LEMMA SameContent ==
  ASSUME NEW q \in SubQueues, NEW R \in SUBSET SlotsOf(q),
         NEW q2 \in SubQueues, NEW R2 \in SUBSET SlotsOf(q2),
         NEW f \in Bijection(R2, R), \A s \in R2 : Packet(q2, s) = Packet(q, f[s])
  PROVE  Cardinality(R2) = Cardinality(R) /\ BytesOf(q2, R2) = BytesOf(q, R)
<1> DEFINE C == Cells(q, R)
           C2 == Cells(q2, R2)
           g == [x \in C2 |-> <<f[x[1]], x[2]>>]
<1>1. /\ f \in [R2 -> R]
      /\ \A a, b \in R2 : f[a] = f[b] => a = b
      /\ \A t \in R : \E s \in R2 : f[s] = t
  BY Fun_BijectionProperties
<1>2. Cardinality(R2) = Cardinality(R)
  <2>1. IsFiniteSet(R2)
    BY CellsFinite
  <2>2. ExistsBijection(R2, R)
    BY DEF ExistsBijection
  <2> QED
    BY <2>1, <2>2, FS_Bijection
<1>3. /\ \A x \in C : x = <<x[1], x[2]>> /\ x[1] \in R /\ x[2] \in 1 .. Packet(q, x[1]).size
      /\ \A s \in R : \A b \in 1 .. Packet(q, s).size : <<s, b>> \in C
      /\ \A x \in C2 : x = <<x[1], x[2]>> /\ x[1] \in R2 /\ x[2] \in 1 .. Packet(q2, x[1]).size
      /\ \A s \in R2 : \A b \in 1 .. Packet(q2, s).size : <<s, b>> \in C2
  BY DEF Cells
<1>4. g \in Bijection(C2, C)
  <2> HIDE DEF C, C2
  <2>1. g \in [C2 -> C]
    <3> SUFFICES ASSUME NEW x \in C2
                 PROVE  <<f[x[1]], x[2]>> \in C
      OBVIOUS
    <3>1. f[x[1]] \in R /\ x[2] \in 1 .. Packet(q, f[x[1]]).size
      BY <1>1, <1>3
    <3> QED
      BY <1>3, <3>1
  <2>2. ASSUME NEW x \in C2, NEW y \in C2, g[x] = g[y]
        PROVE  x = y
    <3>1. f[x[1]] = f[y[1]] /\ x[2] = y[2]
      BY <2>2
    <3>2. x[1] = y[1]
      BY <1>1, <1>3, <3>1
    <3> QED
      BY <1>3, <3>1, <3>2
  <2>3. ASSUME NEW y \in C
        PROVE  \E x \in C2 : g[x] = y
    <3>1. PICK s \in R2 : f[s] = y[1]
      BY <1>1, <1>3
    <3>2. y[2] \in 1 .. Packet(q2, s).size
      BY <1>3, <3>1
    <3>3. <<s, y[2]>> \in C2
      BY <1>3, <3>2
    <3> QED
      BY <1>3, <3>1, <3>3
  <2> HIDE DEF g
  <2> QED
    BY <2>1, <2>2, <2>3, Fun_IsBij
<1>5. BytesOf(q2, R2) = BytesOf(q, R)
  <2>1. IsFiniteSet(C2)
    BY CellsFinite
  <2>2. ExistsBijection(C2, C)
    BY <1>4 DEF ExistsBijection
  <2>3. Cardinality(C) = Cardinality(C2)
    <3> HIDE DEF C, C2
    <3> QED
      BY <2>1, <2>2, FS_Bijection
  <2> QED
    BY <2>3 DEF BytesOf
<1> QED
  BY <1>2, <1>5

\* Slots in two parts: what one part holds and what the other does add up.
LEMMA Parts ==
  ASSUME NEW q \in SubQueues, NEW S \in SUBSET SlotsOf(q), NEW R \in SUBSET S
  PROVE  /\ Cardinality(S \ R) = Cardinality(S) - Cardinality(R)
         /\ BytesOf(q, S \ R) = BytesOf(q, S) - BytesOf(q, R)
<1>1. IsFiniteSet(S) /\ IsFiniteSet(Cells(q, S))
  BY CellsFinite
<1>2. S \cap R = R
  OBVIOUS
<1>3. Cells(q, S \ R) = Cells(q, S) \ Cells(q, R)
  BY DEF Cells
<1>4. Cells(q, S) \cap Cells(q, R) = Cells(q, R)
  BY DEF Cells
<1>5. Cardinality(S \ R) = Cardinality(S) - Cardinality(R)
  BY <1>1, <1>2, FS_Difference
<1>6. BytesOf(q, S \ R) = BytesOf(q, S) - BytesOf(q, R)
  BY <1>1, <1>3, <1>4, FS_Difference DEF BytesOf
<1> QED
  BY <1>5, <1>6
-----------------------------------------------------------------------------
(* Taking slots out. *)

\* q2 holds what q holds but for the slots R, each packet in the class it was in.
Moved(q, q2, R) ==
  \E f \in Bijection(SlotsOf(q2), SlotsOf(q) \ R) :
    \A s \in SlotsOf(q2) : f[s][1] = s[1] /\ Packet(q2, s) = Packet(q, f[s])

\* Whatever becomes of the places, what R held is what is missing, in all and
\* in every class.
LEMMA MovedCounts ==
  ASSUME NEW q \in SubQueues, NEW q2 \in SubQueues, NEW R \in SUBSET SlotsOf(q), Moved(q, q2, R)
  PROVE  /\ Cardinality(SlotsOf(q2)) = Cardinality(SlotsOf(q)) - Cardinality(R)
         /\ BytesOf(q2, SlotsOf(q2)) = BytesOf(q, SlotsOf(q)) - BytesOf(q, R)
         /\ \A i \in Classes : BytesOf(q2, InClass(SlotsOf(q2), i))
                               = BytesOf(q, InClass(SlotsOf(q), i)) - BytesOf(q, InClass(R, i))
<1> DEFINE S == SlotsOf(q)
           S2 == SlotsOf(q2)
<1>1. PICK f \in Bijection(S2, S \ R) :
         \A s \in S2 : f[s][1] = s[1] /\ Packet(q2, s) = Packet(q, f[s])
  BY DEF Moved
<1>2. /\ f \in [S2 -> S \ R]
      /\ \A a, b \in S2 : f[a] = f[b] => a = b
      /\ \A t \in S \ R : \E s \in S2 : f[s] = t
  BY Fun_BijectionProperties
<1>3. Cardinality(S2) = Cardinality(S \ R) /\ BytesOf(q2, S2) = BytesOf(q, S \ R)
  <2>1. S2 \in SUBSET SlotsOf(q2) /\ S \ R \in SUBSET SlotsOf(q)
    OBVIOUS
  <2> HIDE DEF S, S2
  <2> QED
    BY <1>1, <2>1, SameContent
<1>4. ASSUME NEW i \in Classes
      PROVE  BytesOf(q2, InClass(S2, i)) = BytesOf(q, InClass(S, i)) - BytesOf(q, InClass(R, i))
  <2> DEFINE A == InClass(S2, i)
             B == InClass(S \ R, i)
             h == [s \in A |-> f[s]]
  <2>1. A \in SUBSET SlotsOf(q2) /\ B \in SUBSET SlotsOf(q) /\ A \subseteq S2 /\ B \subseteq S \ R
    BY DEF InClass
  <2>2. h \in Bijection(A, B)
    <3>1. h \in [A -> B]
      BY <1>1, <1>2 DEF InClass
    <3>2. \A a, b \in A : h[a] = h[b] => a = b
      BY <1>2, <2>1
    <3>3. \A t \in B : \E s \in A : h[s] = t
      BY <1>1, <1>2 DEF InClass
    <3> HIDE DEF h, A, B
    <3> QED
      BY <3>1, <3>2, <3>3, Fun_IsBij
  <2>3. \A s \in A : Packet(q2, s) = Packet(q, h[s])
    BY <1>1, <2>1
  <2>4. BytesOf(q2, A) = BytesOf(q, B)
    <3> HIDE DEF h, A, B
    <3> QED
      BY <2>1, <2>2, <2>3, SameContent
  <2>5. B = InClass(S, i) \ InClass(R, i)
    BY DEF InClass
  <2>6. InClass(S, i) \in SUBSET SlotsOf(q) /\ InClass(R, i) \in SUBSET InClass(S, i)
    BY DEF InClass
  <2>7. BytesOf(q, InClass(S, i) \ InClass(R, i))
        = BytesOf(q, InClass(S, i)) - BytesOf(q, InClass(R, i))
    BY <2>6, Parts
  <2> QED
    BY <2>4, <2>5, <2>7
<1>5. /\ Cardinality(S \ R) = Cardinality(S) - Cardinality(R)
      /\ BytesOf(q, S \ R) = BytesOf(q, S) - BytesOf(q, R)
  BY Parts
<1> QED
  BY <1>3, <1>4, <1>5

\* Remove takes the slots R out and nothing else.
LEMMA RemoveMoves ==
  ASSUME NEW q \in SubQueues, NEW R \in SUBSET SlotsOf(q)
  PROVE  Remove(q, R) \in SubQueues /\ Moved(q, Remove(q, R), R)
<1> DEFINE K(i) == KeptIn(q, R, i)
           q2 == Remove(q, R)
           f == [s \in SlotsOf(q2) |-> <<s[1], NthOf(K(s[1]), s[2])>>]
<1>1. ASSUME NEW i \in Classes
      PROVE  /\ K(i) \in SUBSET Int
             /\ K(i) \subseteq DOMAIN q[i]
             /\ IsFiniteSet(K(i))
             /\ Cardinality(K(i)) \in Nat
             /\ q[i] \in Seq(Packets)
  <2>1. q[i] \in Seq(Packets) /\ DOMAIN q[i] = 1 .. Len(q[i]) /\ Len(q[i]) \in Nat
    BY DEF SubQueues
  <2>2. IsFiniteSet(1 .. Len(q[i]))
    BY <2>1, UpTo
  <2>3. K(i) \in SUBSET (1 .. Len(q[i]))
    BY <2>1 DEF KeptIn
  <2>4. IsFiniteSet(K(i))
    BY <2>2, <2>3, FS_Subset
  <2> QED
    BY <2>1, <2>3, <2>4, FS_CardinalityType
<1>2. ASSUME NEW i \in Classes
      PROVE  /\ \A n \in 1 .. Cardinality(K(i)) : NthOf(K(i), n) \in K(i) /\ Rank(K(i), NthOf(K(i), n)) = n
             /\ \A k \in K(i) : NthOf(K(i), Rank(K(i), k)) = k /\ Rank(K(i), k) \in 1 .. Cardinality(K(i))
  <2> HIDE DEF K
  <2> QED
    BY <1>1, NthOfRank, RankType
<1>3. ASSUME NEW i \in Classes
      PROVE  /\ q2[i] = [n \in 1 .. Cardinality(K(i)) |-> q[i][NthOf(K(i), n)]]
             /\ q2[i] \in Seq(Packets)
             /\ DOMAIN q2[i] = 1 .. Cardinality(K(i))
  <2>1. q2[i] = [n \in 1 .. Cardinality(K(i)) |-> q[i][NthOf(K(i), n)]]
    BY DEF Remove
  <2>2. ASSUME NEW n \in 1 .. Cardinality(K(i))
        PROVE  q[i][NthOf(K(i), n)] \in Packets
    BY <1>1, <1>2, ElementOfSeq
  <2> HIDE DEF K, q2
  <2>3. q2[i] \in [1 .. Cardinality(K(i)) -> Packets]
    BY <2>1, <2>2
  <2> QED
    BY <1>1, <2>1, <2>3, SeqDef
<1>4. q2 \in SubQueues
  <2>1. q2 = [i \in Classes |-> q2[i]]
    BY DEF Remove
  <2> HIDE DEF q2
  <2> QED
    BY <1>3, <2>1 DEF SubQueues
<1>5. \A s \in SlotsOf(q2) : s = <<s[1], s[2]>> /\ s[1] \in Classes /\ s[2] \in 1 .. Cardinality(K(s[1]))
  <2> HIDE DEF q2, K
  <2> QED
    BY <1>3, <1>4, SlotType
<1>6. ASSUME NEW s \in SlotsOf(q2)
      PROVE  f[s] \in SlotsOf(q) \ R /\ f[s][1] = s[1] /\ Packet(q2, s) = Packet(q, f[s])
  <2>1. s[1] \in Classes /\ s[2] \in 1 .. Cardinality(K(s[1]))
    BY <1>5
  <2>2. NthOf(K(s[1]), s[2]) \in K(s[1])
    BY <1>2, <2>1
  <2>3. f[s] \in SlotsOf(q) \ R
    BY <2>1, <2>2, SlotType DEF KeptIn
  <2>4. Packet(q2, s) = Packet(q, f[s])
    <3>1. Packet(q2, s) = q[s[1]][NthOf(K(s[1]), s[2])]
      <4>1. Packet(q2, s) = q2[s[1]][s[2]]
        BY DEF Packet
      <4>2. q2[s[1]] = [n \in 1 .. Cardinality(K(s[1])) |-> q[s[1]][NthOf(K(s[1]), n)]]
        BY <1>3, <2>1
      <4> HIDE DEF K, q2
      <4> QED
        BY <2>1, <4>1, <4>2
    <3> QED
      BY <3>1 DEF Packet
  <2> QED
    BY <2>3, <2>4
<1>7. f \in Bijection(SlotsOf(q2), SlotsOf(q) \ R)
  <2>1. f \in [SlotsOf(q2) -> SlotsOf(q) \ R]
    BY <1>6
  <2>2. ASSUME NEW s \in SlotsOf(q2), NEW t \in SlotsOf(q2), f[s] = f[t]
        PROVE  s = t
    <3>1. s[1] = t[1] /\ NthOf(K(s[1]), s[2]) = NthOf(K(t[1]), t[2])
      BY <2>2
    <3>2. s[2] = t[2]
      <4>1. Rank(K(s[1]), NthOf(K(s[1]), s[2])) = s[2] /\ Rank(K(t[1]), NthOf(K(t[1]), t[2])) = t[2]
        BY <1>2, <1>5
      <4> QED
        BY <3>1, <4>1
    <3> QED
      BY <1>5, <3>1, <3>2
  <2>3. ASSUME NEW t \in SlotsOf(q) \ R
        PROVE  \E s \in SlotsOf(q2) : f[s] = t
    <3>1. t = <<t[1], t[2]>> /\ t[1] \in Classes /\ t[2] \in K(t[1])
      BY SlotType DEF KeptIn
    <3>2. Rank(K(t[1]), t[2]) \in DOMAIN q2[t[1]] /\ NthOf(K(t[1]), Rank(K(t[1]), t[2])) = t[2]
      BY <1>2, <1>3, <3>1
    <3>3. <<t[1], Rank(K(t[1]), t[2])>> \in SlotsOf(q2)
      BY <1>4, <3>1, <3>2, SlotType
    <3> QED
      BY <3>1, <3>2, <3>3
  <2> HIDE DEF f, q2
  <2> QED
    BY <2>1, <2>2, <2>3, Fun_IsBij
<1> QED
  <2> HIDE DEF f, q2
  <2>1. Moved(q, q2, R)
    BY <1>6, <1>7 DEF Moved
  <2> QED
    BY <1>4, <2>1 DEF q2

\* Taking the first packet of a class moves the ones behind it up by one place.
LEMMA TailMoves ==
  ASSUME NEW q \in SubQueues, NEW i \in Classes, q[i] # <<>>
  PROVE  /\ [q EXCEPT ![i] = Tail(@)] \in SubQueues
         /\ <<i, 1>> \in SlotsOf(q)
         /\ Moved(q, [q EXCEPT ![i] = Tail(@)], {<<i, 1>>})
<1> DEFINE q2 == [q EXCEPT ![i] = Tail(@)]
           f == [s \in SlotsOf(q2) |-> IF s[1] = i THEN <<i, s[2] + 1>> ELSE s]
<1>1. /\ q[i] \in Seq(Packets)
      /\ DOMAIN q[i] = 1 .. Len(q[i]) /\ Len(q[i]) \in Nat \ {0}
      /\ Tail(q[i]) \in Seq(Packets)
      /\ DOMAIN Tail(q[i]) = 1 .. Len(q[i]) - 1
      /\ \A k \in 1 .. Len(q[i]) - 1 : Tail(q[i])[k] = q[i][k + 1]
  <2>1. q[i] \in Seq(Packets)
    BY DEF SubQueues
  <2>2. DOMAIN q[i] = 1 .. Len(q[i]) /\ Len(q[i]) \in Nat \ {0}
    BY <2>1, EmptySeq
  <2>3. /\ Tail(q[i]) \in Seq(Packets)
        /\ Len(Tail(q[i])) = Len(q[i]) - 1
        /\ \A k \in 1 .. Len(Tail(q[i])) : Tail(q[i])[k] = q[i][k + 1]
    BY <2>1, HeadTailProperties
  <2>4. DOMAIN Tail(q[i]) = 1 .. Len(Tail(q[i]))
    BY <2>3
  <2> QED
    BY <2>1, <2>2, <2>3, <2>4
<1>2. q2 \in SubQueues /\ q2[i] = Tail(q[i]) /\ \A j \in Classes : j # i => q2[j] = q[j]
  BY <1>1 DEF SubQueues
<1>3. <<i, 1>> \in SlotsOf(q)
  BY <1>1, SlotType
<1>4. ASSUME NEW s \in SlotsOf(q2)
      PROVE  f[s] \in SlotsOf(q) \ {<<i, 1>>} /\ f[s][1] = s[1] /\ Packet(q2, s) = Packet(q, f[s])
  <2>1. s = <<s[1], s[2]>> /\ s[1] \in Classes /\ s[2] \in DOMAIN q2[s[1]]
    <3> HIDE DEF q2
    <3> QED
      BY <1>2, SlotType
  <2>2. CASE s[1] = i
    <3>1. s[2] \in 1 .. Len(q[i]) - 1
      BY <1>1, <1>2, <2>1, <2>2
    <3>2. f[s] = <<i, s[2] + 1>> /\ s[2] + 1 \in DOMAIN q[i] /\ s[2] + 1 # 1
      BY <1>1, <2>2, <3>1
    <3> HIDE DEF f, q2
    <3>3. Packet(q2, s) = q[i][s[2] + 1]
      <4>1. q2[i][s[2]] = q[i][s[2] + 1]
        BY <1>1, <1>2, <3>1
      <4> QED
        BY <2>2, <4>1 DEF Packet
    <3>4. f[s] \in SlotsOf(q) /\ f[s] # <<i, 1>>
      BY <3>2, SlotType
    <3>5. Packet(q, f[s]) = q[i][s[2] + 1]
      BY <3>2 DEF Packet
    <3> QED
      BY <2>2, <3>2, <3>3, <3>4, <3>5
  <2>3. CASE s[1] # i
    <3>1. f[s] = s /\ q2[s[1]] = q[s[1]]
      BY <1>2, <2>1, <2>3
    <3> HIDE DEF q2
    <3>2. s \in SlotsOf(q)
      BY <2>1, <3>1, SlotType
    <3>3. s # <<i, 1>>
      BY <2>3
    <3>4. Packet(q2, s) = Packet(q, s)
      BY <3>1 DEF Packet
    <3> HIDE DEF f
    <3> QED
      BY <3>1, <3>2, <3>3, <3>4
  <2> QED
    BY <2>2, <2>3
<1>5. f \in Bijection(SlotsOf(q2), SlotsOf(q) \ {<<i, 1>>})
  <2>1. f \in [SlotsOf(q2) -> SlotsOf(q) \ {<<i, 1>>}]
    BY <1>4
  <2>2. \A s \in SlotsOf(q2) : s = <<s[1], s[2]>> /\ s[1] \in Classes /\ s[2] \in Int
    <3>1. ASSUME NEW j \in Classes
          PROVE  DOMAIN q2[j] \subseteq Int
      <4>1. q2[j] \in Seq(Packets)
        BY <1>2 DEF SubQueues
      <4> QED
        BY <4>1, LenProperties
    <3> HIDE DEF q2
    <3> QED
      BY <1>2, <3>1, SlotType
  <2>3. ASSUME NEW s \in SlotsOf(q2), NEW t \in SlotsOf(q2), f[s] = f[t]
        PROVE  s = t
    <3>1. s[1] = t[1]
      BY <1>4, <2>3
    <3>2. CASE s[1] = i
      <4>1. s[2] + 1 = t[2] + 1
        BY <2>3, <3>1, <3>2
      <4> HIDE DEF f, q2
      <4>2. s = <<s[1], s[2]>> /\ t = <<t[1], t[2]>> /\ s[2] \in Int /\ t[2] \in Int
        BY <2>2
      <4>3. s[2] = t[2]
        BY <4>1, <4>2
      <4> QED
        BY <3>1, <4>2, <4>3
    <3>3. CASE s[1] # i
      BY <2>3, <3>1, <3>3
    <3> QED
      BY <3>2, <3>3
  <2>4. ASSUME NEW t \in SlotsOf(q) \ {<<i, 1>>}
        PROVE  \E s \in SlotsOf(q2) : f[s] = t
    <3>1. t = <<t[1], t[2]>> /\ t[1] \in Classes /\ t[2] \in DOMAIN q[t[1]]
      BY SlotType
    <3>2. CASE t[1] = i
      <4>1. t[2] \in 2 .. Len(q[i])
        BY <1>1, <3>1, <3>2
      <4>2. t[2] - 1 \in DOMAIN q2[i] /\ (t[2] - 1) + 1 = t[2]
        BY <1>1, <1>2, <4>1
      <4>3. <<i, t[2] - 1>> \in SlotsOf(q2)
        BY <1>2, <4>2, SlotType
      <4> QED
        BY <3>1, <3>2, <4>2, <4>3
    <3>3. CASE t[1] # i
      <4>1. t[2] \in DOMAIN q2[t[1]]
        BY <1>2, <3>1, <3>3
      <4> HIDE DEF q2
      <4>2. <<t[1], t[2]>> \in SlotsOf(q2)
        BY <1>2, <3>1, <4>1, SlotType
      <4> QED
        BY <3>1, <3>3, <4>2
    <3> QED
      BY <3>2, <3>3
  <2> HIDE DEF f, q2
  <2> QED
    BY <2>1, <2>3, <2>4, Fun_IsBij
<1> QED
  <2> HIDE DEF f, q2
  <2>1. Moved(q, q2, {<<i, 1>>})
    BY <1>4, <1>5 DEF Moved
  <2> QED
    BY <1>2, <1>3, <2>1 DEF q2

\* Appending a packet is undone by taking it out again, with nothing moved.
LEMMA AppendMoves ==
  ASSUME NEW q \in SubQueues, NEW c \in Classes, NEW p \in Packets
  PROVE  LET q2 == [q EXCEPT ![c] = Append(@, p)]
             s2 == <<c, Len(q[c]) + 1>>
         IN  q2 \in SubQueues /\ s2 \in SlotsOf(q2) /\ Packet(q2, s2) = p /\ Moved(q2, q, {s2})
<1> DEFINE q2 == [q EXCEPT ![c] = Append(@, p)]
           s2 == <<c, Len(q[c]) + 1>>
           f == [s \in SlotsOf(q) |-> s]
<1>1. /\ q[c] \in Seq(Packets)
      /\ DOMAIN q[c] = 1 .. Len(q[c]) /\ Len(q[c]) \in Nat
      /\ Append(q[c], p) \in Seq(Packets)
      /\ DOMAIN Append(q[c], p) = 1 .. Len(q[c]) + 1
      /\ \A k \in 1 .. Len(q[c]) : Append(q[c], p)[k] = q[c][k]
      /\ Append(q[c], p)[Len(q[c]) + 1] = p
  <2>1. q[c] \in Seq(Packets)
    BY DEF SubQueues
  <2> QED
    BY <2>1
<1>2. q2 \in SubQueues /\ q2[c] = Append(q[c], p) /\ \A j \in Classes : j # c => q2[j] = q[j]
  BY <1>1 DEF SubQueues
<1>3. s2 \in SlotsOf(q2) /\ Packet(q2, s2) = p
  <2>1. Len(q[c]) + 1 \in DOMAIN q2[c] /\ q2[c][Len(q[c]) + 1] = p
    BY <1>1, <1>2
  <2> HIDE DEF q2
  <2> QED
    BY <1>2, <2>1, SlotType DEF Packet
<1>4. ASSUME NEW s \in SlotsOf(q)
      PROVE  s \in SlotsOf(q2) \ {s2} /\ Packet(q, s) = Packet(q2, s)
  <2>1. s = <<s[1], s[2]>> /\ s[1] \in Classes /\ s[2] \in DOMAIN q[s[1]]
    BY SlotType
  <2>2. CASE s[1] = c
    <3>1. s[2] \in DOMAIN q2[c] /\ q2[c][s[2]] = q[c][s[2]] /\ s[2] # Len(q[c]) + 1
      BY <1>1, <1>2, <2>1, <2>2
    <3> HIDE DEF q2
    <3>2. s \in SlotsOf(q2)
      BY <1>2, <2>1, <2>2, <3>1, SlotType
    <3>3. Packet(q, s) = Packet(q2, s)
      BY <2>2, <3>1 DEF Packet
    <3> QED
      BY <2>1, <3>1, <3>2, <3>3
  <2>3. CASE s[1] # c
    <3>1. q2[s[1]] = q[s[1]]
      BY <1>2, <2>1, <2>3
    <3> HIDE DEF q2
    <3>2. s \in SlotsOf(q2)
      BY <1>2, <2>1, <3>1, SlotType
    <3> QED
      BY <2>3, <3>1, <3>2 DEF Packet
  <2> QED
    BY <2>2, <2>3
<1>5. ASSUME NEW t \in SlotsOf(q2) \ {s2}
      PROVE  t \in SlotsOf(q)
  <2>1. t = <<t[1], t[2]>> /\ t[1] \in Classes /\ t[2] \in DOMAIN q2[t[1]]
    <3> HIDE DEF q2
    <3> QED
      BY <1>2, SlotType
  <2>2. CASE t[1] = c
    <3>1. t[2] \in 1 .. Len(q[c]) + 1 /\ t[2] # Len(q[c]) + 1
      BY <1>1, <1>2, <2>1, <2>2
    <3>2. t[2] \in DOMAIN q[c]
      BY <1>1, <3>1
    <3> QED
      BY <2>1, <2>2, <3>2, SlotType
  <2>3. CASE t[1] # c
    BY <1>2, <2>1, <2>3, SlotType
  <2> QED
    BY <2>2, <2>3
<1>6. f \in Bijection(SlotsOf(q), SlotsOf(q2) \ {s2})
  <2>1. f \in [SlotsOf(q) -> SlotsOf(q2) \ {s2}]
    BY <1>4
  <2>2. \A s, t \in SlotsOf(q) : f[s] = f[t] => s = t
    OBVIOUS
  <2>3. \A t \in SlotsOf(q2) \ {s2} : \E s \in SlotsOf(q) : f[s] = t
    BY <1>5
  <2> HIDE DEF f, q2, s2
  <2> QED
    BY <2>1, <2>2, <2>3, Fun_IsBij
<1>7. \A s \in SlotsOf(q) : f[s][1] = s[1] /\ Packet(q, s) = Packet(q2, f[s])
  <2> HIDE DEF q2, s2
  <2> QED
    BY <1>4
<1> QED
  <2> HIDE DEF f, q2, s2
  <2>1. Moved(q2, q, {s2})
    BY <1>6, <1>7 DEF Moved
  <2>2. q2 \in SubQueues /\ s2 \in SlotsOf(q2) /\ Packet(q2, s2) = p /\ Moved(q2, q, {s2})
    BY <1>2, <1>3, <2>1
  <2> QED
    BY <2>2 DEF q2, s2

\* One slot holds the bytes of one packet, in its class and in no other.
LEMMA OneSlot ==
  ASSUME NEW q \in SubQueues, NEW s \in SlotsOf(q)
  PROVE  /\ Cardinality({s}) = 1
         /\ BytesOf(q, {s}) = Packet(q, s).size
         /\ \A i \in Classes : BytesOf(q, InClass({s}, i)) = IF i = s[1] THEN Packet(q, s).size ELSE 0
<1>1. Cardinality({s}) = 1 /\ IsFiniteSet({s})
  BY FS_Singleton
<1>2. Packet(q, s).size \in Nat
  BY SlotType
<1>3. BytesOf(q, {s}) = Packet(q, s).size
  <2> DEFINE places == 1 .. Packet(q, s).size
  <2>1. IsFiniteSet(places) /\ Cardinality(places) = Packet(q, s).size
    BY <1>2, UpTo
  <2>2. Cells(q, {s}) = {s} \X places
    BY DEF Cells
  <2> HIDE DEF places
  <2>3. Cardinality({s} \X places) = Cardinality({s}) * Cardinality(places)
    BY <1>1, <2>1, FS_Product
  <2>4. BytesOf(q, {s}) = Cardinality({s} \X places)
    BY <2>2 DEF BytesOf
  <2>5. Cardinality({s}) * Cardinality(places) = Packet(q, s).size
    BY <1>1, <1>2, <2>1
  <2> QED
    BY <2>3, <2>4, <2>5
<1>4. ASSUME NEW i \in Classes
      PROVE  BytesOf(q, InClass({s}, i)) = IF i = s[1] THEN Packet(q, s).size ELSE 0
  <2>1. CASE i = s[1]
    <3>1. InClass({s}, i) = {s}
      BY <2>1 DEF InClass
    <3> QED
      BY <1>3, <2>1, <3>1
  <2>2. CASE i # s[1]
    <3>1. Cells(q, InClass({s}, i)) = {}
      BY <2>2 DEF InClass, Cells
    <3> QED
      BY <2>2, <3>1, FS_EmptySet DEF BytesOf
  <2> QED
    BY <2>1, <2>2
<1> QED
  BY <1>1, <1>3, <1>4
-----------------------------------------------------------------------------
(* The counters. *)

\* Sub-queues of packets, and counters that tell what they hold.
Inv == m_packets \in SubQueues /\ CountersAgree

\* Account keeps the counters right when the slots R were taken out and
\* nothing was added.
LEMMA AccountTaken ==
  ASSUME Inv, NEW R \in SUBSET Slots, NEW c \in Classes,
         m_packets' \in SubQueues, Moved(m_packets, m_packets', R), Account(R, c, 0, 0)
  PROVE  Inv'
<1>1. Bytes(R) \in Nat /\ Bytes(Slots) \in Nat /\ Cardinality(R) \in Nat /\ Cardinality(Slots) \in Nat
  <2>1. m_packets \in SubQueues /\ R \in SUBSET SlotsOf(m_packets)
    BY DEF Inv, Slots
  <2>2. IsFiniteSet(R) /\ IsFiniteSet(Slots)
    BY <2>1, CellsFinite DEF Slots
  <2>3. BytesOf(m_packets, R) \in Nat /\ BytesOf(m_packets, Slots) \in Nat
    BY <2>1, CellsFinite DEF Slots
  <2> QED
    BY <2>2, <2>3, FS_CardinalityType DEF Bytes
<1>2. \A i \in Classes : Bytes(InClass(R, i)) \in Nat /\ Bytes(InClass(Slots, i)) \in Nat
  <2>1. m_packets \in SubQueues
    BY DEF Inv
  <2>2. \A i \in Classes : /\ InClass(R, i) \in SUBSET SlotsOf(m_packets)
                           /\ InClass(Slots, i) \in SUBSET SlotsOf(m_packets)
    BY DEF InClass, Slots
  <2> QED
    BY <2>1, <2>2, CellsFinite DEF Bytes
<1>3. /\ Cardinality(Slots') = Cardinality(Slots) - Cardinality(R)
      /\ Bytes(Slots)' = Bytes(Slots) - Bytes(R)
      /\ \A i \in Classes : Bytes(InClass(Slots, i))' = Bytes(InClass(Slots, i)) - Bytes(InClass(R, i))
  BY MovedCounts DEF Inv, Slots, Bytes
<1>4. m_bytesInSubQueue' = [i \in Classes |-> Bytes(InClass(Slots, i))']
  <2>1. ASSUME NEW i \in Classes
        PROVE  m_bytesInSubQueue[i] - Bytes(InClass(R, i)) + (IF i = c THEN 0 ELSE 0)
               = Bytes(InClass(Slots, i))'
    BY <1>2, <1>3 DEF Inv, CountersAgree
  <2> QED
    BY <2>1 DEF Account
<1>5. /\ m_totalpackets' = Cardinality(Slots)' /\ m_nPackets' = Cardinality(Slots)'
      /\ m_bytesInQueue' = Bytes(Slots)' /\ m_nBytes' = Bytes(Slots)'
  BY <1>1, <1>3 DEF Inv, CountersAgree, Account
<1> QED
  BY <1>4, <1>5 DEF Inv, CountersAgree

\* Account keeps the counters right when the slots R are taken out and then a
\* packet is put in behind what is left of its class.
LEMMA AccountReplaced ==
  ASSUME Inv, NEW R \in SUBSET Slots, NEW c \in Classes, NEW p \in Packets,
         m_packets' = [Without(R) EXCEPT ![c] = Append(@, p)], Account(R, c, 1, p.size)
  PROVE  Inv'
<1> DEFINE q1 == Without(R)
           q2 == [q1 EXCEPT ![c] = Append(@, p)]
           s2 == <<c, Len(q1[c]) + 1>>
<1>1. m_packets \in SubQueues /\ R \in SUBSET SlotsOf(m_packets) /\ p.size \in Nat
  BY PacketsAssumption DEF Inv, Slots, Packets
<1>2. q1 \in SubQueues /\ Moved(m_packets, q1, R)
  BY <1>1, RemoveMoves DEF Without
<1>3. q2 \in SubQueues /\ s2 \in SlotsOf(q2) /\ Packet(q2, s2) = p /\ Moved(q2, q1, {s2})
  <2> HIDE DEF q1
  <2> QED
    BY <1>2, AppendMoves
<1>4. m_packets' = q2
  OBVIOUS
<1> HIDE DEF q1, q2
<1>5. /\ Cardinality(SlotsOf(q1)) = Cardinality(Slots) - Cardinality(R)
      /\ BytesOf(q1, SlotsOf(q1)) = Bytes(Slots) - Bytes(R)
      /\ \A i \in Classes : BytesOf(q1, InClass(SlotsOf(q1), i)) = Bytes(InClass(Slots, i)) - Bytes(InClass(R, i))
  BY <1>1, <1>2, MovedCounts DEF Slots, Bytes
<1>6. /\ Cardinality(SlotsOf(q1)) = Cardinality(SlotsOf(q2)) - Cardinality({s2})
      /\ BytesOf(q1, SlotsOf(q1)) = BytesOf(q2, SlotsOf(q2)) - BytesOf(q2, {s2})
      /\ \A i \in Classes : BytesOf(q1, InClass(SlotsOf(q1), i))
                            = BytesOf(q2, InClass(SlotsOf(q2), i)) - BytesOf(q2, InClass({s2}, i))
  <2>1. {s2} \in SUBSET SlotsOf(q2)
    BY <1>3
  <2> QED
    BY <1>2, <1>3, <2>1, MovedCounts
<1>7. /\ Cardinality({s2}) = 1
      /\ BytesOf(q2, {s2}) = p.size
      /\ \A i \in Classes : BytesOf(q2, InClass({s2}, i)) = IF i = c THEN p.size ELSE 0
  <2>1. s2[1] = c
    OBVIOUS
  <2> HIDE DEF s2
  <2> QED
    BY <1>3, <2>1, OneSlot
<1> HIDE DEF s2
<1>8. /\ Cardinality(SlotsOf(q2)) \in Nat /\ BytesOf(q2, SlotsOf(q2)) \in Nat
      /\ Cardinality(Slots) \in Nat /\ Bytes(Slots) \in Nat
      /\ Cardinality(R) \in Nat /\ Bytes(R) \in Nat
  <2>1. /\ IsFiniteSet(SlotsOf(q2)) /\ IsFiniteSet(Slots) /\ IsFiniteSet(R)
        /\ BytesOf(q2, SlotsOf(q2)) \in Nat /\ Bytes(Slots) \in Nat /\ Bytes(R) \in Nat
    BY <1>1, <1>3, CellsFinite DEF Slots, Bytes
  <2> QED
    BY <2>1, FS_CardinalityType
<1>9. \A i \in Classes : /\ BytesOf(q2, InClass(SlotsOf(q2), i)) \in Nat
                         /\ Bytes(InClass(Slots, i)) \in Nat
                         /\ Bytes(InClass(R, i)) \in Nat
  <2>1. \A i \in Classes : /\ InClass(SlotsOf(q2), i) \in SUBSET SlotsOf(q2)
                           /\ InClass(Slots, i) \in SUBSET SlotsOf(m_packets)
                           /\ InClass(R, i) \in SUBSET SlotsOf(m_packets)
    BY <1>1 DEF InClass, Slots
  <2> QED
    BY <1>1, <1>3, <2>1, CellsFinite DEF Bytes
<1>10. /\ Cardinality(Slots') = Cardinality(SlotsOf(q2))
       /\ Bytes(Slots)' = BytesOf(q2, SlotsOf(q2))
       /\ \A i \in Classes : Bytes(InClass(Slots, i))' = BytesOf(q2, InClass(SlotsOf(q2), i))
  BY <1>4 DEF Slots, Bytes
<1>11. /\ m_totalpackets' = Cardinality(Slots') /\ m_nPackets' = Cardinality(Slots')
       /\ m_bytesInQueue' = Bytes(Slots)' /\ m_nBytes' = Bytes(Slots)'
  BY <1>1, <1>5, <1>6, <1>7, <1>8, <1>10 DEF Inv, CountersAgree, Account
<1>12. ASSUME NEW i \in Classes
       PROVE  m_bytesInSubQueue[i] - Bytes(InClass(R, i)) + (IF i = c THEN p.size ELSE 0)
              = Bytes(InClass(Slots, i))'
  <2>2. m_bytesInSubQueue[i] = Bytes(InClass(Slots, i))
    BY DEF Inv, CountersAgree
  <2> DEFINE added == IF i = c THEN p.size ELSE 0
  <2>3. BytesOf(q1, InClass(SlotsOf(q1), i)) = Bytes(InClass(Slots, i)) - Bytes(InClass(R, i))
    BY <1>5
  <2>4. BytesOf(q1, InClass(SlotsOf(q1), i)) = BytesOf(q2, InClass(SlotsOf(q2), i)) - added
    BY <1>6, <1>7
  <2>5. Bytes(InClass(Slots, i))' = BytesOf(q2, InClass(SlotsOf(q2), i))
    BY <1>10
  <2>6. added \in Nat /\ BytesOf(q2, InClass(SlotsOf(q2), i)) \in Nat
    BY <1>1, <1>9
  <2>7. Bytes(InClass(Slots, i)) - Bytes(InClass(R, i)) + added = Bytes(InClass(Slots, i))'
    <3> HIDE DEF added
    <3> QED
      BY <1>9, <2>3, <2>4, <2>5, <2>6
  <2> QED
    BY <2>2, <2>7
<1>13. m_bytesInSubQueue' = [i \in Classes |-> Bytes(InClass(Slots, i))']
  BY <1>12 DEF Account
<1> QED
  BY <1>3, <1>4, <1>11, <1>13 DEF Inv, CountersAgree
-----------------------------------------------------------------------------
(* The theorems. *)

\* What is evicted is in the queue, and a packet has a class.
LEMMA EvictedType ==
  ASSUME NEW p \in Packets
  PROVE  Evicted(p) \in SUBSET Slots /\ ClassOf(p) \in Classes
<1>1. Evicted(p) \in SUBSET Slots
  BY DEF Evicted, Lower
<1>2. p.prio \in Nat
  BY PacketsAssumption DEF Packets
<1> QED
  BY <1>1, <1>2, ClassesAssumption DEF ClassOf, Classes

\* An empty queue counts nothing.
LEMMA InitInv ==
  ASSUME Init
  PROVE  Inv
<1>1. m_packets \in SubQueues /\ \A i \in Classes : m_packets[i] = <<>>
  BY DEF Init, SubQueues
<1>2. Slots = {}
  <2>1. \A i \in Classes : DOMAIN m_packets[i] = {}
    BY <1>1
  <2> QED
    BY <2>1 DEF Slots, SlotsOf
<1>3. Cells(m_packets, {}) = {} /\ \A i \in Classes : InClass({}, i) = {}
  BY DEF Cells, InClass
<1> QED
  BY <1>1, <1>2, <1>3, FS_EmptySet DEF Init, Inv, CountersAgree, Bytes, BytesOf

\* No call of the queue and no flush lets a counter drift.
LEMMA NextInv ==
  ASSUME Inv, [Next]_vars
  PROVE  Inv'
<1>1. ASSUME NEW p \in Packets, EnqueueRefused(p)
      PROVE  Inv'
  <2>1. Evicted(p) \in SUBSET Slots /\ ClassOf(p) \in Classes
    BY EvictedType
  <2>2. m_packets' \in SubQueues /\ Moved(m_packets, m_packets', Evicted(p))
    BY <1>1, <2>1, RemoveMoves DEF EnqueueRefused, Without, Slots, Inv
  <2>3. Account(Evicted(p), ClassOf(p), 0, 0)
    BY <1>1 DEF EnqueueRefused
  <2> QED
    BY <2>1, <2>2, <2>3, AccountTaken
<1>2. ASSUME NEW p \in Packets, EnqueueAccepted(p)
      PROVE  Inv'
  <2>1. Evicted(p) \in SUBSET Slots /\ ClassOf(p) \in Classes
    BY EvictedType
  <2>2. /\ m_packets' = [Without(Evicted(p)) EXCEPT ![ClassOf(p)] = Append(@, p)]
        /\ Account(Evicted(p), ClassOf(p), 1, p.size)
    BY <1>2 DEF EnqueueAccepted
  <2> QED
    BY <2>1, <2>2, AccountReplaced
<1>3. ASSUME NEW i \in Classes, Dequeue(i)
      PROVE  Inv'
  <2>1. m_packets' \in SubQueues /\ {<<i, 1>>} \in SUBSET Slots /\ Moved(m_packets, m_packets', {<<i, 1>>})
    BY <1>3, TailMoves DEF Dequeue, Slots, Inv
  <2>2. Account({<<i, 1>>}, i, 0, 0)
    BY <1>3 DEF Dequeue
  <2> QED
    BY <2>1, <2>2, AccountTaken
<1>4. ASSUME NEW f \in Flows, FlushOutFlowPackets(f)
      PROVE  Inv'
  <2>1. OfFlow(f) \in SUBSET Slots /\ 0 \in Classes
    BY ClassesAssumption DEF OfFlow, Classes
  <2>2. m_packets' \in SubQueues /\ Moved(m_packets, m_packets', OfFlow(f))
    BY <1>4, <2>1, RemoveMoves DEF FlushOutFlowPackets, Without, Slots, Inv
  <2>3. Account(OfFlow(f), 0, 0, 0)
    BY <1>4 DEF FlushOutFlowPackets
  <2> QED
    BY <2>1, <2>2, <2>3, AccountTaken
<1>5. CASE UNCHANGED vars
  BY <1>5 DEF vars, counters, Inv, CountersAgree, Slots, Bytes
<1> QED
  BY <1>1, <1>2, <1>3, <1>4, <1>5 DEF Next

\* Inv is an invariant.
LEMMA SpecInv == Spec => []Inv
<1>1. Init => Inv
  BY InitInv
<1>2. Inv /\ [Next]_vars => Inv'
  BY NextInv
<1> QED
  BY <1>1, <1>2, PTL DEF Spec

\* The counters of Queue and of PriorityQueue always tell what is stored,
\* whatever is enqueued, evicted, refused, sent and flushed, in either mode.
THEOREM CountersAlwaysAgree == Spec => []CountersAgree
<1>1. Inv => CountersAgree
  BY DEF Inv
<1> QED
  BY <1>1, SpecInv, PTL

\* The state keeps its type; in particular no counter ever wraps below zero.
THEOREM TypeCorrect == Spec => []TypeOK
<1>1. Inv => TypeOK
  <2> SUFFICES ASSUME Inv
               PROVE  TypeOK
    OBVIOUS
  <2>1. m_packets \in SubQueues
    BY DEF Inv
  <2>2. IsFiniteSet(Slots) /\ Bytes(Slots) \in Nat
    BY <2>1, CellsFinite DEF Slots, Bytes
  <2>3. Cardinality(Slots) \in Nat
    BY <2>2, FS_CardinalityType
  <2>4. \A i \in Classes : Bytes(InClass(Slots, i)) \in Nat
    <3>1. \A i \in Classes : InClass(Slots, i) \in SUBSET SlotsOf(m_packets)
      BY DEF InClass, Slots
    <3> QED
      BY <2>1, <3>1, CellsFinite DEF Bytes
  <2> QED
    BY <2>1, <2>2, <2>3, <2>4 DEF Inv, CountersAgree, TypeOK, SubQueues
<1> QED
  BY <1>1, SpecInv, PTL
-----------------------------------------------------------------------------
(* The limit. *)

\* DropPacket finds a packet to drop when there is one of a lower class.
LEMMA LastIsDropped ==
  ASSUME m_packets \in SubQueues, NEW p \in Packets, Lower(p) # {}
  PROVE  \E s \in Lower(p) : DroppedBefore(s) = {}
<1> DEFINE K == {i \in Classes : m_packets[i] # <<>>}
<1>1. ASSUME NEW i \in Classes
      PROVE  /\ DOMAIN m_packets[i] = 1 .. Len(m_packets[i]) /\ Len(m_packets[i]) \in Nat
             /\ m_packets[i] # <<>> => Len(m_packets[i]) # 0
  <2>1. m_packets[i] \in Seq(Packets)
    BY DEF SubQueues
  <2> QED
    BY <2>1, EmptySeq
<1>2. \A s \in Slots : s[1] \in K /\ s[2] \in 1 .. Len(m_packets[s[1]])
  <2>1. ASSUME NEW s \in Slots
        PROVE  s[1] \in Classes /\ s[2] \in DOMAIN m_packets[s[1]]
    BY SlotType DEF Slots
  <2>2. ASSUME NEW i \in Classes, m_packets[i] = <<>>
        PROVE  DOMAIN m_packets[i] = {}
    BY <2>2
  <2> QED
    BY <1>1, <2>1, <2>2
<1>3. PICK t \in Slots : t[1] > p.prio
  BY DEF Lower
<1>4. K \in SUBSET Int /\ IsFiniteSet(K) /\ K # {}
  <2>1. IsFiniteSet(Classes)
    BY ClassesAssumption, FS_Interval DEF Classes
  <2>2. K \in SUBSET Classes
    OBVIOUS
  <2>3. IsFiniteSet(K)
    BY <2>1, <2>2, FS_Subset
  <2> QED
    BY <1>2, <1>3, <2>2, <2>3 DEF Classes
<1>5. PICK i \in K : \A j \in K : j <= i
  <2> HIDE DEF K
  <2> QED
    BY <1>4, Greatest
<1> DEFINE s == <<i, Len(m_packets[i])>>
<1>6. s \in Slots
  <2>1. Len(m_packets[i]) \in DOMAIN m_packets[i]
    BY <1>1, <1>5
  <2> QED
    BY <1>5, <2>1, SlotType DEF Slots
<1>7. i > p.prio
  <2>1. t[1] \in K /\ t[1] <= i
    BY <1>2, <1>3, <1>5
  <2>2. t[1] \in Int /\ i \in Int
    BY <1>4, <2>1
  <2>3. p.prio \in Nat
    BY PacketsAssumption DEF Packets
  <2> QED
    BY <1>3, <2>1, <2>2, <2>3
<1>8. DroppedBefore(s) = {}
  <2> SUFFICES ASSUME NEW u \in Slots
               PROVE  ~(u[1] > s[1]) /\ ~(u[1] = s[1] /\ u[2] > s[2])
    BY DEF DroppedBefore
  <2>1. u[1] \in K /\ u[1] <= i /\ u[2] \in 1 .. Len(m_packets[u[1]])
    BY <1>2, <1>5
  <2>2. u[1] \in Int /\ i \in Int
    BY <1>4, <2>1
  <2>3. Len(m_packets[i]) \in Nat
    BY <1>1, <1>5
  <2> QED
    BY <2>1, <2>2, <2>3
<1> QED
  BY <1>6, <1>7, <1>8 DEF Lower

\* When a packet is let into a full queue of packets another has left.
LEMMA RoomForOne ==
  ASSUME Inv, WithinLimit, Mode = "packets", NEW p \in Packets, ~Refuses(p)
  PROVE  Cardinality(Slots) - Cardinality(Evicted(p)) + 1 <= MaxPackets
<1>1. Cardinality(Slots) \in Nat /\ Cardinality(Slots) <= MaxPackets /\ m_totalpackets = Cardinality(Slots)
  <2>1. IsFiniteSet(Slots)
    BY CellsFinite DEF Inv, Slots
  <2> QED
    BY <2>1, FS_CardinalityType DEF Inv, CountersAgree, WithinLimit
<1>2. IsFiniteSet(Evicted(p)) /\ Cardinality(Evicted(p)) \in Nat
  <2>1. Evicted(p) \in SUBSET SlotsOf(m_packets) /\ m_packets \in SubQueues
    BY EvictedType DEF Inv, Slots
  <2> QED
    BY <2>1, CellsFinite, FS_CardinalityType
<1>3. CASE TooManyPackets
  <2>1. Lower(p) # {}
    BY <1>3 DEF Refuses
  <2>2. PICK s \in Lower(p) : DroppedBefore(s) = {}
    BY <2>1, LastIsDropped DEF Inv
  <2>3. s \in Evicted(p)
    BY <1>3, <2>2 DEF Evicted
  <2>4. Cardinality(Evicted(p)) # 0
    BY <1>2, <2>3, FS_EmptySet
  <2> QED
    BY <1>1, <1>2, <2>4, LimitsAssumption
<1>4. CASE ~TooManyPackets
  BY <1>1, <1>2, <1>4, LimitsAssumption DEF TooManyPackets
<1> QED
  BY <1>3, <1>4

\* Taking packets out never breaks the limit.
LEMMA LimitTaken ==
  ASSUME Inv, WithinLimit, NEW R \in SUBSET Slots,
         m_packets' \in SubQueues, Moved(m_packets, m_packets', R)
  PROVE  WithinLimit'
<1>1. m_packets \in SubQueues /\ R \in SUBSET SlotsOf(m_packets)
  BY DEF Inv, Slots
<1>2. /\ Cardinality(Slots') = Cardinality(Slots) - Cardinality(R)
      /\ Bytes(Slots)' = Bytes(Slots) - Bytes(R)
  BY <1>1, MovedCounts DEF Slots, Bytes
<1>3. /\ Cardinality(Slots) \in Nat /\ Cardinality(R) \in Nat
      /\ Bytes(Slots) \in Nat /\ Bytes(R) \in Nat
  BY <1>1, CellsFinite, FS_CardinalityType DEF Slots, Bytes
<1>4. Slots = {} => Slots' = {}
  <2>1. PICK f : f \in Bijection(SlotsOf(m_packets'), SlotsOf(m_packets) \ R)
    BY DEF Moved
  <2>2. f \in [Slots' -> Slots \ R]
    BY <2>1, Fun_BijectionProperties DEF Slots
  <2> QED
    BY <2>2
<1> QED
  BY <1>2, <1>3, <1>4, LimitsAssumption DEF WithinLimit

\* The buffer never holds more than its limit, though a packet may be let in
\* on the strength of the ones DropPacket throws out for it.
THEOREM AlwaysWithinLimit == Spec => []WithinLimit
<1>1. Init => WithinLimit
  <2> SUFFICES ASSUME Init
               PROVE  WithinLimit
    OBVIOUS
  <2>1. Slots = {}
    <3>1. \A i \in Classes : DOMAIN m_packets[i] = {}
      BY DEF Init
    <3> QED
      BY <3>1 DEF Slots, SlotsOf
  <2> QED
    BY <2>1, FS_EmptySet, LimitsAssumption DEF WithinLimit
<1>2. Inv /\ WithinLimit /\ Inv' /\ [Next]_vars => WithinLimit'
  <2> SUFFICES ASSUME Inv, WithinLimit, Inv', [Next]_vars
               PROVE  WithinLimit'
    OBVIOUS
  <2>1. ASSUME NEW p \in Packets, EnqueueRefused(p)
        PROVE  WithinLimit'
    <3>1. Evicted(p) \in SUBSET Slots
      BY EvictedType
    <3>2. m_packets' \in SubQueues /\ Moved(m_packets, m_packets', Evicted(p))
      BY <2>1, <3>1, RemoveMoves DEF EnqueueRefused, Without, Slots, Inv
    <3> QED
      BY <3>1, <3>2, LimitTaken
  <2>2. ASSUME NEW p \in Packets, EnqueueAccepted(p)
        PROVE  WithinLimit'
    <3>1. /\ m_totalpackets' = m_totalpackets - Cardinality(Evicted(p)) + 1
          /\ m_bytesInQueue' = m_bytesInQueue - Bytes(Evicted(p)) + p.size
          /\ ~Refuses(p)
      BY <2>2 DEF EnqueueAccepted, Account
    <3>2. /\ m_totalpackets = Cardinality(Slots) /\ m_totalpackets' = Cardinality(Slots')
          /\ m_bytesInQueue = Bytes(Slots) /\ m_bytesInQueue' = Bytes(Slots)'
      BY DEF Inv, CountersAgree
    <3>3. CASE Mode = "packets"
      <4>1. Cardinality(Slots) - Cardinality(Evicted(p)) + 1 <= MaxPackets
        BY <3>1, <3>3, RoomForOne
      <4>2. Cardinality(Slots') <= MaxPackets
        BY <3>1, <3>2, <4>1
      <4> QED
        BY <3>3, <4>2 DEF WithinLimit
    <3>4. CASE Mode = "bytes"
      <4>1. ~(m_bytesInQueue - Bytes(Evicted(p)) + p.size >= MaxBytes)
        BY <3>1, <3>4 DEF Refuses, TooManyBytes
      <4>2. Bytes(Slots)' \in Nat
        BY CellsFinite DEF Inv, Slots, Bytes
      <4>3. Bytes(Slots)' < MaxBytes
        BY <3>1, <3>2, <4>1, <4>2, LimitsAssumption
      <4> QED
        BY <3>4, <4>3 DEF WithinLimit
    <3> QED
      BY <3>3, <3>4, ModeAssumption
  <2>3. ASSUME NEW i \in Classes, Dequeue(i)
        PROVE  WithinLimit'
    <3>1. m_packets' \in SubQueues /\ {<<i, 1>>} \in SUBSET Slots /\ Moved(m_packets, m_packets', {<<i, 1>>})
      BY <2>3, TailMoves DEF Dequeue, Slots, Inv
    <3> QED
      BY <3>1, LimitTaken
  <2>4. ASSUME NEW f \in Flows, FlushOutFlowPackets(f)
        PROVE  WithinLimit'
    <3>1. OfFlow(f) \in SUBSET Slots
      BY DEF OfFlow
    <3>2. m_packets' \in SubQueues /\ Moved(m_packets, m_packets', OfFlow(f))
      BY <2>4, <3>1, RemoveMoves DEF FlushOutFlowPackets, Without, Slots, Inv
    <3> QED
      BY <3>1, <3>2, LimitTaken
  <2>5. CASE UNCHANGED vars
    BY <2>5 DEF vars, counters, WithinLimit, Slots, Bytes
  <2> QED
    BY <2>1, <2>2, <2>3, <2>4, <2>5 DEF Next
<1> QED
  BY <1>1, <1>2, SpecInv, PTL DEF Spec
-----------------------------------------------------------------------------
\* Evictions and flushes take nothing out of class 0, and a packet of class 0 is
\* refused only when nothing of another class is left, so that the queue is full
\* of class 0 alone: class 0 implements DropTailQueue.

\* Class 0 is a class.
LEMMA TopIsClass == 0 \in Classes
BY ClassesAssumption DEF Classes

\* Slots of other classes are taken out of a queue without a trace in class i.
LEMMA Untouched ==
  ASSUME NEW q \in SubQueues, NEW R \in SUBSET SlotsOf(q), NEW i \in Classes, \A s \in R : s[1] # i
  PROVE  Remove(q, R)[i] = q[i] /\ BytesOf(q, InClass(R, i)) = 0
<1>1. q[i] \in Seq(Packets) /\ Len(q[i]) \in Nat /\ DOMAIN q[i] = 1 .. Len(q[i])
  BY DEF SubQueues
<1>2. KeptIn(q, R, i) = 1 .. Len(q[i])
  BY <1>1 DEF KeptIn
<1>3. Cardinality(KeptIn(q, R, i)) = Len(q[i])
  BY <1>1, <1>2, UpTo
<1>4. Remove(q, R)[i] = [k \in 1 .. Len(q[i]) |-> q[i][NthOf(1 .. Len(q[i]), k)]]
  BY <1>2, <1>3 DEF Remove
<1>5. \A k \in 1 .. Len(q[i]) : NthOf(1 .. Len(q[i]), k) = k
  BY <1>1, NthOfInterval
<1>6. Remove(q, R)[i] = [k \in 1 .. Len(q[i]) |-> q[i][k]]
  BY <1>4, <1>5
<1>7. q[i] = [k \in 1 .. Len(q[i]) |-> q[i][k]]
  BY <1>1
<1>8. InClass(R, i) = {}
  BY DEF InClass
<1>9. Cells(q, {}) = {}
  BY DEF Cells
<1>10. Cardinality({}) = 0
  BY FS_EmptySet
<1> QED
  BY <1>6, <1>7, <1>8, <1>9, <1>10 DEF BytesOf

\* In particular none in class 0.
LEMMA TopUntouched ==
  ASSUME NEW q \in SubQueues, NEW R \in SUBSET SlotsOf(q), \A s \in R : s[1] # 0
  PROVE  Remove(q, R)[0] = q[0] /\ BytesOf(q, InClass(R, 0)) = 0
BY TopIsClass, Untouched

\* Of any slots, DropPacket comes to one first.
LEMMA FirstDropped ==
  ASSUME m_packets \in SubQueues, NEW R \in SUBSET Slots, R # {}
  PROVE  \E s \in R : R \cap DroppedBefore(s) = {}
<1> DEFINE I == {s[1] : s \in R}
<1>1. \A s \in R : s[1] \in Classes /\ s[2] \in 1 .. Len(m_packets[s[1]])
  <2>1. ASSUME NEW s \in R
        PROVE  s[1] \in Classes /\ s[2] \in DOMAIN m_packets[s[1]]
    BY SlotType DEF Slots
  <2>2. ASSUME NEW i \in Classes
        PROVE  DOMAIN m_packets[i] = 1 .. Len(m_packets[i])
    BY DEF SubQueues
  <2> QED
    BY <2>1, <2>2
<1>2. IsFiniteSet(I) /\ I \in SUBSET Int /\ I # {}
  <2>1. IsFiniteSet(Classes) /\ Classes \in SUBSET Int
    BY ClassesAssumption, FS_Interval DEF Classes
  <2>2. I \in SUBSET Classes
    BY <1>1
  <2>3. IsFiniteSet(I)
    BY <2>1, <2>2, FS_Subset
  <2> QED
    BY <2>1, <2>2, <2>3
<1>3. PICK i \in I : \A j \in I : j <= i
  <2> HIDE DEF I
  <2> QED
    BY <1>2, Greatest
<1> DEFINE K == {s[2] : s \in {r \in R : r[1] = i}}
<1>4. IsFiniteSet(K) /\ K \in SUBSET Int /\ K # {}
  <2>1. Len(m_packets[i]) \in Nat
    BY <1>1, <1>3 DEF SubQueues
  <2>2. K \in SUBSET (1 .. Len(m_packets[i]))
    BY <1>1
  <2>3. IsFiniteSet(K)
    BY <2>1, <2>2, UpTo, FS_Subset
  <2> QED
    BY <1>3, <2>1, <2>2, <2>3
<1>5. PICK k \in K : \A j \in K : j <= k
  <2> HIDE DEF K
  <2> QED
    BY <1>4, Greatest
<1>6. PICK s \in R : s[1] = i /\ s[2] = k
  BY <1>5
<1>7. ASSUME NEW t \in R
      PROVE  t \notin DroppedBefore(s)
  <2>1. t[1] \in I /\ t[1] <= i
    BY <1>3
  <2>2. t[1] = i => t[2] \in K /\ t[2] <= k
    BY <1>5
  <2>3. i \in Int /\ k \in Int /\ t[1] \in Int
    BY <1>2, <1>3, <1>4, <1>5, <2>1
  <2>4. t[1] = i => t[2] \in Int
    BY <1>4, <2>2
  <2> QED
    BY <1>6, <2>1, <2>2, <2>3, <2>4 DEF DroppedBefore
<1> QED
  BY <1>6, <1>7

\* What a packet of class 0 may displace is all that is not of class 0, and
\* what a packet of another class may displace is not of class 0 either.
LEMMA LowerOfTop ==
  ASSUME m_packets \in SubQueues, NEW p \in Packets
  PROVE  /\ \A s \in Lower(p) : s[1] # 0
         /\ ClassOf(p) = 0 => Lower(p) = Slots \ InClass(Slots, 0)
<1>1. p.prio \in Nat /\ NumClasses \in Nat \ {0}
  BY PacketsAssumption, ClassesAssumption DEF Packets
<1>2. \A s \in Slots : s[1] \in 0 .. NumClasses - 1
  <2>1. \A s \in Slots : s[1] \in Classes
    BY SlotType DEF Slots
  <2> QED
    BY <2>1 DEF Classes
<1>3. ClassOf(p) = 0 => p.prio = 0 \/ NumClasses = 1
  BY <1>1 DEF ClassOf
<1> QED
  BY <1>1, <1>2, <1>3 DEF Lower, InClass

\* Class 0 holds as many packets as it has slots.
LEMMA TopCount ==
  ASSUME m_packets \in SubQueues
  PROVE  Cardinality(InClass(Slots, 0)) = Len(m_packets[0]) /\ Len(m_packets[0]) \in Nat
<1> DEFINE n == Len(m_packets[0])
           f == [k \in 1 .. n |-> <<0, k>>]
<1>1. n \in Nat /\ DOMAIN m_packets[0] = 1 .. n
  <2>1. m_packets[0] \in Seq(Packets)
    BY TopIsClass DEF SubQueues
  <2> QED
    BY <2>1
<1>2. InClass(Slots, 0) = {<<0, k>> : k \in 1 .. n}
  <2>1. \A k \in 1 .. n : <<0, k>> \in Slots
    BY <1>1, SlotType, TopIsClass DEF Slots
  <2>2. ASSUME NEW s \in Slots, s[1] = 0
        PROVE  s = <<0, s[2]>> /\ s[2] \in 1 .. n
    BY <1>1, <2>2, SlotType DEF Slots
  <2> HIDE DEF n
  <2> QED
    BY <2>1, <2>2 DEF InClass
<1>3. f \in Bijection(1 .. n, InClass(Slots, 0))
  <2> HIDE DEF n
  <2>1. f \in [1 .. n -> InClass(Slots, 0)]
    BY <1>2
  <2>2. \A j, k \in 1 .. n : f[j] = f[k] => j = k
    OBVIOUS
  <2>3. \A s \in InClass(Slots, 0) : \E k \in 1 .. n : f[k] = s
    BY <1>2
  <2> QED
    BY <2>1, <2>2, <2>3, Fun_IsBij
<1>4. IsFiniteSet(1 .. n) /\ Cardinality(1 .. n) = n
  BY <1>1, UpTo
<1>5. ExistsBijection(1 .. n, InClass(Slots, 0))
  BY <1>3 DEF ExistsBijection
<1>6. Cardinality(InClass(Slots, 0)) = Cardinality(1 .. n)
  <2> HIDE DEF n, f
  <2> QED
    BY <1>4, <1>5, FS_Bijection
<1> QED
  BY <1>1, <1>4, <1>6

\* For the bytes: what is not of class 0 and what is make up the queue.
LEMMA BytesOfTop ==
  ASSUME Inv, NEW p \in Packets, ClassOf(p) = 0
  PROVE  /\ m_bytesInSubQueue[0] = m_bytesInQueue - Bytes(Lower(p))
         /\ m_bytesInQueue \in Nat /\ Bytes(Lower(p)) \in Nat /\ m_bytesInSubQueue[0] \in Nat
<1>1. m_packets \in SubQueues /\ InClass(Slots, 0) \in SUBSET SlotsOf(m_packets)
  BY DEF Inv, InClass, Slots
<1>2. Lower(p) = SlotsOf(m_packets) \ InClass(Slots, 0)
  BY <1>1, LowerOfTop DEF Slots
<1>3. BytesOf(m_packets, SlotsOf(m_packets) \ InClass(Slots, 0))
        = BytesOf(m_packets, SlotsOf(m_packets)) - BytesOf(m_packets, InClass(Slots, 0))
  BY <1>1, Parts
<1>4. /\ BytesOf(m_packets, SlotsOf(m_packets)) \in Nat
      /\ BytesOf(m_packets, InClass(Slots, 0)) \in Nat
      /\ BytesOf(m_packets, Lower(p)) \in Nat
  BY <1>1, <1>2, CellsFinite
<1>5. m_bytesInSubQueue[0] = Bytes(InClass(Slots, 0)) /\ m_bytesInQueue = Bytes(Slots)
  BY TopIsClass DEF Inv, CountersAgree
<1> QED
  BY <1>2, <1>3, <1>4, <1>5 DEF Bytes, Slots

\* Some of what is evicted is no more than all of it.
LEMMA PartOfBytes ==
  ASSUME m_packets \in SubQueues, NEW S \in SUBSET Slots, NEW R \in SUBSET S
  PROVE  Bytes(R) \in Nat /\ Bytes(S) \in Nat /\ Bytes(R) <= Bytes(S)
<1>1. S \in SUBSET SlotsOf(m_packets) /\ S \ R \in SUBSET SlotsOf(m_packets) /\ R \in SUBSET SlotsOf(m_packets)
  BY DEF Slots
<1>2. BytesOf(m_packets, S \ R) = BytesOf(m_packets, S) - BytesOf(m_packets, R)
  BY <1>1, Parts
<1>3. BytesOf(m_packets, S) \in Nat /\ BytesOf(m_packets, S \ R) \in Nat /\ BytesOf(m_packets, R) \in Nat
  BY <1>1, CellsFinite
<1> QED
  BY <1>2, <1>3 DEF Bytes

\* In bytes mode a packet of class 0 that is refused has had everything
\* evicted that is not of class 0.
LEMMA AllEvicted ==
  ASSUME Inv, Mode = "bytes", NEW p \in Packets, ClassOf(p) = 0, Refuses(p)
  PROVE  Evicted(p) = Lower(p)
<1>1. m_packets \in SubQueues /\ Lower(p) \in SUBSET Slots /\ Evicted(p) \in SUBSET Lower(p)
  BY DEF Inv, Lower, Evicted
<1> SUFFICES ASSUME Lower(p) \ Evicted(p) # {}
             PROVE  FALSE
  BY <1>1
<1>2. PICK s \in Lower(p) \ Evicted(p) : (Lower(p) \ Evicted(p)) \cap DroppedBefore(s) = {}
  BY <1>1, FirstDropped
<1>3. DroppedBefore(s) \subseteq Lower(p)
  <2>1. p.prio \in Nat
    BY PacketsAssumption DEF Packets
  <2>2. \A t \in Slots : t[1] \in Int
    BY <1>1, SlotType DEF Slots, Classes
  <2> QED
    BY <1>2, <2>1, <2>2 DEF DroppedBefore, Lower
<1>4. DroppedBefore(s) \in SUBSET Evicted(p)
  BY <1>2, <1>3
<1>5. ~TooManyBytes(DroppedBefore(s), p)
  BY <1>2 DEF Evicted
<1>6. TooManyBytes(Evicted(p), p)
  BY DEF Refuses
<1>7. /\ Bytes(DroppedBefore(s)) \in Nat /\ Bytes(Evicted(p)) \in Nat
      /\ Bytes(DroppedBefore(s)) <= Bytes(Evicted(p))
  BY <1>1, <1>4, PartOfBytes
<1>8. m_bytesInQueue \in Nat /\ p.size \in Nat /\ MaxBytes \in Nat
  BY BytesOfTop, PacketsAssumption, LimitsAssumption DEF Packets
<1> QED
  BY <1>5, <1>6, <1>7, <1>8 DEF TooManyBytes

\* A packet of class 0 is refused exactly when class 0 alone fills the queue.
LEMMA RefusesIsFull ==
  ASSUME Inv, WithinLimit, NEW p \in Packets, ClassOf(p) = 0
  PROVE  Refuses(p) <=> TopClass!Full(p)
<1>1. m_packets \in SubQueues /\ Lower(p) = Slots \ InClass(Slots, 0) /\ InClass(Slots, 0) \in SUBSET Slots
  BY LowerOfTop DEF Inv, InClass
<1>2. CASE Mode = "packets"
  <2>1. IsFiniteSet(Slots) /\ Cardinality(Slots) \in Nat /\ m_totalpackets = Cardinality(Slots)
    <3>1. IsFiniteSet(Slots)
      BY <1>1, CellsFinite DEF Slots
    <3> QED
      BY <3>1, FS_CardinalityType DEF Inv, CountersAgree
  <2>2. Cardinality(InClass(Slots, 0)) = Len(m_packets[0]) /\ Len(m_packets[0]) \in Nat
    BY <1>1, TopCount
  <2>3. Cardinality(InClass(Slots, 0)) <= Cardinality(Slots)
        /\ (Cardinality(InClass(Slots, 0)) = Cardinality(Slots) => InClass(Slots, 0) = Slots)
    BY <1>1, <2>1, FS_Subset
  <2>4. Cardinality(Slots) <= MaxPackets
    BY <1>2 DEF WithinLimit
  <2>5. Lower(p) = {} => InClass(Slots, 0) = Slots
    BY <1>1
  <2>6. Refuses(p) <=> Cardinality(Slots) >= MaxPackets /\ Lower(p) = {}
    BY <1>2, <2>1 DEF Refuses, TooManyPackets
  <2>7. TopClass!Full(p) <=> Len(m_packets[0]) >= MaxPackets
    BY <1>2 DEF TopClass!Full
  <2> QED
    BY <1>1, <2>1, <2>2, <2>3, <2>4, <2>5, <2>6, <2>7, LimitsAssumption
<1>3. CASE Mode = "bytes"
  <2>1. m_bytesInSubQueue[0] = m_bytesInQueue - Bytes(Lower(p))
        /\ m_bytesInQueue \in Nat /\ Bytes(Lower(p)) \in Nat /\ m_bytesInSubQueue[0] \in Nat
    BY BytesOfTop
  <2>2. Bytes(Evicted(p)) \in Nat /\ Bytes(Evicted(p)) <= Bytes(Lower(p))
    <3>1. Lower(p) \in SUBSET Slots /\ Evicted(p) \in SUBSET Lower(p)
      BY DEF Lower, Evicted
    <3> QED
      BY <1>1, <3>1, PartOfBytes
  <2>3. p.size \in Nat /\ MaxBytes \in Nat
    BY PacketsAssumption, LimitsAssumption DEF Packets
  <2>4. Refuses(p) <=> m_bytesInQueue - Bytes(Evicted(p)) + p.size >= MaxBytes
    BY <1>3 DEF Refuses, TooManyBytes
  <2>5. TopClass!Full(p) <=> m_bytesInSubQueue[0] + p.size >= MaxBytes
    BY <1>3 DEF TopClass!Full
  <2>6. Refuses(p) => Evicted(p) = Lower(p)
    BY <1>3, AllEvicted
  <2> QED
    BY <2>1, <2>2, <2>3, <2>4, <2>5, <2>6
<1> QED
  BY <1>2, <1>3, ModeAssumption

\* The bytes of class 0 are a number.
LEMMA TopBytes ==
  ASSUME Inv
  PROVE  m_bytesInSubQueue[0] \in Nat
<1>1. m_bytesInSubQueue[0] = Bytes(InClass(Slots, 0))
  BY TopIsClass DEF Inv, CountersAgree
<1>2. InClass(Slots, 0) \in SUBSET SlotsOf(m_packets) /\ m_packets \in SubQueues
  BY DEF Inv, InClass, Slots
<1> QED
  BY <1>1, <1>2, CellsFinite DEF Bytes

\* Account adds to class c what is put into it, and takes from class 0 only
\* what was in class 0.
LEMMA AccountOfTop ==
  ASSUME Inv, NEW R \in SUBSET Slots, \A s \in R : s[1] # 0, NEW c \in Classes, NEW n, NEW size \in Nat,
         Account(R, c, n, size)
  PROVE  m_bytesInSubQueue'[0] = m_bytesInSubQueue[0] + (IF c = 0 THEN size ELSE 0)
<1>1. Bytes(InClass(R, 0)) = 0
  BY TopUntouched DEF Inv, Slots, Bytes
<1>2. m_bytesInSubQueue[0] \in Nat
  BY TopBytes
<1>3. m_bytesInSubQueue'[0] = m_bytesInSubQueue[0] - Bytes(InClass(R, 0)) + (IF 0 = c THEN size ELSE 0)
  BY TopIsClass DEF Account
<1> QED
  BY <1>1, <1>2, <1>3

\* Every call of the queue is for class 0 what a drop-tail queue does, or nothing.
LEMMA TopStep ==
  ASSUME Inv, WithinLimit, ~BackgroundDrop, Watched = 0, [Next]_vars
  PROVE  [TopClass!Next]_(TopClass!vars)
<1> USE DEF TopClass!vars
<1>1. m_packets \in SubQueues
  BY DEF Inv
<1>2. ASSUME NEW p \in Packets
      PROVE  /\ ClassOf(p) \in Classes /\ Evicted(p) \in SUBSET Slots
             /\ \A s \in Evicted(p) : s[1] # 0
             /\ p.size \in Nat
             /\ Without(Evicted(p)) \in SubQueues /\ Without(Evicted(p))[0] = m_packets[0]
  <2>1. ClassOf(p) \in Classes /\ Evicted(p) \in SUBSET Slots
    BY EvictedType
  <2>2. \A s \in Evicted(p) : s[1] # 0
    BY <1>1, LowerOfTop DEF Evicted
  <2>3. Without(Evicted(p)) \in SubQueues /\ Without(Evicted(p))[0] = m_packets[0]
    BY <1>1, <2>1, <2>2, TopUntouched, RemoveMoves DEF Without, Slots
  <2> QED
    BY <2>1, <2>2, <2>3, PacketsAssumption DEF Packets
<1>3. ASSUME NEW p \in Packets, EnqueueRefused(p)
      PROVE  [TopClass!Next]_(TopClass!vars)
  <2>1. m_packets'[0] = m_packets[0]
    BY <1>2, <1>3 DEF EnqueueRefused
  <2>2. m_bytesInSubQueue'[0] = m_bytesInSubQueue[0]
    <3>1. m_bytesInSubQueue'[0] = m_bytesInSubQueue[0] + (IF ClassOf(p) = 0 THEN 0 ELSE 0)
      BY <1>2, <1>3, AccountOfTop DEF EnqueueRefused
    <3>2. m_bytesInSubQueue[0] \in Nat
      BY TopBytes
    <3> QED
      BY <3>1, <3>2
  <2>3. CASE ClassOf(p) = 0
    <3>1. TopClass!Full(p)
      BY <1>3, <2>3, RefusesIsFull DEF EnqueueRefused
    <3>2. returned' = Refused(p)
      BY <1>3, <2>3 DEF EnqueueRefused, Return
    <3>3. TopClass!Enqueue(p)
      BY <2>1, <2>2, <3>1, <3>2 DEF TopClass!Enqueue, TopClass!Refused, Refused
    <3> QED
      BY <2>3, <3>3 DEF TopClass!Next
  <2>4. CASE ClassOf(p) # 0
    <3>1. returned' = returned
      BY <1>2, <1>3, <2>4 DEF EnqueueRefused, Return, Classes
    <3> QED
      BY <2>1, <2>2, <3>1
  <2> QED
    BY <2>3, <2>4
<1>4. ASSUME NEW p \in Packets, EnqueueAccepted(p)
      PROVE  [TopClass!Next]_(TopClass!vars)
  <2>1. m_packets' = [Without(Evicted(p)) EXCEPT ![ClassOf(p)] = Append(@, p)]
    BY <1>4 DEF EnqueueAccepted
  <2>2. m_bytesInSubQueue'[0] = m_bytesInSubQueue[0] + (IF ClassOf(p) = 0 THEN p.size ELSE 0)
    BY <1>2, <1>4, AccountOfTop DEF EnqueueAccepted
  <2>3. CASE ClassOf(p) = 0
    <3>1. ~TopClass!Full(p)
      BY <1>4, <2>3, RefusesIsFull DEF EnqueueAccepted
    <3>2. returned' = Accepted(p)
      BY <1>4, <2>3 DEF EnqueueAccepted, Return
    <3>3. m_packets'[0] = Append(m_packets[0], p)
      BY <1>2, <2>1, <2>3, TopIsClass DEF SubQueues
    <3>4. TopClass!Enqueue(p)
      BY <2>2, <2>3, <3>1, <3>2, <3>3 DEF TopClass!Enqueue, TopClass!Accepted, Accepted
    <3> QED
      BY <2>3, <3>4 DEF TopClass!Next
  <2>4. CASE ClassOf(p) # 0
    <3>1. returned' = returned
      BY <1>2, <1>4, <2>4 DEF EnqueueAccepted, Return, Classes
    <3>2. m_packets'[0] = m_packets[0]
      BY <1>2, <2>1, <2>4, TopIsClass DEF SubQueues
    <3>3. m_bytesInSubQueue'[0] = m_bytesInSubQueue[0]
      BY <2>2, <2>4, TopBytes
    <3> QED
      BY <3>1, <3>2, <3>3
  <2> QED
    BY <2>3, <2>4
<1>5. ASSUME NEW i \in Classes, Dequeue(i)
      PROVE  [TopClass!Next]_(TopClass!vars)
  <2>1. m_packets[i] # <<>> /\ m_packets' = [m_packets EXCEPT ![i] = Tail(@)] /\ Account({<<i, 1>>}, i, 0, 0)
    BY <1>5 DEF Dequeue
  <2>2. <<i, 1>> \in Slots
    BY <1>1, <2>1, TailMoves DEF Slots
  <2>3. CASE i = 0
    <3>1. m_packets'[0] = Tail(m_packets[0]) /\ m_packets[0] # <<>>
      BY <1>1, <2>1, <2>3, TopIsClass DEF SubQueues
    <3>2. returned' = Sent(Head(m_packets[0]))
      BY <1>5, <2>3 DEF Dequeue, Return
    <3>3. Packet(m_packets, <<0, 1>>) = Head(m_packets[0])
      BY <1>1, <2>3, <3>1, TopIsClass DEF Packet, SubQueues
    <3>4. BytesOf(m_packets, InClass({<<0, 1>>}, 0)) = Head(m_packets[0]).size
      <4>1. <<0, 1>> \in SlotsOf(m_packets)
        BY <2>2, <2>3 DEF Slots
      <4>2. \A j \in Classes : BytesOf(m_packets, InClass({<<0, 1>>}, j))
                               = IF j = <<0, 1>>[1] THEN Packet(m_packets, <<0, 1>>).size ELSE 0
        BY <1>1, <4>1, OneSlot
      <4> QED
        BY <3>3, <4>2, TopIsClass
    <3>5. m_bytesInSubQueue'[0] = m_bytesInSubQueue[0] - Head(m_packets[0]).size
      <4>1. m_bytesInSubQueue'[0] = m_bytesInSubQueue[0] - Head(m_packets[0]).size + 0
        BY <2>1, <2>3, <3>4, TopIsClass DEF Account, Bytes
      <4>2. m_bytesInSubQueue[0] \in Nat
        BY TopBytes
      <4>3. Head(m_packets[0]).size \in Nat
        BY <1>1, <2>2, <2>3, <3>3, SlotType DEF Slots
      <4> QED
        BY <4>1, <4>2, <4>3
    <3>6. TopClass!Dequeue
      BY <3>1, <3>2, <3>5 DEF TopClass!Dequeue, TopClass!Sent, Sent
    <3> QED
      BY <3>6 DEF TopClass!Next
  <2>4. CASE i # 0
    <3>1. m_packets'[0] = m_packets[0]
      BY <1>1, <2>1, <2>4, TopIsClass DEF SubQueues
    <3>2. \A s \in {<<i, 1>>} : s[1] # 0
      BY <2>4
    <3>3. {<<i, 1>>} \in SUBSET Slots
      BY <2>2
    <3>4. m_bytesInSubQueue'[0] = m_bytesInSubQueue[0] + (IF i = 0 THEN 0 ELSE 0)
      BY <2>1, <3>2, <3>3, AccountOfTop
    <3>5. returned' = returned
      BY <1>5, <2>4 DEF Dequeue, Return, Classes
    <3> QED
      BY <3>1, <3>4, <3>5, TopBytes
  <2> QED
    BY <2>3, <2>4
<1>6. ASSUME NEW f \in Flows, FlushOutFlowPackets(f)
      PROVE  [TopClass!Next]_(TopClass!vars)
  <2>1. OfFlow(f) \in SUBSET Slots /\ \A s \in OfFlow(f) : s[1] # 0
    BY DEF OfFlow
  <2>2. m_packets'[0] = m_packets[0]
    BY <1>1, <1>6, <2>1, TopUntouched DEF FlushOutFlowPackets, Without, Slots
  <2>3. m_bytesInSubQueue'[0] = m_bytesInSubQueue[0] + (IF 0 = 0 THEN 0 ELSE 0)
    BY <1>6, <2>1, AccountOfTop, TopIsClass DEF FlushOutFlowPackets
  <2>4. returned' = returned
    BY <1>6 DEF FlushOutFlowPackets
  <2> QED
    BY <2>2, <2>3, <2>4, TopBytes
<1>7. CASE UNCHANGED vars
  BY <1>7 DEF vars, counters
<1> QED
  BY <1>3, <1>4, <1>5, <1>6, <1>7 DEF Next

\* RC3's claim for its buffer: with no random background drops, class 0
\* accepts, refuses and sends exactly what a DropTailQueue of the same size
\* does that no packet of another class ever enters.
THEOREM TopAlwaysDropTail ==
  ASSUME ~BackgroundDrop, Watched = 0
  PROVE  Spec => TopClassIsDropTail
<1>1. Init => TopClass!Init
  BY TopIsClass DEF Init, TopClass!Init, Nothing, TopClass!Nothing
<1>2. Inv /\ WithinLimit /\ [Next]_vars => [TopClass!Next]_(TopClass!vars)
  BY TopStep
<1> QED
  BY <1>1, <1>2, SpecInv, AlwaysWithinLimit, PTL DEF Spec, TopClassIsDropTail, TopClass!Spec
=============================================================================
