--------------------------- MODULE RC3Flow_proofs ---------------------------
(***************************************************************************)
(* What holds of every RC3 flow whose application writes whole segments.   *)
(*                                                                         *)
(* A handler of a socket maps a state to a state, so each has a lemma      *)
(* (SendPendingDataIs, ReceivedAckIs, DoForwardUpIs, ...) that says what   *)
(* the result is like when the argument satisfies Shape and Open (sender)  *)
(* or RcvShape (receiver).  FlowInv relates the two sockets and the paths; *)
(* each action of RC3Flow preserves it.  Busy adds what needs an open      *)
(* window.                                                                 *)
(***************************************************************************)
EXTENDS RC3Flow, Ranking_proofs, SequenceTheorems
-----------------------------------------------------------------------------
\* The grid of segments: the bytes 1, 1 + MSS, 1 + 2 * MSS, ...

LEMMA ModType ==
  ASSUME NEW x \in Int
  PROVE  (x % MSS) \in 0 .. MSS - 1 /\ \E k \in Int : x = k * MSS + (x % MSS)
<1>1. MSS \in Nat \ {0}
  BY MSSAssumption
<1>2. (x % MSS) \in 0 .. MSS - 1
  BY <1>1
<1>3. (x \div MSS) \in Int /\ x = (x \div MSS) * MSS + (x % MSS)
  BY <1>1
<1> QED
  BY <1>2, <1>3

LEMMA ModUnique ==
  ASSUME NEW k \in Int, NEW r \in 0 .. MSS - 1
  PROVE  (k * MSS + r) % MSS = r
<1> DEFINE x == k * MSS + r
<1>1. MSS \in Nat \ {0} /\ x \in Int /\ k * MSS \in Int
  BY MSSAssumption
<1> HIDE DEF x
<1>2. PICK j \in Int : x = j * MSS + (x % MSS)
  BY <1>1, ModType
<1>3. (x % MSS) \in 0 .. MSS - 1
  BY <1>1, ModType
<1>4. (k - j) * MSS = (x % MSS) - r
  BY <1>1, <1>2, <1>3 DEF x
<1>5. k - j = 0
  <2>1. CASE k - j > 0
    <3>1. (k - j) * MSS >= MSS
      BY <1>1, <2>1
    <3> QED
      BY <1>1, <1>3, <1>4, <3>1
  <2>2. CASE k - j < 0
    <3>1. (k - j) * MSS <= - MSS
      BY <1>1, <2>2
    <3> QED
      BY <1>1, <1>3, <1>4, <3>1
  <2> QED
    BY <2>1, <2>2
<1> QED
  BY <1>1, <1>3, <1>4, <1>5 DEF x

\* A number is a multiple of MSS when nothing is left.
Multiple(x) == x \in Int /\ x % MSS = 0

LEMMA MultipleIs ==
  ASSUME NEW x \in Int
  PROVE  Multiple(x) <=> \E k \in Int : x = k * MSS
<1>0. MSS \in Nat \ {0} /\ 0 \in 0 .. MSS - 1
  BY MSSAssumption
<1>1. ASSUME NEW k \in Int, x = k * MSS PROVE Multiple(x)
  <2>1. k * MSS \in Int /\ k * MSS + 0 = k * MSS
    BY <1>0
  <2> QED
    BY <1>0, <1>1, <2>1, ModUnique DEF Multiple
<1>2. ASSUME Multiple(x) PROVE \E k \in Int : x = k * MSS
  <2>1. PICK k \in Int : x = k * MSS + (x % MSS)
    BY ModType
  <2>2. x % MSS = 0 /\ k * MSS \in Int
    BY <1>0, <1>2 DEF Multiple
  <2> QED
    BY <2>1, <2>2
<1> QED
  BY <1>1, <1>2

LEMMA Multiples ==
  /\ Multiple(0) /\ Multiple(MSS)
  /\ \A x, y : Multiple(x) /\ Multiple(y) => Multiple(x + y) /\ Multiple(x - y)
  /\ \A x : Multiple(x) /\ x > 0 => x >= MSS
  /\ \A k \in Int : Multiple(k * MSS)
<1>0. MSS \in Nat \ {0}
  BY MSSAssumption
<1>1. \A k \in Int : Multiple(k * MSS)
  BY <1>0, MultipleIs
<1>2. Multiple(0) /\ Multiple(MSS)
  <2>1. 0 = 0 * MSS /\ MSS = 1 * MSS
    BY <1>0
  <2> QED
    BY <1>1, <2>1
<1>3. ASSUME NEW x, NEW y, Multiple(x), Multiple(y) PROVE Multiple(x + y) /\ Multiple(x - y)
  <2>1. x \in Int /\ y \in Int
    BY <1>3 DEF Multiple
  <2>2. PICK k \in Int : x = k * MSS
    BY <1>3, <2>1, MultipleIs
  <2>3. PICK l \in Int : y = l * MSS
    BY <1>3, <2>1, MultipleIs
  <2>4. x + y = (k + l) * MSS /\ x - y = (k - l) * MSS
    BY <1>0, <2>2, <2>3
  <2> QED
    BY <1>1, <2>4
<1>4. ASSUME NEW x, Multiple(x), x > 0 PROVE x >= MSS
  <2>1. x \in Int
    BY <1>4 DEF Multiple
  <2>2. PICK k \in Int : x = k * MSS
    BY <1>4, <2>1, MultipleIs
  <2>3. k > 0
    <3>1. CASE k <= 0
      <4>1. k * MSS <= 0
        BY <1>0, <3>1
      <4> QED
        BY <1>4, <2>1, <2>2, <4>1
    <3> QED
      BY <3>1
  <2>4. k * MSS >= MSS
    BY <1>0, <2>3
  <2> QED
    BY <2>2, <2>4
<1> QED
  BY <1>1, <1>2, <1>3, <1>4

OnGrid(n) == n \in Nat /\ n > 0 /\ (n - 1) % MSS = 0

LEMMA GridIs == \A n : OnGrid(n) <=> n \in Nat /\ n > 0 /\ Multiple(n - 1)
BY DEF OnGrid, Multiple

LEMMA GridFacts ==
  /\ OnGrid(1)
  /\ \A a : OnGrid(a) => a \in Nat /\ a > 0
  /\ \A a : OnGrid(a) => OnGrid(a + MSS)
  /\ \A a, b : OnGrid(a) /\ OnGrid(b) => Multiple(b - a) /\ (a < b => a + MSS <= b)
<1>0. MSS \in Nat \ {0}
  BY MSSAssumption
<1>1. OnGrid(1)
  BY Multiples, GridIs
<1>2. ASSUME NEW a, OnGrid(a) PROVE OnGrid(a + MSS)
  <2>1. a \in Nat /\ a > 0 /\ Multiple(a - 1)
    BY <1>2, GridIs
  <2>2. Multiple((a - 1) + MSS)
    BY <2>1, Multiples
  <2>3. (a - 1) + MSS = (a + MSS) - 1
    BY <1>0, <2>1
  <2> QED
    BY <1>0, <2>1, <2>2, <2>3, GridIs
<1>3. ASSUME NEW a, NEW b, OnGrid(a), OnGrid(b)
      PROVE  Multiple(b - a) /\ (a < b => a + MSS <= b)
  <2>1. a \in Nat /\ a > 0 /\ b \in Nat /\ b > 0 /\ Multiple(a - 1) /\ Multiple(b - 1)
    BY <1>3, GridIs
  <2>2. Multiple((b - 1) - (a - 1)) /\ (b - 1) - (a - 1) = b - a
    BY <2>1, Multiples
  <2>3. b - a > 0 => b - a >= MSS
    BY <2>2, Multiples
  <2> QED
    BY <1>0, <2>1, <2>2, <2>3
<1> QED
  BY <1>1, <1>2, <1>3, GridIs

LEMMA GridNat == \A a : OnGrid(a) => a \in Nat /\ a > 0
BY GridIs

LEMMA GridDiff ==
  ASSUME NEW a, NEW b, OnGrid(a), OnGrid(b)
  PROVE  Multiple(b - a) /\ (b - a) % MSS = 0 /\ (a < b => a + MSS <= b)
BY GridFacts DEF Multiple

\* A number that is a multiple away from one on the grid is on it.
LEMMA GridShift ==
  ASSUME NEW a, OnGrid(a), NEW b \in Int, b > 0, Multiple(b - a) \/ Multiple(a - b)
  PROVE  OnGrid(b)
<1>1. a \in Nat /\ a > 0 /\ Multiple(a - 1)
  BY GridIs
<1>2. CASE Multiple(b - a)
  <2>1. Multiple((a - 1) + (b - a)) /\ (a - 1) + (b - a) = b - 1
    BY <1>1, <1>2, Multiples
  <2> QED
    BY <2>1, GridIs
<1>3. CASE Multiple(a - b)
  <2>1. Multiple((a - 1) - (a - b))
    BY <1>1, <1>3, Multiples
  <2>2. (a - 1) - (a - b) = b - 1
    BY <1>1
  <2> QED
    BY <2>1, <2>2, GridIs
<1> QED
  BY <1>2, <1>3

\* Every number from a on lies in one segment of those that start at a.
LEMMA InSegment ==
  ASSUME NEW a \in Int, NEW b \in Int, a <= b
  PROVE  \E t \in a .. b : Multiple(t - a) /\ (t - a) % MSS = 0 /\ t \in Int /\ b < t + MSS
<1> DEFINE t == b - ((b - a) % MSS)
<1>0. MSS \in Nat \ {0} /\ b - a \in Int /\ b - a >= 0
  BY MSSAssumption
<1>1. ((b - a) % MSS) \in 0 .. MSS - 1
  BY <1>0, ModType
<1>2. PICK k \in Int : b - a = k * MSS + ((b - a) % MSS)
  BY <1>0, ModType
<1>3. t - a = k * MSS /\ k * MSS \in Int /\ t \in Int /\ t <= b /\ b < t + MSS
  BY <1>0, <1>1, <1>2
<1>4. Multiple(t - a)
  BY <1>3, Multiples
<1>5. t >= a
  <2>1. ~(k * MSS < 0)
    <3>1. CASE k < 0
      <4>1. k * MSS <= - MSS
        BY <1>0, <3>1
      <4> QED
        BY <1>0, <1>1, <1>2, <1>3, <4>1
    <3>2. CASE k >= 0
      BY <1>0, <3>2
    <3> QED
      BY <3>1, <3>2
  <2> QED
    BY <1>3, <2>1
<1> HIDE DEF t
<1> QED
  BY <1>3, <1>4, <1>5 DEF Multiple

-----------------------------------------------------------------------------
\* The scoreboard: what a walk finds, what an update marks.

LEMMA LastIs ==
  ASSUME NEW S, NEW q \in Seq(S), q # <<>>
  PROVE  Last(q) \in Range(q)
<1>1. Len(q) \in DOMAIN q
  OBVIOUS
<1> QED
  BY <1>1 DEF Last, Range

Marks(board) == board.acked \cup board.sacked

BoardOK(board) ==
  /\ board \in Board /\ board.known \subseteq Nat \ {0}
  /\ \A t \in Marks(board) : OnGrid(t)

\* GetNextAggSegment skips marked segments only.
LEMMA NextAggIs ==
  ASSUME NEW board, BoardOK(board), NEW a, OnGrid(a), NEW g, g = GetNextAggSegment(board, a)
  PROVE  g = 0 \/ (OnGrid(g) /\ a <= g /\ g \notin Marks(board) /\ \A t \in a .. g - 1 : OnGrid(t) => t \in Marks(board))
<1>1. a \in Nat /\ a > 0 /\ board.known \subseteq Nat
  BY GridFacts DEF BoardOK, Board
<1> DEFINE U == Unmarked(board, a)
<1>2. CASE U = {}
  BY <1>2 DEF GetNextAggSegment
<1>3. CASE U # {}
  <2>1. U \in SUBSET Nat
    BY <1>1 DEF Unmarked, WalkUp
  <2>2. g = Min(U) /\ g \in U /\ \A j \in U : g <= j
    <3> HIDE DEF U
    <3>1. Min(U) \in U /\ \A j \in U : Min(U) <= j
      BY <1>3, <2>1, MinOfNat
    <3>2. g = Min(U)
      BY <1>3 DEF GetNextAggSegment, U
    <3> QED
      BY <3>1, <3>2
  <2>3. g \in Nat /\ a <= g /\ (g - a) % MSS = 0 /\ g \notin Marks(board) /\ Strides(a, g) \subseteq board.known
    BY <2>1, <2>2 DEF Unmarked, WalkUp, Stride, Marks
  <2>4. OnGrid(g)
    <3>1. Multiple(g - a)
      BY <1>1, <2>3 DEF Multiple
    <3> QED
      BY <1>1, <2>3, <3>1, GridShift
  <2>5. ASSUME NEW t \in a .. g - 1, OnGrid(t), t \notin Marks(board) PROVE FALSE
    <3>1. t \in Nat /\ a <= t /\ t < g
      BY <1>1, <2>3, <2>5
    <3>2. (t - a) % MSS = 0
      BY <2>5, GridDiff
    <3>3. Strides(a, t) \subseteq Strides(a, g) /\ t \in Strides(a, g)
      BY <1>1, <2>3, <3>1, <3>2 DEF Strides, Stride
    <3>4. t \in U
      BY <2>3, <2>5, <3>1, <3>2, <3>3 DEF Unmarked, WalkUp, Stride, Marks
    <3> QED
      BY <2>2, <2>3, <3>1, <3>4
  <2> QED
    BY <2>3, <2>4, <2>5
<1> QED
  BY <1>2, <1>3

\* What UpdateScoreBoard marks is below the acknowledgement or in a block.
LEMMA UpdateMarks ==
  ASSUME NEW board, BoardOK(board), NEW ack, OnGrid(ack), NEW sack,
         \A i \in DOMAIN sack : OnGrid(sack[i][1]) /\ OnGrid(sack[i][2])
  PROVE  /\ BoardOK(UpdateScoreBoard(board, ack, sack))
         /\ Marks(board) \subseteq Marks(UpdateScoreBoard(board, ack, sack))
         /\ \A t \in Marks(UpdateScoreBoard(board, ack, sack)) :
              \/ t \in Marks(board) \/ t + MSS <= ack
              \/ \E i \in DOMAIN sack : sack[i][1] <= t /\ t + MSS <= sack[i][2]
<1> DEFINE next == UpdateScoreBoard(board, ack, sack)
           below == {t \in board.known \ board.acked : t < ack /\ Stride(t, ack)
                       /\ Strides(t, ack - 1) \subseteq board.known \ board.acked}
           inBlocks == UNION {Strides(b[1], b[2] - 1) : b \in Range(sack)}
<1>1. next = [known |-> board.known \cup inBlocks, acked |-> board.acked \cup below, sacked |-> board.sacked \cup inBlocks]
  BY DEF UpdateScoreBoard
<1>2. ack \in Nat /\ ack > 0 /\ MSS \in Nat \ {0}
  BY GridFacts, MSSAssumption
<1>3. ASSUME NEW t \in inBlocks
      PROVE  OnGrid(t) /\ \E i \in DOMAIN sack : sack[i][1] <= t /\ t + MSS <= sack[i][2]
  <2>1. PICK b \in Range(sack) : t \in Strides(b[1], b[2] - 1)
    OBVIOUS
  <2>2. PICK i \in DOMAIN sack : b = sack[i]
    BY <2>1 DEF Range
  <2>3. OnGrid(b[1]) /\ OnGrid(b[2]) /\ b[1] \in Nat /\ b[1] > 0 /\ b[2] \in Nat
    BY <2>2, GridFacts
  <2>4. t \in b[1] .. b[2] - 1 /\ t \in Int /\ (t - b[1]) % MSS = 0
    BY <2>1, <2>3 DEF Strides, Stride
  <2>5. Multiple(t - b[1]) /\ t > 0
    BY <2>3, <2>4 DEF Multiple
  <2>6. OnGrid(t)
    BY <2>3, <2>4, <2>5, GridShift
  <2>7. t + MSS <= b[2]
    BY <2>3, <2>4, <2>6, GridFacts
  <2> QED
    BY <2>2, <2>3, <2>4, <2>6, <2>7
<1>4. ASSUME NEW t \in below
      PROVE  OnGrid(t) /\ t + MSS <= ack
  <2>1. t \in Nat /\ t < ack /\ (ack - t) % MSS = 0 /\ t \notin board.acked
    BY DEF Stride, BoardOK, Board
  <2>2. Multiple(ack - t)
    BY <1>2, <2>1 DEF Multiple
  <2>3. t # 0
    BY DEF BoardOK, Board
  <2>4. OnGrid(t)
    BY <2>1, <2>2, <2>3, GridShift
  <2> QED
    BY <2>1, <2>4, GridFacts
<1>5. Marks(next) = Marks(board) \cup below \cup inBlocks
  BY <1>1 DEF Marks
<1>6. BoardOK(next)
  <2>1. \A t \in below \cup inBlocks : OnGrid(t) /\ t \in Nat \ {0}
    BY <1>3, <1>4, GridFacts
  <2> HIDE DEF below, inBlocks
  <2>2. next \in Board /\ next.known \subseteq Nat \ {0}
    BY <1>1, <2>1 DEF BoardOK, Board
  <2>3. \A t \in Marks(next) : OnGrid(t)
    BY <1>5, <2>1 DEF BoardOK, Board
  <2> QED
    BY <2>2, <2>3 DEF BoardOK, Board
<1> HIDE DEF next, below, inBlocks
<1> QED
  BY <1>3, <1>4, <1>5, <1>6 DEF next

-----------------------------------------------------------------------------
\* The sender: what SendPendingData and the new acknowledgements do.

SenderFields ==
  {"state", "rc3_p2", "scoreboard", "head", "tail", "nextTx", "highTx", "cWnd", "ssThresh", "recover",
   "inFastRec", "dupAckCount", "bumpedSeq", "p2_block_max", "p2_block_bytes_sent", "last_block_seq",
   "retx", "out"}

\* r differs from s in the fields in F only.
Keeps(s, r, F) ==
  DOMAIN r = SenderFields /\ \A f \in SenderFields \ F : r[f] = s[f]

\* The segments of a sender that has written up to tail, sent up to high and
\* sent the block below block at low priority.
Segs == [flags : {"ACK", ""}, prio : Nat, seq : Nat, len : {0, MSS}]

Goes(m, tail, high, block) ==
  /\ OnGrid(m.seq) /\ m.seq + m.len <= tail
  /\ m.prio = 0 => m.seq + m.len <= high
  /\ m.prio > 0 => m.len = MSS /\ m.seq + m.len <= block

Sendable(tail, high, block) == {m \in Segs : Goes(m, tail, high, block)}

Advanced(s, r) ==
  s.tail <= r.tail /\ s.highTx <= r.highTx /\ s.p2_block_max <= r.p2_block_max

\* Only StartRLPLoop sends at low priority, and only a FIN is repeated on its own.
Urgent(q) == \A i \in DOMAIN q : q[i].prio = 0
Ticks(e)  == e \in {Off, "ReTxTimeout"}

\* What every handler but StartRLPLoop does.
Proceeds(s, r) ==
  /\ s.tail <= r.tail /\ s.highTx <= r.highTx /\ s.p2_block_max <= r.p2_block_max
  /\ Urgent(s.out) => Urgent(r.out)
  /\ Ticks(s.retx) => Ticks(r.retx)

LEMMA ProceedsIs == \A s, r : Proceeds(s, r) => Advanced(s, r)
BY DEF Proceeds, Advanced

\* Where a sender has got to: nowhere, or to the end of a segment.
Edge(n) == n = 0 \/ OnGrid(n)

Shape(s) ==
  /\ DOMAIN s = SenderFields
  /\ BoardOK(s.scoreboard) /\ \A t \in Marks(s.scoreboard) : t + MSS <= s.tail
  /\ OnGrid(s.head) /\ OnGrid(s.tail) /\ s.head <= s.tail
  /\ s.highTx \in 0 .. s.tail /\ Edge(s.highTx) /\ s.p2_block_max \in 0 .. s.tail
  /\ Multiple(s.p2_block_bytes_sent) /\ s.p2_block_bytes_sent >= 0
  /\ s.out \in Seq(Sendable(s.tail, s.highTx, s.p2_block_max))
  /\ s.inFastRec \in BOOLEAN /\ s.recover \in Nat
  /\ s.inFastRec => s.head < s.recover /\ s.recover <= s.highTx

Open(s) ==
  /\ s.state = "ESTABLISHED"
  /\ OnGrid(s.nextTx) /\ s.head <= s.nextTx /\ s.nextTx <= s.tail
  /\ s.head <= s.highTx \/ s.head = s.nextTx
  /\ \A t \in s.highTx .. s.nextTx - 1 : OnGrid(t) => t \in Marks(s.scoreboard)

LEMMA SegTypes == \A m \in Segs : m.prio \in Nat /\ m.seq \in Nat /\ m.len \in Nat /\ m.len \in {0, MSS}
<1> SUFFICES ASSUME NEW m \in Segs
             PROVE  m.prio \in Nat /\ m.seq \in Nat /\ m.len \in Nat /\ m.len \in {0, MSS}
  OBVIOUS
<1>1. m.prio \in Nat /\ m.seq \in Nat /\ m.len \in {0, MSS}
  BY DEF Segs
<1> QED
  BY <1>1, MSSAssumption

LEMMA SendableGrows ==
  ASSUME NEW t1 \in Nat, NEW t2 \in Nat, NEW h1 \in Nat, NEW h2 \in Nat, NEW b1 \in Nat, NEW b2 \in Nat,
         t1 <= t2, h1 <= h2, b1 <= b2, NEW q \in Seq(Sendable(t1, h1, b1))
  PROVE  q \in Seq(Sendable(t2, h2, b2))
<1> DEFINE A == Sendable(t1, h1, b1)
           B == Sendable(t2, h2, b2)
<1>0. MSS \in Nat
  BY MSSAssumption
<1>1. A \subseteq B
  <2>1. ASSUME NEW m \in A PROVE m \in B
    <3>1. m \in Segs /\ Goes(m, t1, h1, b1) /\ m.seq \in Nat /\ m.len \in Nat
      BY SegTypes DEF Sendable
    <3>2. Goes(m, t2, h2, b2)
      BY <3>1 DEF Goes
    <3> QED
      BY <3>1, <3>2 DEF Sendable
  <2> QED
    BY <2>1
<1> HIDE DEF A, B
<1>2. q \in Seq(B)
  <2>1. q \in Seq(A)
    BY DEF A
  <2>2. Len(q) \in Nat /\ DOMAIN q = 1 .. Len(q) /\ q = [i \in 1 .. Len(q) |-> q[i]]
    BY <2>1
  <2>3. \A i \in 1 .. Len(q) : q[i] \in B
    BY <1>1, <2>1
  <2> QED
    BY <2>2, <2>3
<1> QED
  BY <1>2 DEF B

LEMMA ShapeTypes ==
  ASSUME NEW s, Shape(s)
  PROVE  /\ s.head \in Nat /\ s.head > 0 /\ s.tail \in Nat /\ s.highTx \in Nat /\ s.p2_block_max \in Nat
         /\ s.highTx <= s.tail /\ s.p2_block_max <= s.tail /\ MSS \in Nat \ {0}
BY GridNat, MSSAssumption DEF Shape

LEMMA AdvancedTwice ==
  ASSUME NEW s, Shape(s), NEW d, Shape(d), NEW r, Shape(r), Advanced(s, d), Advanced(d, r)
  PROVE  Advanced(s, r)
<1>1. /\ s.tail \in Nat /\ d.tail \in Nat /\ r.tail \in Nat
      /\ s.highTx \in Nat /\ d.highTx \in Nat /\ r.highTx \in Nat
      /\ s.p2_block_max \in Nat /\ d.p2_block_max \in Nat /\ r.p2_block_max \in Nat
  BY ShapeTypes
<1> QED
  BY <1>1 DEF Advanced

LEMMA ProceedsTwice ==
  ASSUME NEW s, Shape(s), NEW d, Shape(d), NEW r, Shape(r), Proceeds(s, d), Proceeds(d, r)
  PROVE  Proceeds(s, r)
<1>1. /\ s.tail \in Nat /\ d.tail \in Nat /\ r.tail \in Nat
      /\ s.highTx \in Nat /\ d.highTx \in Nat /\ r.highTx \in Nat
      /\ s.p2_block_max \in Nat /\ d.p2_block_max \in Nat /\ r.p2_block_max \in Nat
  BY ShapeTypes
<1> QED
  BY <1>1 DEF Proceeds

\* What could be on its way before a handler can be after it.
LEMMA StaysSendable ==
  ASSUME NEW s, Shape(s), NEW r, Shape(r), Advanced(s, r),
         NEW q \in Seq(Sendable(s.tail, s.highTx, s.p2_block_max))
  PROVE  q \in Seq(Sendable(r.tail, r.highTx, r.p2_block_max))
<1> DEFINE t1 == s.tail
           t2 == r.tail
           h1 == s.highTx
           h2 == r.highTx
           b1 == s.p2_block_max
           b2 == r.p2_block_max
<1>1. q \in Seq(Sendable(t1, h1, b1))
  OBVIOUS
<1>2. t1 \in Nat /\ t2 \in Nat /\ h1 \in Nat /\ h2 \in Nat /\ b1 \in Nat /\ b2 \in Nat
  BY ShapeTypes
<1>3. t1 <= t2 /\ h1 <= h2 /\ b1 <= b2
  BY DEF Advanced
<1> HIDE DEF t1, t2, h1, h2, b1, b2
<1>4. q \in Seq(Sendable(t2, h2, b2))
  BY <1>1, <1>2, <1>3, SendableGrows, ZenonT(30)
<1> QED
  BY <1>4 DEF t2, h2, b2

\* A segment of the buffer is a whole one.
LEMMA WholeSegment ==
  ASSUME NEW s, Shape(s), NEW t, OnGrid(t), t < s.tail
  PROVE  Length(s, t) = MSS /\ t \in Nat /\ t > 0 /\ t + MSS <= s.tail /\ OnGrid(t + MSS)
<1>1. OnGrid(s.tail) /\ t + MSS <= s.tail
  BY GridDiff DEF Shape
<1>2. t \in Nat /\ t > 0 /\ OnGrid(t + MSS) /\ MSS \in Nat /\ s.tail \in Nat
  BY GridFacts, ShapeTypes
<1> QED
  BY <1>1, <1>2 DEF Length, Smaller

\* Taking over a new shape: what has been sent before is still sendable.
LEMMA ShapeKept ==
  ASSUME NEW s, Shape(s), NEW r, Keeps(s, r, {"state", "rc3_p2", "nextTx", "cWnd", "ssThresh", "dupAckCount", "bumpedSeq", "last_block_seq"})
  PROVE  Shape(r) /\ Proceeds(s, r)
<1>1. /\ r.scoreboard = s.scoreboard /\ r.head = s.head /\ r.tail = s.tail /\ r.highTx = s.highTx
      /\ r.recover = s.recover /\ r.inFastRec = s.inFastRec /\ r.p2_block_max = s.p2_block_max
      /\ r.p2_block_bytes_sent = s.p2_block_bytes_sent /\ r.out = s.out /\ r.retx = s.retx
      /\ DOMAIN r = SenderFields
  BY DEF Keeps, SenderFields
<1> QED
  BY <1>1, ShapeTypes DEF Shape, Proceeds

LEMMA SendDataPacketsKeeps ==
  ASSUME NEW s, DOMAIN s = SenderFields, NEW seqs
  PROVE  Keeps(s, SendDataPackets(s, seqs), {"highTx", "retx", "out"})
BY DEF Keeps, SenderFields, SendDataPackets

LEMMA SendDataPacketsIs ==
  ASSUME NEW s, Shape(s), NEW seqs \in Seq(Int), seqs # <<>>, IsFiniteSet(Range(seqs)),
         \A t \in Range(seqs) : OnGrid(t) /\ t < s.tail
  PROVE  LET r == SendDataPackets(s, seqs)
         IN /\ Shape(r) /\ Proceeds(s, r)
            /\ \A t \in Range(seqs) : t + MSS <= r.highTx
<1> DEFINE r == SendDataPackets(s, seqs)
           ends == {t + Length(s, t) : t \in Range(seqs)}
           K == ends \cup {s.highTx}
           new == [i \in DOMAIN seqs |-> Segment(0, seqs[i], Length(s, seqs[i]))]
           S == Sendable(s.tail, r.highTx, s.p2_block_max)
<1>1. \A t \in Range(seqs) :
        Length(s, t) = MSS /\ t \in Nat /\ t > 0 /\ t + MSS <= s.tail /\ OnGrid(t) /\ OnGrid(t + MSS)
  BY WholeSegment
<1>2. Keeps(s, r, {"highTx", "retx", "out"})
  BY SendDataPacketsKeeps DEF Shape
<1>3. r.highTx = Max(K) /\ r.out = s.out \o new
  BY DEF SendDataPackets, Shape, SenderFields
<1>4. K \in SUBSET (0 .. s.tail) /\ IsFiniteSet(K) /\ K # {}
  <2>1. \A k \in K : k \in 0 .. s.tail
    BY <1>1, ShapeTypes
  <2>2. IsFiniteSet(0 .. s.tail)
    <3>1. 0 \in Int /\ s.tail \in Int
      BY ShapeTypes
    <3> QED
      BY <3>1, FS_Interval
  <2>3. K \in SUBSET (0 .. s.tail) /\ K # {}
    BY <2>1
  <2> HIDE DEF K
  <2> QED
    BY <2>2, <2>3, FS_Subset
<1>5. Max(K) \in K /\ \A k \in K : k <= Max(K)
  <2> HIDE DEF K
  <2>1. K \in SUBSET Int
    BY <1>4
  <2> QED
    BY <1>4, <2>1, MaxIs
<1>6. r.highTx \in 0 .. s.tail /\ s.highTx <= r.highTx /\ Edge(r.highTx)
  <2>1. (\A k \in K : Edge(k)) /\ s.highTx \in K
    BY <1>1 DEF Edge, Shape
  <2> HIDE DEF K, r
  <2> QED
    BY <1>3, <1>4, <1>5, <2>1
<1>7. ASSUME NEW t \in Range(seqs) PROVE t + MSS <= r.highTx
  BY <1>1, <1>3, <1>5
<1>8. new \in Seq(S)
  <2>1. DOMAIN seqs = 1 .. Len(seqs) /\ Len(seqs) \in Nat
    OBVIOUS
  <2>2. ASSUME NEW i \in DOMAIN seqs PROVE new[i] \in S
    <3>1. seqs[i] \in Range(seqs)
      BY DEF Range
    <3>2. /\ seqs[i] \in Nat /\ OnGrid(seqs[i]) /\ seqs[i] + MSS <= s.tail /\ seqs[i] + MSS <= r.highTx
          /\ Length(s, seqs[i]) = MSS
      BY <1>1, <1>7, <3>1
    <3>3. new[i] = [flags |-> "ACK", prio |-> 0, seq |-> seqs[i], len |-> MSS]
      BY <3>2 DEF Segment
    <3> HIDE DEF r, new
    <3>4. new[i] \in Segs
      BY <3>2, <3>3 DEF Segs
    <3>5. Goes(new[i], s.tail, r.highTx, s.p2_block_max)
      BY <3>2, <3>3 DEF Goes
    <3> QED
      BY <3>4, <3>5 DEF Sendable
  <2>3. DOMAIN new = 1 .. Len(seqs) /\ new = [i \in 1 .. Len(seqs) |-> new[i]]
    BY <2>1
  <2> HIDE DEF new, S
  <2> QED
    BY <2>1, <2>2, <2>3
<1>9. s.out \in Seq(S)
  <2> HIDE DEF r
  <2>1. /\ s.out \in Seq(Sendable(s.tail, s.highTx, s.p2_block_max))
        /\ s.tail \in Nat /\ s.highTx \in Nat /\ r.highTx \in Nat /\ s.p2_block_max \in Nat
        /\ s.tail <= s.tail /\ s.highTx <= r.highTx /\ s.p2_block_max <= s.p2_block_max
    <3>1. s.out \in Seq(Sendable(s.tail, s.highTx, s.p2_block_max))
      BY DEF Shape
    <3>2. s.tail \in Nat /\ s.highTx \in Nat /\ s.p2_block_max \in Nat
      BY ShapeTypes
    <3> QED
      BY <1>6, <3>1, <3>2
  <2> QED
    BY <2>1, SendableGrows
<1>10. r.out \in Seq(S)
  <2> HIDE DEF r, new, S
  <2> QED
    BY <1>3, <1>8, <1>9
<1>11. /\ r.scoreboard = s.scoreboard /\ r.head = s.head /\ r.tail = s.tail
       /\ r.recover = s.recover /\ r.inFastRec = s.inFastRec /\ r.p2_block_max = s.p2_block_max
       /\ r.p2_block_bytes_sent = s.p2_block_bytes_sent /\ DOMAIN r = SenderFields
  <2> HIDE DEF r
  <2> QED
    BY <1>2 DEF Keeps, SenderFields
<1> HIDE DEF r
<1>12. Shape(r)
  BY <1>6, <1>10, <1>11, ShapeTypes DEF Shape
<1>14. Urgent(s.out) => Urgent(r.out)
  <2>1. \A i \in DOMAIN new : new[i].prio = 0
    BY DEF Segment
  <2>2. DOMAIN new = DOMAIN seqs
    OBVIOUS
  <2>3. s.out \in Seq(S) /\ new \in Seq(S) /\ r.out = s.out \o new
    BY <1>3, <1>8, <1>9
  <2> HIDE DEF new, S
  <2> SUFFICES ASSUME Urgent(s.out), NEW i \in DOMAIN r.out PROVE r.out[i].prio = 0
    BY DEF Urgent
  <2>4. i \in 1 .. Len(s.out) + Len(new)
    BY <2>3
  <2>5. CASE i <= Len(s.out)
    BY <2>3, <2>4, <2>5 DEF Urgent
  <2>6. CASE ~(i <= Len(s.out))
    <3>1. i - Len(s.out) \in DOMAIN new /\ r.out[i] = new[i - Len(s.out)]
      BY <2>3, <2>4, <2>6
    <3> QED
      BY <2>1, <3>1
  <2> QED
    BY <2>5, <2>6
<1>15. Ticks(s.retx) => Ticks(r.retx)
  <2>1. r.retx = Schedule(s.retx, "ReTxTimeout")
    BY DEF r, SendDataPackets, Shape, SenderFields
  <2> QED
    BY <2>1 DEF Schedule, Ticks
<1>13. Proceeds(s, r)
  BY <1>6, <1>11, <1>14, <1>15, ShapeTypes DEF Proceeds
<1> QED
  BY <1>7, <1>12, <1>13 DEF r
-----------------------------------------------------------------------------
\* What SendPendingData may change.
Sent == {"nextTx", "highTx", "retx", "out"}

\* What is after is sent up to: m_nextTxSequence moves over what is marked.
LEMMA SendSegmentsIs ==
  ASSUME NEW s, Shape(s), Open(s), NEW seqs \in Seq(Int), seqs # <<>>, IsFiniteSet(Range(seqs)),
         \A t \in Range(seqs) : OnGrid(t) /\ t < s.tail /\ s.nextTx <= t,
         Last(seqs) \in Range(seqs)
  PROVE  LET r == SendSegments(s, seqs)
         IN /\ Shape(r) /\ Open(r) /\ Proceeds(s, r) /\ Keeps(s, r, Sent)
            /\ s.nextTx < r.nextTx /\ s.head < r.highTx /\ r.retx # Off
<1> DEFINE d == SendDataPackets(s, seqs)
           after == Last(seqs) + Length(s, Last(seqs))
           e == [d EXCEPT !.nextTx = after]
           g == GetNextAggSegment(s.scoreboard, after)
           r == SendSegments(s, seqs)
<1>1. /\ after = Last(seqs) + MSS /\ after \in Nat /\ OnGrid(after) /\ after <= s.tail /\ s.nextTx < after
      /\ s.nextTx \in Nat /\ s.head <= s.nextTx
  <2>1. OnGrid(Last(seqs)) /\ Last(seqs) < s.tail /\ s.nextTx <= Last(seqs)
    OBVIOUS
  <2>2. /\ Length(s, Last(seqs)) = MSS /\ Last(seqs) \in Nat /\ Last(seqs) + MSS <= s.tail
        /\ OnGrid(Last(seqs) + MSS)
    BY <2>1, WholeSegment
  <2>3. s.nextTx \in Nat /\ s.head <= s.nextTx
    BY GridNat DEF Open
  <2> QED
    BY <2>1, <2>2, <2>3, ShapeTypes
<1>2. Shape(d) /\ Proceeds(s, d) /\ after <= d.highTx
  <2>1. Shape(d) /\ Proceeds(s, d) /\ \A t \in Range(seqs) : t + MSS <= d.highTx
    BY SendDataPacketsIs
  <2> HIDE DEF d, after
  <2> QED
    BY <1>1, <2>1
<1>3. Keeps(s, d, {"highTx", "retx", "out"}) /\ d.retx # Off
  <2>1. Keeps(s, d, {"highTx", "retx", "out"})
    BY SendDataPacketsKeeps DEF Shape
  <2>2. d.retx # Off
    BY DEF SendDataPackets, Shape, SenderFields, Schedule, Off
  <2> QED
    BY <2>1, <2>2
<1>4. r = [e EXCEPT !.nextTx = IF g > 0 THEN g ELSE @]
  BY DEF SendSegments, Advance
<1> HIDE DEF d, after, g, r
<1>5. /\ Keeps(d, r, {"nextTx"}) /\ r.nextTx = (IF g > 0 THEN g ELSE after)
  BY <1>3, <1>4 DEF Keeps, SenderFields
<1>6. /\ r.state = s.state /\ r.head = s.head /\ r.scoreboard = s.scoreboard /\ r.tail = s.tail
      /\ r.highTx = d.highTx /\ r.retx = d.retx
  BY <1>3, <1>5 DEF Keeps, SenderFields
<1>7. Keeps(s, r, Sent)
  BY <1>3, <1>5 DEF Keeps, SenderFields, Sent
<1>8. Shape(r) /\ Proceeds(d, r)
  <2>1. Keeps(d, r, {"state", "rc3_p2", "nextTx", "cWnd", "ssThresh", "dupAckCount", "bumpedSeq", "last_block_seq"})
    BY <1>5 DEF Keeps
  <2> QED
    BY <1>2, <2>1, ShapeKept
<1>9. BoardOK(s.scoreboard) /\ OnGrid(s.tail) /\ s.tail \in Nat /\ \A t \in Marks(s.scoreboard) : t + MSS <= s.tail
  BY ShapeTypes DEF Shape
<1>10. g = 0 \/ (OnGrid(g) /\ after <= g /\ \A t \in after .. g - 1 : OnGrid(t) => t \in Marks(s.scoreboard))
  BY <1>1, <1>9, NextAggIs DEF g
<1>11. /\ OnGrid(r.nextTx) /\ after <= r.nextTx /\ r.nextTx \in Nat
       /\ \A t \in after .. r.nextTx - 1 : OnGrid(t) => t \in Marks(s.scoreboard)
  BY <1>1, <1>5, <1>10, GridNat
<1>12. r.nextTx <= s.tail
  <2>1. CASE s.tail < r.nextTx
    <3>1. s.tail \in after .. r.nextTx - 1
      BY <1>1, <1>9, <1>11, <2>1
    <3>2. s.tail + MSS <= s.tail
      BY <1>9, <1>11, <3>1
    <3> QED
      BY <1>9, <3>2, MSSAssumption
  <2> QED
    BY <1>9, <1>11, <2>1
<1>13. d.highTx \in Nat /\ s.head \in Nat /\ r.highTx \in Nat
  BY <1>2, <1>8, ShapeTypes
<1>14. Open(r)
  <2>1. \A t \in r.highTx .. r.nextTx - 1 : OnGrid(t) => t \in Marks(r.scoreboard)
    BY <1>1, <1>2, <1>6, <1>11, <1>13
  <2> QED
    BY <1>1, <1>2, <1>6, <1>11, <1>12, <1>13, <2>1 DEF Open
<1>15. Proceeds(s, r)
  BY <1>2, <1>8, ProceedsTwice
<1> QED
  BY <1>1, <1>2, <1>3, <1>6, <1>7, <1>8, <1>11, <1>13, <1>14, <1>15 DEF r

\* What the window takes is on the grid, from m_nextTxSequence on and in the buffer.
Candidates(s) == {t \in Unmarked(s.scoreboard, s.nextTx) : t < s.tail}

LEMMA CandidatesAre ==
  ASSUME NEW s, Shape(s), Open(s), NEW K \in SUBSET Candidates(s)
  PROVE  /\ \A t \in K : OnGrid(t) /\ t < s.tail /\ s.nextTx <= t
         /\ K \in SUBSET Int /\ IsFiniteSet(K)
<1>0. s.tail \in Nat /\ s.nextTx \in Nat /\ OnGrid(s.nextTx) /\ s.scoreboard.known \subseteq Nat
  BY ShapeTypes, GridNat DEF Open, Shape, BoardOK, Board
<1>1. ASSUME NEW t \in K PROVE OnGrid(t) /\ t < s.tail /\ s.nextTx <= t /\ t \in 0 .. s.tail
  <2>1. t < s.tail /\ s.nextTx <= t /\ (t - s.nextTx) % MSS = 0 /\ t \in Nat
    BY <1>0 DEF Candidates, Unmarked, WalkUp, Stride
  <2>2. Multiple(t - s.nextTx) /\ t \in Int /\ t > 0
    BY <1>0, <2>1, GridNat DEF Multiple
  <2>3. OnGrid(t)
    BY <1>0, <2>2, GridShift
  <2> QED
    BY <1>0, <2>1, <2>3
<1>2. IsFiniteSet(0 .. s.tail)
  <2>1. 0 \in Int /\ s.tail \in Int
    BY <1>0
  <2> QED
    BY <2>1, FS_Interval
<1>3. K \in SUBSET (0 .. s.tail)
  BY <1>1
<1>4. IsFiniteSet(K)
  BY <1>2, <1>3, FS_Subset
<1>5. K \in SUBSET Int
  BY <1>3
<1> QED
  BY <1>1, <1>4, <1>5

LEMMA SendPendingDataIs ==
  ASSUME NEW s, Shape(s), Open(s)
  PROVE  LET r == SendPendingData(s)
         IN /\ Shape(r) /\ Open(r) /\ Proceeds(s, r) /\ Keeps(s, r, Sent) /\ s.nextTx <= r.nextTx
            /\ \/ r = s /\ WindowTakes(s, Candidates(s)) = {}
               \/ s.nextTx < r.nextTx /\ s.head < r.highTx /\ r.retx # Off
<1> DEFINE K == WindowTakes(s, Candidates(s))
           seqs == Ascending(K)
<1>1. SendPendingData(s) = SendSegments(s, seqs)
  BY DEF SendPendingData, Candidates
<1>2. K \in SUBSET Candidates(s)
  BY DEF WindowTakes
<1> HIDE DEF K
<1>3. \A t \in K : OnGrid(t) /\ t < s.tail /\ s.nextTx <= t
  BY <1>2, CandidatesAre
<1>4. K \in SUBSET Int /\ IsFiniteSet(K)
  BY <1>2, CandidatesAre
<1>5. /\ seqs \in Seq(K) /\ (seqs = <<>> <=> K = {}) /\ Range(seqs) = K
      /\ seqs # <<>> => Last(seqs) \in Range(seqs)
  BY <1>4, AscendingIs, LastIs
<1> HIDE DEF seqs
<1>6. CASE seqs = <<>>
  <2>1. SendPendingData(s) = s /\ K = {}
    BY <1>1, <1>5, <1>6 DEF SendSegments
  <2>2. Proceeds(s, s) /\ Keeps(s, s, Sent) /\ s.nextTx <= s.nextTx
    BY ShapeTypes, GridNat DEF Proceeds, Keeps, Shape, Open
  <2> QED
    BY <2>1, <2>2 DEF K
<1>7. CASE seqs # <<>>
  <2>1. seqs \in Seq(Int)
    <3>1. \A i \in DOMAIN seqs : seqs[i] \in Int
      <4>1. \A i \in DOMAIN seqs : seqs[i] \in K
        BY <1>5
      <4> QED
        BY <1>4, <4>1
    <3>2. seqs = [i \in 1 .. Len(seqs) |-> seqs[i]] /\ Len(seqs) \in Nat /\ DOMAIN seqs = 1 .. Len(seqs)
      BY <1>5
    <3> QED
      BY <3>1, <3>2
  <2>2. /\ IsFiniteSet(Range(seqs)) /\ Last(seqs) \in Range(seqs)
        /\ \A t \in Range(seqs) : OnGrid(t) /\ t < s.tail /\ s.nextTx <= t
    BY <1>3, <1>4, <1>5, <1>7
  <2>3. LET r == SendSegments(s, seqs)
        IN /\ Shape(r) /\ Open(r) /\ Proceeds(s, r) /\ Keeps(s, r, Sent)
           /\ s.nextTx < r.nextTx /\ s.head < r.highTx /\ r.retx # Off
    BY <1>7, <2>1, <2>2, SendSegmentsIs
  <2>4. s.nextTx \in Nat /\ SendSegments(s, seqs).nextTx \in Nat
    BY <2>3, GridNat DEF Open
  <2> QED
    BY <1>1, <2>3, <2>4
<1> QED
  BY <1>6, <1>7
-----------------------------------------------------------------------------
\* A retransmission sends the first segment outstanding, and the timer runs.
LEMMA DoRetransmitIs ==
  ASSUME NEW s, Shape(s), Open(s)
  PROVE  LET r == DoRetransmit(s)
         IN /\ Shape(r) /\ Open(r) /\ Proceeds(s, r) /\ Keeps(s, r, Sent) /\ s.nextTx <= r.nextTx
            /\ \/ r = s /\ s.head = s.tail
               \/ s.head < r.nextTx /\ s.head < r.highTx /\ r.retx # Off
<1>1. s.head \in Nat /\ s.tail \in Nat /\ s.head <= s.tail /\ OnGrid(s.head) /\ s.nextTx \in Nat
  BY ShapeTypes, GridNat DEF Shape, Open
<1>2. CASE s.head = s.tail
  <2>1. DoRetransmit(s) = s
    BY <1>1, <1>2 DEF DoRetransmit, Outstanding, Open, Finishing
  <2>2. Proceeds(s, s) /\ Keeps(s, s, Sent) /\ s.nextTx <= s.nextTx
    BY <1>1, ShapeTypes DEF Proceeds, Keeps, Shape
  <2> QED
    BY <1>2, <2>1, <2>2
<1>3. CASE s.head # s.tail
  <2> DEFINE seqs == <<s.head>>
             d == SendDataPackets(s, seqs)
             r == DoRetransmit(s)
  <2>1. Length(s, s.head) = MSS /\ OnGrid(s.head + MSS) /\ s.head + MSS <= s.tail /\ s.head < s.head + MSS
    BY <1>1, <1>3, WholeSegment, MSSAssumption
  <2>2. r = [d EXCEPT !.nextTx = Larger(@, s.head + MSS)]
    BY <1>1, <1>3, <2>1 DEF DoRetransmit, Outstanding
  <2>3. Range(seqs) = {s.head} /\ seqs \in Seq(Int) /\ seqs # <<>>
    BY <1>1 DEF Range
  <2>4. IsFiniteSet(Range(seqs)) /\ \A t \in Range(seqs) : OnGrid(t) /\ t < s.tail
    <3> HIDE DEF seqs
    <3>1. IsFiniteSet({s.head})
      BY FS_Singleton
    <3>2. s.head < s.tail
      BY <1>1, <1>3
    <3> QED
      BY <1>1, <2>3, <3>1, <3>2
  <2>5. Shape(d) /\ Proceeds(s, d) /\ s.head + MSS <= d.highTx
    <3> HIDE DEF seqs
    <3> QED
      BY <2>3, <2>4, SendDataPacketsIs
  <2>6. Keeps(s, d, {"highTx", "retx", "out"}) /\ d.retx # Off
    <3>1. Keeps(s, d, {"highTx", "retx", "out"})
      BY SendDataPacketsKeeps DEF Shape
    <3>2. d.retx # Off
      BY DEF SendDataPackets, Shape, SenderFields, Schedule, Off
    <3> QED
      BY <3>1, <3>2
  <2> HIDE DEF d, r, seqs
  <2>7. Keeps(d, r, {"nextTx"}) /\ r.nextTx = Larger(s.nextTx, s.head + MSS)
    BY <2>2, <2>6 DEF Keeps, SenderFields
  <2>8. /\ r.state = s.state /\ r.head = s.head /\ r.scoreboard = s.scoreboard /\ r.tail = s.tail
        /\ r.highTx = d.highTx /\ r.retx = d.retx
    BY <2>6, <2>7 DEF Keeps, SenderFields
  <2>9. Keeps(s, r, Sent)
    BY <2>6, <2>7 DEF Keeps, SenderFields, Sent
  <2>10. Shape(r) /\ Proceeds(d, r)
    <3>1. Keeps(d, r, {"state", "rc3_p2", "nextTx", "cWnd", "ssThresh", "dupAckCount", "bumpedSeq", "last_block_seq"})
      BY <2>7 DEF Keeps
    <3> QED
      BY <2>5, <3>1, ShapeKept
  <2>11. /\ r.highTx \in Nat /\ s.highTx \in Nat /\ s.highTx <= r.highTx /\ s.head + MSS <= r.highTx
         /\ MSS \in Nat \ {0}
    BY <2>5, <2>8, <2>10, ShapeTypes DEF Proceeds
  <2>12. /\ s.nextTx <= r.nextTx /\ s.head < r.nextTx /\ r.nextTx \in Nat /\ OnGrid(r.nextTx) /\ r.nextTx <= s.tail
         /\ r.nextTx = s.nextTx \/ r.nextTx <= r.highTx
    BY <1>1, <2>1, <2>7, <2>11 DEF Larger, Open
  <2>13. \A t \in r.highTx .. r.nextTx - 1 : OnGrid(t) => t \in Marks(r.scoreboard)
    BY <1>1, <2>8, <2>11, <2>12 DEF Open
  <2>14. Open(r)
    BY <1>1, <2>1, <2>8, <2>11, <2>12, <2>13 DEF Open
  <2>15. Proceeds(s, r)
    BY <2>5, <2>10, ShapeTypes DEF Proceeds
  <2> QED
    BY <1>1, <2>6, <2>8, <2>9, <2>10, <2>11, <2>12, <2>14, <2>15 DEF r
<1> QED
  BY <1>2, <1>3

\* The scoreboard has a node for every segment that was written.
Charted(s) == \A t \in 1 .. s.tail - 1 : OnGrid(t) => t \in s.scoreboard.known

\* Outside fast recovery the window takes a segment.
Window(s) == s.inFastRec \/ s.cWnd \in MSS .. WordSize - 1

\* Something is in flight, and the next to be sent is behind it, or nothing is
\* left to send.
Used(s) == (s.head < s.highTx /\ s.head < s.nextTx) \/ s.head = s.tail

\* SendPendingData sends as much as the window allows, so something at least.
LEMMA PendingUsed ==
  ASSUME NEW s, Shape(s), Open(s), Charted(s), s.head \notin Marks(s.scoreboard), ~s.inFastRec
  PROVE  LET r == SendPendingData(s) IN Window(r) => Used(r)
<1> DEFINE r == SendPendingData(s)
           C == Candidates(s)
           K == WindowTakes(s, C)
<1>1. /\ s.head \in Nat /\ s.head > 0 /\ s.tail \in Nat /\ s.highTx \in Nat /\ s.nextTx \in Nat /\ MSS \in Nat \ {0}
      /\ s.head <= s.tail /\ OnGrid(s.head)
  BY ShapeTypes, GridNat, MSSAssumption DEF Shape, Open
<1>2. /\ Keeps(s, r, Sent) /\ s.highTx <= r.highTx /\ Shape(r)
      /\ (r = s /\ K = {}) \/ (s.head < r.highTx /\ s.head < r.nextTx)
  <2>1. /\ Keeps(s, r, Sent) /\ Proceeds(s, r) /\ Shape(r) /\ Open(r)
        /\ (r = s /\ K = {}) \/ (s.head < r.highTx /\ s.nextTx < r.nextTx)
    BY SendPendingDataIs
  <2>2. r.nextTx \in Nat /\ s.head <= s.nextTx
    BY <2>1, GridNat DEF Open
  <2> QED
    BY <1>1, <2>1, <2>2 DEF Proceeds
<1> HIDE DEF r, K
<1>3. r.head = s.head /\ r.tail = s.tail /\ r.cWnd = s.cWnd /\ r.inFastRec = s.inFastRec
  BY <1>2 DEF Keeps, SenderFields, Sent
<1> SUFFICES ASSUME Window(r), r = s, K = {}, s.highTx <= s.head \/ s.nextTx <= s.head, s.head # s.tail
             PROVE  FALSE
  BY <1>1, <1>2, <1>3 DEF Used, r
<1>4. s.cWnd \in MSS .. WordSize - 1
  BY DEF Window
<1>5. s.nextTx = s.head
  <2>1. CASE s.nextTx > s.head
    <3>1. s.head \in s.highTx .. s.nextTx - 1
      BY <1>1, <2>1
    <3> QED
      BY <1>1, <3>1 DEF Open
  <2> QED
    BY <1>1, <2>1 DEF Open
<1>6. s.head \in C
  <2>1. s.head \in s.scoreboard.known
    <3>1. s.head \in 1 .. s.tail - 1
      BY <1>1
    <3> QED
      BY <1>1, <3>1 DEF Charted
  <2>2. Strides(s.head, s.head) \subseteq s.scoreboard.known /\ Stride(s.head, s.head)
    <3>1. (s.head - s.head) % MSS = 0
      BY <1>1
    <3>2. \A t \in s.head .. s.head : t = s.head
      BY <1>1
    <3> QED
      BY <2>1, <3>1, <3>2 DEF Strides, Stride
  <2>3. s.head \in Unmarked(s.scoreboard, s.nextTx)
    BY <1>1, <1>5, <2>1, <2>2 DEF Unmarked, WalkUp, Marks
  <2> QED
    BY <1>1, <2>3 DEF Candidates
<1>7. /\ C \in SUBSET Int /\ IsFiniteSet(C)
      /\ \A t \in C : s.nextTx <= t
  BY CandidatesAre
<1> HIDE DEF C
<1>8. Min(C) \in C /\ \A t \in C : t <= Min(C) => t = Min(C)
  <2>1. Min(C) \in C /\ \A t \in C : Min(C) <= t
    BY <1>6, <1>7, MinIs
  <2> DEFINE n == Min(C)
  <2>2. n \in C /\ n \in Int /\ \A t \in C : n <= t /\ t \in Int
    BY <1>7, <2>1
  <2> HIDE DEF n
  <2>3. \A t \in C : t <= n => t = n
    BY <2>2
  <2> QED
    BY <2>2, <2>3 DEF n
<1>9. AvailableWindow(s, s.nextTx) = s.cWnd
  <2>1. WordSize \in Nat \ {0} /\ s.nextTx - s.head = 0
    BY <1>1, <1>5, SenderAssumption
  <2>2. (s.nextTx - s.head) % WordSize = 0
    BY <2>1
  <2>3. s.cWnd \in Nat /\ ~(s.cWnd < 0) /\ s.cWnd - 0 = s.cWnd
    BY <1>1, <1>4
  <2> QED
    BY <2>2, <2>3 DEF AvailableWindow
<1>10. Fits(s, Min(C), s.cWnd)
  BY <1>1, <1>4 DEF Fits
<1>11. Min(C) \in K
  BY <1>8, <1>9, <1>10 DEF K, WindowTakes
<1> QED
  BY <1>11

Acked == Sent \cup {"head", "tail"}

LEMMA BaseNewAckIs ==
  ASSUME NEW s, Shape(s), Open(s), NEW ack, OnGrid(ack), s.head <= ack, ack <= s.nextTx,
         ack \notin Marks(s.scoreboard), s.inFastRec => ack < s.recover
  PROVE  LET r == BaseNewAck(s, ack)
         IN /\ Shape(r) /\ Open(r) /\ Proceeds(s, r) /\ Keeps(s, r, Acked) /\ s.nextTx <= r.nextTx
            /\ r.head = ack /\ r.tail = s.tail
            /\ r.retx = Off => r.head = r.tail
            /\ Charted(s) /\ ~s.inFastRec /\ Window(r) => Used(r)
<1> DEFINE f == [DiscardUpTo(s, ack) EXCEPT !.nextTx = Larger(@, ack)]
           owed == Outstanding(f) > 0 \/ s.state \in Finishing
           g == [f EXCEPT !.retx = IF owed THEN "ReTxTimeout" ELSE Off]
           r == BaseNewAck(s, ack)
<1>1. /\ s.head \in Nat /\ s.tail \in Nat /\ s.nextTx \in Nat /\ ack \in Nat /\ s.nextTx <= s.tail
      /\ s.highTx \in Nat /\ s.p2_block_max \in Nat /\ DOMAIN s = SenderFields
  BY ShapeTypes, GridNat DEF Shape, Open
<1>2. r = SendPendingData(g)
  BY DEF BaseNewAck
<1>3. Keeps(s, f, {"head", "tail", "nextTx"}) /\ f.head = ack /\ f.tail = s.tail /\ f.nextTx = s.nextTx
  <2> DEFINE d == DiscardUpTo(s, ack)
  <2>1. d = [[s EXCEPT !.head = Larger(s.head, ack)] EXCEPT !.tail = Larger(s.tail, ack)]
    BY <1>1 DEF DiscardUpTo, SenderFields
  <2>2. Larger(s.head, ack) = ack /\ Larger(s.tail, ack) = s.tail /\ Larger(s.nextTx, ack) = s.nextTx
    BY <1>1 DEF Larger
  <2>3. Keeps(s, d, {"head", "tail"}) /\ d.head = ack /\ d.tail = s.tail
    BY <1>1, <2>1, <2>2 DEF Keeps, SenderFields
  <2>4. f = [d EXCEPT !.nextTx = Larger(d.nextTx, ack)] /\ d.nextTx = s.nextTx /\ DOMAIN d = SenderFields
    BY <2>3 DEF Keeps, SenderFields
  <2> HIDE DEF d, f
  <2> QED
    BY <2>2, <2>3, <2>4 DEF Keeps, SenderFields
<1> HIDE DEF f
<1>4. Keeps(f, g, {"retx"}) /\ (g.retx = Off => f.head = f.tail) /\ Ticks(g.retx)
  <2>1. Keeps(f, g, {"retx"}) /\ g.retx = IF owed THEN "ReTxTimeout" ELSE Off
    BY <1>3 DEF Keeps, SenderFields
  <2>2. owed \/ f.head = f.tail
    BY <1>1, <1>3 DEF Outstanding
  <2> QED
    BY <2>1, <2>2 DEF Off, Ticks
<1> HIDE DEF g, r
<1>5. /\ g.head = ack /\ g.tail = s.tail /\ g.nextTx = s.nextTx /\ g.highTx = s.highTx /\ g.state = s.state
      /\ g.scoreboard = s.scoreboard /\ g.inFastRec = s.inFastRec /\ g.recover = s.recover /\ g.out = s.out
      /\ g.p2_block_max = s.p2_block_max /\ g.p2_block_bytes_sent = s.p2_block_bytes_sent
      /\ DOMAIN g = SenderFields
  BY <1>3, <1>4 DEF Keeps, SenderFields
<1>6. Shape(g) /\ Proceeds(s, g)
  BY <1>1, <1>4, <1>5 DEF Shape, Proceeds
<1>7. Open(g)
  <2>1. ack <= s.highTx \/ ack = s.nextTx
    <3> SUFFICES ASSUME s.highTx < ack, ack # s.nextTx PROVE FALSE
      BY <1>1
    <3>1. ack \in s.highTx .. s.nextTx - 1
      BY <1>1
    <3> QED
      BY <3>1 DEF Open
  <2> QED
    BY <1>1, <1>5, <2>1 DEF Open
<1>8. /\ Shape(r) /\ Open(r) /\ Proceeds(g, r) /\ Keeps(g, r, Sent) /\ g.nextTx <= r.nextTx
      /\ r = g \/ r.retx # Off
  BY <1>2, <1>6, <1>7, SendPendingDataIs
<1>9. r.head = ack /\ r.tail = s.tail
  BY <1>5, <1>8 DEF Keeps, SenderFields, Sent
<1>10. Keeps(s, r, Acked)
  BY <1>3, <1>4, <1>8 DEF Keeps, SenderFields, Sent, Acked
<1>11. Proceeds(s, r)
  BY <1>6, <1>8, ShapeTypes DEF Proceeds
<1>12. ASSUME Charted(s), ~s.inFastRec, Window(r) PROVE Used(r)
  <2>1. Charted(g) /\ ~g.inFastRec /\ g.head \notin Marks(g.scoreboard)
    BY <1>5, <1>12 DEF Charted
  <2> QED
    BY <1>2, <1>6, <1>7, <1>12, <2>1, PendingUsed
<1> QED
  BY <1>3, <1>4, <1>5, <1>8, <1>9, <1>10, <1>11, <1>12 DEF r

-----------------------------------------------------------------------------
\* The congestion window.

Tuned(s) ==
  /\ s.cWnd \in 0 .. WordSize - 1 /\ s.ssThresh \in 0 .. WordSize - 1
  /\ s.recover \in 0 .. s.tail /\ s.bumpedSeq \in 0 .. s.tail
  /\ s.inFastRec => 2 * MSS <= s.ssThresh

\* The buffer is that much smaller than the word that counts the window, and
\* outside fast recovery the window is a segment smaller.
Ample(s) == s.tail + 6 * MSS <= WordSize
Room(s)  == s.inFastRec \/ s.cWnd + MSS < WordSize

\* An acknowledgement or a timeout leaves the window open that it finds open.
Paced(s, r) == Tuned(s) /\ Window(s) /\ Ample(s) => Tuned(r) /\ (Room(s) => Window(r))

\* Other changes than of the window do not matter.
Alike(s, r) ==
  /\ r.tail = s.tail /\ r.cWnd = s.cWnd /\ r.ssThresh = s.ssThresh /\ r.recover = s.recover
  /\ r.inFastRec = s.inFastRec /\ (r.bumpedSeq = s.bumpedSeq \/ r.bumpedSeq \in 0 .. s.tail)

LEMMA PacedIs ==
  ASSUME NEW s, NEW d, NEW e, NEW r, Alike(s, d), Alike(e, r), Paced(d, e)
  PROVE  Paced(s, r)
<1>1. Tuned(s) => Tuned(d)
  BY DEF Alike, Tuned
<1>2. Window(s) /\ Ample(s) => Window(d) /\ Ample(d)
  BY DEF Alike, Window, Ample
<1>3. Room(s) => Room(d)
  BY DEF Alike, Room
<1>4. Tuned(e) => Tuned(r)
  BY DEF Alike, Tuned
<1>5. Window(e) => Window(r)
  BY DEF Alike, Window
<1> QED
  BY <1>1, <1>2, <1>3, <1>4, <1>5 DEF Paced

LEMMA AlikeIs ==
  ASSUME NEW s, NEW r, Keeps(s, r, SenderFields \ {"tail", "cWnd", "ssThresh", "recover", "inFastRec", "bumpedSeq"})
  PROVE  Alike(s, r)
BY DEF Keeps, SenderFields, Alike

LEMMA PacedSame ==
  ASSUME NEW s, NEW r, Alike(s, r)
  PROVE  Paced(s, r)
<1>1. Tuned(s) => Tuned(r)
  BY DEF Alike, Tuned
<1>2. Window(s) => Window(r)
  BY DEF Alike, Window
<1> QED
  BY <1>1, <1>2 DEF Paced

\* In congestion avoidance a window of a segment or more grows by at most one.
LEMMA Increment ==
  ASSUME NEW w \in Nat, w >= MSS
  PROVE  Larger(1, (MSS * MSS) \div w) \in 1 .. MSS
<1> DEFINE q == (MSS * MSS) \div w
<1>1. MSS \in Nat \ {0} /\ MSS * MSS \in Nat /\ w > 0
  BY MSSAssumption
<1>2. q \in Nat /\ q * w <= MSS * MSS
  <2> DEFINE n == MSS * MSS
  <2>1. n \in Nat
    BY <1>1
  <2> HIDE DEF n
  <2>2. n \div w \in Nat /\ (n \div w) * w <= n
    BY <1>1, <2>1
  <2> QED
    BY <2>2 DEF n
<1> HIDE DEF q
<1>3. q <= MSS
  <2> SUFFICES ASSUME q >= MSS + 1 PROVE FALSE
    BY <1>1, <1>2
  <2>1. (MSS + 1) * MSS <= q * w
    <3>1. (MSS + 1) * MSS <= q * MSS
      BY <1>1, <1>2
    <3>2. q * MSS <= q * w
      BY <1>1, <1>2
    <3> QED
      BY <1>1, <1>2, <3>1, <3>2
  <2>2. (MSS + 1) * MSS = MSS * MSS + MSS
    BY <1>1
  <2> QED
    BY <1>1, <1>2, <2>1, <2>2
<1> QED
  BY <1>1, <1>2, <1>3 DEF Larger, q

LEMMA GrownIs ==
  ASSUME NEW s, DOMAIN s = SenderFields, s.ssThresh \in Nat, s.cWnd \in MSS .. WordSize - 1
  PROVE  /\ Keeps(s, Grown(s), {"cWnd"}) /\ Grown(s).cWnd \in 0 .. WordSize - 1
         /\ s.cWnd + MSS < WordSize => Grown(s).cWnd \in MSS .. WordSize - 1
<1> DEFINE step == IF s.cWnd < s.ssThresh THEN MSS ELSE Larger(1, (MSS * MSS) \div s.cWnd)
           r == Grown(s)
<1>1. MSS \in Nat \ {0} /\ WordSize \in Nat \ {0} /\ s.cWnd \in Nat /\ s.cWnd >= MSS
  BY MSSAssumption, SenderAssumption
<1>2. step \in 1 .. MSS
  BY <1>1, Increment
<1>3. Keeps(s, r, {"cWnd"}) /\ r.cWnd = (s.cWnd + step) % WordSize
  BY DEF Grown, Keeps, SenderFields
<1> HIDE DEF step, r
<1>4. s.cWnd + step \in Nat
  BY <1>1, <1>2
<1>5. r.cWnd \in 0 .. WordSize - 1
  BY <1>1, <1>3, <1>4
<1>6. ASSUME s.cWnd + MSS < WordSize PROVE r.cWnd \in MSS .. WordSize - 1
  <2>1. s.cWnd + step \in MSS .. WordSize - 1
    BY <1>1, <1>2, <1>6
  <2>2. (s.cWnd + step) % WordSize = s.cWnd + step
    BY <1>1, <1>4, <2>1
  <2> QED
    BY <1>3, <2>1, <2>2
<1> QED
  BY <1>3, <1>5, <1>6 DEF r

\* What is in flight is in the buffer.
LEMMA FlightIs ==
  ASSUME NEW s, Shape(s), Ample(s), s.head <= s.highTx
  PROVE  /\ BytesInFlight(s) \in 0 .. s.tail - 1
         /\ HalfFlight(s) \in 2 * MSS .. WordSize - 1 /\ HalfFlight(s) + 3 * MSS \in 2 * MSS .. WordSize - 1
<1> DEFINE f == BytesInFlight(s)
<1>1. /\ s.head \in Nat /\ s.head > 0 /\ s.tail \in Nat /\ s.highTx \in Nat /\ s.highTx <= s.tail
      /\ MSS \in Nat \ {0} /\ WordSize \in Nat \ {0} /\ s.tail + 6 * MSS <= WordSize
  BY ShapeTypes, SenderAssumption DEF Ample
<1>2. f \in 0 .. s.tail - 1
  <2>1. s.highTx - s.head \in 0 .. s.tail - 1 /\ s.highTx - s.head \in 0 .. WordSize - 1
    BY <1>1
  <2>2. (s.highTx - s.head) % WordSize = s.highTx - s.head
    BY <1>1, <2>1
  <2> QED
    BY <2>1, <2>2 DEF BytesInFlight
<1> HIDE DEF f
<1>3. f \div 2 \in 0 .. s.tail
  BY <1>1, <1>2
<1>4. HalfFlight(s) = Larger(2 * MSS, f \div 2)
  BY DEF HalfFlight, f
<1>5. HalfFlight(s) \in 2 * MSS .. s.tail + 2 * MSS
  BY <1>1, <1>3, <1>4 DEF Larger
<1> QED
  BY <1>1, <1>2, <1>5 DEF f

LEMMA RecoveredIs ==
  ASSUME NEW s, Shape(s), Tuned(s), Window(s), Ample(s)
  PROVE  LET r == Recovered(s)
         IN /\ DOMAIN r = SenderFields /\ r.ssThresh \in Nat /\ r.cWnd \in MSS .. WordSize - 1
            /\ Room(s) => r.cWnd + MSS < WordSize
<1> DEFINE r == Recovered(s)
<1>1. /\ s.tail \in Nat /\ MSS \in Nat \ {0} /\ WordSize \in Nat \ {0} /\ s.tail + 6 * MSS <= WordSize
      /\ s.ssThresh \in Nat /\ DOMAIN s = SenderFields /\ s.inFastRec \in BOOLEAN
  BY SMTT(20), ShapeTypes, SenderAssumption DEF Ample, Tuned, Shape
<1>2. CASE s.inFastRec
  <2>1. s.head <= s.highTx /\ 2 * MSS <= s.ssThresh
    <3>1. s.head \in Nat /\ s.recover \in Nat /\ s.highTx \in Nat /\ s.head < s.recover /\ s.recover <= s.highTx
      BY <1>2, ShapeTypes DEF Shape
    <3> QED
      BY <1>2, <3>1 DEF Tuned
  <2>2. BytesInFlight(s) \in 0 .. s.tail - 1
    BY <2>1, FlightIs
  <2> DEFINE x == (BytesInFlight(s) + MSS) % WordSize
  <2>3. x \in MSS .. s.tail + MSS
    <3> DEFINE f == BytesInFlight(s)
    <3>1. f \in 0 .. s.tail - 1
      BY <2>2
    <3> HIDE DEF f
    <3>2. f + MSS \in MSS .. s.tail + MSS /\ f + MSS \in 0 .. WordSize - 1
      BY <1>1, <3>1
    <3>3. (f + MSS) % WordSize = f + MSS
      BY <1>1, <3>2
    <3> QED
      BY <3>2, <3>3 DEF f
  <2> HIDE DEF x
  <2>4. r.cWnd = Smaller(s.ssThresh, x) /\ r.ssThresh = s.ssThresh /\ DOMAIN r = SenderFields
    BY <1>1, <1>2 DEF Recovered, SenderFields, x
  <2> HIDE DEF r
  <2>5. r.cWnd \in MSS .. s.tail + MSS
    BY <1>1, <2>1, <2>3, <2>4 DEF Smaller
  <2> QED
    BY <1>1, <2>4, <2>5 DEF r
<1>3. CASE ~s.inFastRec
  <2>1. r = s
    BY <1>3 DEF Recovered
  <2> QED
    BY <1>1, <1>3, <2>1 DEF Window, Room
<1> QED
  BY <1>1, <1>2, <1>3

Windowed == Acked \cup {"cWnd", "inFastRec"}

\* A partial acknowledgement stays in fast recovery, any other leaves it.
LEMMA NewAckIs ==
  ASSUME NEW s, Shape(s), Open(s), NEW ack, OnGrid(ack), s.head <= ack, ack <= s.nextTx,
         ack \notin Marks(s.scoreboard)
  PROVE  LET r == NewAck(s, ack)
         IN /\ Shape(r) /\ Open(r) /\ Proceeds(s, r) /\ Keeps(s, r, Windowed) /\ s.nextTx <= r.nextTx
            /\ r.head = ack /\ r.tail = s.tail
            /\ r.retx = Off => r.head = r.tail
            /\ Charted(s) /\ Window(r) => Used(r)
            /\ Paced(s, r)
<1>1. DOMAIN s = SenderFields /\ s.inFastRec \in BOOLEAN
  BY DEF Shape
<1>2. CASE s.inFastRec /\ ack < s.recover
  <2> DEFINE d == [s EXCEPT !.cWnd = (@ - (ack - s.head) + MSS) % WordSize]
             b == BaseNewAck(d, ack)
             r == NewAck(s, ack)
  <2>1. r = DoRetransmit(b)
    BY <1>2 DEF NewAck
  <2>2. Keeps(s, d, {"cWnd"}) /\ d.cWnd = (s.cWnd - (ack - s.head) + MSS) % WordSize
    BY <1>1 DEF Keeps, SenderFields
  <2> HIDE DEF d, r
  <2>3. /\ d.head = s.head /\ d.nextTx = s.nextTx /\ d.scoreboard = s.scoreboard /\ d.recover = s.recover
        /\ d.tail = s.tail /\ d.state = s.state /\ d.highTx = s.highTx /\ d.inFastRec = s.inFastRec
    BY <2>2 DEF Keeps, SenderFields
  <2>4. Shape(d) /\ Proceeds(s, d)
    <3>1. Keeps(s, d, {"state", "rc3_p2", "nextTx", "cWnd", "ssThresh", "dupAckCount", "bumpedSeq", "last_block_seq"})
      BY <2>2 DEF Keeps
    <3> QED
      BY <3>1, ShapeKept
  <2>5. Open(d)
    BY <2>3 DEF Open
  <2>6. /\ Shape(b) /\ Open(b) /\ Proceeds(d, b) /\ Keeps(d, b, Acked) /\ d.nextTx <= b.nextTx
        /\ b.head = ack /\ b.tail = s.tail /\ (b.retx = Off => b.head = b.tail)
    BY <1>2, <2>3, <2>4, <2>5, BaseNewAckIs
  <2> HIDE DEF b
  <2>7. /\ Shape(r) /\ Open(r) /\ Proceeds(b, r) /\ Keeps(b, r, Sent) /\ b.nextTx <= r.nextTx
        /\ \/ r = b /\ b.head = b.tail
           \/ b.head < r.nextTx /\ b.head < r.highTx /\ r.retx # Off
    BY <2>1, <2>6, DoRetransmitIs
  <2>8. r.head = ack /\ r.tail = s.tail
    BY <2>6, <2>7 DEF Keeps, SenderFields, Sent
  <2>9. Keeps(s, r, Windowed)
    BY <2>2, <2>6, <2>7 DEF Keeps, SenderFields, Sent, Acked, Windowed
  <2>10. Proceeds(s, r)
    BY <2>4, <2>6, <2>7, ShapeTypes DEF Proceeds
  <2>11. s.nextTx <= r.nextTx
    <3>1. s.nextTx \in Nat /\ b.nextTx \in Nat /\ r.nextTx \in Nat
      BY <2>6, <2>7, GridNat DEF Open
    <3> QED
      BY <2>3, <2>6, <2>7, <3>1
  <2>12. Used(r)
    BY <2>6, <2>7, <2>8 DEF Used
  <2>13. Paced(s, r)
    <3>1. /\ r.tail = s.tail /\ r.ssThresh = s.ssThresh /\ r.recover = s.recover /\ r.bumpedSeq = s.bumpedSeq
          /\ r.inFastRec = s.inFastRec /\ r.cWnd = d.cWnd
      BY <2>2, <2>3, <2>6, <2>7 DEF Keeps, SenderFields, Sent, Acked
    <3>2. ASSUME Tuned(s) PROVE r.cWnd \in 0 .. WordSize - 1
      <4>1. s.cWnd \in Int /\ s.head \in Int /\ ack \in Int /\ MSS \in Int /\ WordSize \in Nat \ {0}
        BY <3>2, GridNat, ShapeTypes, SenderAssumption DEF Tuned
      <4> DEFINE x == s.cWnd - (ack - s.head) + MSS
      <4>2. x \in Int
        BY <4>1
      <4> HIDE DEF x
      <4>3. x % WordSize \in 0 .. WordSize - 1
        BY <4>1, <4>2
      <4> QED
        BY <2>2, <3>1, <4>3 DEF x
    <3> QED
      BY <1>2, <3>1, <3>2 DEF Paced, Tuned, Window
  <2> QED
    BY <2>6, <2>7, <2>8, <2>9, <2>10, <2>11, <2>12, <2>13 DEF r
<1>3. CASE ~(s.inFastRec /\ ack < s.recover)
  <2> DEFINE d == Grown(Recovered(s))
             r == NewAck(s, ack)
  <2>1. r = BaseNewAck(d, ack)
    BY <1>3 DEF NewAck
  <2>2. Keeps(s, d, {"cWnd", "inFastRec"}) /\ d.inFastRec = FALSE
    <3>1. Keeps(s, Recovered(s), {"cWnd", "inFastRec"}) /\ Recovered(s).inFastRec = FALSE
      <4>1. CASE s.inFastRec
        BY <1>1, <4>1 DEF Recovered, Keeps, SenderFields
      <4>2. CASE ~s.inFastRec
        BY <1>1, <4>2 DEF Recovered, Keeps, SenderFields
      <4> QED
        BY <4>1, <4>2
    <3>2. Keeps(Recovered(s), d, {"cWnd"})
      BY <3>1 DEF Grown, Keeps, SenderFields
    <3> HIDE DEF d
    <3> QED
      BY <3>1, <3>2 DEF Keeps, SenderFields
  <2>10. ASSUME Tuned(s), Window(s), Ample(s)
         PROVE  d.cWnd \in 0 .. WordSize - 1 /\ (Room(s) => d.cWnd \in MSS .. WordSize - 1)
    <3> DEFINE w == Recovered(s)
    <3>1. /\ DOMAIN w = SenderFields /\ w.ssThresh \in Nat /\ w.cWnd \in MSS .. WordSize - 1
          /\ Room(s) => w.cWnd + MSS < WordSize
      BY <2>10, RecoveredIs
    <3>2. d = Grown(w)
      OBVIOUS
    <3> HIDE DEF w, d
    <3> QED
      BY <3>1, <3>2, GrownIs
  <2> HIDE DEF d, r
  <2>3. /\ d.head = s.head /\ d.nextTx = s.nextTx /\ d.scoreboard = s.scoreboard /\ d.recover = s.recover
        /\ d.tail = s.tail /\ d.state = s.state /\ d.highTx = s.highTx /\ d.p2_block_max = s.p2_block_max
        /\ d.p2_block_bytes_sent = s.p2_block_bytes_sent /\ d.out = s.out /\ d.retx = s.retx
        /\ DOMAIN d = SenderFields
    BY <2>2 DEF Keeps, SenderFields
  <2>4. Shape(d)
    BY <2>2, <2>3 DEF Shape
  <2>5. Open(d)
    BY <2>3 DEF Open
  <2>6. /\ Shape(r) /\ Open(r) /\ Proceeds(d, r) /\ Keeps(d, r, Acked) /\ d.nextTx <= r.nextTx
        /\ r.head = ack /\ r.tail = s.tail /\ (r.retx = Off => r.head = r.tail)
        /\ Charted(d) /\ Window(r) => Used(r)
    BY <2>1, <2>2, <2>3, <2>4, <2>5, BaseNewAckIs
  <2>7. Keeps(s, r, Windowed)
    BY <2>2, <2>6 DEF Keeps, SenderFields, Sent, Acked, Windowed
  <2>8. Proceeds(s, r) /\ s.nextTx <= r.nextTx
    BY <2>3, <2>6 DEF Proceeds
  <2>9. Charted(s) => Charted(d)
    BY <2>3 DEF Charted
  <2>11. Paced(s, r)
    <3>1. /\ r.tail = s.tail /\ r.ssThresh = s.ssThresh /\ r.recover = s.recover /\ r.bumpedSeq = s.bumpedSeq
          /\ r.inFastRec = FALSE /\ r.cWnd = d.cWnd
      BY <2>2, <2>3, <2>6 DEF Keeps, SenderFields, Sent, Acked
    <3> QED
      BY <2>10, <3>1 DEF Paced, Tuned, Window
  <2> QED
    BY <2>6, <2>7, <2>8, <2>9, <2>11 DEF r
<1> QED
  BY <1>2, <1>3

-----------------------------------------------------------------------------
\* Duplicate acknowledgements, and ReceivedAck as a whole.

\* What a handler that leaves the buffer alone may change of the shape.
Changeable == SenderFields \ {"head", "tail", "p2_block_max", "p2_block_bytes_sent", "out"}

LEMMA ShapeChanged ==
  ASSUME NEW s, Shape(s), NEW r, Keeps(s, r, Changeable), r.highTx \in s.highTx .. s.tail, Edge(r.highTx),
         r.retx \in {s.retx, Off},
         BoardOK(r.scoreboard), \A t \in Marks(r.scoreboard) : t + MSS <= s.tail,
         r.inFastRec \in BOOLEAN, r.recover \in Nat,
         r.inFastRec => s.head < r.recover /\ r.recover <= r.highTx
  PROVE  Shape(r) /\ Proceeds(s, r) /\ r.head = s.head /\ r.tail = s.tail
<1>1. /\ r.head = s.head /\ r.tail = s.tail /\ r.p2_block_max = s.p2_block_max
      /\ r.p2_block_bytes_sent = s.p2_block_bytes_sent /\ r.out = s.out /\ DOMAIN r = SenderFields
  BY DEF Keeps, SenderFields, Changeable
<1>2. /\ s.head \in Nat /\ s.tail \in Nat /\ s.highTx \in Nat /\ r.highTx \in Nat /\ s.p2_block_max \in Nat
      /\ s.highTx <= r.highTx /\ r.highTx <= s.tail
  BY ShapeTypes
<1>3. r.out \in Seq(Sendable(s.tail, r.highTx, s.p2_block_max))
  <2>1. /\ s.out \in Seq(Sendable(s.tail, s.highTx, s.p2_block_max))
        /\ s.tail \in Nat /\ s.highTx \in Nat /\ r.highTx \in Nat /\ s.p2_block_max \in Nat
        /\ s.tail <= s.tail /\ s.highTx <= r.highTx /\ s.p2_block_max <= s.p2_block_max
    BY <1>2 DEF Shape
  <2>2. s.out \in Seq(Sendable(s.tail, r.highTx, s.p2_block_max))
    <3> DEFINE t == s.tail
               h1 == s.highTx
               h2 == r.highTx
               b == s.p2_block_max
               q == s.out
    <3>1. q \in Seq(Sendable(t, h1, b)) /\ t \in Nat /\ h1 \in Nat /\ h2 \in Nat /\ b \in Nat
      BY <2>1
    <3>2. t <= t /\ h1 <= h2 /\ b <= b
      BY <2>1
    <3> HIDE DEF t, h1, h2, b, q
    <3>3. q \in Seq(Sendable(t, h2, b))
      BY <3>1, <3>2, SendableGrows
    <3> QED
      BY <3>3 DEF t, h2, b, q
  <2> QED
    BY <1>1, <2>2
<1>4. Shape(r)
  BY <1>1, <1>2, <1>3 DEF Shape
<1> QED
  BY <1>1, <1>2, <1>4 DEF Proceeds, Ticks

\* m_nextTxSequence and m_highTxMark move up to what was acknowledged.
LEMMA BumpedIs ==
  ASSUME NEW s, Shape(s), Open(s), NEW ack, OnGrid(ack), s.nextTx < ack, ack <= s.tail
  PROVE  LET r == Bumped(s, ack)
         IN /\ Shape(r) /\ Open(r) /\ Proceeds(s, r) /\ Keeps(s, r, {"bumpedSeq", "nextTx", "highTx"})
            /\ r.nextTx = ack /\ r.bumpedSeq = ack
<1> DEFINE r == Bumped(s, ack)
<1>1. /\ s.head \in Nat /\ s.tail \in Nat /\ s.highTx \in Nat /\ s.nextTx \in Nat /\ ack \in Nat
      /\ s.head <= s.nextTx /\ s.highTx <= s.tail /\ DOMAIN s = SenderFields
  BY ShapeTypes, GridNat DEF Open, Shape
<1>2. /\ Keeps(s, r, {"bumpedSeq", "nextTx", "highTx"}) /\ r.nextTx = ack /\ r.highTx = Larger(s.highTx, ack)
      /\ r.bumpedSeq = ack
  BY <1>1 DEF Bumped, Keeps, SenderFields
<1> HIDE DEF r
<1>3. /\ r.head = s.head /\ r.scoreboard = s.scoreboard /\ r.tail = s.tail /\ r.state = s.state
      /\ r.recover = s.recover /\ r.inFastRec = s.inFastRec /\ r.retx = s.retx /\ Keeps(s, r, Changeable)
  BY <1>2 DEF Keeps, SenderFields, Changeable
<1>4. r.highTx \in s.highTx .. s.tail /\ ack <= r.highTx /\ Edge(r.highTx)
  BY <1>1, <1>2 DEF Larger, Edge, Shape
<1>5. /\ BoardOK(r.scoreboard) /\ \A t \in Marks(r.scoreboard) : t + MSS <= s.tail
      /\ r.inFastRec \in BOOLEAN /\ r.recover \in Nat
      /\ r.inFastRec => s.head < r.recover /\ r.recover <= r.highTx
  BY <1>1, <1>3, <1>4 DEF Shape
<1>6. Shape(r) /\ Proceeds(s, r)
  BY <1>3, <1>4, <1>5, ShapeChanged
<1>7. Open(r)
  BY <1>1, <1>2, <1>3, <1>4 DEF Open
<1> QED
  BY <1>2, <1>6, <1>7 DEF r

Recovering == Windowed \cup {"dupAckCount", "ssThresh", "recover", "bumpedSeq"}

\* A duplicate acknowledgement of what is not marked: data is outstanding, and
\* recovery starts with something to wait for.
LEMMA DupAckIs ==
  ASSUME NEW s, Shape(s), Open(s), s.head \notin Marks(s.scoreboard), s.head < s.nextTx
  PROVE  LET r == DupAck(s)
         IN /\ Shape(r) /\ Open(r) /\ Proceeds(s, r) /\ Keeps(s, r, Recovering \ {"head", "tail"})
            /\ s.nextTx <= r.nextTx /\ s.head < s.highTx
            /\ r.retx = Off => s.retx = Off
            /\ Paced(s, r)
<1> DEFINE u == [s EXCEPT !.dupAckCount = @ + 1]
           v == [u EXCEPT !.ssThresh = HalfFlight(u), !.cWnd = HalfFlight(u) + 3 * MSS, !.recover = u.highTx, !.inFastRec = TRUE]
           w == [u EXCEPT !.cWnd = (@ + MSS) % WordSize]
           r == DupAck(s)
           F == {"dupAckCount", "ssThresh", "cWnd", "recover", "inFastRec"}
<1>1. /\ s.head \in Nat /\ s.tail \in Nat /\ s.highTx \in Nat /\ s.nextTx \in Nat /\ s.head \in Nat
      /\ s.highTx <= s.tail /\ DOMAIN s = SenderFields /\ OnGrid(s.head)
  BY ShapeTypes, GridNat DEF Open, Shape
<1>2. s.head < s.highTx
  <2>1. CASE s.highTx <= s.head
    <3>1. s.head \in s.highTx .. s.nextTx - 1
      BY <1>1, <2>1
    <3> QED
      BY <1>1, <3>1 DEF Open
  <2> QED
    BY <1>1, <2>1
<1>3. Keeps(s, u, {"dupAckCount"}) /\ u.highTx = s.highTx /\ HalfFlight(u) = HalfFlight(s)
  BY <1>1 DEF Keeps, SenderFields, HalfFlight, BytesInFlight
<1> HIDE DEF u
<1>4. /\ Keeps(s, v, F) /\ v.recover = s.highTx /\ v.inFastRec = TRUE
      /\ v.ssThresh = HalfFlight(s) /\ v.cWnd = HalfFlight(s) + 3 * MSS
  BY <1>3 DEF Keeps, SenderFields
<1>5. Keeps(s, w, {"dupAckCount", "cWnd"}) /\ w.cWnd = (s.cWnd + MSS) % WordSize
  BY <1>3 DEF Keeps, SenderFields
<1>6. \/ r = DoRetransmit(v)
      \/ r = SendPendingData(w) /\ s.inFastRec
      \/ r = u
  <2>1. u.inFastRec = s.inFastRec
    BY <1>3 DEF Keeps, SenderFields
  <2> QED
    BY <2>1 DEF DupAck, u
<1> HIDE DEF v, w, r
<1>7. Shape(v) /\ Proceeds(s, v) /\ Open(v) /\ v.head = s.head /\ v.tail = s.tail /\ v.nextTx = s.nextTx /\ v.retx = s.retx
  <2>1. /\ v.head = s.head /\ v.scoreboard = s.scoreboard /\ v.tail = s.tail /\ v.state = s.state
        /\ v.nextTx = s.nextTx /\ v.highTx = s.highTx /\ Keeps(s, v, Changeable) /\ v.retx = s.retx
    BY <1>4 DEF Keeps, SenderFields, Changeable
  <2>2. /\ v.highTx \in s.highTx .. s.tail
        /\ BoardOK(v.scoreboard) /\ \A t \in Marks(v.scoreboard) : t + MSS <= s.tail
        /\ v.inFastRec \in BOOLEAN /\ v.recover \in Nat
        /\ v.inFastRec => s.head < v.recover /\ v.recover <= v.highTx
    <3>1. BoardOK(s.scoreboard) /\ \A t \in Marks(s.scoreboard) : t + MSS <= s.tail
      BY DEF Shape
    <3>2. s.highTx \in s.highTx .. s.tail /\ s.head < s.highTx /\ s.highTx <= s.highTx
      BY <1>1, <1>2
    <3> QED
      BY <1>1, <1>4, <2>1, <3>1, <3>2
  <2>5. Edge(v.highTx)
    BY <2>1 DEF Shape
  <2>3. Shape(v) /\ Proceeds(s, v)
    BY <2>1, <2>2, <2>5, ShapeChanged
  <2>4. Open(v)
    BY <2>1 DEF Open
  <2> QED
    BY <2>1, <2>3, <2>4
<1>8. ASSUME NEW x, Keeps(s, x, {"dupAckCount", "cWnd"})
      PROVE  Shape(x) /\ Proceeds(s, x) /\ Open(x) /\ x.nextTx = s.nextTx /\ x.retx = s.retx
  <2>1. /\ x.head = s.head /\ x.scoreboard = s.scoreboard /\ x.tail = s.tail /\ x.state = s.state
        /\ x.nextTx = s.nextTx /\ x.highTx = s.highTx /\ x.retx = s.retx
    BY <1>8 DEF Keeps, SenderFields
  <2>2. Keeps(s, x, {"state", "rc3_p2", "nextTx", "cWnd", "ssThresh", "dupAckCount", "bumpedSeq", "last_block_seq"})
    BY <1>8 DEF Keeps
  <2> QED
    BY <2>1, <2>2, ShapeKept DEF Open
<1>9. CASE r = DoRetransmit(v)
  <2>1. /\ Shape(r) /\ Open(r) /\ Proceeds(v, r) /\ Keeps(v, r, Sent) /\ v.nextTx <= r.nextTx
        /\ r = v \/ r.retx # Off
    BY <1>7, <1>9, DoRetransmitIs
  <2>2. Keeps(s, r, Recovering \ {"head", "tail"})
    BY <1>4, <2>1 DEF Keeps, SenderFields, Sent, Recovering, Windowed, Acked
  <2>3. Proceeds(s, r)
    BY <1>7, <2>1, ShapeTypes DEF Proceeds
  <2>4. Paced(s, r)
    <3>1. /\ r.tail = s.tail /\ r.ssThresh = HalfFlight(s) /\ r.recover = s.highTx /\ r.bumpedSeq = s.bumpedSeq
          /\ r.inFastRec = TRUE /\ r.cWnd = HalfFlight(s) + 3 * MSS
      BY <1>4, <2>1 DEF Keeps, SenderFields, Sent
    <3>2. ASSUME Tuned(s), Window(s), Ample(s) PROVE Tuned(r)
      <4>1. /\ HalfFlight(s) \in 2 * MSS .. WordSize - 1 /\ HalfFlight(s) + 3 * MSS \in 2 * MSS .. WordSize - 1
        BY <1>1, <1>2, <3>2, FlightIs
      <4> QED
        BY <1>1, <3>1, <3>2, <4>1, MSSAssumption, SenderAssumption DEF Tuned
    <3> QED
      BY <3>1, <3>2 DEF Paced, Window
  <2> QED
    BY <1>2, <1>7, <2>1, <2>2, <2>3, <2>4 DEF r
<1>10. CASE r = SendPendingData(w) /\ s.inFastRec
  <2>0. Shape(w) /\ Proceeds(s, w) /\ Open(w) /\ w.nextTx = s.nextTx /\ w.retx = s.retx
    BY <1>5, <1>8
  <2>1. /\ Shape(r) /\ Open(r) /\ Proceeds(w, r) /\ Keeps(w, r, Sent) /\ w.nextTx <= r.nextTx
        /\ r = w \/ r.retx # Off
    BY <2>0, <1>10, SendPendingDataIs
  <2>2. Keeps(s, r, Recovering \ {"head", "tail"})
    BY <1>5, <2>1 DEF Keeps, SenderFields, Sent, Recovering, Windowed, Acked
  <2>3. Proceeds(s, r)
    BY <2>0, <2>1, ShapeTypes DEF Proceeds
  <2>4. Paced(s, r)
    <3>1. /\ r.tail = s.tail /\ r.ssThresh = s.ssThresh /\ r.recover = s.recover /\ r.bumpedSeq = s.bumpedSeq
          /\ r.inFastRec = s.inFastRec /\ r.cWnd = (s.cWnd + MSS) % WordSize
      BY <1>5, <2>1 DEF Keeps, SenderFields, Sent
    <3>2. ASSUME Tuned(s) PROVE r.cWnd \in 0 .. WordSize - 1
      BY <3>1, <3>2, MSSAssumption, SenderAssumption DEF Tuned
    <3> QED
      BY <1>10, <3>1, <3>2 DEF Paced, Tuned, Window
  <2> QED
    BY <1>2, <2>0, <2>1, <2>2, <2>3, <2>4 DEF r
<1>11. CASE r = u
  <2>1. Keeps(s, u, {"dupAckCount", "cWnd"})
    BY <1>3 DEF Keeps
  <2>2. Shape(u) /\ Proceeds(s, u) /\ Open(u) /\ u.nextTx = s.nextTx /\ u.retx = s.retx
    BY <2>1, <1>8
  <2>3. Keeps(s, u, Recovering \ {"head", "tail"})
    BY <2>1 DEF Keeps, SenderFields, Sent, Recovering, Windowed, Acked
  <2>4. Alike(s, u)
    BY <1>3 DEF Keeps, SenderFields, Alike
  <2> QED
    BY <1>1, <1>2, <1>11, <2>2, <2>3, <2>4, PacedSame DEF r
<1> QED
  BY <1>6, <1>9, <1>10, <1>11
-----------------------------------------------------------------------------
\* While something that was sent at priority 0 is outstanding the timer runs.
Timed(s) == s.head < s.highTx => s.retx # Off

\* An acknowledgement of what is acknowledged already.
LEMMA SameAckIs ==
  ASSUME NEW s, Shape(s), Open(s), Timed(s), s.head \notin Marks(s.scoreboard)
  PROVE  LET r == SameAck(s, s.head)
         IN /\ Shape(r) /\ Open(r) /\ Timed(r) /\ Proceeds(s, r) /\ Keeps(s, r, Recovering)
            /\ r.head = s.head /\ r.tail = s.tail /\ s.nextTx <= r.nextTx
            /\ Paced(s, r)
<1> DEFINE ack == s.head
           r == SameAck(s, ack)
           h == [s EXCEPT !.highTx = Larger(@, s.nextTx)]
<1>1. /\ s.head \in Nat /\ s.tail \in Nat /\ s.highTx \in Nat /\ s.nextTx \in Nat /\ s.head <= s.nextTx
      /\ s.nextTx <= s.tail /\ s.highTx <= s.tail /\ DOMAIN s = SenderFields /\ OnGrid(s.head)
  BY ShapeTypes, GridNat DEF Open, Shape
<1>2. CASE s.rc3_p2 /\ ack = s.bumpedSeq
  <2>1. r = NewAck(h, ack)
    BY <1>2 DEF SameAck
  <2>2. Keeps(s, h, {"highTx"}) /\ h.highTx = Larger(s.highTx, s.nextTx)
    BY <1>1 DEF Keeps, SenderFields
  <2> HIDE DEF h, r
  <2>3. /\ h.head = s.head /\ h.scoreboard = s.scoreboard /\ h.tail = s.tail /\ h.state = s.state
        /\ h.nextTx = s.nextTx /\ h.inFastRec = s.inFastRec /\ h.recover = s.recover /\ h.retx = s.retx
        /\ Keeps(s, h, Changeable)
    BY <2>2 DEF Keeps, SenderFields, Changeable
  <2>4. h.highTx \in s.highTx .. s.tail /\ s.nextTx <= h.highTx /\ Edge(h.highTx)
    <3>1. h.highTx \in {s.highTx, s.nextTx} /\ h.highTx \in s.highTx .. s.tail /\ s.nextTx <= h.highTx
      BY <1>1, <2>2 DEF Larger
    <3>2. Edge(s.highTx) /\ Edge(s.nextTx)
      BY DEF Edge, Shape, Open
    <3> QED
      BY <3>1, <3>2
  <2>5. Shape(h) /\ Proceeds(s, h)
    <3>1. /\ BoardOK(s.scoreboard) /\ \A t \in Marks(s.scoreboard) : t + MSS <= s.tail
          /\ s.inFastRec \in BOOLEAN /\ s.recover \in Nat
          /\ s.inFastRec => s.head < s.recover /\ s.recover <= s.highTx
      BY DEF Shape
    <3>2. s.inFastRec => s.head < s.recover /\ s.recover <= h.highTx
      BY <1>1, <2>4, <3>1
    <3> QED
      BY <2>3, <2>4, <3>1, <3>2, ShapeChanged
  <2>6. Open(h)
    BY <1>1, <2>3, <2>4 DEF Open
  <2>7. /\ Shape(r) /\ Open(r) /\ Proceeds(h, r) /\ Keeps(h, r, Windowed) /\ s.nextTx <= r.nextTx
        /\ r.head = ack /\ r.tail = s.tail /\ (r.retx = Off => r.head = r.tail) /\ Paced(h, r)
    BY <1>1, <2>1, <2>3, <2>5, <2>6, NewAckIs
  <2>8. Proceeds(s, r)
    BY <2>5, <2>7, ShapeTypes DEF Proceeds
  <2>9. Keeps(s, r, Recovering)
    BY <2>2, <2>7 DEF Keeps, SenderFields, Sent, Recovering, Windowed, Acked
  <2>10. Timed(r)
    BY <2>7, ShapeTypes DEF Timed
  <2>11. Paced(s, r)
    <3>1. Alike(s, h) /\ Alike(r, r)
      BY <2>2 DEF Keeps, SenderFields, Alike
    <3> QED
      BY <2>7, <3>1, PacedIs
  <2> QED
    BY <2>7, <2>8, <2>9, <2>10, <2>11 DEF r
<1>3. CASE ~(s.rc3_p2 /\ ack = s.bumpedSeq) /\ ack < s.nextTx
  <2> DEFINE d == DupAck(s)
  <2>1. r = AckBeyondNext(d, ack)
    BY <1>3 DEF SameAck
  <2>2. /\ Shape(d) /\ Open(d) /\ Proceeds(s, d) /\ Keeps(s, d, Recovering \ {"head", "tail"})
        /\ s.nextTx <= d.nextTx /\ s.head < s.highTx /\ (d.retx = Off => s.retx = Off) /\ Paced(s, d)
    BY <1>3, DupAckIs
  <2> HIDE DEF d, r
  <2>3. d.nextTx \in Nat /\ ack <= d.nextTx /\ d.head = s.head /\ d.tail = s.tail
    BY <1>1, <1>3, <2>2, GridNat DEF Open, Keeps, SenderFields, Recovering
  <2>4. r = d
    BY <1>1, <2>1, <2>3 DEF AckBeyondNext
  <2>5. Keeps(s, d, Recovering) /\ Timed(d)
    BY <2>2 DEF Keeps, Timed
  <2> QED
    BY <2>2, <2>3, <2>4, <2>5 DEF r
<1>4. CASE ~(s.rc3_p2 /\ ack = s.bumpedSeq) /\ ~(ack < s.nextTx)
  <2>1. r = s
    BY <1>1, <1>4 DEF SameAck, AckBeyondNext
  <2>2. Proceeds(s, s) /\ Keeps(s, s, Recovering)
    BY <1>1, ShapeTypes DEF Proceeds, Keeps
  <2>3. Alike(s, s)
    BY DEF Alike
  <2> QED
    BY <1>1, <2>1, <2>2, <2>3, PacedSame
<1> QED
  BY <1>2, <1>3, <1>4

\* What an acknowledgement changes: only its own number, when it is of
\* priority 0 and new, moves the front of the buffer.
LEMMA ReceivedAckIs ==
  ASSUME NEW s, Shape(s), Open(s), Timed(s), NEW m, OnGrid(m.ack), m.ack <= s.tail, m.prio \in Nat,
         \A i \in DOMAIN m.sack : OnGrid(m.sack[i][1]) /\ OnGrid(m.sack[i][2]) /\ m.sack[i][2] <= s.tail,
         m.prio = 0 => m.ack \notin Marks(UpdateScoreBoard(s.scoreboard, m.ack, m.sack))
  PROVE  LET r == ReceivedAck(s, m)
         IN /\ Shape(r) /\ Open(r) /\ Timed(r) /\ Proceeds(s, r) /\ Keeps(s, r, Recovering \cup {"scoreboard"})
            /\ r.tail = s.tail /\ r.head \in {s.head, m.ack} /\ s.head <= r.head
            /\ r.scoreboard = UpdateScoreBoard(s.scoreboard, m.ack, m.sack)
            /\ Charted(s) /\ Used(s) /\ Window(r) => Used(r)
            /\ Paced(s, r)
<1> DEFINE u == [s EXCEPT !.scoreboard = UpdateScoreBoard(@, m.ack, m.sack)]
           ack == m.ack
           r == ReceivedAck(s, m)
<1>1. /\ s.head \in Nat /\ s.tail \in Nat /\ s.highTx \in Nat /\ s.nextTx \in Nat /\ s.nextTx > 0
      /\ ack \in Nat /\ s.highTx <= s.tail /\ DOMAIN s = SenderFields
  BY ShapeTypes, GridNat DEF Open, Shape
<1>2. Keeps(s, u, {"scoreboard"}) /\ u.scoreboard = UpdateScoreBoard(s.scoreboard, m.ack, m.sack)
  BY <1>1 DEF Keeps, SenderFields
<1>3. /\ BoardOK(u.scoreboard) /\ Marks(s.scoreboard) \subseteq Marks(u.scoreboard)
      /\ \A t \in Marks(u.scoreboard) : t + MSS <= s.tail
  <2>1. BoardOK(s.scoreboard) /\ \A t \in Marks(s.scoreboard) : OnGrid(t) /\ t + MSS <= s.tail
    BY DEF Shape, BoardOK, Board
  <2>2. \A i \in DOMAIN m.sack : OnGrid(m.sack[i][1]) /\ OnGrid(m.sack[i][2])
    OBVIOUS
  <2> HIDE DEF u
  <2>3. /\ BoardOK(u.scoreboard) /\ Marks(s.scoreboard) \subseteq Marks(u.scoreboard)
        /\ \A t \in Marks(u.scoreboard) :
             \/ t \in Marks(s.scoreboard) \/ t + MSS <= ack
             \/ \E i \in DOMAIN m.sack : m.sack[i][1] <= t /\ t + MSS <= m.sack[i][2]
    BY <1>2, <2>1, <2>2, UpdateMarks
  <2>4. ASSUME NEW t \in Marks(u.scoreboard) PROVE t + MSS <= s.tail
    <3>1. t \in Nat /\ MSS \in Nat
      BY <2>3, GridNat, MSSAssumption DEF BoardOK, Board
    <3>2. CASE t \in Marks(s.scoreboard)
      BY <2>1, <3>2
    <3>3. CASE t + MSS <= ack
      BY <1>1, <3>1, <3>3
    <3>4. CASE \E i \in DOMAIN m.sack : m.sack[i][1] <= t /\ t + MSS <= m.sack[i][2]
      <4>1. PICK i \in DOMAIN m.sack : t + MSS <= m.sack[i][2]
        BY <3>4
      <4>2. m.sack[i][2] \in Nat /\ m.sack[i][2] <= s.tail
        BY GridNat
      <4> QED
        BY <1>1, <3>1, <4>1, <4>2
    <3> QED
      BY <2>3, <3>2, <3>3, <3>4
  <2> QED
    BY <2>3, <2>4
<1>4. \/ r = u /\ (m.prio > 0 \/ ack < u.head)
      \/ r = SameAck(u, ack) /\ ack = u.head /\ m.prio = 0
      \/ r = [NewAck(IF ack > u.nextTx THEN Bumped(u, ack) ELSE u, ack) EXCEPT !.dupAckCount = 0]
         /\ ack > u.head /\ m.prio = 0
  <2>1. u.nextTx # 0 /\ u.head \in Nat
    BY <1>1
  <2> QED
    BY <1>1, <2>1 DEF ReceivedAck
<1> HIDE DEF u, r
<1>5. /\ u.head = s.head /\ u.tail = s.tail /\ u.state = s.state /\ u.retx = s.retx
      /\ u.nextTx = s.nextTx /\ u.highTx = s.highTx /\ u.inFastRec = s.inFastRec /\ u.recover = s.recover
      /\ Keeps(s, u, Changeable)
  BY <1>2 DEF Keeps, SenderFields, Changeable
<1>6. Shape(u) /\ Proceeds(s, u)
  <2>1. /\ s.inFastRec \in BOOLEAN /\ s.recover \in Nat /\ s.highTx \in s.highTx .. s.tail /\ Edge(s.highTx)
        /\ s.inFastRec => s.head < s.recover /\ s.recover <= s.highTx
    BY <1>1 DEF Shape
  <2> QED
    BY <1>3, <1>5, <2>1, ShapeChanged
<1>7. Open(u) /\ Timed(u)
  <2>1. \A t \in s.highTx .. s.nextTx - 1 : OnGrid(t) => t \in Marks(u.scoreboard)
    BY <1>3 DEF Open
  <2> QED
    BY <1>5, <2>1 DEF Open, Timed
<1>17. /\ Used(s) => Used(u)
       /\ Charted(s) => Charted(u)
  <2>1. s.scoreboard.known \subseteq u.scoreboard.known
    BY <1>2 DEF UpdateScoreBoard
  <2> QED
    BY <1>5, <2>1 DEF Used, Charted
<1>18. Alike(s, u)
  BY <1>2 DEF Keeps, SenderFields, Alike
<1>8. CASE r = u /\ (m.prio > 0 \/ ack < u.head)
  <2>1. Keeps(s, u, Recovering \cup {"scoreboard"})
    BY <1>2 DEF Keeps
  <2> QED
    BY <1>1, <1>2, <1>5, <1>6, <1>7, <1>8, <1>17, <1>18, <2>1, PacedSame DEF r
<1>9. CASE r = SameAck(u, ack) /\ ack = u.head /\ m.prio = 0
  <2>1. ack \notin Marks(u.scoreboard)
    BY <1>2, <1>9
  <2>2. /\ Shape(r) /\ Open(r) /\ Timed(r) /\ Proceeds(u, r) /\ Keeps(u, r, Recovering)
        /\ r.head = u.head /\ r.tail = u.tail /\ u.nextTx <= r.nextTx /\ Paced(u, r)
    BY <1>6, <1>7, <1>9, <2>1, SameAckIs
  <2>3. Keeps(s, r, Recovering \cup {"scoreboard"}) /\ r.scoreboard = u.scoreboard
    BY <1>2, <2>2 DEF Keeps, SenderFields, Recovering, Windowed, Acked, Sent
  <2>4. Proceeds(s, r)
    BY <1>6, <2>2, ShapeTypes DEF Proceeds
  <2>5. Used(u) => Used(r)
    <3>1. u.nextTx \in Nat /\ r.nextTx \in Nat
      BY <1>7, <2>2, GridNat DEF Open
    <3> QED
      BY <1>6, <2>2, <3>1, ShapeTypes DEF Used, Proceeds
  <2>6. Paced(s, r)
    <3>1. Alike(r, r)
      BY DEF Alike
    <3> QED
      BY <1>18, <2>2, <3>1, PacedIs
  <2> QED
    BY <1>1, <1>2, <1>5, <1>17, <2>2, <2>3, <2>4, <2>5, <2>6 DEF r
<1>10. CASE /\ r = [NewAck(IF ack > u.nextTx THEN Bumped(u, ack) ELSE u, ack) EXCEPT !.dupAckCount = 0]
            /\ ack > u.head /\ m.prio = 0
  <2> DEFINE b == IF ack > u.nextTx THEN Bumped(u, ack) ELSE u
             n == NewAck(b, ack)
  <2>1. ack \notin Marks(u.scoreboard)
    BY <1>2, <1>10
  <2>2. /\ Shape(b) /\ Open(b) /\ Proceeds(u, b) /\ Keeps(u, b, {"bumpedSeq", "nextTx", "highTx"})
        /\ ack <= b.nextTx /\ b.bumpedSeq \in {u.bumpedSeq, ack}
    <3>1. CASE ack > u.nextTx
      <4>1. u.nextTx < ack /\ ack <= u.tail
        BY <1>1, <1>5, <3>1
      <4>2. /\ Shape(Bumped(u, ack)) /\ Open(Bumped(u, ack)) /\ Proceeds(u, Bumped(u, ack))
            /\ Keeps(u, Bumped(u, ack), {"bumpedSeq", "nextTx", "highTx"}) /\ Bumped(u, ack).nextTx = ack
            /\ Bumped(u, ack).bumpedSeq = ack
        BY <1>6, <1>7, <4>1, BumpedIs
      <4> QED
        BY <1>1, <3>1, <4>2
    <3>2. CASE ~(ack > u.nextTx)
      <4>1. Proceeds(u, u) /\ Keeps(u, u, {"bumpedSeq", "nextTx", "highTx"})
        <5>1. Keeps(u, u, {"bumpedSeq", "nextTx", "highTx"})
          BY <1>6 DEF Keeps, Shape
        <5>2. u.tail \in Nat /\ u.highTx \in Nat /\ u.p2_block_max \in Nat
          BY <1>6, ShapeTypes
        <5> QED
          BY <5>1, <5>2 DEF Proceeds
      <4> QED
        BY <1>1, <1>5, <1>6, <1>7, <3>2, <4>1
    <3> QED
      BY <3>1, <3>2
  <2> HIDE DEF b
  <2>3. b.head = s.head /\ b.tail = s.tail /\ b.scoreboard = u.scoreboard
    BY <1>5, <2>2 DEF Keeps, SenderFields
  <2>4. /\ Shape(n) /\ Open(n) /\ Proceeds(b, n) /\ Keeps(b, n, Windowed)
        /\ n.head = ack /\ n.tail = s.tail /\ (n.retx = Off => n.head = n.tail)
        /\ (Charted(b) /\ Window(n) => Used(n)) /\ Paced(b, n)
    <3>1. b.head <= ack /\ ack \notin Marks(b.scoreboard)
      BY <1>1, <1>5, <1>10, <2>1, <2>3
    <3> QED
      BY <2>2, <2>3, <3>1, NewAckIs
  <2> HIDE DEF n
  <2>5. Keeps(n, r, {"dupAckCount"})
    BY <1>10, <2>4 DEF Keeps, SenderFields, n, b
  <2>6. r.head = n.head /\ r.tail = n.tail /\ r.highTx = n.highTx /\ r.retx = n.retx /\ r.state = n.state
        /\ r.nextTx = n.nextTx /\ r.scoreboard = n.scoreboard /\ r.cWnd = n.cWnd /\ r.inFastRec = n.inFastRec
    BY <2>5 DEF Keeps, SenderFields
  <2>7. Shape(r) /\ Proceeds(n, r)
    <3>1. Keeps(n, r, {"state", "rc3_p2", "nextTx", "cWnd", "ssThresh", "dupAckCount", "bumpedSeq", "last_block_seq"})
      BY <2>5 DEF Keeps
    <3> QED
      BY <2>4, <3>1, ShapeKept
  <2>8. Open(r) /\ Timed(r)
    BY <2>4, <2>6, ShapeTypes DEF Open, Timed
  <2>9. Keeps(s, r, Recovering \cup {"scoreboard"}) /\ r.scoreboard = u.scoreboard
    BY <1>2, <2>2, <2>4, <2>5 DEF Keeps, SenderFields, Recovering, Windowed, Acked, Sent
  <2>10. Proceeds(s, r)
    BY <1>6, <2>2, <2>4, <2>7, ShapeTypes DEF Proceeds
  <2>11. Charted(s) /\ Window(r) => Used(r)
    <3>1. Charted(s) => Charted(b)
      BY <1>5, <1>17, <2>3 DEF Charted
    <3>2. Window(r) => Window(n)
      BY <2>6 DEF Window
    <3> QED
      BY <2>4, <2>6, <3>1, <3>2 DEF Used
  <2>12. Paced(s, r)
    <3>1. Alike(s, b)
      <4>1. ack \in 0 .. s.tail
        BY <1>1
      <4> QED
        BY <1>2, <2>2, <4>1 DEF Keeps, SenderFields, Alike
    <3>2. Alike(n, r)
      BY <2>5 DEF Keeps, SenderFields, Alike
    <3> QED
      BY <2>4, <3>1, <3>2, PacedIs
  <2> QED
    BY <1>1, <1>2, <1>5, <1>10, <2>4, <2>6, <2>7, <2>8, <2>9, <2>10, <2>11, <2>12 DEF r
<1> QED
  BY <1>4, <1>8, <1>9, <1>10

-----------------------------------------------------------------------------
\* The timeout, the low-priority loop, the application and the handshake.

\* A timeout forgets what was acknowledged selectively and starts over.
LEMMA ReTxTimeoutIs ==
  ASSUME NEW s, Shape(s), Open(s), Timed(s)
  PROVE  LET r == ReTxTimeout(s)
         IN /\ Shape(r) /\ Open(r) /\ Timed(r) /\ Proceeds(s, r)
            /\ r.head = s.head /\ r.tail = s.tail /\ Marks(r.scoreboard) \subseteq Marks(s.scoreboard)
            /\ r.scoreboard.known = s.scoreboard.known /\ r.rc3_p2 = s.rc3_p2
            /\ r.p2_block_max = s.p2_block_max /\ r.last_block_seq = s.last_block_seq
            /\ r.p2_block_bytes_sent = s.p2_block_bytes_sent
            /\ ~r.inFastRec \/ s.head >= s.highTx
            /\ Used(s) => Used(r)
            /\ Paced(s, r)
<1> DEFINE u == [s EXCEPT !.retx = Off]
           e == [u EXCEPT !.inFastRec  = FALSE,
                          !.scoreboard = ClearScoreBoard(@),
                          !.ssThresh   = HalfFlight(u),
                          !.cWnd       = MSS,
                          !.nextTx     = u.head]
           r == ReTxTimeout(s)
<1>1. /\ s.head \in Nat /\ s.tail \in Nat /\ s.highTx \in Nat /\ s.nextTx \in Nat
      /\ s.highTx <= s.tail /\ s.head <= s.tail /\ DOMAIN s = SenderFields /\ s.state = "ESTABLISHED"
  BY ShapeTypes, GridNat DEF Open, Shape
<1>2. Keeps(s, u, {"retx"})
  BY <1>1 DEF Keeps, SenderFields
<1>3. /\ u.head = s.head /\ u.tail = s.tail /\ u.state = s.state /\ u.scoreboard = s.scoreboard
      /\ u.nextTx = s.nextTx /\ u.highTx = s.highTx /\ u.inFastRec = s.inFastRec /\ u.recover = s.recover
      /\ u.rc3_p2 = s.rc3_p2 /\ u.p2_block_max = s.p2_block_max /\ u.last_block_seq = s.last_block_seq
      /\ u.p2_block_bytes_sent = s.p2_block_bytes_sent /\ u.retx = Off
  BY <1>1, <1>2 DEF Keeps, SenderFields
<1>4. IF s.head >= s.highTx THEN r = u ELSE r = DoRetransmit(e)
  BY <1>1, <1>3 DEF ReTxTimeout
<1>8. HalfFlight(u) = HalfFlight(s)
  BY <1>3 DEF HalfFlight, BytesInFlight
<1>5. /\ Keeps(u, e, {"inFastRec", "scoreboard", "ssThresh", "cWnd", "nextTx"})
      /\ e.inFastRec = FALSE /\ e.scoreboard = ClearScoreBoard(s.scoreboard) /\ e.nextTx = s.head
      /\ e.ssThresh = HalfFlight(s) /\ e.cWnd = MSS
  <2> HIDE DEF u
  <2> QED
    BY <1>2, <1>3, <1>8 DEF Keeps, SenderFields
<1> HIDE DEF u, e, r
<1>6. CASE s.head >= s.highTx
  <2>1. Keeps(s, u, Changeable)
    BY <1>2 DEF Keeps, SenderFields, Changeable
  <2>4. /\ s.highTx \in s.highTx .. s.tail /\ Edge(s.highTx) /\ s.recover \in Nat /\ s.inFastRec \in BOOLEAN
        /\ s.inFastRec => s.head < s.recover /\ s.recover <= s.highTx
        /\ BoardOK(s.scoreboard) /\ \A t \in Marks(s.scoreboard) : t + MSS <= s.tail
    BY <1>1 DEF Shape
  <2>2. Shape(u) /\ Proceeds(s, u)
    BY <1>3, <2>1, <2>4, ShapeChanged
  <2>3. Open(u) /\ Timed(u) /\ (Used(s) => Used(u))
    BY <1>1, <1>3, <1>6 DEF Open, Timed, Used
  <2>5. Alike(s, u)
    BY <1>2 DEF Keeps, SenderFields, Alike
  <2> QED
    BY <1>1, <1>3, <1>4, <1>6, <2>2, <2>3, <2>5, PacedSame DEF r
<1>7. CASE ~(s.head >= s.highTx)
  <2>1. /\ e.head = s.head /\ e.tail = s.tail /\ e.state = s.state /\ e.highTx = s.highTx
        /\ e.recover = s.recover /\ Keeps(s, e, Changeable) /\ e.rc3_p2 = s.rc3_p2
        /\ e.p2_block_max = s.p2_block_max /\ e.last_block_seq = s.last_block_seq
        /\ e.p2_block_bytes_sent = s.p2_block_bytes_sent /\ e.retx = Off
    BY <1>2, <1>3, <1>5 DEF Keeps, SenderFields, Changeable
  <2>2. BoardOK(s.scoreboard) /\ \A t \in Marks(s.scoreboard) : t + MSS <= s.tail
    BY DEF Shape
  <2>3. /\ BoardOK(e.scoreboard) /\ Marks(e.scoreboard) \subseteq Marks(s.scoreboard)
        /\ e.scoreboard.known = s.scoreboard.known
    <3>1. /\ e.scoreboard \in Board
          /\ e.scoreboard.known = s.scoreboard.known
          /\ e.scoreboard.acked \subseteq s.scoreboard.acked
          /\ e.scoreboard.sacked \subseteq s.scoreboard.sacked
      BY <1>5, <2>2 DEF ClearScoreBoard, BoardOK, Board
    <3> QED
      BY <2>2, <3>1 DEF BoardOK, Board, Marks
  <2>4. e.highTx \in s.highTx .. s.tail /\ e.recover \in Nat /\ Edge(e.highTx)
    BY <1>1, <2>1 DEF Shape
  <2>5. Shape(e) /\ Proceeds(s, e)
    BY <1>5, <2>1, <2>2, <2>3, <2>4, ShapeChanged
  <2>6. Open(e)
    <3>1. OnGrid(s.head)
      BY DEF Shape
    <3> QED
      BY <1>1, <1>5, <1>7, <2>1, <3>1 DEF Open
  <2>7. /\ Shape(r) /\ Open(r) /\ Proceeds(e, r) /\ Keeps(e, r, Sent)
        /\ s.head < r.highTx /\ s.head < r.nextTx /\ r.retx # Off
    <3>1. r = DoRetransmit(e) /\ e.head # e.tail
      BY <1>1, <1>4, <1>7, <2>1
    <3> QED
      BY <2>1, <2>5, <2>6, <3>1, DoRetransmitIs
  <2>8. /\ r.head = s.head /\ r.tail = s.tail /\ r.scoreboard = e.scoreboard /\ r.rc3_p2 = s.rc3_p2
        /\ r.p2_block_max = s.p2_block_max /\ r.last_block_seq = s.last_block_seq
        /\ r.p2_block_bytes_sent = s.p2_block_bytes_sent /\ r.inFastRec = FALSE
    BY <1>5, <2>1, <2>7 DEF Keeps, SenderFields, Sent
  <2>9. Proceeds(s, r)
    BY <2>5, <2>7, ShapeTypes DEF Proceeds
  <2>10. Paced(s, r)
    <3>1. /\ r.tail = s.tail /\ r.ssThresh = HalfFlight(s) /\ r.recover = s.recover /\ r.bumpedSeq = s.bumpedSeq
          /\ r.inFastRec = FALSE /\ r.cWnd = MSS
      BY <1>2, <1>5, <2>7 DEF Keeps, SenderFields, Sent
    <3>2. ASSUME Tuned(s), Window(s), Ample(s) PROVE Tuned(r) /\ Window(r)
      <4>1. HalfFlight(s) \in 2 * MSS .. WordSize - 1
        BY <1>1, <1>7, <3>2, FlightIs
      <4>2. MSS \in 0 .. WordSize - 1 /\ MSS \in MSS .. WordSize - 1
        BY <1>1, <3>2, MSSAssumption, SenderAssumption DEF Ample
      <4>3. HalfFlight(s) \in 0 .. WordSize - 1
        BY <4>1, MSSAssumption, SenderAssumption
      <4> QED
        BY <3>1, <3>2, <4>2, <4>3 DEF Tuned, Window
    <3> QED
      BY <3>1, <3>2 DEF Paced
  <2> QED
    BY <1>7, <2>3, <2>7, <2>8, <2>9, <2>10 DEF r, Timed, Used
<1> QED
  BY <1>6, <1>7
-----------------------------------------------------------------------------
\* As many as there are of a set that has every smaller one: all of those.
LEMMA Downward ==
  ASSUME NEW n \in Nat, NEW D \in SUBSET (1 .. n), \A k \in D : 1 .. k \subseteq D
  PROVE  /\ Cardinality(D) \in 0 .. n /\ 1 .. Cardinality(D) \subseteq D
         /\ Cardinality(D) + 1 \notin D
<1>1. IsFiniteSet(1 .. n) /\ Cardinality(1 .. n) = n
  BY UpTo
<1>2. IsFiniteSet(D) /\ Cardinality(D) <= n /\ Cardinality(D) \in Nat
  <2>1. IsFiniteSet(D) /\ Cardinality(D) <= Cardinality(1 .. n)
    BY <1>1, FS_Subset
  <2>2. Cardinality(D) \in Nat
    BY <2>1, FS_CardinalityType
  <2> QED
    BY <1>1, <2>1, <2>2
<1>3. ASSUME NEW k \in 1 .. Cardinality(D), k \notin D PROVE FALSE
  <2>1. k \in Nat /\ k > 0 /\ k - 1 \in Nat
    BY <1>2
  <2>2. D \subseteq 1 .. k - 1
    <3>1. ASSUME NEW j \in D, j >= k PROVE FALSE
      <4>1. k \in 1 .. j
        BY <2>1, <3>1
      <4> QED
        BY <1>3, <4>1
    <3> QED
      BY <2>1, <3>1
  <2>3. IsFiniteSet(1 .. k - 1) /\ Cardinality(1 .. k - 1) = k - 1
    BY <2>1, UpTo
  <2>4. Cardinality(D) <= k - 1
    BY <2>2, <2>3, FS_Subset
  <2> QED
    BY <1>2, <2>1, <2>4
<1>4. ASSUME Cardinality(D) + 1 \in D PROVE FALSE
  <2> DEFINE c == Cardinality(D) + 1
  <2>1. c \in Nat /\ 1 .. c \subseteq D
    BY <1>2, <1>4
  <2>2. IsFiniteSet(1 .. c) /\ Cardinality(1 .. c) = c
    BY <2>1, UpTo
  <2>3. Cardinality(1 .. c) <= Cardinality(D)
    <3> HIDE DEF c
    <3> QED
      BY <1>2, <2>1, FS_Subset
  <2> QED
    BY <1>2, <2>2, <2>3
<1> QED
  BY <1>2, <1>3, <1>4

LEMMA LevelType == \A n \in Nat : Level(n) \in Nat /\ Level(n) > 0
<1> SUFFICES ASSUME NEW n \in Nat PROVE Level(n) \in Nat /\ Level(n) > 0
  OBVIOUS
<1> DEFINE K == {p \in 1 .. n : n > FirstLevel * ((10^p - 1) \div 9)}
<1>1. K \subseteq 1 .. n
  OBVIOUS
<1>2. Level(n) = 1 + Cardinality(K)
  BY DEF Level
<1> HIDE DEF K
<1>3. IsFiniteSet(K)
  BY <1>1, UpTo, FS_Subset
<1>4. Cardinality(K) \in Nat
  BY <1>3, FS_CardinalityType
<1> QED
  BY <1>2, <1>4

LEMMA LowSegment ==
  ASSUME NEW p \in Nat, p > 0, NEW q \in Nat, OnGrid(q), NEW t \in Nat, q + MSS <= t, NEW h
  PROVE  Segment(p, q, MSS) \in Sendable(t, h, t)
<1> DEFINE m == Segment(p, q, MSS)
<1>1. MSS \in Nat \ {0} /\ p # 0
  BY MSSAssumption
<1>2. m = [flags |-> "", prio |-> p, seq |-> q, len |-> MSS]
  BY <1>1 DEF Segment
<1> HIDE DEF m
<1>3. m \in Segs
  BY <1>1, <1>2 DEF Segs
<1>4. m.prio = p /\ m.seq = q /\ m.len = MSS
  BY <1>2
<1>5. Goes(m, t, h, t)
  BY <1>1, <1>4 DEF Goes
<1>6. m \in Sendable(t, h, t)
  BY <1>3, <1>5 DEF Sendable
<1> QED
  BY <1>6 DEF m

\* What the low-priority loop may change.
Looped == {"p2_block_max", "p2_block_bytes_sent", "last_block_seq", "out"}

\* What goes out at low priority is in the buffer, from m_nextTxSequence on,
\* and below the end of the buffer, which becomes p2_block_max.
LEMMA StartRLPLoopIs ==
  ASSUME NEW s, Shape(s), Open(s), Timed(s)
  PROVE  LET r == StartRLPLoop(s)
         IN Shape(r) /\ Open(r) /\ Timed(r) /\ Advanced(s, r) /\ Keeps(s, r, Looped)
<1> DEFINE n       == Outstanding(s) \div MSS
           seq(k)  == s.tail - s.p2_block_bytes_sent - k * MSS
           goes(k) == seq(k) + MSS > s.nextTx /\ seq(k) >= s.last_block_seq
           D       == {k \in 1 .. n : \A j \in 1 .. k : goes(j)}
           m       == Cardinality(D)
           low     == [k \in 1 .. m |-> Segment(Level((s.tail - seq(k)) \div MSS), seq(k), MSS)]
           r       == StartRLPLoop(s)
           b       == IF m < n THEN 0 ELSE s.p2_block_bytes_sent + n * MSS
           S       == Sendable(s.tail, s.highTx, s.tail)
<1>0. /\ s.head \in Nat /\ s.tail \in Nat /\ s.head <= s.tail /\ s.nextTx \in Nat /\ s.nextTx > 0 /\ OnGrid(s.nextTx)
      /\ s.nextTx <= s.tail /\ s.highTx \in Nat /\ s.p2_block_max \in Nat /\ s.p2_block_max <= s.tail
      /\ s.highTx <= s.tail /\ OnGrid(s.tail) /\ DOMAIN s = SenderFields
      /\ s.p2_block_bytes_sent \in Int /\ Multiple(s.p2_block_bytes_sent) /\ s.p2_block_bytes_sent >= 0
      /\ s.state = "ESTABLISHED" /\ MSS \in Nat \ {0}
  BY ShapeTypes, GridNat DEF Shape, Open, Multiple
<1>1. n \in Nat
  BY <1>0 DEF Outstanding
<1>2. \/ r = s
      \/ r = [s EXCEPT !.p2_block_max = s.tail, !.p2_block_bytes_sent = b,
                       !.last_block_seq = IF m < n THEN s.tail ELSE @, !.out = s.out \o low]
  <2>1. CASE ~s.rc3_p2 \/ n = 0
    BY <2>1 DEF StartRLPLoop
  <2>2. CASE ~(~s.rc3_p2 \/ n = 0)
    BY <1>0, <2>2 DEF StartRLPLoop, SenderFields
  <2> QED
    BY <2>1, <2>2
<1> HIDE DEF n, r
<1>3. m \in Nat /\ m <= n /\ \A k \in 1 .. m : goes(k)
  <2>1. D \in SUBSET (1 .. n) /\ \A k \in D : 1 .. k \subseteq D
    <3>1. ASSUME NEW k \in D, NEW i \in 1 .. k PROVE i \in D
      <4>1. k \in 1 .. n /\ \A j \in 1 .. k : goes(j)
        OBVIOUS
      <4>2. i \in 1 .. n /\ \A j \in 1 .. i : j \in 1 .. k
        BY <1>1, <4>1
      <4> HIDE DEF goes
      <4> QED
        BY <4>1, <4>2
    <3> QED
      BY <3>1
  <2>2. m \in 0 .. n /\ 1 .. m \subseteq D
    <3> HIDE DEF D
    <3> QED
      BY <1>1, <2>1, Downward
  <2>3. \A k \in D : goes(k)
    <3> HIDE DEF goes
    <3>1. ASSUME NEW k \in D PROVE k \in 1 .. k
      BY <1>1
    <3> QED
      BY <3>1
  <2> HIDE DEF D, goes
  <2> QED
    BY <1>1, <2>2, <2>3
<1> HIDE DEF m
<1>4. ASSUME NEW k \in 1 .. m
      PROVE  seq(k) \in Nat /\ OnGrid(seq(k)) /\ seq(k) + MSS <= s.tail /\ low[k] \in S
  <2> DEFINE q == seq(k)
  <2>1. k \in Nat /\ k * MSS \in Nat /\ k * MSS >= MSS /\ q \in Int /\ q + MSS <= s.tail
    BY <1>0, <1>3
  <2>2. Multiple(k * MSS) /\ Multiple(s.p2_block_bytes_sent + k * MSS)
    BY <1>0, <2>1, Multiples
  <2>3. s.tail - q = s.p2_block_bytes_sent + k * MSS
    BY <1>0, <2>1
  <2>4. Multiple(s.tail - q)
    BY <2>2, <2>3
  <2>5. q + MSS > s.nextTx
    BY <1>3
  <2>6. q >= s.nextTx
    <3>1. Multiple(s.tail - s.nextTx)
      BY <1>0, GridDiff
    <3>2. Multiple((s.tail - q) - (s.tail - s.nextTx))
      BY <2>4, <3>1, Multiples
    <3>3. (s.tail - q) - (s.tail - s.nextTx) = s.nextTx - q
      BY <1>0, <2>1
    <3>4. s.nextTx - q > 0 => s.nextTx - q >= MSS
      BY <3>2, <3>3, Multiples
    <3> HIDE DEF q
    <3> QED
      BY <1>0, <2>1, <2>5, <3>4
  <2>7. q \in Nat /\ q > 0 /\ OnGrid(q)
    <3> HIDE DEF q
    <3>1. q > 0
      BY <1>0, <2>1, <2>6
    <3>2. OnGrid(q)
      BY <1>0, <2>1, <2>4, <3>1, GridShift
    <3> QED
      BY <2>1, <3>1, <3>2
  <2> DEFINE p == Level((s.tail - q) \div MSS)
  <2>8. p \in Nat /\ p > 0
    <3>1. (s.tail - q) \div MSS \in Nat
      <4> HIDE DEF q
      <4>1. s.tail - q \in Nat
        BY <1>0, <2>1, <2>7
      <4> QED
        BY <1>0, <4>1
    <3> QED
      BY <3>1, LevelType
  <2>9. low[k] = Segment(p, q, MSS)
    OBVIOUS
  <2> HIDE DEF p, q, low
  <2>10. Segment(p, q, MSS) \in Sendable(s.tail, s.highTx, s.tail)
    BY <1>0, <2>1, <2>7, <2>8, LowSegment
  <2>12. low[k] \in S
    BY <2>9, <2>10
  <2> QED
    BY <2>1, <2>7, <2>12 DEF q
<1>5. low \in Seq(S)
  <2>1. DOMAIN low = 1 .. m /\ \A k \in 1 .. m : low[k] \in S
    BY <1>4
  <2>2. low = [k \in 1 .. m |-> low[k]]
    OBVIOUS
  <2> HIDE DEF low, S
  <2> QED
    BY <1>3, <2>1, <2>2
<1>6. CASE r = s
  <2>1. Advanced(s, s) /\ Keeps(s, s, Looped)
    BY <1>0 DEF Advanced, Keeps
  <2> QED
    BY <1>6, <2>1 DEF r
<1>7. CASE r = [s EXCEPT !.p2_block_max = s.tail, !.p2_block_bytes_sent = b,
                         !.last_block_seq = IF m < n THEN s.tail ELSE @, !.out = s.out \o low]
  <2>1. /\ Keeps(s, r, Looped) /\ r.p2_block_max = s.tail /\ r.p2_block_bytes_sent = b
        /\ r.out = s.out \o low
    <3> HIDE DEF b, low
    <3> QED
      BY <1>0, <1>7 DEF Keeps, SenderFields, Looped
  <2>2. Multiple(b) /\ b >= 0
    <3>1. n * MSS \in Nat /\ Multiple(n * MSS)
      BY <1>0, <1>1, Multiples
    <3>2. Multiple(s.p2_block_bytes_sent + n * MSS) /\ Multiple(0)
      BY <1>0, <3>1, Multiples
    <3> QED
      BY <1>0, <3>1, <3>2
  <2>3. s.out \in Seq(S)
    <3> DEFINE t == s.tail
               h == s.highTx
               b1 == s.p2_block_max
               b2 == s.tail
               o == s.out
    <3>1. o \in Seq(Sendable(t, h, b1)) /\ t \in Nat /\ h \in Nat /\ b1 \in Nat /\ b2 \in Nat
      BY <1>0 DEF Shape
    <3>2. t <= t /\ h <= h /\ b1 <= b2
      BY <1>0
    <3> HIDE DEF t, h, b1, b2, o
    <3>3. o \in Seq(Sendable(t, h, b2))
      BY <3>1, <3>2, SendableGrows
    <3> QED
      BY <3>3 DEF t, h, b2, o
  <2> HIDE DEF b, low, S
  <2>4. r.out \in Seq(S)
    BY <1>5, <2>1, <2>3
  <2>5. /\ r.head = s.head /\ r.tail = s.tail /\ r.state = s.state /\ r.scoreboard = s.scoreboard
        /\ r.nextTx = s.nextTx /\ r.highTx = s.highTx /\ r.inFastRec = s.inFastRec /\ r.recover = s.recover
        /\ r.retx = s.retx /\ DOMAIN r = SenderFields
    BY <2>1 DEF Keeps, SenderFields, Looped
  <2>6. Shape(r)
    BY <1>0, <2>1, <2>2, <2>4, <2>5 DEF Shape, S
  <2>7. Open(r) /\ Timed(r)
    BY <2>5 DEF Open, Timed
  <2>8. Advanced(s, r)
    BY <1>0, <2>1, <2>5 DEF Advanced
  <2> QED
    BY <2>1, <2>6, <2>7, <2>8 DEF r
<1> QED
  BY <1>2, <1>6, <1>7
-----------------------------------------------------------------------------
\* Before the handshake nothing is sent, marked or timed.
Opening(s) ==
  /\ s.state = "SYN_SENT"
  /\ s.head = 1 /\ s.nextTx = 0 /\ s.highTx = 0 /\ ~s.inFastRec /\ s.retx = Off
  /\ Marks(s.scoreboard) = {}

LEMMA PendingTimed ==
  ASSUME NEW s, Shape(s), Open(s), Timed(s)
  PROVE  LET r == SendPendingData(s)
         IN /\ Shape(r) /\ Open(r) /\ Timed(r) /\ Proceeds(s, r) /\ Keeps(s, r, Sent) /\ s.nextTx <= r.nextTx
            /\ Charted(s) /\ s.head \notin Marks(s.scoreboard) /\ ~s.inFastRec /\ Window(r) => Used(r)
BY SendPendingDataIs, PendingUsed DEF Timed

\* Before the low-priority loop runs: SendPendingData has taken s to d, and the
\* loop takes d to r, if it is entered.
Writing == Sent \cup {"head", "tail", "state", "scoreboard"}

Precedes(s, d, r) ==
  /\ Shape(d) /\ Open(d) /\ Proceeds(s, d) /\ Keeps(s, d, Writing)
  /\ r \in {d, StartRLPLoop(d)} /\ Keeps(d, r, Looped)

\* Send takes what the application writes into the buffer and sends what it may.
LEMMA SendIs ==
  ASSUME NEW s, Shape(s), Timed(s), Opening(s) \/ Open(s), NEW size \in Nat, Multiple(size)
  PROVE  LET r == Send(s, size)
         IN /\ Shape(r) /\ Timed(r) /\ Advanced(s, r) /\ (Opening(s) => Opening(r)) /\ (Open(s) => Open(r))
            /\ r.head = s.head /\ r.tail = s.tail + size /\ r.scoreboard = s.scoreboard
            /\ r.inFastRec = s.inFastRec
            /\ Open(s) /\ Charted(r) /\ Used(s) /\ Window(r) => Used(r)
            /\ Open(s) => \E d : Precedes(s, d, r)
            /\ Opening(s) => Keeps(s, r, {"tail"})
<1> DEFINE stored == [s EXCEPT !.tail = @ + size]
           sent   == SendPendingData(stored)
           r      == Send(s, size)
<1>1. /\ s.head \in Nat /\ s.tail \in Nat /\ s.highTx \in Nat /\ s.p2_block_max \in Nat /\ s.tail > 0
      /\ s.highTx <= s.tail /\ s.head <= s.tail /\ s.p2_block_max <= s.tail /\ DOMAIN s = SenderFields
      /\ OnGrid(s.tail) /\ MSS \in Nat
  BY ShapeTypes, GridNat DEF Shape
<1>2. Keeps(s, stored, {"tail"}) /\ stored.tail = s.tail + size
  BY <1>1 DEF Keeps, SenderFields
<1>3. /\ s.state = "SYN_SENT" => r = stored
      /\ s.state = "ESTABLISHED" => r \in {sent, StartRLPLoop(sent)}
  BY DEF Send
<1> HIDE DEF stored, r
<1>4. /\ stored.head = s.head /\ stored.scoreboard = s.scoreboard /\ stored.state = s.state
      /\ stored.nextTx = s.nextTx /\ stored.highTx = s.highTx /\ stored.inFastRec = s.inFastRec
      /\ stored.recover = s.recover /\ stored.retx = s.retx /\ stored.p2_block_max = s.p2_block_max
      /\ stored.p2_block_bytes_sent = s.p2_block_bytes_sent /\ stored.out = s.out
      /\ DOMAIN stored = SenderFields
  BY <1>2 DEF Keeps, SenderFields
<1>5. OnGrid(s.tail + size)
  <2>1. (s.tail + size) - s.tail = size /\ s.tail + size \in Int /\ s.tail + size > 0
    BY <1>1
  <2> QED
    BY <1>1, <2>1, GridShift
<1>6. s.out \in Seq(Sendable(s.tail + size, s.highTx, s.p2_block_max))
  <2> DEFINE t1 == s.tail
             t2 == s.tail + size
             h == s.highTx
             b == s.p2_block_max
             o == s.out
  <2>1. o \in Seq(Sendable(t1, h, b)) /\ t1 \in Nat /\ t2 \in Nat /\ h \in Nat /\ b \in Nat
    BY <1>1 DEF Shape
  <2>2. t1 <= t2 /\ h <= h /\ b <= b
    BY <1>1
  <2> HIDE DEF t1, t2, h, b, o
  <2>3. o \in Seq(Sendable(t2, h, b))
    BY <2>1, <2>2, SendableGrows
  <2> QED
    BY <2>3 DEF t2, h, b, o
<1>7. Shape(stored) /\ Proceeds(s, stored)
  <2>1. /\ BoardOK(stored.scoreboard) /\ \A t \in Marks(stored.scoreboard) : t + MSS <= stored.tail
    <3>1. \A t \in Marks(s.scoreboard) : OnGrid(t) /\ t + MSS <= s.tail
      BY DEF Shape, BoardOK, Board
    <3>2. ASSUME NEW t \in Marks(s.scoreboard) PROVE t + MSS <= s.tail + size
      <4>1. t \in Nat /\ t + MSS <= s.tail
        BY <3>1, GridNat
      <4> QED
        BY <1>1, <4>1
    <3> QED
      BY <1>2, <1>4, <3>2 DEF Shape
  <2>2. /\ OnGrid(stored.head) /\ OnGrid(stored.tail) /\ stored.head <= stored.tail
        /\ stored.highTx \in 0 .. stored.tail /\ stored.p2_block_max \in 0 .. stored.tail
    BY <1>1, <1>2, <1>4, <1>5 DEF Shape
  <2>3. stored.out \in Seq(Sendable(stored.tail, stored.highTx, stored.p2_block_max))
    BY <1>2, <1>4, <1>6
  <2>4. Shape(stored)
    BY <1>1, <1>4, <2>1, <2>2, <2>3 DEF Shape
  <2>5. Proceeds(s, stored)
    BY <1>1, <1>2, <1>4 DEF Proceeds
  <2> QED
    BY <2>4, <2>5
<1>8. Timed(stored)
  BY <1>4 DEF Timed
<1>9. CASE Opening(s)
  <2>1. r = stored
    BY <1>3, <1>9 DEF Opening
  <2>2. Opening(stored) /\ ~Open(s)
    BY <1>4, <1>9 DEF Opening, Open
  <2> QED
    BY <1>2, <1>4, <1>7, <1>8, <2>1, <2>2, ProceedsIs DEF r
<1>10. CASE Open(s)
  <2>1. Open(stored)
    <3>1. s.nextTx \in Nat /\ s.nextTx <= s.tail + size
      BY <1>1, <1>10, GridNat DEF Open
    <3> QED
      BY <1>2, <1>4, <1>10, <3>1 DEF Open
  <2>2. /\ Shape(sent) /\ Open(sent) /\ Timed(sent) /\ Proceeds(stored, sent) /\ Keeps(stored, sent, Sent)
        /\ s.nextTx <= sent.nextTx
        /\ Charted(stored) /\ stored.head \notin Marks(stored.scoreboard) /\ ~stored.inFastRec /\ Window(sent)
             => Used(sent)
    BY <1>4, <1>7, <1>8, <2>1, PendingTimed
  <2> HIDE DEF sent
  <2>3. LET l == StartRLPLoop(sent)
        IN Shape(l) /\ Open(l) /\ Timed(l) /\ Advanced(sent, l) /\ Keeps(sent, l, Looped)
    BY <2>2, StartRLPLoopIs
  <2>4. Advanced(sent, sent) /\ Keeps(sent, sent, Looped)
    <3>1. sent.tail \in Nat /\ sent.highTx \in Nat /\ sent.p2_block_max \in Nat /\ DOMAIN sent = SenderFields
      BY <2>2, ShapeTypes DEF Shape
    <3> QED
      BY <3>1 DEF Advanced, Keeps
  <2>5. r \in {sent, StartRLPLoop(sent)}
    BY <1>3, <1>10 DEF Open
  <2>6. Shape(r) /\ Open(r) /\ Timed(r) /\ Advanced(sent, r) /\ Keeps(sent, r, Looped)
    BY <2>2, <2>3, <2>4, <2>5
  <2>11. Proceeds(s, sent)
    BY <1>7, <2>2, ProceedsTwice
  <2>7. Advanced(s, r)
    BY <2>2, <2>6, <2>11, ProceedsIs, AdvancedTwice
  <2>8. r.head = s.head /\ r.tail = s.tail + size /\ r.scoreboard = s.scoreboard /\ r.inFastRec = s.inFastRec
    BY <1>2, <1>4, <2>2, <2>6 DEF Keeps, SenderFields, Sent, Looped
  <2>9. /\ r.head = sent.head /\ r.tail = sent.tail /\ r.highTx = sent.highTx /\ r.cWnd = sent.cWnd
        /\ r.nextTx = sent.nextTx /\ r.inFastRec = sent.inFastRec /\ r.scoreboard = stored.scoreboard
        /\ sent.head = stored.head /\ sent.tail = stored.tail
    BY <2>2, <2>6 DEF Keeps, SenderFields, Sent, Looped
  <2>10. ASSUME Charted(r), Used(s), Window(r) PROVE Used(r)
    <3>1. CASE s.head < s.highTx /\ s.head < s.nextTx
      <4>1. s.nextTx \in Nat /\ sent.nextTx \in Nat
        BY <1>10, <2>2, GridNat DEF Open
      <4> QED
        BY <1>1, <1>4, <2>2, <2>9, <3>1, <4>1, ShapeTypes DEF Used, Proceeds
    <3>2. CASE s.head = s.tail
      <4>1. s.head \notin Marks(s.scoreboard)
        <5>1. \A t \in Marks(s.scoreboard) : t \in Nat /\ t + MSS <= s.tail
          BY GridNat DEF Shape, BoardOK, Board
        <5> QED
          BY <1>1, <3>2, <5>1, MSSAssumption
      <4>2. Charted(stored)
        BY <2>9, <2>10 DEF Charted
      <4>3. Window(sent)
        BY <2>9, <2>10 DEF Window
      <4>5. ~s.inFastRec
        <5>1. s.inFastRec => s.head < s.recover /\ s.recover <= s.highTx
          BY DEF Shape
        <5>2. s.recover \in Nat
          BY DEF Shape
        <5> QED
          BY <1>1, <3>2, <5>1, <5>2
      <4>4. Used(sent)
        BY <1>4, <2>2, <4>1, <4>2, <4>3, <4>5
      <4> QED
        BY <2>9, <4>4 DEF Used
    <3> QED
      BY <2>10, <3>1, <3>2 DEF Used
  <2>12. Precedes(s, sent, r)
    <3>1. Keeps(s, sent, Writing)
      BY <1>2, <2>2 DEF Keeps, SenderFields, Sent, Writing
    <3> QED
      BY <2>2, <2>5, <2>6, <2>11, <3>1 DEF Precedes
  <2> QED
    BY <1>10, <2>6, <2>7, <2>8, <2>10, <2>12 DEF r, Opening, Open
<1> QED
  BY <1>9, <1>10

\* The handshake opens the sender: one node for every segment, none marked.
LEMMA ProcessSynSentIs ==
  ASSUME NEW s, Shape(s), Opening(s)
  PROVE  LET r == ProcessSynSent(s)
         IN /\ Shape(r) /\ Open(r) /\ Timed(r) /\ Advanced(s, r)
            /\ r.head = s.head /\ r.tail = s.tail /\ Marks(r.scoreboard) = {} /\ ~r.inFastRec
            /\ r.scoreboard.known = s.scoreboard.known \cup Strides(1, FlowSize - 1)
            /\ Charted(r) /\ Window(r) => Used(r)
            /\ \E d : Precedes(s, d, r)
<1> DEFINE ack == Segment(0, 1, 0)
           open == [s EXCEPT !.state = "ESTABLISHED", !.scoreboard = CreateScoreBoard(@, FlowSize),
                             !.nextTx = @ + 1, !.highTx = s.nextTx + 1, !.head = s.nextTx + 1,
                             !.out = @ \o <<Segment(0, s.nextTx + 1, 0)>>]
           r == ProcessSynSent(s)
<1>1. /\ s.head = 1 /\ s.nextTx = 0 /\ s.highTx = 0 /\ s.tail \in Nat /\ s.tail > 0 /\ s.p2_block_max \in Nat
      /\ DOMAIN s = SenderFields /\ MSS \in Nat /\ s.nextTx + 1 = 1
  BY ShapeTypes, GridNat DEF Shape, Opening
<1>2. r = StartRLPLoop(SendPendingData(open))
  BY DEF ProcessSynSent
<1>3. /\ Keeps(s, open, {"state", "scoreboard", "nextTx", "highTx", "head", "out"})
      /\ open.state = "ESTABLISHED" /\ open.scoreboard = CreateScoreBoard(s.scoreboard, FlowSize)
      /\ open.nextTx = 1 /\ open.highTx = 1 /\ open.head = 1 /\ open.out = s.out \o <<ack>>
  <2> HIDE DEF ack
  <2>1. Segment(0, s.nextTx + 1, 0) = ack
    BY <1>1 DEF ack
  <2> QED
    BY <1>1, <2>1 DEF Keeps, SenderFields
<1> HIDE DEF open, r
<1>4. /\ open.tail = s.tail /\ open.p2_block_max = s.p2_block_max /\ open.recover = s.recover
      /\ open.p2_block_bytes_sent = s.p2_block_bytes_sent /\ open.inFastRec = s.inFastRec
      /\ DOMAIN open = SenderFields
  BY <1>3 DEF Keeps, SenderFields
<1>5. /\ BoardOK(open.scoreboard) /\ Marks(open.scoreboard) = {}
      /\ open.scoreboard.known = s.scoreboard.known \cup Strides(1, FlowSize - 1)
  <2>1. BoardOK(s.scoreboard) /\ Marks(s.scoreboard) = {}
    BY DEF Shape, Opening
  <2>2. open.scoreboard = [known |-> s.scoreboard.known \cup Strides(1, FlowSize - 1), acked |-> {}, sacked |-> {}]
    BY <1>3, <2>1 DEF CreateScoreBoard, Marks
  <2>3. Strides(1, FlowSize - 1) \subseteq Nat \ {0}
    <3>1. FlowSize - 1 \in Int
      BY SenderAssumption
    <3>2. \A t \in 1 .. FlowSize - 1 : t \in Nat \ {0}
      BY <3>1
    <3> QED
      BY <3>2 DEF Strides
  <2> QED
    BY <2>1, <2>2, <2>3 DEF BoardOK, Board, Marks
<1>6. open.out \in Seq(Sendable(open.tail, open.highTx, open.p2_block_max))
  <2> DEFINE t == s.tail
             h1 == 0
             h2 == 1
             b == s.p2_block_max
             o == s.out
  <2>1. o \in Seq(Sendable(t, h1, b)) /\ t \in Nat /\ h1 \in Nat /\ h2 \in Nat /\ b \in Nat
    BY <1>1 DEF Shape
  <2>2. t <= t /\ h1 <= h2 /\ b <= b
    BY <1>1
  <2>3. ack \in Sendable(t, h2, b)
    <3>1. ack = [flags |-> "ACK", prio |-> 0, seq |-> 1, len |-> 0]
      BY DEF Segment
    <3> HIDE DEF ack
    <3>2. ack \in Segs
      BY <3>1 DEF Segs
    <3>3. ack.prio = 0 /\ ack.seq = 1 /\ ack.len = 0
      BY <3>1
    <3>4. Goes(ack, t, h2, b)
      BY <1>1, <3>3, GridFacts DEF Goes
    <3> QED
      BY <3>2, <3>4 DEF Sendable
  <2> HIDE DEF t, h1, h2, b, o, ack
  <2>4. o \in Seq(Sendable(t, h2, b))
    BY <2>1, <2>2, SendableGrows
  <2>5. o \o <<ack>> \in Seq(Sendable(t, h2, b))
    BY <2>3, <2>4
  <2> QED
    BY <1>3, <1>4, <2>5 DEF t, h2, b, o
<1>7. Shape(open)
  BY <1>1, <1>3, <1>4, <1>5, <1>6, GridFacts DEF Shape, Opening, Edge
<1>8. Open(open) /\ Timed(open)
  BY <1>1, <1>3, <1>4, GridFacts DEF Open, Timed
<1>9. Proceeds(s, open)
  <2>1. Urgent(s.out) => Urgent(open.out)
    <3>1. ack.prio = 0 /\ s.out \in Seq(Sendable(s.tail, s.highTx, s.p2_block_max))
      BY DEF Shape, Segment
    <3> HIDE DEF ack
    <3>2. \A i \in DOMAIN open.out : open.out[i] = ack \/ (i \in DOMAIN s.out /\ open.out[i] = s.out[i])
      BY <1>3, <3>1
    <3> QED
      BY <3>1, <3>2 DEF Urgent
  <2>2. open.retx = s.retx
    BY <1>3 DEF Keeps, SenderFields
  <2> QED
    BY <1>1, <1>3, <1>4, <2>1, <2>2 DEF Proceeds
<1> DEFINE sent == SendPendingData(open)
<1>10. /\ Shape(sent) /\ Open(sent) /\ Timed(sent) /\ Proceeds(open, sent) /\ Keeps(open, sent, Sent)
       /\ Charted(open) /\ open.head \notin Marks(open.scoreboard) /\ ~open.inFastRec /\ Window(sent)
            => Used(sent)
  BY <1>7, <1>8, PendingTimed
<1> HIDE DEF sent
<1>11. Shape(r) /\ Open(r) /\ Timed(r) /\ Advanced(sent, r) /\ Keeps(sent, r, Looped)
  BY <1>2, <1>10, StartRLPLoopIs DEF sent
<1>12. r.head = s.head /\ r.tail = s.tail /\ r.scoreboard = open.scoreboard /\ r.inFastRec = s.inFastRec
  BY <1>1, <1>3, <1>4, <1>10, <1>11 DEF Keeps, SenderFields, Sent, Looped
<1>16. Proceeds(s, sent)
  BY <1>7, <1>9, <1>10, ProceedsTwice
<1>13. Advanced(s, r)
  BY <1>10, <1>11, <1>16, ProceedsIs, AdvancedTwice
<1>14. /\ r.head = sent.head /\ r.tail = sent.tail /\ r.highTx = sent.highTx /\ r.cWnd = sent.cWnd
       /\ r.nextTx = sent.nextTx /\ ~open.inFastRec /\ r.inFastRec = sent.inFastRec /\ r.tail = open.tail
  BY <1>4, <1>10, <1>11 DEF Keeps, SenderFields, Sent, Looped, Opening
<1>15. Charted(r) /\ Window(r) => Used(r)
  BY <1>5, <1>10, <1>12, <1>14 DEF Charted, Window, Used
<1>17. Precedes(s, sent, r)
  <2>1. Keeps(s, sent, Writing)
    BY <1>3, <1>10 DEF Keeps, SenderFields, Sent, Writing
  <2>2. r = StartRLPLoop(sent)
    BY <1>2 DEF sent
  <2> QED
    BY <1>10, <1>11, <1>16, <2>1, <2>2 DEF Precedes
<1> QED
  BY <1>5, <1>11, <1>12, <1>13, <1>15, <1>17 DEF r, Opening

-----------------------------------------------------------------------------
\* The receive buffer.

\* A buffer of whole segments, with the next byte missing.
Piece(t) == <<t, t + MSS>>

BufferOK(b) ==
  /\ DOMAIN b = {"next", "frags", "fin"} /\ b.fin = 0
  /\ OnGrid(b.next) /\ IsFiniteSet(b.frags)
  /\ \A f \in b.frags : OnGrid(f[1]) /\ f = Piece(f[1])
  /\ b.next \notin Receiver!Holds(b.frags)

LEMMA ReceiverExtremes ==
  /\ \A K \in SUBSET Nat : K # {} => Receiver!Min(K) \in K /\ \A j \in K : Receiver!Min(K) <= j
  /\ \A K \in SUBSET Int : IsFiniteSet(K) /\ K # {} => Receiver!Max(K) \in K /\ \A j \in K : j <= Receiver!Max(K)
<1>1. \A K : Receiver!Min(K) = Min(K) /\ Receiver!Max(K) = Max(K)
  BY DEF Receiver!Min, Min, Receiver!Max, Max
<1>2. ASSUME NEW K \in SUBSET Nat, K # {} PROVE Receiver!Min(K) \in K /\ \A j \in K : Receiver!Min(K) <= j
  BY <1>1, <1>2, MinOfNat
<1>3. ASSUME NEW K \in SUBSET Int, IsFiniteSet(K), K # {} PROVE Receiver!Max(K) \in K /\ \A j \in K : j <= Receiver!Max(K)
  BY <1>1, <1>3, MaxIs
<1> QED
  BY <1>2, <1>3

\* A byte is held when it is in one of the fragments.
LEMMA HoldsIs ==
  ASSUME NEW F, \A f \in F : OnGrid(f[1]) /\ f = Piece(f[1]), NEW n
  PROVE  /\ n \in Receiver!Holds(F) <=> \E f \in F : n \in f[1] .. (f[1] + MSS) - 1
         /\ n \in Receiver!Holds(F) => n \in Nat /\ n > 0
         /\ OnGrid(n) => (n \in Receiver!Holds(F) <=> Piece(n) \in F)
         /\ n \in Receiver!Starts(F) <=> n \in Nat /\ n > 0 /\ OnGrid(n) /\ Piece(n) \in F
<1>0. MSS \in Nat \ {0}
  BY MSSAssumption
<1>1. \A f \in F : f[2] = f[1] + MSS
  <2>1. ASSUME NEW f \in F PROVE f[2] = f[1] + MSS
    <3>1. f = <<f[1], f[1] + MSS>>
      BY DEF Piece
    <3> DEFINE a == f[1]
    <3>2. f = <<a, a + MSS>>
      BY <3>1
    <3> HIDE DEF a
    <3>3. f[2] = a + MSS
      BY <3>2
    <3> QED
      BY <3>3 DEF a
  <2> QED
    BY <2>1
<1>2. n \in Receiver!Holds(F) <=> \E f \in F : n \in f[1] .. f[2] - 1
  BY DEF Receiver!Holds
<1>3. n \in Receiver!Holds(F) <=> \E f \in F : n \in f[1] .. (f[1] + MSS) - 1
  BY <1>1, <1>2
<1>4. ASSUME n \in Receiver!Holds(F) PROVE n \in Nat /\ n > 0
  <2>1. PICK f \in F : n \in f[1] .. (f[1] + MSS) - 1
    BY <1>3, <1>4
  <2>2. f[1] \in Nat /\ f[1] > 0
    BY GridNat
  <2> QED
    BY <1>0, <2>1, <2>2
<1>5. \A t : Piece(t)[1] = t
  BY DEF Piece
<1>6. ASSUME OnGrid(n) PROVE n \in Receiver!Holds(F) <=> Piece(n) \in F
  <2>1. n \in Nat /\ n > 0
    BY <1>6, GridNat
  <2>2. ASSUME Piece(n) \in F PROVE n \in Receiver!Holds(F)
    <3>1. n \in n .. (n + MSS) - 1
      BY <1>0, <2>1
    <3> QED
      BY <1>3, <1>5, <2>2, <3>1
  <2>3. ASSUME n \in Receiver!Holds(F) PROVE Piece(n) \in F
    <3>1. PICK f \in F : n \in f[1] .. (f[1] + MSS) - 1
      BY <1>3, <2>3
    <3>2. OnGrid(f[1]) /\ f[1] \in Nat /\ f[1] <= n /\ n < f[1] + MSS
      BY <1>0, <3>1, GridNat
    <3>3. ~(f[1] < n)
      BY <1>0, <1>6, <2>1, <3>2, GridDiff
    <3>4. f[1] = n
      BY <2>1, <3>2, <3>3
    <3> QED
      BY <3>1, <3>4
  <2> QED
    BY <2>2, <2>3
<1>7. n \in Receiver!Starts(F) <=> \E f \in F : n = f[1]
  BY DEF Receiver!Starts
<1>8. n \in Receiver!Starts(F) <=> n \in Nat /\ n > 0 /\ OnGrid(n) /\ Piece(n) \in F
  BY <1>5, <1>7, GridNat
<1> QED
  BY <1>3, <1>4, <1>6, <1>8

\* A walk in steps of MSS through fragments passes over held bytes only.
LEMMA WalkHeld ==
  ASSUME NEW F, \A f \in F : OnGrid(f[1]) /\ f = Piece(f[1]), NEW a, OnGrid(a), NEW b \in Int,
         Receiver!Steps(a, b) \subseteq Receiver!Starts(F)
  PROVE  a .. b \subseteq Receiver!Holds(F)
<1> SUFFICES ASSUME NEW n \in a .. b PROVE n \in Receiver!Holds(F)
  OBVIOUS
<1>1. a \in Nat /\ a > 0 /\ n \in Int /\ a <= n /\ n <= b /\ MSS \in Nat \ {0}
  BY GridNat, MSSAssumption
<1>2. PICK t \in a .. n : Multiple(t - a) /\ (t - a) % MSS = 0 /\ t \in Int /\ n < t + MSS
  <2>1. a \in Int /\ n \in Int /\ a <= n
    BY <1>1
  <2> QED
    BY <2>1, InSegment
<1>3. t \in Receiver!Steps(a, b)
  BY <1>1, <1>2 DEF Receiver!Steps
<1>4. Piece(t) \in F /\ OnGrid(t)
  BY <1>3, HoldsIs
<1>5. n \in t .. (t + MSS) - 1
  BY <1>1, <1>2
<1>6. Piece(t)[1] = t
  BY DEF Piece
<1> QED
  BY <1>4, <1>5, <1>6, HoldsIs

Seg(t) == t .. (t + MSS) - 1

\* What is stored is a segment not yet held, and then exactly that segment.
LEMMA StoresIs ==
  ASSUME NEW b, BufferOK(b), NEW seq, OnGrid(seq)
  PROVE  /\ Receiver!Stores(b, seq, seq + MSS) => Receiver!Cut(b, seq, seq + MSS) = Piece(seq)
         /\ ~Receiver!Stores(b, seq, seq + MSS) => Seg(seq) \subseteq Receiver!Arrived(b)
<1> DEFINE end == seq + MSS
           h0 == Receiver!Head0(b, seq)
           miss == Receiver!Missing(b.frags, h0, end) \cup {end}
           head == Receiver!Min(miss)
           over == {f \in b.frags : f[1] > head /\ f[1] <= end /\ f[2] >= end}
           tails == Receiver!Starts(over) \cup {end}
           cut == Receiver!Cut(b, seq, end)
<1>1. /\ seq \in Nat /\ seq > 0 /\ b.next \in Nat /\ b.next > 0 /\ MSS \in Nat \ {0} /\ end \in Nat /\ OnGrid(end)
      /\ OnGrid(b.next) /\ \A f \in b.frags : OnGrid(f[1]) /\ f = Piece(f[1])
  BY GridFacts, MSSAssumption DEF BufferOK
<1>2. cut = <<head, Receiver!Min(tails)>>
  BY DEF Receiver!Cut
<1>3. Receiver!Stores(b, seq, end) <=> h0 < end /\ cut[1] < cut[2]
  BY DEF Receiver!Stores
<1>4. h0 = IF seq < b.next THEN b.next ELSE seq
  BY DEF Receiver!Head0
<1>5. CASE seq < b.next
  <2>1. end <= b.next
    BY <1>1, <1>5, GridDiff
  <2>2. ~Receiver!Stores(b, seq, end)
    BY <1>1, <1>3, <1>4, <1>5, <2>1
  <2>3. Seg(seq) \subseteq Receiver!Arrived(b)
    BY <1>1, <2>1 DEF Seg, Receiver!Arrived
  <2> QED
    BY <2>2, <2>3
<1>6. CASE ~(seq < b.next)
  <2> HIDE DEF end, h0, cut
  <2>0. end = seq + MSS
    BY DEF end
  <2>1. h0 = seq
    BY <1>4, <1>6
  <2>2. miss = {n \in seq .. end : n \notin Receiver!Holds(b.frags)} \cup {end}
    BY <2>1 DEF Receiver!Missing
  <2>3. miss \in SUBSET Nat /\ end \in miss /\ \A n \in miss : seq <= n /\ n <= end
    BY <1>1, <2>0, <2>2
  <2>4. head \in miss /\ \A n \in miss : head <= n
    <3> HIDE DEF miss
    <3> QED
      BY <2>3, ReceiverExtremes
  <2> HIDE DEF head
  <2>5. tails = {end}
    <3>1. ASSUME NEW n \in Receiver!Starts(over) PROVE n = end
      <4>1. PICK f \in over : n = f[1]
        BY DEF Receiver!Starts
      <4>2. f \in b.frags /\ f[1] > head /\ f[1] <= end
        OBVIOUS
      <4>3. OnGrid(f[1]) /\ f[1] \in Nat /\ head \in Nat /\ seq <= head
        BY <1>1, <2>3, <2>4, <4>2, GridNat
      <4>4. seq + MSS <= f[1]
        <5>1. seq < f[1]
          BY <1>1, <4>2, <4>3
        <5> QED
          BY <4>3, <5>1, GridDiff
      <4> QED
        BY <1>1, <2>0, <4>1, <4>2, <4>3, <4>4
    <3> QED
      BY <3>1
  <2>6. Receiver!Min(tails) = end
    <3>1. {end} \in SUBSET Nat /\ {end} # {}
      BY <1>1
    <3>2. Receiver!Min({end}) \in {end}
      BY <3>1, ReceiverExtremes
    <3> QED
      BY <2>5, <3>2
  <2>7. cut = <<head, end>>
    BY <1>2, <2>6
  <2>8. CASE Piece(seq) \in b.frags
    <3>1. Seg(seq) \subseteq Receiver!Holds(b.frags)
      <4>1. Piece(seq)[1] = seq
        BY DEF Piece
      <4>2. ASSUME NEW n \in Seg(seq) PROVE n \in Receiver!Holds(b.frags)
        <5>1. n \in seq .. (seq + MSS) - 1
          BY DEF Seg
        <5> QED
          BY <1>1, <2>8, <4>1, <5>1, HoldsIs
      <4> QED
        BY <4>2
    <3>2. head = end
      <4>1. ASSUME NEW n \in miss, n # end PROVE FALSE
        <5>1. n \in seq .. end /\ n \notin Receiver!Holds(b.frags)
          BY <2>2, <4>1
        <5>2. n \in Seg(seq)
          BY <1>1, <2>0, <4>1, <5>1 DEF Seg
        <5> QED
          BY <3>1, <5>1, <5>2
      <4> QED
        BY <2>4, <4>1
    <3>3. ~Receiver!Stores(b, seq, end)
      BY <1>1, <1>3, <2>7, <3>2
    <3> QED
      BY <2>0, <3>1, <3>3 DEF Receiver!Arrived
  <2>9. CASE Piece(seq) \notin b.frags
    <3>1. seq \notin Receiver!Holds(b.frags)
      BY <1>1, <2>9, HoldsIs
    <3>2. seq \in miss
      BY <1>1, <2>0, <2>2, <3>1
    <3>3. head = seq
      BY <1>1, <2>3, <2>4, <3>2
    <3>4. cut = Piece(seq)
      BY <2>0, <2>7, <3>3 DEF Piece
    <3>5. Receiver!Stores(b, seq, end)
      BY <1>1, <1>3, <2>0, <2>1, <2>7, <3>3
    <3> QED
      BY <2>0, <3>4, <3>5 DEF cut
  <2> QED
    BY <2>8, <2>9
<1> QED
  BY <1>5, <1>6

\* Advanced stops at the first byte that is missing.
LEMMA AdvancedIs ==
  ASSUME NEW b, DOMAIN b = {"next", "frags", "fin"}, b.fin = 0, OnGrid(b.next), IsFiniteSet(b.frags),
         \A f \in b.frags : OnGrid(f[1]) /\ f = Piece(f[1])
  PROVE  LET r == Receiver!Advanced(b)
         IN /\ BufferOK(r) /\ r.frags = b.frags /\ b.next <= r.next
            /\ b.next .. r.next - 1 \subseteq Receiver!Holds(b.frags)
            /\ r.next # b.next => \E f \in b.frags : f[2] = r.next
<1> DEFINE ends == {f[2] : f \in b.frags} \cup {b.next}
           top == Receiver!Max(ends)
           miss == Receiver!Missing(b.frags, b.next, top)
           next == Receiver!Min(miss)
           moved == [b EXCEPT !.next = next]
           r == Receiver!Advanced(b)
<1>0. /\ b.next \in Nat /\ b.next > 0 /\ MSS \in Nat \ {0}
      /\ \A f \in b.frags : f[1] \in Nat /\ f[1] > 0 /\ f[2] = f[1] + MSS /\ f[2] \in Nat
  <2>1. ASSUME NEW f \in b.frags PROVE f[1] \in Nat /\ f[1] > 0 /\ f[2] = f[1] + MSS /\ f[2] \in Nat
    <3> DEFINE a == f[1]
    <3>1. a \in Nat /\ a > 0 /\ f = <<a, a + MSS>> /\ MSS \in Nat
      BY GridNat, MSSAssumption DEF Piece
    <3> HIDE DEF a
    <3>2. f[2] = a + MSS /\ a + MSS \in Nat
      BY <3>1
    <3> QED
      BY <3>1, <3>2 DEF a
  <2> QED
    BY <2>1, GridNat, MSSAssumption
<1>1. r = Receiver!FinCounted(moved)
  BY DEF Receiver!Advanced
<1>2. r = moved
  BY <1>1 DEF Receiver!FinCounted
<1>3. top \in ends /\ \A n \in ends : n <= top
  <2>1. IsFiniteSet({f[2] : f \in b.frags})
    <3> DEFINE T == {f[2] : f \in b.frags}
               g == [f \in b.frags |-> f[2]]
    <3>1. g \in Surjection(b.frags, T)
      BY DEF Surjection
    <3> HIDE DEF T, g
    <3>2. IsFiniteSet(T)
      BY <3>1, FS_Surjection
    <3> QED
      BY <3>2 DEF T
  <2>2. IsFiniteSet(ends)
    BY <2>1, FS_AddElement
  <2>3. \A n \in ends : n \in Int
    BY <1>0
  <2>4. ends \in SUBSET Int /\ ends # {}
    BY <2>3
  <2> HIDE DEF ends
  <2> QED
    BY <2>2, <2>4, ReceiverExtremes
<1>4. top \in Nat /\ b.next <= top /\ top \notin Receiver!Holds(b.frags)
  <2>1. top \in Nat /\ b.next <= top
    BY <1>0, <1>3
  <2>2. ASSUME NEW f \in b.frags, top \in f[1] .. (f[1] + MSS) - 1 PROVE FALSE
    <3>1. f[2] <= top /\ f[2] = f[1] + MSS /\ f[1] \in Nat
      BY <1>0, <1>3
    <3> HIDE DEF top
    <3> QED
      BY <1>0, <2>1, <2>2, <3>1
  <2>3. top \notin Receiver!Holds(b.frags)
    BY <2>2, HoldsIs
  <2> QED
    BY <2>1, <2>3
<1> HIDE DEF top
<1>5. next \in miss /\ \A n \in miss : next <= n
  <2>1. top \in miss /\ \A n \in miss : n \in Nat
    BY <1>0, <1>4 DEF Receiver!Missing
  <2>2. miss \in SUBSET Nat /\ miss # {}
    BY <2>1
  <2> HIDE DEF miss
  <2> QED
    BY <2>2, ReceiverExtremes
<1>6. next \in Nat /\ b.next <= next /\ next <= top /\ next \notin Receiver!Holds(b.frags)
  BY <1>0, <1>4, <1>5 DEF Receiver!Missing
<1>7. b.next .. next - 1 \subseteq Receiver!Holds(b.frags)
  <2>1. ASSUME NEW n \in b.next .. next - 1, n \notin Receiver!Holds(b.frags) PROVE FALSE
    <3>1. n \in b.next .. top /\ n < next
      BY <1>0, <1>4, <1>6
    <3>2. n \in miss
      BY <2>1, <3>1 DEF Receiver!Missing
    <3> QED
      BY <1>0, <1>5, <1>6, <2>1, <3>1, <3>2
  <2> QED
    BY <2>1
<1> HIDE DEF next, miss
<1>8. ASSUME next # b.next PROVE OnGrid(next) /\ \E f \in b.frags : f[2] = next
  <2>1. next - 1 \in b.next .. next - 1
    BY <1>0, <1>6, <1>8
  <2>2. PICK f \in b.frags : next - 1 \in f[1] .. (f[1] + MSS) - 1
    BY <1>7, <2>1, HoldsIs
  <2>3. f[1] \in Nat /\ f[2] = f[1] + MSS /\ OnGrid(f[1]) /\ OnGrid(f[1] + MSS)
    BY <1>0, GridFacts
  <2>4. ~(next \in f[1] .. (f[1] + MSS) - 1)
    BY <1>6, HoldsIs
  <2>5. next = f[1] + MSS
    BY <1>0, <1>6, <2>2, <2>3, <2>4
  <2> QED
    BY <2>3, <2>5
<1>9. /\ DOMAIN r = {"next", "frags", "fin"} /\ r.fin = 0 /\ r.frags = b.frags /\ r.next = next
  BY <1>2
<1>10. BufferOK(r)
  BY <1>6, <1>8, <1>9 DEF BufferOK
<1> QED
  BY <1>6, <1>7, <1>8, <1>9, <1>10 DEF r

\* Add keeps what has arrived, adds the segment, and delivers up to the gap.
LEMMA AddIs ==
  ASSUME NEW b, BufferOK(b), NEW seq, OnGrid(seq)
  PROVE  LET r == Receiver!Add(b, seq, seq + MSS)
         IN /\ BufferOK(r) /\ b.next <= r.next
            /\ Receiver!Arrived(r) = Receiver!Arrived(b) \cup Seg(seq)
            /\ r.next # b.next => \E f \in r.frags : f[2] = r.next
<1> DEFINE end == seq + MSS
           cut == Receiver!Cut(b, seq, end)
           F == b.frags \cup {Piece(seq)}
           m == [b EXCEPT !.frags = F]
           r == Receiver!Add(b, seq, end)
<1>1. /\ seq \in Nat /\ seq > 0 /\ b.next \in Nat /\ b.next > 0 /\ MSS \in Nat \ {0} /\ end \in Nat
      /\ OnGrid(b.next) /\ \A f \in b.frags : OnGrid(f[1]) /\ f = Piece(f[1])
      /\ IsFiniteSet(b.frags) /\ DOMAIN b = {"next", "frags", "fin"} /\ b.fin = 0
  BY GridFacts, MSSAssumption DEF BufferOK
<1>2. CASE ~Receiver!Stores(b, seq, end)
  <2>1. r = b /\ Seg(seq) \subseteq Receiver!Arrived(b)
    BY <1>2, StoresIs DEF Receiver!Add
  <2> QED
    BY <1>1, <2>1
<1>3. CASE Receiver!Stores(b, seq, end)
  <2>1. cut = Piece(seq) /\ Piece(seq)[1] = seq /\ Piece(seq)[2] = end
    BY <1>3, StoresIs DEF Piece
  <2> HIDE DEF cut
  <2>2. {f \in b.frags : ~(f[1] > cut[1] /\ f[2] < end)} = b.frags
    <3>1. ASSUME NEW f \in b.frags, f[1] > cut[1], f[2] < end PROVE FALSE
      <4> DEFINE a == f[1]
      <4>1. a \in Nat /\ f = <<a, a + MSS>> /\ a > seq
        BY <1>1, <2>1, <3>1, GridNat DEF Piece
      <4> HIDE DEF a
      <4>2. f[2] = a + MSS
        BY <4>1
      <4> QED
        BY <1>1, <3>1, <4>1, <4>2
    <3> QED
      BY <3>1
  <2>3. r = Receiver!Advanced([b EXCEPT !.frags = {f \in b.frags : ~(f[1] > cut[1] /\ f[2] < end)} \cup {cut}])
    BY <1>1, <1>3 DEF Receiver!Add, Receiver!Replace, cut
  <2>4. r = Receiver!Advanced(m)
    BY <2>1, <2>2, <2>3
  <2>5. DOMAIN m = {"next", "frags", "fin"} /\ m.fin = 0 /\ m.next = b.next /\ m.frags = F
    BY <1>1
  <2>6. IsFiniteSet(F) /\ \A f \in F : OnGrid(f[1]) /\ f = Piece(f[1])
    <3>1. IsFiniteSet(F)
      BY <1>1, FS_AddElement
    <3> QED
      BY <1>1, <2>1, <3>1
  <2> HIDE DEF m, r, F
  <2>7. /\ BufferOK(r) /\ r.frags = F /\ b.next <= r.next
        /\ b.next .. r.next - 1 \subseteq Receiver!Holds(F)
        /\ r.next # b.next => \E f \in F : f[2] = r.next
    BY <1>1, <2>4, <2>5, <2>6, AdvancedIs
  <2>8. Receiver!Holds(F) = Receiver!Holds(b.frags) \cup Seg(seq)
    BY <2>1 DEF Receiver!Holds, F, Seg
  <2>9. r.next \in Nat
    BY <2>7, GridNat DEF BufferOK
  <2>10. 1 .. r.next - 1 = (1 .. b.next - 1) \cup (b.next .. r.next - 1)
    BY <1>1, <2>7, <2>9
  <2>11. Receiver!Arrived(r) = Receiver!Arrived(b) \cup Seg(seq)
    BY <2>7, <2>8, <2>10 DEF Receiver!Arrived
  <2> QED
    BY <2>7, <2>11 DEF r
<1> QED
  BY <1>2, <1>3

-----------------------------------------------------------------------------
\* The SACK stack, and what an arrival makes of the receiver.

\* A block that a SACK option may tell of when A has arrived.
TrueBlocks(A) ==
  {e \in Nat \X Nat : OnGrid(e[1]) /\ OnGrid(e[2]) /\ e[1] < e[2] /\ e[1] .. e[2] - 1 \subseteq A}

Replies(A, next) == [prio : Nat, ack : {next}, sack : Seq(TrueBlocks(A))]

ReceiverFields == {"state", "recvCallback", "buffer", "read", "sackstack", "out"}

LEMMA TrueBlocksGrow ==
  ASSUME NEW A, NEW B, A \subseteq B
  PROVE  /\ TrueBlocks(A) \subseteq TrueBlocks(B)
         /\ \A q : q \in Seq(TrueBlocks(A)) => q \in Seq(TrueBlocks(B))
<1>1. TrueBlocks(A) \subseteq TrueBlocks(B)
  BY DEF TrueBlocks
<1> HIDE DEF TrueBlocks
<1> QED
  BY <1>1, SeqGrows

LEMMA ReceiverChosen == \A q, K : Receiver!Chosen(q, K) = Chosen(q, K)
<1>1. \A K, n : Receiver!NthOf(K, n) = NthOf(K, n) /\ Receiver!Cardinality(K) = Cardinality(K)
  <2>1. \A K : Receiver!Cardinality(K) = Cardinality(K)
    BY DEF Receiver!Cardinality, Cardinality
  <2>2. \A K, k : Receiver!Rank(K, k) = Rank(K, k)
    BY <2>1 DEF Receiver!Rank, Rank
  <2> QED
    BY <2>1, <2>2 DEF Receiver!NthOf, NthOf
<1> QED
  BY <1>1 DEF Receiver!Chosen, Chosen

\* The block around a segment has arrived from its left edge to its right.
LEMMA EdgesAre ==
  ASSUME NEW F, IsFiniteSet(F), \A f \in F : OnGrid(f[1]) /\ f = Piece(f[1]), NEW seq, OnGrid(seq)
  PROVE  LET left  == Receiver!LeftEdge(Receiver!Starts(F), seq)
             right == Receiver!RightEdge(Receiver!Starts(F), seq)
         IN /\ OnGrid(left) /\ OnGrid(right) /\ left <= seq /\ seq < right
            /\ left .. right - 1 \subseteq Receiver!Holds(F) \cup Seg(seq)
<1> DEFINE keys == Receiver!Starts(F)
           all == keys \cup {seq}
           L == {l \in all : l <= seq /\ (seq - l) % MSS = 0 /\ Receiver!Steps(l, seq - 1) \subseteq keys}
           R == {r \in {k + MSS : k \in all} :
                   r > seq /\ (r - seq) % MSS = 0 /\ Receiver!Steps(seq + MSS, r - 1) \subseteq keys}
           left == Receiver!LeftEdge(keys, seq)
           right == Receiver!RightEdge(keys, seq)
<1>0. seq \in Nat /\ seq > 0 /\ MSS \in Nat \ {0} /\ OnGrid(seq + MSS) /\ seq + MSS \in Nat
  BY GridFacts, MSSAssumption
<1>1. \A k \in all : k \in Nat /\ k > 0 /\ OnGrid(k)
  BY <1>0, HoldsIs
<1>2. left \in L
  <2>1. left = Receiver!Min(L)
    BY DEF Receiver!LeftEdge
  <2>2. seq \in L
    <3>1. Receiver!Steps(seq, seq - 1) = {}
      BY <1>0 DEF Receiver!Steps
    <3>2. seq - seq = 0 /\ 0 % MSS = 0
      BY <1>0, Multiples DEF Multiple
    <3> QED
      BY <1>0, <3>1, <3>2
  <2>3. L \in SUBSET Nat /\ L # {}
    BY <1>1, <2>2
  <2> HIDE DEF left, L
  <2> QED
    BY <2>1, <2>3, ReceiverExtremes
<1>3. right \in R
  <2>1. right = Receiver!Max(R)
    BY DEF Receiver!RightEdge
  <2>2. seq + MSS \in R
    <3>1. Receiver!Steps(seq + MSS, (seq + MSS) - 1) = {}
      BY <1>0 DEF Receiver!Steps
    <3>2. (seq + MSS) - seq = MSS /\ MSS % MSS = 0 /\ seq + MSS > seq
      BY <1>0, Multiples DEF Multiple
    <3> DEFINE e == seq + MSS
    <3>3. e \in {k + MSS : k \in all}
      OBVIOUS
    <3>4. Receiver!Steps(e, e - 1) \subseteq keys /\ (e - seq) % MSS = 0 /\ e > seq
      BY <3>1, <3>2
    <3> HIDE DEF e, all, keys
    <3>5. e \in {r \in {k + MSS : k \in all} :
                   r > seq /\ (r - seq) % MSS = 0 /\ Receiver!Steps(e, r - 1) \subseteq keys}
      BY <3>3, <3>4
    <3> QED
      BY <3>5 DEF e
  <2>3. IsFiniteSet(R)
    <3>1. IsFiniteSet(keys)
      <4> DEFINE T == {f[1] : f \in F}
                 g == [f \in F |-> f[1]]
      <4>1. g \in Surjection(F, T)
        BY DEF Surjection
      <4> HIDE DEF T, g
      <4>2. IsFiniteSet(T)
        BY <4>1, FS_Surjection
      <4> QED
        BY <4>2 DEF T, Receiver!Starts
    <3>2. IsFiniteSet(all)
      BY <3>1, FS_AddElement
    <3> DEFINE T == {k + MSS : k \in all}
               g == [k \in all |-> k + MSS]
    <3> HIDE DEF all
    <3>3. g \in Surjection(all, T)
      BY DEF Surjection
    <3>4. R \subseteq T
      OBVIOUS
    <3> HIDE DEF T, g, R
    <3>5. IsFiniteSet(T)
      BY <3>2, <3>3, FS_Surjection
    <3> QED
      BY <3>4, <3>5, FS_Subset
  <2>4. R \in SUBSET Int /\ R # {}
    <3>1. \A k \in all : k + MSS \in Int
      BY <1>0, <1>1
    <3>2. \A x \in R : x \in Int
      BY <3>1
    <3> QED
      BY <2>2, <3>2
  <2> HIDE DEF right, R
  <2> QED
    BY <2>1, <2>3, <2>4, ReceiverExtremes
<1>4. left \in all /\ left <= seq /\ Receiver!Steps(left, seq - 1) \subseteq keys
  BY <1>2
<1>5. PICK k \in all : right = k + MSS
  BY <1>3
<1>6. right > seq /\ Receiver!Steps(seq + MSS, right - 1) \subseteq keys
  BY <1>3
<1> HIDE DEF left, right, keys, L, R
<1>7. OnGrid(left) /\ OnGrid(right) /\ left \in Nat /\ right \in Nat
  BY <1>1, <1>4, <1>5, GridFacts
<1>8. left .. seq - 1 \subseteq Receiver!Holds(F)
  <2>1. seq - 1 \in Int
    BY <1>0
  <2> QED
    BY <1>4, <1>7, <2>1, WalkHeld DEF keys
<1>9. seq + MSS .. right - 1 \subseteq Receiver!Holds(F)
  <2>1. right - 1 \in Int
    BY <1>7
  <2> QED
    BY <1>0, <1>6, <2>1, WalkHeld DEF keys
<1>10. \A n \in left .. right - 1 : n \in left .. seq - 1 \/ n \in Seg(seq) \/ n \in seq + MSS .. right - 1
  BY <1>0, <1>7 DEF Seg
<1> QED
  BY <1>4, <1>6, <1>7, <1>8, <1>9, <1>10 DEF left, right, keys

\* The stack of blocks stays true: the new one is, and the older ones are kept or merged.
LEMMA FillIs ==
  ASSUME NEW r, DOMAIN r = ReceiverFields, BufferOK(r.buffer), NEW A, A = Receiver!Arrived(r.buffer),
         r.sackstack \in Seq(TrueBlocks(A)), NEW seq, OnGrid(seq), Seg(seq) \subseteq A
  PROVE  \E x \in Seq(TrueBlocks(A)) : Receiver!FillSackStack(r, seq) = [r EXCEPT !.sackstack = x]
<1> DEFINE F     == r.buffer.frags
           left  == Receiver!LeftEdge(Receiver!Starts(F), seq)
           right == Receiver!RightEdge(Receiver!Starts(F), seq)
           older == {i \in DOMAIN r.sackstack : ~(r.sackstack[i][1] >= left /\ r.sackstack[i][2] <= right)}
           kept  == Receiver!Chosen(r.sackstack, older)
           x     == IF left > 1 THEN <<<<left, right>>>> \o kept ELSE kept
           S     == TrueBlocks(A)
<1>1. Receiver!FillSackStack(r, seq) = [r EXCEPT !.sackstack = x]
  BY DEF Receiver!FillSackStack
<1>2. /\ OnGrid(left) /\ OnGrid(right) /\ left <= seq /\ seq < right
      /\ left .. right - 1 \subseteq Receiver!Holds(F) \cup Seg(seq)
  <2>1. IsFiniteSet(F) /\ \A f \in F : OnGrid(f[1]) /\ f = Piece(f[1])
    BY DEF BufferOK
  <2> HIDE DEF F
  <2> QED
    BY <2>1, EdgesAre
<1>3. kept \in Seq(S)
  <2>1. older \in SUBSET DOMAIN r.sackstack
    OBVIOUS
  <2> DEFINE q == r.sackstack
  <2>2. q \in Seq(S)
    OBVIOUS
  <2> HIDE DEF older, q, S
  <2>3. Chosen(q, older) \in Seq(S)
    BY <2>1, <2>2, ChosenType DEF Chosen, q
  <2> QED
    BY <2>3, ReceiverChosen DEF q
<1> HIDE DEF left, right, kept
<1>4. <<left, right>> \in S
  <2>1. left \in Nat /\ right \in Nat /\ left < right
    <3>1. left \in Nat /\ right \in Nat /\ seq \in Nat
      BY <1>2, GridNat
    <3> QED
      BY <1>2, <3>1
  <2>2. Receiver!Holds(F) \subseteq A
    BY DEF Receiver!Arrived
  <2>3. left .. right - 1 \subseteq A
    <3> HIDE DEF F
    <3> QED
      BY <1>2, <2>2
  <2> DEFINE e == <<left, right>>
  <2>4. e \in Nat \X Nat /\ e[1] = left /\ e[2] = right
    BY <2>1
  <2> HIDE DEF e
  <2>5. e \in S
    BY <1>2, <2>1, <2>3, <2>4 DEF TrueBlocks
  <2> QED
    BY <2>5 DEF e
<1>5. x \in Seq(S)
  <2> HIDE DEF S
  <2> QED
    BY <1>3, <1>4
<1> HIDE DEF x
<1> QED
  BY <1>1, <1>5
-----------------------------------------------------------------------------
RcvShape(r) ==
  /\ DOMAIN r = ReceiverFields /\ r.state \in {"SYN_RCVD", "ESTABLISHED"}
  /\ BufferOK(r.buffer)
  /\ r.read \in 1 .. r.buffer.next
  /\ r.sackstack \in Seq(TrueBlocks(Receiver!Arrived(r.buffer)))

\* An ACK carries the next byte expected and up to three blocks of the stack.
LEMMA SendEmptyIs ==
  ASSUME NEW r, DOMAIN r = ReceiverFields, r.out = <<>>, NEW A, r.sackstack \in Seq(TrueBlocks(A)),
         NEW prio \in Nat, NEW withSack \in BOOLEAN
  PROVE  LET e == Receiver!SendEmptyPacket(r, prio, withSack)
         IN /\ DOMAIN e = ReceiverFields /\ \A f \in ReceiverFields \ {"out"} : e[f] = r[f]
            /\ e.out \in Seq(Replies(A, r.buffer.next))
<1> DEFINE S    == TrueBlocks(A)
           n    == Receiver!Min({3, Len(r.sackstack)})
           sack == IF withSack THEN SubSeq(r.sackstack, 1, n) ELSE <<>>
           ack  == [prio |-> prio, ack |-> r.buffer.next, sack |-> sack]
           e    == Receiver!SendEmptyPacket(r, prio, withSack)
<1>1. e = [r EXCEPT !.out = Append(@, ack)]
  BY DEF Receiver!SendEmptyPacket
<1>2. n \in 0 .. Len(r.sackstack)
  <2>1. Len(r.sackstack) \in Nat
    OBVIOUS
  <2>2. {3, Len(r.sackstack)} \in SUBSET Nat /\ {3, Len(r.sackstack)} # {}
    BY <2>1
  <2>3. n \in {3, Len(r.sackstack)} /\ n <= Len(r.sackstack)
    BY <2>2, ReceiverExtremes
  <2> HIDE DEF n
  <2> QED
    BY <2>1, <2>3
<1>3. sack \in Seq(S)
  <2> DEFINE q == r.sackstack
  <2>1. q \in Seq(S) /\ n \in 0 .. Len(q)
    BY <1>2
  <2> HIDE DEF q, n, S
  <2>2. SubSeq(q, 1, n) \in Seq(S)
    <3>1. \A i \in 1 .. n : q[i] \in S
      BY <2>1
    <3>2. n \in Nat /\ SubSeq(q, 1, n) = [i \in 1 .. n |-> q[i]]
      BY <2>1
    <3> QED
      BY <3>1, <3>2
  <2>3. <<>> \in Seq(S)
    OBVIOUS
  <2> QED
    BY <2>2, <2>3 DEF q
<1> HIDE DEF sack, S
<1>4. ack \in Replies(A, r.buffer.next)
  BY <1>3 DEF Replies, S
<1> HIDE DEF ack
<1>5. e.out = <<ack>> /\ DOMAIN e = ReceiverFields /\ \A f \in ReceiverFields \ {"out"} : e[f] = r[f]
  BY <1>1 DEF ReceiverFields
<1> HIDE DEF e
<1>6. e.out \in Seq(Replies(A, r.buffer.next))
  BY <1>4, <1>5
<1> QED
  BY <1>5, <1>6 DEF e

\* The application takes everything in order; what is beyond stays.
LEMMA ReadAllIs ==
  ASSUME NEW r, DOMAIN r = ReceiverFields, BufferOK(r.buffer), r.read \in 1 .. r.buffer.next,
         \E f \in r.buffer.frags : f[2] = r.buffer.next
  PROVE  LET e == Receiver!ReadAll(r)
         IN /\ DOMAIN e = ReceiverFields /\ \A f \in ReceiverFields \ {"buffer", "read"} : e[f] = r[f]
            /\ BufferOK(e.buffer) /\ e.buffer.next = r.buffer.next /\ e.read = r.buffer.next
            /\ Receiver!Arrived(e.buffer) = Receiver!Arrived(r.buffer)
<1> DEFINE b == r.buffer
           next == b.next
           F == b.frags
           gone == {g \in F : g[1] < next}
           G == {f \in F : f[1] >= next}
           ends == {f[2] : f \in gone} \cup {r.read}
           x == Receiver!ExtractAll(b)
           e == Receiver!ReadAll(r)
<1>1. e = [r EXCEPT !.buffer = x, !.read = Receiver!Max(ends)]
  BY DEF Receiver!ReadAll
<1>2. /\ next \in Nat /\ next > 0 /\ MSS \in Nat \ {0} /\ IsFiniteSet(F) /\ OnGrid(next)
      /\ \A f \in F : OnGrid(f[1]) /\ f = Piece(f[1])
      /\ DOMAIN b = {"next", "frags", "fin"} /\ b.fin = 0 /\ next \notin Receiver!Holds(F)
  BY GridNat, MSSAssumption DEF BufferOK
<1>3. \A f \in F : f[1] \in Nat /\ f[1] > 0 /\ f[2] = f[1] + MSS /\ f[2] \in Nat /\ OnGrid(f[1])
  <2>1. ASSUME NEW f \in F PROVE f[1] \in Nat /\ f[1] > 0 /\ f[2] = f[1] + MSS /\ f[2] \in Nat /\ OnGrid(f[1])
    <3> DEFINE a == f[1]
    <3>1. a \in Nat /\ a > 0 /\ f = <<a, a + MSS>> /\ OnGrid(a)
      BY <1>2, GridNat DEF Piece
    <3> HIDE DEF a
    <3>2. f[2] = a + MSS /\ a + MSS \in Nat
      BY <1>2, <3>1
    <3> QED
      BY <3>1, <3>2 DEF a
  <2> QED
    BY <2>1
<1>4. /\ DOMAIN x = {"next", "frags", "fin"} /\ x.fin = 0 /\ x.next = next /\ x.frags = G
  <2> HIDE DEF b
  <2> QED
    BY <1>2 DEF Receiver!ExtractAll
<1> HIDE DEF x, e
<1>5. G \subseteq F /\ IsFiniteSet(G)
  BY <1>2, FS_Subset
<1>6. Receiver!Holds(G) \subseteq Receiver!Holds(F)
  BY <1>5 DEF Receiver!Holds
<1>7. BufferOK(x)
  BY <1>2, <1>4, <1>5, <1>6 DEF BufferOK
<1>8. \A f \in gone : f[2] <= next
  BY <1>2, <1>3, GridDiff
<1>9. Receiver!Arrived(x) = Receiver!Arrived(b)
  <2>1. ASSUME NEW n \in Receiver!Holds(F), n \notin Receiver!Holds(G) PROVE n \in 1 .. next - 1
    <3>1. PICK f \in F : n \in f[1] .. f[2] - 1
      BY DEF Receiver!Holds
    <3>2. f \notin G
      BY <2>1, <3>1 DEF Receiver!Holds
    <3>3. f \in gone /\ f[1] \in Nat /\ f[1] > 0 /\ f[2] \in Nat
      BY <1>2, <1>3, <3>2
    <3>4. f[2] <= next
      BY <1>8, <3>3
    <3> HIDE DEF next
    <3> QED
      BY <1>2, <3>1, <3>3, <3>4
  <2> QED
    BY <1>4, <1>6, <2>1 DEF Receiver!Arrived
<1>10. Receiver!Max(ends) = next
  <2>1. IsFiniteSet(ends)
    <3> DEFINE T == {f[2] : f \in gone}
               g == [f \in gone |-> f[2]]
    <3>1. IsFiniteSet(gone)
      BY <1>2, FS_Subset
    <3>2. g \in Surjection(gone, T)
      BY DEF Surjection
    <3> HIDE DEF T, g, gone
    <3>3. IsFiniteSet(T)
      BY <3>1, <3>2, FS_Surjection
    <3> QED
      BY <3>3, FS_AddElement DEF T
  <2>2. \A n \in ends : n \in Nat /\ n <= next
    BY <1>2, <1>3, <1>8
  <2>3. next \in ends
    <3>1. PICK f \in F : f[2] = next
      OBVIOUS
    <3>2. f \in gone
      BY <1>2, <1>3, <3>1
    <3> QED
      BY <3>1, <3>2
  <2>4. ends \in SUBSET Int /\ ends # {}
    BY <2>2, <2>3
  <2> HIDE DEF ends, next
  <2>5. Receiver!Max(ends) \in ends /\ \A j \in ends : j <= Receiver!Max(ends)
    BY <2>1, <2>4, ReceiverExtremes
  <2> DEFINE top == Receiver!Max(ends)
  <2>6. top \in Nat /\ top <= next
    BY <2>2, <2>5
  <2>7. next <= top /\ next \in Nat
    BY <1>2, <2>3, <2>5
  <2> HIDE DEF top
  <2>8. top = next
    BY <2>6, <2>7
  <2> QED
    BY <2>8 DEF top
<1> HIDE DEF next, ends
<1>11. /\ DOMAIN e = ReceiverFields /\ \A f \in ReceiverFields \ {"buffer", "read"} : e[f] = r[f]
       /\ e.buffer = x /\ e.read = next
  BY <1>1, <1>10 DEF ReceiverFields
<1> QED
  BY <1>4, <1>7, <1>9, <1>11 DEF e, next

\* What a data segment makes of the receiver.
Received(r, e, bytes) ==
  LET A == Receiver!Arrived(r.buffer)
      B == Receiver!Arrived(e.buffer)
  IN /\ RcvShape(e) /\ e.out \in Seq(Replies(B, e.buffer.next))
     /\ r.buffer.next <= e.buffer.next /\ A \subseteq B /\ B \subseteq A \cup bytes
     /\ e.read \in {r.read, e.buffer.next} /\ (e.buffer.next = r.buffer.next => e.read = r.read)

LEMMA ReceivedDataIs ==
  ASSUME NEW r, RcvShape(r), r.out = <<>>, NEW m, OnGrid(m.seq), m.len = MSS, m.prio \in Nat
  PROVE  Received(r, Receiver!ReceivedData(r, m), Seg(m.seq))
<1> DEFINE seq    == m.seq
           A      == Receiver!Arrived(r.buffer)
           b      == Receiver!Add(r.buffer, seq, seq + MSS)
           B      == Receiver!Arrived(b)
           added  == [r EXCEPT !.buffer = b]
           filled == Receiver!FillSackStack(added, seq)
           sacked == Receiver!SendEmptyPacket(filled, m.prio, TRUE)
           plain  == Receiver!SendEmptyPacket(added, 0, FALSE)
           e      == Receiver!ReceivedData(r, m)
<1>1. /\ DOMAIN r = ReceiverFields /\ r.state \in {"SYN_RCVD", "ESTABLISHED"} /\ BufferOK(r.buffer)
      /\ r.read \in 1 .. r.buffer.next /\ r.sackstack \in Seq(TrueBlocks(A))
  BY DEF RcvShape
<1>2. /\ BufferOK(b) /\ r.buffer.next <= b.next /\ B = A \cup Seg(seq)
      /\ b.next # r.buffer.next => \E f \in b.frags : f[2] = b.next
  BY <1>1, AddIs
<1>3. r.buffer.next \in Nat /\ b.next \in Nat
  BY <1>1, <1>2, GridNat DEF BufferOK
<1>4. \E a \in {sacked, plain} : e = Receiver!NotifyDataRecv(r, a)
  BY DEF Receiver!ReceivedData
<1> HIDE DEF b, e
<1>5. /\ DOMAIN added = ReceiverFields /\ added.buffer = b
      /\ \A f \in ReceiverFields \ {"buffer"} : added[f] = r[f]
  BY <1>1 DEF ReceiverFields
<1>6. added.out = <<>> /\ added.sackstack = r.sackstack /\ added.read = r.read /\ added.state = r.state
  BY <1>5 DEF ReceiverFields
<1> HIDE DEF added
<1>7. added.sackstack \in Seq(TrueBlocks(B))
  BY <1>1, <1>2, <1>6, TrueBlocksGrow
<1> DEFINE N == b.next
           Fine(a) == /\ DOMAIN a = ReceiverFields /\ a.buffer = b /\ a.state = r.state /\ a.read = r.read
                      /\ a.sackstack \in Seq(TrueBlocks(B)) /\ a.out \in Seq(Replies(B, N))
<1>8. Fine(plain)
  <2>1. /\ DOMAIN plain = ReceiverFields /\ \A f \in ReceiverFields \ {"out"} : plain[f] = added[f]
        /\ plain.out \in Seq(Replies(B, added.buffer.next))
    BY <1>5, <1>6, <1>7, SendEmptyIs
  <2>2. plain.buffer = b /\ plain.state = r.state /\ plain.read = r.read /\ plain.sackstack = added.sackstack
    BY <1>5, <1>6, <2>1 DEF ReceiverFields
  <2> HIDE DEF plain, B
  <2> QED
    BY <1>5, <1>7, <2>1, <2>2
<1>9. Fine(sacked)
  <2>1. BufferOK(added.buffer) /\ B = Receiver!Arrived(added.buffer) /\ Seg(seq) \subseteq B /\ OnGrid(seq)
    BY <1>2, <1>5
  <2>2. PICK x \in Seq(TrueBlocks(B)) : filled = [added EXCEPT !.sackstack = x]
    BY <1>5, <1>7, <2>1, FillIs
  <2> HIDE DEF filled
  <2>3. /\ DOMAIN filled = ReceiverFields /\ filled.sackstack = x
        /\ filled.out = <<>> /\ filled.buffer = b /\ filled.state = r.state /\ filled.read = r.read
    BY <1>5, <1>6, <2>2 DEF ReceiverFields
  <2>4. /\ DOMAIN sacked = ReceiverFields /\ \A f \in ReceiverFields \ {"out"} : sacked[f] = filled[f]
        /\ sacked.out \in Seq(Replies(B, filled.buffer.next))
    BY <2>3, SendEmptyIs
  <2>5. sacked.buffer = b /\ sacked.state = r.state /\ sacked.read = r.read /\ sacked.sackstack = x
    BY <2>3, <2>4 DEF ReceiverFields
  <2> HIDE DEF sacked, B
  <2> QED
    BY <2>3, <2>4, <2>5
<1>10. PICK a : Fine(a) /\ e = Receiver!NotifyDataRecv(r, a)
  BY <1>4, <1>8, <1>9
<1> HIDE DEF sacked, plain
<1>11. A \subseteq B /\ B \subseteq A \cup Seg(seq)
  BY <1>2
<1>12. r.read \in 1 .. b.next
  BY <1>1, <1>2, <1>3
<1>13. CASE e = a
  <2>1. RcvShape(e)
    BY <1>1, <1>2, <1>10, <1>12, <1>13 DEF RcvShape
  <2> QED
    BY <1>2, <1>10, <1>11, <1>13, <2>1 DEF Received, e
<1>14. CASE e = Receiver!ReadAll(a) /\ b.next > r.buffer.next
  <2>1. \E f \in a.buffer.frags : f[2] = a.buffer.next
    BY <1>2, <1>3, <1>10, <1>14
  <2>2. /\ DOMAIN e = ReceiverFields /\ \A f \in ReceiverFields \ {"buffer", "read"} : e[f] = a[f]
        /\ BufferOK(e.buffer) /\ e.buffer.next = b.next /\ e.read = b.next
        /\ Receiver!Arrived(e.buffer) = B
    BY <1>2, <1>10, <1>12, <1>14, <2>1, ReadAllIs
  <2>3. e.state = r.state /\ e.sackstack = a.sackstack /\ e.out = a.out
    BY <1>10, <2>2 DEF ReceiverFields
  <2>4. e.read \in 1 .. e.buffer.next
    BY <1>12, <1>3, <2>2
  <2>5. RcvShape(e)
    BY <1>1, <1>10, <2>2, <2>3, <2>4 DEF RcvShape
  <2> QED
    BY <1>2, <1>3, <1>10, <1>11, <1>14, <2>2, <2>3, <2>5 DEF Received, e
<1>15. \/ e = a
       \/ e = Receiver!ReadAll(a) /\ b.next > r.buffer.next
  BY <1>10 DEF Receiver!NotifyDataRecv
<1> QED
  BY <1>13, <1>14, <1>15

LEMMA DoForwardUpIs ==
  ASSUME NEW r, RcvShape(r), r.out = <<>>, NEW m, OnGrid(m.seq), m.len \in {0, MSS}, m.prio \in Nat
  PROVE  Received(r, Receiver!DoForwardUp(r, m), m.seq .. (m.seq + m.len) - 1)
<1> DEFINE e == Receiver!DoForwardUp(r, m)
           bytes == m.seq .. (m.seq + m.len) - 1
           A == Receiver!Arrived(r.buffer)
<1>0. /\ DOMAIN r = ReceiverFields /\ r.state \in {"SYN_RCVD", "ESTABLISHED"} /\ BufferOK(r.buffer)
      /\ r.read \in 1 .. r.buffer.next /\ r.sackstack \in Seq(TrueBlocks(A)) /\ r.buffer.next \in Nat
      /\ MSS \in Nat \ {0}
  BY GridNat, MSSAssumption DEF RcvShape, BufferOK
<1>1. ASSUME NEW a, NEW B, Received(r, a, B) PROVE Received(r, Receiver!Accepted(a), B)
  <2> DEFINE c == Receiver!Accepted(a)
  <2>1. DOMAIN a = ReceiverFields
    BY <1>1 DEF Received, RcvShape
  <2>2. /\ DOMAIN c = ReceiverFields /\ c.state = "ESTABLISHED" /\ c.buffer = a.buffer /\ c.read = a.read
        /\ c.sackstack = a.sackstack /\ c.out = a.out
    BY <2>1 DEF Receiver!Accepted, ReceiverFields
  <2> HIDE DEF c
  <2>3. Received(r, c, B)
    BY <1>1, <2>2 DEF Received, RcvShape
  <2> QED
    BY <2>3 DEF c
<1>2. ASSUME NEW B PROVE Received(r, r, B)
  <2>1. r.out \in Seq(Replies(A, r.buffer.next))
    BY DEF Replies
  <2> QED
    BY <1>0, <2>1 DEF Received
<1>3. ASSUME NEW B PROVE Received(r, Receiver!SendEmptyPacket(r, 0, FALSE), B)
  <2> DEFINE a == Receiver!SendEmptyPacket(r, 0, FALSE)
  <2>1. /\ DOMAIN a = ReceiverFields /\ \A f \in ReceiverFields \ {"out"} : a[f] = r[f]
        /\ a.out \in Seq(Replies(A, r.buffer.next))
    BY <1>0, SendEmptyIs
  <2> HIDE DEF a
  <2>2. a.buffer = r.buffer /\ a.state = r.state /\ a.read = r.read /\ a.sackstack = r.sackstack
    BY <2>1 DEF ReceiverFields
  <2>3. Received(r, a, B)
    BY <1>0, <2>1, <2>2 DEF Received, RcvShape
  <2> QED
    BY <2>3 DEF a
<1>4. \/ e = Receiver!Accepted(r)
      \/ e = Receiver!SendEmptyPacket(r, 0, FALSE)
      \/ e = Receiver!Accepted(Receiver!ReceivedData(r, m)) /\ m.len # 0
  BY DEF Receiver!DoForwardUp
<1>5. ASSUME m.len # 0 PROVE Received(r, Receiver!ReceivedData(r, m), bytes)
  <2>1. m.len = MSS /\ bytes = Seg(m.seq)
    BY <1>5 DEF Seg
  <2> QED
    BY <2>1, ReceivedDataIs
<1> HIDE DEF e
<1> QED
  BY <1>1, <1>2, <1>3, <1>4, <1>5 DEF e

-----------------------------------------------------------------------------
\* The acknowledgements on their way.

\* What the receiver may have on its way to the sender.
Acks(A, next) == [prio : Nat, ack : {a \in Nat : OnGrid(a) /\ a <= next}, sack : Seq(TrueBlocks(A))]

LEMMA RemoveAtIs ==
  ASSUME NEW S, NEW q \in Seq(S), NEW i \in DOMAIN q
  PROVE  /\ RemoveAt(q, i) \in Seq(S) /\ Len(RemoveAt(q, i)) = Len(q) - 1 /\ Len(q) - 1 \in Nat
         /\ \A k \in 1 .. Len(q) - 1 : RemoveAt(q, i)[k] = q[IF k < i THEN k ELSE k + 1]
BY Removed DEF RemoveAt

\* The acknowledgements on their way are in order, and none of priority 0 is
\* of a byte that is, or that an earlier one will have been, marked.
InBlock(n, e) == n \in e[1] .. e[2] - 1

Fresh(marks, q) ==
  \A i \in DOMAIN q :
    /\ \A j \in 1 .. i : q[j].ack <= q[i].ack
    /\ q[i].prio = 0 =>
         /\ q[i].ack \notin marks
         /\ \A j \in 1 .. i : \A k \in DOMAIN q[j].sack : ~InBlock(q[i].ack, q[j].sack[k])

LEMMA FreshRemove ==
  ASSUME NEW S, NEW q \in Seq(S), NEW marks, Fresh(marks, q), NEW i \in DOMAIN q
  PROVE  Fresh(marks, RemoveAt(q, i))
<1> DEFINE p == RemoveAt(q, i)
           at(k) == IF k < i THEN k ELSE k + 1
<1>1. /\ p \in Seq(S) /\ Len(p) = Len(q) - 1 /\ Len(q) - 1 \in Nat
      /\ \A k \in 1 .. Len(q) - 1 : p[k] = q[at(k)]
  BY RemoveAtIs
<1>2. Len(q) \in Nat /\ i \in 1 .. Len(q) /\ DOMAIN q = 1 .. Len(q) /\ DOMAIN p = 1 .. Len(q) - 1
  BY <1>1
<1> HIDE DEF p
<1>3. ASSUME NEW k \in DOMAIN p, NEW j \in 1 .. k
      PROVE  at(k) \in DOMAIN q /\ at(j) \in 1 .. at(k) /\ p[k] = q[at(k)] /\ p[j] = q[at(j)]
  <2>1. j \in DOMAIN p
    BY <1>2
  <2> QED
    BY <1>1, <1>2, <2>1
<1>4. ASSUME NEW k \in DOMAIN p PROVE at(k) \in DOMAIN q /\ p[k] = q[at(k)]
  BY <1>1, <1>2
<1> HIDE DEF at
<1>5. ASSUME NEW k \in DOMAIN p
      PROVE  /\ \A j \in 1 .. k : p[j].ack <= p[k].ack
             /\ p[k].prio = 0 =>
                  /\ p[k].ack \notin marks
                  /\ \A j \in 1 .. k : \A l \in DOMAIN p[j].sack : ~InBlock(p[k].ack, p[j].sack[l])
  BY <1>3, <1>4 DEF Fresh
<1> QED
  BY <1>5 DEF Fresh, p

\* What the receiver adds is newer than all that is on its way.
LEMMA FreshAppend ==
  ASSUME NEW A, NEW B, A \subseteq B, NEW m \in Nat, NEW n \in Nat, m <= n, n \notin B,
         NEW q \in Seq(Acks(A, m)), NEW marks, marks \subseteq B, Fresh(marks, q),
         NEW out \in Seq(Replies(B, n)), OnGrid(n)
  PROVE  q \o out \in Seq(Acks(B, n)) /\ Fresh(marks, q \o out)
<1> DEFINE p == q \o out
           S == Acks(B, n)
<1>1. Acks(A, m) \subseteq S
  <2>1. Seq(TrueBlocks(A)) \subseteq Seq(TrueBlocks(B))
    BY TrueBlocksGrow
  <2>2. {a \in Nat : OnGrid(a) /\ a <= m} \subseteq {a \in Nat : OnGrid(a) /\ a <= n}
    OBVIOUS
  <2> QED
    BY <2>1, <2>2 DEF Acks
<1>2. Replies(B, n) \subseteq S
  BY DEF Replies, Acks
<1>3. q \in Seq(S) /\ out \in Seq(S)
  <2> HIDE DEF S
  <2> QED
    BY <1>1, <1>2, SeqGrows
<1>4. p \in Seq(S)
  <2> HIDE DEF S
  <2> QED
    BY <1>3
<1>5. /\ Len(q) \in Nat /\ Len(out) \in Nat /\ Len(p) = Len(q) + Len(out) /\ DOMAIN p = 1 .. Len(p)
      /\ DOMAIN q = 1 .. Len(q) /\ DOMAIN out = 1 .. Len(out)
      /\ \A i \in 1 .. Len(p) : p[i] = IF i <= Len(q) THEN q[i] ELSE out[i - Len(q)]
  BY <1>3
<1> HIDE DEF p
<1>6. ASSUME NEW i \in DOMAIN p, i > Len(q) PROVE p[i].ack = n
  <2>1. i - Len(q) \in DOMAIN out /\ p[i] = out[i - Len(q)]
    BY <1>5, <1>6
  <2>2. p[i] \in Replies(B, n)
    BY <2>1
  <2> QED
    BY <2>2 DEF Replies
<1>7. \A i \in DOMAIN p : p[i] \in S
  BY <1>4
<1>8. \A i \in DOMAIN p : /\ p[i].ack \in Nat /\ p[i].ack <= n
                          /\ \A k \in DOMAIN p[i].sack : p[i].sack[k] \in TrueBlocks(B)
  <2>1. ASSUME NEW a \in S
        PROVE  a.ack \in Nat /\ a.ack <= n /\ \A k \in DOMAIN a.sack : a.sack[k] \in TrueBlocks(B)
    <3>1. a.ack \in Nat /\ a.ack <= n /\ a.sack \in Seq(TrueBlocks(B))
      BY DEF Acks
    <3> HIDE DEF S
    <3> QED
      BY <3>1
  <2> HIDE DEF S
  <2> QED
    BY <1>7, <2>1
<1>9. ASSUME NEW e \in TrueBlocks(B) PROVE ~InBlock(n, e)
  BY DEF TrueBlocks, InBlock
<1>10. ASSUME NEW i \in DOMAIN p
       PROVE  /\ \A j \in 1 .. i : p[j].ack <= p[i].ack
              /\ p[i].prio = 0 =>
                   /\ p[i].ack \notin marks
                   /\ \A j \in 1 .. i : \A k \in DOMAIN p[j].sack : ~InBlock(p[i].ack, p[j].sack[k])
  <2>1. \A j \in 1 .. i : j \in DOMAIN p
    BY <1>5
  <2>2. CASE i > Len(q)
    <3>1. p[i].ack = n
      BY <1>6, <2>2
    <3> HIDE DEF S
    <3>2. \A j \in 1 .. i : p[j].ack <= p[i].ack
      BY <1>8, <2>1, <3>1
    <3>3. \A j \in 1 .. i : \A k \in DOMAIN p[j].sack : ~InBlock(p[i].ack, p[j].sack[k])
      BY <1>8, <1>9, <2>1, <3>1
    <3> QED
      BY <3>1, <3>2, <3>3
  <2>3. CASE ~(i > Len(q))
    <3>1. i \in DOMAIN q /\ p[i] = q[i] /\ \A j \in 1 .. i : p[j] = q[j]
      BY <1>5, <2>1, <2>3
    <3> QED
      BY <3>1 DEF Fresh
  <2> QED
    BY <2>2, <2>3
<1> QED
  BY <1>4, <1>10 DEF Fresh, p

\* When one has been dealt with, the others are still fresh: those behind it
\* are not older, those it has passed are of lower priority.
LEMMA FreshAfter ==
  ASSUME NEW A, NEW n \in Nat, NEW q \in Seq(Acks(A, n)), NEW marks, NEW i \in Deliverable(q), Fresh(marks, q),
         NEW next, \A t \in next :
           \/ t \in marks
           \/ t \in Nat /\ t + MSS <= q[i].ack
           \/ \E k \in DOMAIN q[i].sack : InBlock(t, q[i].sack[k])
  PROVE  /\ q[i].prio = 0 => q[i].ack \notin next
         /\ Fresh(next, RemoveAt(q, i))
<1> DEFINE p == RemoveAt(q, i)
           at(k) == IF k < i THEN k ELSE k + 1
<1>1. i \in DOMAIN q /\ i \in Nat /\ \A j \in 1 .. i - 1 : q[j].prio > q[i].prio
  BY DEF Deliverable
<1>2. \A j \in DOMAIN q : q[j].ack \in Nat /\ q[j].prio \in Nat
  <2>1. \A j \in DOMAIN q : q[j] \in Acks(A, n)
    OBVIOUS
  <2> QED
    BY <2>1 DEF Acks
<1>3. MSS \in Nat \ {0} /\ Len(q) \in Nat /\ DOMAIN q = 1 .. Len(q)
  BY MSSAssumption
<1>4. ASSUME NEW l \in DOMAIN q, i <= l, q[l].prio = 0 PROVE q[l].ack \notin next
  <2>1. i \in 1 .. l
    BY <1>1, <1>3, <1>4
  <2>2. /\ q[i].ack <= q[l].ack /\ q[l].ack \notin marks
        /\ \A k \in DOMAIN q[i].sack : ~InBlock(q[l].ack, q[i].sack[k])
    BY <1>4, <2>1 DEF Fresh
  <2>3. ~(q[l].ack + MSS <= q[i].ack)
    BY <1>1, <1>2, <1>3, <2>2
  <2> QED
    BY <2>2, <2>3
<1>5. q[i].prio = 0 => q[i].ack \notin next
  BY <1>1, <1>4
<1>6. /\ Len(p) = Len(q) - 1 /\ p \in Seq(Acks(A, n))
      /\ \A k \in 1 .. Len(q) - 1 : p[k] = q[at(k)]
  BY <1>1, RemoveAtIs
<1>7. Fresh(marks, p)
  BY <1>1, FreshRemove
<1> HIDE DEF p
<1>8. ASSUME NEW k \in DOMAIN p, p[k].prio = 0 PROVE p[k].ack \notin next
  <2>1. k \in 1 .. Len(q) - 1 /\ DOMAIN p = 1 .. Len(q) - 1
    BY <1>3, <1>6
  <2>2. ~(k < i)
    <3>1. ASSUME k < i PROVE FALSE
      <4>1. k \in 1 .. i - 1 /\ p[k] = q[k] /\ k \in DOMAIN q
        BY <1>1, <1>3, <1>6, <2>1, <3>1
      <4>2. q[k].prio > q[i].prio /\ q[k].prio = 0 /\ q[i].prio \in Nat
        BY <1>1, <1>2, <1>8, <4>1
      <4> QED
        BY <4>2
    <3> QED
      BY <3>1
  <2>3. k + 1 \in DOMAIN q /\ i <= k + 1 /\ p[k] = q[k + 1]
    BY <1>1, <1>3, <1>6, <2>1, <2>2
  <2> QED
    BY <1>4, <1>8, <2>3
<1>9. Fresh(next, p)
  BY <1>7, <1>8 DEF Fresh
<1> QED
  BY <1>5, <1>9 DEF p

-----------------------------------------------------------------------------
\* The invariant of the flow, and what each action makes of it.

Sending(s, q) ==
  /\ Shape(s) /\ Timed(s) /\ (Opening(s) \/ Open(s))
  /\ s.out = <<>>
  /\ q \in Seq(Sendable(s.tail, s.highTx, s.p2_block_max))

Agree(s, r) ==
  /\ Receiver!Arrived(r.buffer) \subseteq 1 .. s.tail - 1
  /\ s.head <= r.buffer.next
  /\ \A t \in Marks(s.scoreboard) : Seg(t) \subseteq Receiver!Arrived(r.buffer)

Acking(s, r, q) ==
  /\ q \in Seq(Acks(Receiver!Arrived(r.buffer), r.buffer.next))
  /\ Fresh(Marks(s.scoreboard), q)

Written == Len(Writes) - Len(toWrite)

Left ==
  /\ toWrite \in Seq(Nat \ {0}) /\ Len(toWrite) <= Len(Writes)
  /\ \A i \in 1 .. Len(toWrite) : toWrite[i] = Writes[i + Written]

FlowInv ==
  /\ Sending(snd, toR) /\ RcvShape(rcv) /\ rcv.out = <<>>
  /\ Agree(snd, rcv) /\ Acking(snd, rcv, toS)
  /\ Left

\* Once the handshake is over: the scoreboard has a node for every segment of
\* the flow, and for every segment written; and the window has been used.
Mapped == snd.state = "ESTABLISHED" => Strides(1, FlowSize - 1) \subseteq snd.scoreboard.known
Chart  == snd.state = "ESTABLISHED" => Charted(snd)
InUse  == snd.state = "ESTABLISHED" => Used(snd)

Onward == (Mapped => Mapped') /\ (Chart /\ Chart' /\ InUse /\ Window(snd)' => InUse')

LEMMA ReceiverTypes ==
  ASSUME NEW r, RcvShape(r)
  PROVE  r.buffer.next \in Nat /\ r.buffer.next > 0 /\ OnGrid(r.buffer.next) /\ r.read \in 1 .. r.buffer.next
         /\ r.buffer.next \notin Receiver!Arrived(r.buffer)
<1>1. OnGrid(r.buffer.next) /\ r.buffer.next \notin Receiver!Holds(r.buffer.frags) /\ r.read \in 1 .. r.buffer.next
  BY DEF RcvShape, BufferOK
<1>2. r.buffer.next \in Nat /\ r.buffer.next > 0
  BY <1>1, GridNat
<1> QED
  BY <1>1, <1>2 DEF Receiver!Arrived

\* What the receiver expects next has at most been written.
LEMMA NextWritten ==
  ASSUME NEW s, NEW r, Shape(s), RcvShape(r), Agree(s, r)
  PROVE  r.buffer.next <= s.tail
<1>1. r.buffer.next \in Nat /\ r.buffer.next > 0 /\ s.tail \in Nat /\ s.tail > 0
  BY ReceiverTypes, ShapeTypes, GridNat DEF Shape
<1>2. CASE r.buffer.next > s.tail
  <2>1. s.tail \in 1 .. r.buffer.next - 1
    BY <1>1, <1>2
  <2>2. s.tail \in 1 .. s.tail - 1
    BY <2>1 DEF Agree, Receiver!Arrived
  <2> QED
    BY <1>1, <2>2
<1> QED
  BY <1>1, <1>2

LEMMA BecomesIs ==
  ASSUME Shape(snd), NEW s, Shape(s), Timed(s), Opening(s) \/ Open(s), Advanced(snd, s),
         NEW rest \in Seq(Sendable(snd.tail, snd.highTx, snd.p2_block_max)),
         SenderBecomes(s, rest)
  PROVE  /\ Sending(snd', toR') /\ Keeps(s, snd', {"out"})
         /\ snd'.state = s.state /\ snd'.scoreboard = s.scoreboard
         /\ (Charted(snd') <=> Charted(s)) /\ (Window(snd') <=> Window(s)) /\ (Used(snd') <=> Used(s))
<1> DEFINE S == Sendable(s.tail, s.highTx, s.p2_block_max)
<1>1. snd' = [s EXCEPT !.out = <<>>] /\ toR' = rest \o s.out
  BY DEF SenderBecomes
<1>2. DOMAIN s = SenderFields
  BY DEF Shape
<1>3. Keeps(s, snd', {"out"}) /\ snd'.out = <<>>
  BY <1>1, <1>2 DEF Keeps, SenderFields
<1> DEFINE n == snd'
<1>4. n = snd'
  OBVIOUS
<1> HIDE DEF n
<1>5. /\ n.state = s.state /\ n.scoreboard = s.scoreboard /\ n.head = s.head /\ n.tail = s.tail
      /\ n.nextTx = s.nextTx /\ n.highTx = s.highTx /\ n.recover = s.recover /\ n.inFastRec = s.inFastRec
      /\ n.p2_block_max = s.p2_block_max /\ n.p2_block_bytes_sent = s.p2_block_bytes_sent /\ n.retx = s.retx
      /\ n.out = <<>> /\ DOMAIN n = SenderFields
  BY <1>3, <1>4 DEF Keeps, SenderFields
<1>6. n.out \in Seq(Sendable(n.tail, n.highTx, n.p2_block_max))
  BY <1>5
<1>7. Shape(n)
  BY <1>5, <1>6 DEF Shape
<1>8. Timed(n) /\ (Opening(n) \/ Open(n))
  BY <1>5 DEF Timed, Opening, Open
<1>9. rest \in Seq(S)
  BY StaysSendable
<1>10. s.out \in Seq(S)
  BY DEF Shape
<1>11. rest \o s.out \in Seq(S)
  <2> HIDE DEF S
  <2> QED
    BY <1>9, <1>10, ConcatProperties
<1>12. Sending(n, toR')
  BY <1>1, <1>5, <1>7, <1>8, <1>11 DEF Sending
<1>13. n.cWnd = s.cWnd
  BY <1>3, <1>4 DEF Keeps, SenderFields
<1>14. (Charted(n) <=> Charted(s)) /\ (Window(n) <=> Window(s)) /\ (Used(n) <=> Used(s))
  BY <1>5, <1>13 DEF Charted, Window, Used
<1> QED
  BY <1>3, <1>4, <1>5, <1>12, <1>14

\* What the application writes next is a whole number of segments.
LEMMA NextWrite ==
  ASSUME Segmented, Left, toWrite # <<>>
  PROVE  /\ Len(toWrite) \in Nat \ {0} /\ Len(Writes) \in Nat /\ DOMAIN Writes = 1 .. Len(Writes)
         /\ Head(toWrite) = Writes[1 + Written] /\ 1 + Written \in DOMAIN Writes
         /\ Head(toWrite) \in Nat /\ Multiple(Head(toWrite))
<1> DEFINE size == Head(toWrite)
<1>1. /\ toWrite \in Seq(Nat \ {0}) /\ Len(toWrite) <= Len(Writes)
      /\ \A i \in 1 .. Len(toWrite) : toWrite[i] = Writes[i + Written]
  BY DEF Left
<1>2. Len(toWrite) \in Nat \ {0} /\ Len(Writes) \in Nat /\ DOMAIN Writes = 1 .. Len(Writes)
  <2>1. Writes \in Seq(Nat \ {0})
    BY WritesAssumption
  <2> QED
    BY <1>1, <2>1, EmptySeq, LenProperties
<1>3. size = Writes[1 + Written] /\ 1 + Written \in DOMAIN Writes /\ size \in Nat
  <2>1. size = toWrite[1] /\ size \in Nat
    BY <1>1, HeadTailProperties
  <2>2. 1 \in 1 .. Len(toWrite) /\ 1 + Written \in 1 .. Len(Writes)
    BY <1>1, <1>2 DEF Written
  <2> QED
    BY <1>1, <1>2, <2>1, <2>2
<1>4. Multiple(size)
  BY <1>3 DEF Segmented, Multiple
<1> QED
  BY <1>2, <1>3, <1>4

LEMMA AppSendKeeps ==
  ASSUME Segmented, FlowInv, AppSend
  PROVE  FlowInv' /\ rcv' = rcv /\ snd'.head = snd.head /\ snd'.inFastRec = snd.inFastRec
         /\ snd'.tail = snd.tail + Head(toWrite) /\ toWrite' = Tail(toWrite) /\ toWrite # <<>>
         /\ Onward
<1> DEFINE size == Head(toWrite)
           s == Send(snd, size)
<1>1. /\ toWrite \in Seq(Nat \ {0}) /\ toWrite # <<>> /\ toWrite' = Tail(toWrite) /\ Len(toWrite) <= Len(Writes)
      /\ \A i \in 1 .. Len(toWrite) : toWrite[i] = Writes[i + Written]
      /\ SenderBecomes(s, toR) /\ rcv' = rcv /\ toS' = toS
  BY DEF AppSend, FlowInv, Left
<1>2. Len(toWrite) \in Nat \ {0} /\ Len(Writes) \in Nat /\ DOMAIN Writes = 1 .. Len(Writes)
  BY <1>1, NextWrite DEF FlowInv
<1>3. size \in Nat
  BY <1>1, NextWrite DEF FlowInv
<1>4. Multiple(size)
  BY <1>1, NextWrite DEF FlowInv
<1>5. /\ Shape(snd) /\ Timed(snd) /\ (Opening(snd) \/ Open(snd)) /\ RcvShape(rcv) /\ rcv.out = <<>>
      /\ toR \in Seq(Sendable(snd.tail, snd.highTx, snd.p2_block_max))
      /\ Agree(snd, rcv) /\ Acking(snd, rcv, toS)
  BY DEF FlowInv, Sending
<1>6. /\ Shape(s) /\ Timed(s) /\ Advanced(snd, s) /\ (Opening(s) \/ Open(s))
      /\ s.head = snd.head /\ s.tail = snd.tail + size /\ s.scoreboard = snd.scoreboard
      /\ s.inFastRec = snd.inFastRec /\ (Opening(snd) => Opening(s))
      /\ Open(snd) /\ Charted(s) /\ Used(snd) /\ Window(s) => Used(s)
  BY <1>3, <1>4, <1>5, SendIs
<1> HIDE DEF s
<1>7. /\ Sending(snd', toR') /\ Keeps(s, snd', {"out"})
      /\ snd'.state = s.state /\ snd'.scoreboard = s.scoreboard
      /\ (Charted(snd') <=> Charted(s)) /\ (Window(snd') <=> Window(s)) /\ (Used(snd') <=> Used(s))
  BY <1>1, <1>5, <1>6, BecomesIs
<1>8. /\ snd'.head = snd.head /\ snd'.tail = snd.tail + size /\ snd'.scoreboard = snd.scoreboard
      /\ snd'.inFastRec = snd.inFastRec
  BY <1>6, <1>7 DEF Keeps, SenderFields
<1> HIDE DEF size
<1>9. Agree(snd', rcv')
  <2>1. snd.tail \in Nat /\ 1 .. snd.tail - 1 \subseteq 1 .. (snd.tail + size) - 1
    <3>1. snd.tail \in Nat
      BY <1>5, ShapeTypes
    <3> QED
      BY <1>3, <3>1
  <2> QED
    BY <1>1, <1>5, <1>8, <2>1 DEF Agree
<1>10. Acking(snd', rcv', toS')
  BY <1>1, <1>5, <1>8 DEF Acking
<1>11. Left'
  <2>1. /\ toWrite' \in Seq(Nat \ {0}) /\ Len(toWrite') = Len(toWrite) - 1
        /\ \A i \in 1 .. Len(toWrite') : toWrite'[i] = toWrite[i + 1]
    BY <1>1, HeadTailProperties
  <2>2. Len(toWrite') <= Len(Writes) /\ Written' = Written + 1
    BY <1>1, <1>2, <2>1 DEF Written
  <2>3. ASSUME NEW i \in 1 .. Len(toWrite') PROVE toWrite'[i] = Writes[i + Written']
    <3>1. i + 1 \in 1 .. Len(toWrite) /\ i \in Nat
      BY <1>2, <2>1
    <3>2. toWrite'[i] = Writes[(i + 1) + Written]
      BY <1>1, <2>1, <3>1
    <3>3. (i + 1) + Written = i + Written'
      BY <1>2, <2>2, <3>1 DEF Written
    <3> QED
      BY <3>2, <3>3
  <2> QED
    BY <2>1, <2>2, <2>3 DEF Left
<1>12. FlowInv'
  BY <1>1, <1>5, <1>7, <1>9, <1>10, <1>11 DEF FlowInv
<1>13. Onward
  <2>1. CASE Opening(snd)
    <3>1. snd'.state # "ESTABLISHED"
      BY <1>6, <1>7, <2>1 DEF Opening
    <3> QED
      BY <3>1 DEF Onward, Mapped, InUse
  <2>2. CASE Open(snd)
    <3>1. snd.state = "ESTABLISHED"
      BY <2>2 DEF Open
    <3> QED
      BY <1>6, <1>7, <2>2, <3>1 DEF Onward, Mapped, InUse, Chart
  <2> QED
    BY <1>5, <2>1, <2>2
<1> QED
  BY <1>1, <1>8, <1>12, <1>13 DEF size

LEMMA SynAckArrivesKeeps ==
  ASSUME FlowInv, SynAckArrives
  PROVE  /\ FlowInv' /\ rcv' = rcv /\ snd'.head = snd.head /\ snd'.tail = snd.tail /\ toWrite' = toWrite
         /\ Onward
<1> DEFINE s == ProcessSynSent(snd)
<1>1. /\ Shape(snd) /\ Timed(snd) /\ (Opening(snd) \/ Open(snd)) /\ RcvShape(rcv) /\ rcv.out = <<>>
      /\ toR \in Seq(Sendable(snd.tail, snd.highTx, snd.p2_block_max))
      /\ Agree(snd, rcv) /\ Acking(snd, rcv, toS)
  BY DEF FlowInv, Sending
<1>2. Opening(snd) /\ SenderBecomes(s, toR) /\ toS' = <<>> /\ rcv' = rcv /\ toWrite' = toWrite
  BY <1>1 DEF SynAckArrives, Open
<1>3. /\ Shape(s) /\ Timed(s) /\ Advanced(snd, s) /\ (Opening(s) \/ Open(s))
      /\ s.head = snd.head /\ s.tail = snd.tail /\ Marks(s.scoreboard) = {}
      /\ Strides(1, FlowSize - 1) \subseteq s.scoreboard.known
      /\ Charted(s) /\ Window(s) => Used(s)
  BY <1>1, <1>2, ProcessSynSentIs
<1> HIDE DEF s
<1>4. /\ Sending(snd', toR') /\ Keeps(s, snd', {"out"})
      /\ snd'.state = s.state /\ snd'.scoreboard = s.scoreboard
      /\ (Charted(snd') <=> Charted(s)) /\ (Window(snd') <=> Window(s)) /\ (Used(snd') <=> Used(s))
  BY <1>1, <1>2, <1>3, BecomesIs
<1>5. snd'.head = snd.head /\ snd'.tail = snd.tail /\ Marks(snd'.scoreboard) = {}
  BY <1>3, <1>4 DEF Keeps, SenderFields
<1>6. Agree(snd', rcv')
  BY <1>1, <1>2, <1>5 DEF Agree
<1>7. Acking(snd', rcv', toS')
  <2>1. <<>> \in Seq(Acks(Receiver!Arrived(rcv.buffer), rcv.buffer.next))
    OBVIOUS
  <2>2. Fresh(Marks(snd'.scoreboard), <<>>)
    BY DEF Fresh
  <2> QED
    BY <1>2, <2>1, <2>2 DEF Acking
<1>8. Left'
  BY <1>2 DEF FlowInv, Left, Written
<1>9. Onward
  BY <1>3, <1>4 DEF Onward, Mapped, InUse, Chart
<1> QED
  BY <1>1, <1>2, <1>4, <1>5, <1>6, <1>7, <1>8, <1>9 DEF FlowInv

LEMMA SegmentArrivesKeeps ==
  ASSUME FlowInv, SegmentArrives
  PROVE  /\ FlowInv' /\ snd' = snd /\ toWrite' = toWrite
         /\ rcv.buffer.next <= rcv'.buffer.next /\ rcv'.read \in {rcv.read, rcv'.buffer.next}
         /\ rcv'.buffer.next = rcv.buffer.next => rcv'.read = rcv.read
<1>1. /\ Shape(snd) /\ RcvShape(rcv) /\ rcv.out = <<>> /\ Sending(snd, toR)
      /\ toR \in Seq(Sendable(snd.tail, snd.highTx, snd.p2_block_max))
      /\ Agree(snd, rcv) /\ Acking(snd, rcv, toS)
  BY DEF FlowInv, Sending
<1>2. PICK i \in Deliverable(toR) :
        LET e == Receiver!DoForwardUp(rcv, toR[i])
        IN rcv' = [e EXCEPT !.out = <<>>] /\ toR' = RemoveAt(toR, i) /\ toS' = toS \o e.out
  BY DEF SegmentArrives
<1>3. snd' = snd /\ toWrite' = toWrite
  BY DEF SegmentArrives
<1> DEFINE m == toR[i]
           e == Receiver!DoForwardUp(rcv, m)
           bytes == m.seq .. (m.seq + m.len) - 1
           A == Receiver!Arrived(rcv.buffer)
           B == Receiver!Arrived(e.buffer)
<1>4. i \in DOMAIN toR
  BY DEF Deliverable
<1>5. /\ OnGrid(m.seq) /\ m.len \in {0, MSS} /\ m.prio \in Nat /\ m.seq + m.len <= snd.tail
      /\ m.seq \in Nat /\ m.seq > 0 /\ m.len \in Nat
  <2>1. m \in Sendable(snd.tail, snd.highTx, snd.p2_block_max)
    BY <1>1, <1>4
  <2>2. m \in Segs /\ Goes(m, snd.tail, snd.highTx, snd.p2_block_max)
    BY <2>1 DEF Sendable
  <2> HIDE DEF m
  <2> QED
    BY <2>2, SegTypes, GridNat DEF Goes
<1>6. Received(rcv, e, bytes)
  BY <1>1, <1>5, DoForwardUpIs
<1>7. rcv' = [e EXCEPT !.out = <<>>] /\ toS' = toS \o e.out
  BY <1>2
<1> HIDE DEF e, m
<1>8. /\ RcvShape(e) /\ e.out \in Seq(Replies(B, e.buffer.next))
      /\ rcv.buffer.next <= e.buffer.next /\ A \subseteq B /\ B \subseteq A \cup bytes
      /\ e.read \in {rcv.read, e.buffer.next} /\ (e.buffer.next = rcv.buffer.next => e.read = rcv.read)
  BY <1>6 DEF Received
<1>9. DOMAIN e = ReceiverFields
  BY <1>8 DEF RcvShape
<1> DEFINE r == rcv'
<1>10. /\ DOMAIN r = ReceiverFields /\ r.state = e.state /\ r.buffer = e.buffer /\ r.read = e.read
       /\ r.sackstack = e.sackstack /\ r.out = <<>>
  BY <1>7, <1>9 DEF ReceiverFields
<1>11. RcvShape(r)
  <2> HIDE DEF r
  <2> QED
    BY <1>8, <1>10 DEF RcvShape
<1>12. bytes \subseteq 1 .. snd.tail - 1
  <2>1. snd.tail \in Nat
    BY <1>1, ShapeTypes
  <2> QED
    BY <1>5, <2>1
<1>13. /\ rcv.buffer.next \in Nat /\ e.buffer.next \in Nat /\ OnGrid(e.buffer.next)
       /\ e.buffer.next \notin B
  BY <1>1, <1>8, ReceiverTypes
<1>14. Agree(snd, r)
  <2>1. B \subseteq 1 .. snd.tail - 1
    BY <1>1, <1>8, <1>12 DEF Agree
  <2>2. snd.head <= e.buffer.next
    <3>1. snd.head \in Nat /\ snd.head <= rcv.buffer.next
      BY <1>1, ShapeTypes DEF Agree
    <3> QED
      BY <1>8, <1>13, <3>1
  <2>3. \A t \in Marks(snd.scoreboard) : Seg(t) \subseteq B
    BY <1>1, <1>8 DEF Agree
  <2> HIDE DEF r, B
  <2> QED
    BY <1>10, <2>1, <2>2, <2>3 DEF Agree, B
<1>15. Acking(snd, r, toS')
  <2>1. Marks(snd.scoreboard) \subseteq B
    <3>1. ASSUME NEW t \in Marks(snd.scoreboard) PROVE t \in Seg(t) /\ Seg(t) \subseteq A
      <4>1. t \in Nat /\ MSS \in Nat \ {0}
        BY <1>1, GridNat, MSSAssumption DEF Shape, BoardOK, Board
      <4> QED
        BY <1>1, <4>1 DEF Seg, Agree
    <3> QED
      BY <1>8, <3>1
  <2>2. toS \in Seq(Acks(A, rcv.buffer.next)) /\ Fresh(Marks(snd.scoreboard), toS)
    BY <1>1 DEF Acking
  <2> HIDE DEF A, B
  <2>3. /\ toS \o e.out \in Seq(Acks(B, e.buffer.next))
        /\ Fresh(Marks(snd.scoreboard), toS \o e.out)
    BY <1>8, <1>13, <2>1, <2>2, FreshAppend
  <2> HIDE DEF r
  <2> QED
    BY <1>7, <1>10, <2>3 DEF Acking, B
<1>16. Sending(snd, toR')
  <2>1. toR' \in Seq(Sendable(snd.tail, snd.highTx, snd.p2_block_max))
    BY <1>1, <1>2, <1>4, RemoveAtIs
  <2> QED
    BY <1>1, <2>1 DEF Sending
<1>17. Left'
  BY <1>3 DEF FlowInv, Left, Written
<1>18. FlowInv'
  BY <1>3, <1>10, <1>11, <1>14, <1>15, <1>16, <1>17 DEF FlowInv
<1> QED
  BY <1>3, <1>8, <1>10, <1>18

LEMMA AckFacts ==
  ASSUME FlowInv, NEW i \in Deliverable(toS)
  PROVE  LET m == toS[i]
             next == Marks(UpdateScoreBoard(snd.scoreboard, m.ack, m.sack))
         IN /\ i \in DOMAIN toS /\ OnGrid(m.ack) /\ m.ack <= snd.tail /\ m.ack <= rcv.buffer.next /\ m.prio \in Nat
            /\ \A k \in DOMAIN m.sack : OnGrid(m.sack[k][1]) /\ OnGrid(m.sack[k][2]) /\ m.sack[k][2] <= snd.tail
            /\ m.prio = 0 => m.ack \notin next
            /\ Fresh(next, RemoveAt(toS, i))
            /\ \A t \in next : Seg(t) \subseteq Receiver!Arrived(rcv.buffer)
<1> DEFINE m == toS[i]
           next == Marks(UpdateScoreBoard(snd.scoreboard, m.ack, m.sack))
           A == Receiver!Arrived(rcv.buffer)
           n == rcv.buffer.next
<1>1. /\ Shape(snd) /\ RcvShape(rcv) /\ Agree(snd, rcv) /\ Acking(snd, rcv, toS)
      /\ n \in Nat /\ n > 0 /\ snd.tail \in Nat /\ n <= snd.tail /\ MSS \in Nat \ {0}
      /\ BoardOK(snd.scoreboard) /\ A \subseteq 1 .. snd.tail - 1
      /\ \A t \in Marks(snd.scoreboard) : Seg(t) \subseteq A
  BY ReceiverTypes, ShapeTypes, NextWritten DEF FlowInv, Sending, Shape, Agree
<1>2. toS \in Seq(Acks(A, n)) /\ Fresh(Marks(snd.scoreboard), toS)
  BY <1>1 DEF Acking
<1>3. i \in DOMAIN toS
  BY DEF Deliverable
<1>4. m \in Acks(A, n)
  BY <1>2, <1>3
<1>5. OnGrid(m.ack) /\ m.ack \in Nat /\ m.ack <= n /\ m.prio \in Nat /\ m.sack \in Seq(TrueBlocks(A))
  BY <1>4 DEF Acks
<1>6. ASSUME NEW k \in DOMAIN m.sack
      PROVE  /\ OnGrid(m.sack[k][1]) /\ OnGrid(m.sack[k][2]) /\ m.sack[k][1] \in Nat /\ m.sack[k][2] \in Nat
             /\ m.sack[k][2] <= snd.tail /\ m.sack[k][1] .. m.sack[k][2] - 1 \subseteq A
  <2> DEFINE x == m.sack[k]
  <2>1. x \in TrueBlocks(A)
    BY <1>5
  <2> HIDE DEF x
  <2>2. /\ OnGrid(x[1]) /\ OnGrid(x[2]) /\ x[1] \in Nat /\ x[2] \in Nat
        /\ x[1] < x[2] /\ x[1] .. x[2] - 1 \subseteq A
    BY <2>1, GridNat DEF TrueBlocks
  <2>3. x[2] - 1 \in A
    <3>1. x[2] - 1 \in x[1] .. x[2] - 1
      BY <2>2
    <3> QED
      BY <2>2, <3>1
  <2>4. x[2] <= snd.tail
    <3>1. x[2] - 1 \in 1 .. snd.tail - 1
      BY <1>1, <2>3
    <3> QED
      BY <1>1, <2>2, <3>1
  <2> QED
    BY <2>2, <2>4 DEF x
<1> HIDE DEF m
<1>7. /\ BoardOK(UpdateScoreBoard(snd.scoreboard, m.ack, m.sack))
      /\ \A t \in next : \/ t \in Marks(snd.scoreboard) \/ t + MSS <= m.ack
                         \/ \E k \in DOMAIN m.sack : m.sack[k][1] <= t /\ t + MSS <= m.sack[k][2]
  BY <1>1, <1>5, <1>6, UpdateMarks
<1>8. \A t \in next : t \in Nat /\ t > 0
  BY <1>7, GridNat DEF BoardOK, Board
<1> HIDE DEF next
<1>9. \A t \in next :
        \/ t \in Marks(snd.scoreboard)
        \/ t \in Nat /\ t + MSS <= m.ack
        \/ \E k \in DOMAIN m.sack : InBlock(t, m.sack[k])
  <2>1. ASSUME NEW t \in next, NEW k \in DOMAIN m.sack, m.sack[k][1] <= t, t + MSS <= m.sack[k][2]
        PROVE  InBlock(t, m.sack[k])
    <3>1. t \in m.sack[k][1] .. m.sack[k][2] - 1
      BY <1>1, <1>6, <1>8, <2>1
    <3> QED
      BY <3>1 DEF InBlock
  <2> QED
    BY <1>7, <1>8, <2>1
<1>10. (m.prio = 0 => m.ack \notin next) /\ Fresh(next, RemoveAt(toS, i))
  BY <1>1, <1>2, <1>9, FreshAfter DEF m
<1>11. ASSUME NEW t \in next PROVE Seg(t) \subseteq A
  <2>1. CASE t \in Marks(snd.scoreboard)
    BY <1>1, <2>1
  <2>2. CASE t + MSS <= m.ack
    <3>1. Seg(t) \subseteq 1 .. n - 1
      BY <1>1, <1>5, <1>8, <2>2 DEF Seg
    <3> QED
      BY <3>1 DEF Receiver!Arrived
  <2>3. CASE \E k \in DOMAIN m.sack : m.sack[k][1] <= t /\ t + MSS <= m.sack[k][2]
    <3>1. PICK k \in DOMAIN m.sack : m.sack[k][1] <= t /\ t + MSS <= m.sack[k][2]
      BY <2>3
    <3>2. Seg(t) \subseteq m.sack[k][1] .. m.sack[k][2] - 1
      BY <1>1, <1>6, <1>8, <3>1 DEF Seg
    <3> QED
      BY <1>6, <3>2
  <2> QED
    BY <1>7, <2>1, <2>2, <2>3
<1>12. m.ack <= snd.tail
  BY <1>1, <1>5
<1> QED
  BY <1>3, <1>5, <1>6, <1>10, <1>11, <1>12 DEF m, next

-----------------------------------------------------------------------------
\* Acknowledgements, timeouts and losses.

\* An acknowledgement, whatever it flushes, frees at most what has arrived.
LEMMA AckArrivesKeeps ==
  ASSUME FlowInv, AckArrives
  PROVE  /\ FlowInv' /\ rcv' = rcv /\ snd'.tail = snd.tail /\ toWrite' = toWrite
         /\ snd.head <= snd'.head /\ snd'.head <= rcv.buffer.next
         /\ Onward
<1>1. /\ Shape(snd) /\ Timed(snd) /\ (Opening(snd) \/ Open(snd)) /\ RcvShape(rcv) /\ rcv.out = <<>>
      /\ toR \in Seq(Sendable(snd.tail, snd.highTx, snd.p2_block_max))
      /\ Agree(snd, rcv) /\ Acking(snd, rcv, toS)
  BY DEF FlowInv, Sending
<1>2. Open(snd) /\ rcv' = rcv /\ toWrite' = toWrite
  BY <1>1 DEF AckArrives, Opening
<1>3. PICK i \in Deliverable(toS) :
        /\ toS' = RemoveAt(toS, i)
        /\ IF Flushes(snd, toS[i])
           THEN \E F \in Flushable(toR) : SenderBecomes(ReceivedAck(snd, toS[i]), Keep(toR, F))
           ELSE SenderBecomes(ReceivedAck(snd, toS[i]), toR)
  BY DEF AckArrives
<1> DEFINE m == toS[i]
           s == ReceivedAck(snd, m)
           next == Marks(UpdateScoreBoard(snd.scoreboard, m.ack, m.sack))
<1>4. /\ i \in DOMAIN toS /\ OnGrid(m.ack) /\ m.ack <= snd.tail /\ m.ack <= rcv.buffer.next /\ m.prio \in Nat
      /\ \A k \in DOMAIN m.sack : OnGrid(m.sack[k][1]) /\ OnGrid(m.sack[k][2]) /\ m.sack[k][2] <= snd.tail
      /\ m.prio = 0 => m.ack \notin next
      /\ Fresh(next, RemoveAt(toS, i))
      /\ \A t \in next : Seg(t) \subseteq Receiver!Arrived(rcv.buffer)
  BY AckFacts
<1> HIDE DEF m
<1>5. /\ Shape(s) /\ Open(s) /\ Timed(s) /\ Advanced(snd, s)
      /\ s.tail = snd.tail /\ s.head \in {snd.head, m.ack} /\ snd.head <= s.head
      /\ s.scoreboard = UpdateScoreBoard(snd.scoreboard, m.ack, m.sack)
      /\ Charted(snd) /\ Used(snd) /\ Window(s) => Used(s)
  BY <1>1, <1>2, <1>4, ReceivedAckIs, ProceedsIs
<1> HIDE DEF s
<1>6. \E rest \in Seq(Sendable(snd.tail, snd.highTx, snd.p2_block_max)) : SenderBecomes(s, rest)
  <2> DEFINE S == Sendable(snd.tail, snd.highTx, snd.p2_block_max)
  <2>1. toR \in Seq(S)
    BY <1>1
  <2> HIDE DEF S
  <2>2. CASE Flushes(snd, m)
    <3>1. PICK F \in Flushable(toR) : SenderBecomes(s, Keep(toR, F))
      BY <1>3, <2>2 DEF m, s
    <3>2. DOMAIN toR \ F \in SUBSET DOMAIN toR
      OBVIOUS
    <3>3. Keep(toR, F) \in Seq(S)
      BY <2>1, <3>2, ChosenType DEF Keep, Chosen
    <3> QED
      BY <3>1, <3>3 DEF S
  <2>3. CASE ~Flushes(snd, m)
    <3>1. SenderBecomes(s, toR)
      BY <1>3, <2>3 DEF m, s
    <3> QED
      BY <2>1, <3>1 DEF S
  <2> QED
    BY <2>2, <2>3
<1>7. /\ Sending(snd', toR') /\ Keeps(s, snd', {"out"})
      /\ snd'.state = s.state /\ snd'.scoreboard = s.scoreboard
      /\ (Charted(snd') <=> Charted(s)) /\ (Window(snd') <=> Window(s)) /\ (Used(snd') <=> Used(s))
  BY <1>1, <1>5, <1>6, BecomesIs
<1>8. snd'.head = s.head /\ snd'.tail = s.tail /\ snd'.scoreboard = s.scoreboard
  BY <1>7 DEF Keeps, SenderFields
<1>9. Agree(snd', rcv')
  <2>1. s.head <= rcv.buffer.next
    BY <1>1, <1>4, <1>5 DEF Agree
  <2> QED
    BY <1>1, <1>2, <1>4, <1>5, <1>8, <2>1 DEF Agree
<1>10. Acking(snd', rcv', toS')
  <2> DEFINE S == Acks(Receiver!Arrived(rcv.buffer), rcv.buffer.next)
  <2>1. toS \in Seq(S)
    BY <1>1 DEF Acking
  <2> HIDE DEF S
  <2>2. toS' \in Seq(S)
    BY <1>3, <1>4, <2>1, RemoveAtIs
  <2>3. Fresh(Marks(snd'.scoreboard), toS')
    BY <1>3, <1>4, <1>5, <1>8
  <2> QED
    BY <1>2, <2>2, <2>3 DEF Acking, S
<1>11. Left'
  BY <1>2 DEF FlowInv, Left, Written
<1>12. FlowInv'
  BY <1>1, <1>2, <1>7, <1>9, <1>10, <1>11 DEF FlowInv
<1>13. s.head <= rcv.buffer.next
  BY <1>1, <1>4, <1>5 DEF Agree
<1>14. Onward
  <2>1. snd.state = "ESTABLISHED" /\ snd.scoreboard.known \subseteq s.scoreboard.known
    BY <1>2, <1>5 DEF Open, UpdateScoreBoard
  <2> QED
    BY <1>5, <1>7, <2>1 DEF Onward, Mapped, InUse, Chart
<1> QED
  BY <1>2, <1>5, <1>8, <1>12, <1>13, <1>14

\* Fewer marks leave the acknowledgements as fresh as they were.
LEMMA FewerMarks ==
  ASSUME NEW marks, NEW fewer \in SUBSET marks, NEW q, Fresh(marks, q)
  PROVE  Fresh(fewer, q)
BY DEF Fresh

LEMMA TimeoutKeeps ==
  ASSUME FlowInv, Timeout
  PROVE  /\ FlowInv' /\ rcv' = rcv /\ snd'.tail = snd.tail /\ snd'.head = snd.head /\ toWrite' = toWrite
         /\ Onward
<1> DEFINE s == ReTxTimeout(snd)
<1>1. /\ Shape(snd) /\ Timed(snd) /\ (Opening(snd) \/ Open(snd)) /\ RcvShape(rcv) /\ rcv.out = <<>>
      /\ toR \in Seq(Sendable(snd.tail, snd.highTx, snd.p2_block_max))
      /\ Agree(snd, rcv) /\ Acking(snd, rcv, toS)
  BY DEF FlowInv, Sending
<1>2. Open(snd) /\ rcv' = rcv /\ toWrite' = toWrite /\ toS' = toS /\ SenderBecomes(s, toR)
  BY <1>1 DEF Timeout, Opening
<1>3. /\ Shape(s) /\ Open(s) /\ Timed(s) /\ Advanced(snd, s)
      /\ s.head = snd.head /\ s.tail = snd.tail /\ Marks(s.scoreboard) \subseteq Marks(snd.scoreboard)
      /\ s.scoreboard.known = snd.scoreboard.known /\ (Used(snd) => Used(s))
  BY <1>1, <1>2, ReTxTimeoutIs, ProceedsIs
<1> HIDE DEF s
<1>4. /\ Sending(snd', toR') /\ Keeps(s, snd', {"out"})
      /\ snd'.state = s.state /\ snd'.scoreboard = s.scoreboard
      /\ (Charted(snd') <=> Charted(s)) /\ (Window(snd') <=> Window(s)) /\ (Used(snd') <=> Used(s))
  BY <1>1, <1>2, <1>3, BecomesIs
<1>5. snd'.head = s.head /\ snd'.tail = s.tail /\ snd'.scoreboard = s.scoreboard
  BY <1>4 DEF Keeps, SenderFields
<1>6. Agree(snd', rcv')
  BY <1>1, <1>2, <1>3, <1>5 DEF Agree
<1>7. Acking(snd', rcv', toS')
  <2>1. Fresh(Marks(snd'.scoreboard), toS)
    BY <1>1, <1>3, <1>5, FewerMarks DEF Acking
  <2> QED
    BY <1>1, <1>2, <2>1 DEF Acking
<1>8. Left'
  BY <1>2 DEF FlowInv, Left, Written
<1>9. Onward
  <2>1. snd.state = "ESTABLISHED"
    BY <1>2 DEF Open
  <2> QED
    BY <1>3, <1>4, <2>1 DEF Onward, Mapped, InUse, Chart
<1> QED
  BY <1>1, <1>2, <1>3, <1>4, <1>5, <1>6, <1>7, <1>8, <1>9 DEF FlowInv

LEMMA LoseSegmentKeeps ==
  ASSUME FlowInv, LoseSegment
  PROVE  FlowInv' /\ rcv' = rcv /\ snd' = snd /\ toWrite' = toWrite
<1>1. snd' = snd /\ rcv' = rcv /\ toS' = toS /\ toWrite' = toWrite
      /\ \E i \in DOMAIN toR : toR' = RemoveAt(toR, i)
  BY DEF LoseSegment
<1>2. toR' \in Seq(Sendable(snd.tail, snd.highTx, snd.p2_block_max))
  BY <1>1, RemoveAtIs DEF FlowInv, Sending
<1>3. Sending(snd', toR')
  BY <1>1, <1>2 DEF FlowInv, Sending
<1> QED
  BY <1>1, <1>3 DEF FlowInv, Left, Written, Agree, Acking

LEMMA LoseAckKeeps ==
  ASSUME FlowInv, LoseAck
  PROVE  FlowInv' /\ rcv' = rcv /\ snd' = snd /\ toWrite' = toWrite
<1>1. PICK i \in DOMAIN toS : toS' = RemoveAt(toS, i)
  BY DEF LoseAck
<1>2. snd' = snd /\ rcv' = rcv /\ toR' = toR /\ toWrite' = toWrite
  BY DEF LoseAck
<1> DEFINE S == Acks(Receiver!Arrived(rcv.buffer), rcv.buffer.next)
<1>3. toS \in Seq(S) /\ Fresh(Marks(snd.scoreboard), toS)
  BY DEF FlowInv, Acking
<1> HIDE DEF S
<1>4. toS' \in Seq(S) /\ Fresh(Marks(snd.scoreboard), toS')
  BY <1>1, <1>3, RemoveAtIs, FreshRemove
<1>5. Acking(snd', rcv', toS')
  BY <1>2, <1>4 DEF Acking, S
<1> QED
  BY <1>2, <1>5 DEF FlowInv, Left, Written, Agree

LEMMA StaysKeeps ==
  ASSUME FlowInv, UNCHANGED vars
  PROVE  FlowInv' /\ rcv' = rcv /\ snd' = snd /\ toWrite' = toWrite
BY DEF vars, FlowInv, Sending, Left, Written, Agree, Acking

LEMMA FlowStep ==
  ASSUME Segmented, FlowInv, [Next]_vars
  PROVE  FlowInv' /\ Onward
<1>1. snd' = snd => Onward
  BY DEF Onward, Mapped, InUse
<1> QED
  BY <1>1, AppSendKeeps, SynAckArrivesKeeps, SegmentArrivesKeeps, AckArrivesKeeps, TimeoutKeeps, LoseSegmentKeeps,
     LoseAckKeeps, StaysKeeps DEF Next

LEMMA FlowInit == Init => FlowInv
<1> SUFFICES ASSUME Init PROVE FlowInv
  OBVIOUS
<1>1. MSS \in Nat \ {0} /\ Receiver!EmptyBuffer = [next |-> 1, frags |-> {}, fin |-> 0]
  BY MSSAssumption DEF Receiver!EmptyBuffer
<1>2. OnGrid(1) /\ Multiple(0)
  BY <1>1, SMT DEF OnGrid, Multiple
<1>3. /\ snd = SynSent /\ rcv = Receiver!SynRcvd /\ toR = <<>> /\ toS = <<SynAck>> /\ toWrite = Writes
  BY DEF Init
<1>4. Marks(EmptyBoard) = {} /\ BoardOK(EmptyBoard)
  BY DEF Marks, BoardOK, Board, EmptyBoard
<1>5. /\ DOMAIN snd = SenderFields /\ snd.state = "SYN_SENT" /\ snd.scoreboard = EmptyBoard
      /\ snd.head = 1 /\ snd.tail = 1 /\ snd.nextTx = 0 /\ snd.highTx = 0 /\ snd.recover = 0
      /\ snd.inFastRec = FALSE /\ snd.p2_block_max = 0 /\ snd.p2_block_bytes_sent = 0
      /\ snd.retx = Off /\ snd.out = <<>>
  BY <1>3 DEF SynSent, SenderFields
<1>6. Shape(snd)
  <2>1. <<>> \in Seq(Sendable(1, 0, 0)) /\ \A t \in Marks(EmptyBoard) : t + MSS <= 1
    BY <1>4
  <2>2. snd.out \in Seq(Sendable(snd.tail, snd.highTx, snd.p2_block_max))
    BY <1>5, <2>1
  <2>3. BoardOK(snd.scoreboard) /\ \A t \in Marks(snd.scoreboard) : t + MSS <= snd.tail
    BY <1>4, <1>5
  <2>4. OnGrid(snd.head) /\ OnGrid(snd.tail) /\ snd.head <= snd.tail
    BY <1>2, <1>5
  <2>5. Multiple(snd.p2_block_bytes_sent) /\ snd.p2_block_bytes_sent >= 0
    BY <1>2, <1>5
  <2>6. snd.highTx \in 0 .. snd.tail /\ Edge(snd.highTx) /\ snd.p2_block_max \in 0 .. snd.tail
    BY <1>5 DEF Edge
  <2>7. snd.inFastRec \in BOOLEAN /\ snd.recover \in Nat /\ ~snd.inFastRec
    <3>1. snd.inFastRec = FALSE /\ snd.recover = 0
      BY <1>5
    <3>2. snd.recover \in Nat
      BY <3>1
    <3>3. snd.inFastRec \in BOOLEAN /\ ~snd.inFastRec
      BY <3>1, Zenon
    <3> QED
      BY <3>2, <3>3
  <2> QED
    BY <1>5, <2>2, <2>3, <2>4, <2>5, <2>6, <2>7 DEF Shape
<1>7. Sending(snd, toR)
  <2>1. Timed(snd) /\ Opening(snd)
    BY <1>4, <1>5 DEF Timed, Opening
  <2> QED
    BY <1>3, <1>5, <1>6, <2>1 DEF Sending
<1>8. /\ DOMAIN rcv = ReceiverFields /\ rcv.state = "SYN_RCVD" /\ rcv.buffer = Receiver!EmptyBuffer
      /\ rcv.read = 1 /\ rcv.sackstack = <<>> /\ rcv.out = <<>>
  BY <1>3 DEF Receiver!SynRcvd, ReceiverFields
<1>9. BufferOK(rcv.buffer) /\ rcv.buffer.next = 1 /\ Receiver!Arrived(rcv.buffer) = {}
  <2>1. Receiver!Holds({}) = {}
    BY DEF Receiver!Holds
  <2>2. IsFiniteSet({})
    BY FS_EmptySet
  <2> QED
    BY <1>1, <1>2, <1>8, <2>1, <2>2 DEF BufferOK, Receiver!Arrived
<1>10. RcvShape(rcv)
  BY <1>8, <1>9 DEF RcvShape
<1>11. Agree(snd, rcv)
  BY <1>4, <1>5, <1>9 DEF Agree
<1>12. Acking(snd, rcv, toS)
  <2>1. SynAck \in Acks({}, 1) /\ SynAck.ack = 1 /\ SynAck.sack = <<>>
    <3>1. <<>> \in Seq(TrueBlocks({}))
      OBVIOUS
    <3> QED
      BY <1>2, <3>1 DEF SynAck, Acks
  <2>2. toS \in Seq(Acks({}, 1)) /\ DOMAIN toS = {1} /\ toS[1] = SynAck
    <3> HIDE DEF Acks, SynAck
    <3> QED
      BY <1>3, <2>1
  <2>3. Fresh(Marks(snd.scoreboard), toS)
    BY <1>4, <1>5, <2>1, <2>2 DEF Fresh
  <2> QED
    BY <1>9, <2>2, <2>3 DEF Acking
<1>13. Left
  <2>1. Writes \in Seq(Nat \ {0}) /\ Len(Writes) \in Nat
    BY WritesAssumption
  <2>2. Written = 0
    BY <1>3, <2>1 DEF Written
  <2> QED
    BY <1>3, <2>1, <2>2 DEF Left
<1> QED
  BY <1>7, <1>8, <1>10, <1>11, <1>12, <1>13 DEF FlowInv

-----------------------------------------------------------------------------
\* The theorems.

\* What was written is what is no longer to be written.
Counts(total) ==
  /\ total \in [0 .. Len(Writes) -> 0 .. FlowSize] /\ total[0] = 0
  /\ \A i \in DOMAIN Writes : total[i] = total[i - 1] + Writes[i]

LEMMA WrittenIs ==
  ASSUME FlowInv, NEW total, Counts(total), snd.tail = 1 + total[Written]
  PROVE  /\ Written \in 0 .. Len(Writes) /\ total[Written] \in 0 .. FlowSize
         /\ snd.tail <= FlowSize + 1 /\ FlowSize \in Nat
<1>1. Writes \in Seq(Nat \ {0}) /\ FlowSize \in Nat
  BY WritesAssumption, SenderAssumption
<1>2. Len(toWrite) \in Nat /\ Len(toWrite) <= Len(Writes) /\ Len(Writes) \in Nat
  BY <1>1 DEF FlowInv, Left
<1>3. Written \in 0 .. Len(Writes)
  BY <1>2 DEF Written
<1>4. total[Written] \in 0 .. FlowSize
  BY <1>3 DEF Counts
<1> QED
  BY <1>1, <1>3, <1>4

LEMMA TailStep ==
  ASSUME Segmented, FlowInv, [Next]_vars, NEW total, Counts(total), snd.tail = 1 + total[Written]
  PROVE  snd'.tail = 1 + total[Written']
<1>1. toWrite' = toWrite /\ snd'.tail = snd.tail => snd'.tail = 1 + total[Written']
  BY DEF Written
<1>2. CASE AppSend
  <2>1. /\ snd'.tail = snd.tail + Head(toWrite) /\ toWrite' = Tail(toWrite) /\ toWrite # <<>>
        /\ toWrite \in Seq(Nat \ {0})
    BY <1>2, AppSendKeeps DEF FlowInv, Left
  <2>2. Writes \in Seq(Nat \ {0}) /\ Len(Writes) \in Nat /\ Len(toWrite) \in Nat \ {0}
        /\ Len(toWrite') = Len(toWrite) - 1 /\ Head(toWrite) = toWrite[1] /\ DOMAIN Writes = 1 .. Len(Writes)
    BY <2>1, WritesAssumption, HeadTailProperties, EmptySeq, LenProperties
  <2>3. Written' = Written + 1 /\ Written \in Nat /\ Written + 1 \in DOMAIN Writes
    BY <2>2 DEF Written, FlowInv, Left
  <2>4. toWrite[1] = Writes[1 + Written]
    <3>1. 1 \in 1 .. Len(toWrite)
      BY <2>2
    <3> QED
      BY <3>1 DEF FlowInv, Left
  <2>5. 1 + Written = Written + 1 /\ (Written + 1) - 1 = Written
    BY <2>3
  <2>6. total[Written + 1] = total[Written] + Writes[Written + 1]
    BY <2>3, <2>5 DEF Counts
  <2>7. total[Written] \in Nat /\ Writes[Written + 1] \in Nat
    BY <2>2, <2>3, WrittenIs
  <2> QED
    BY <2>1, <2>2, <2>3, <2>4, <2>5, <2>6, <2>7
<1>3. CASE SynAckArrives
  BY <1>1, <1>3, SynAckArrivesKeeps
<1>4. CASE SegmentArrives
  BY <1>1, <1>4, SegmentArrivesKeeps
<1>5. CASE AckArrives
  BY <1>1, <1>5, AckArrivesKeeps
<1>6. CASE Timeout
  BY <1>1, <1>6, TimeoutKeeps
<1>7. CASE LoseSegment
  BY <1>1, <1>7, LoseSegmentKeeps
<1>8. CASE LoseAck
  BY <1>1, <1>8, LoseAckKeeps
<1>9. CASE UNCHANGED vars
  BY <1>1, <1>9 DEF vars
<1> QED
  BY <1>2, <1>3, <1>4, <1>5, <1>6, <1>7, <1>8, <1>9 DEF Next

\* Nothing is marked or reported that has not arrived.
LEMMA FlowSackTruthful == FlowInv => SackTruthful
<1> SUFFICES ASSUME FlowInv PROVE SackTruthful
  OBVIOUS
<1> DEFINE A == Receiver!Arrived(rcv.buffer)
<1>1. /\ rcv.sackstack \in Seq(TrueBlocks(A)) /\ toS \in Seq(Acks(A, rcv.buffer.next)) /\ A \subseteq 1 .. snd.tail - 1
      /\ \A t \in Marks(snd.scoreboard) : Seg(t) \subseteq A
  BY DEF FlowInv, RcvShape, Acking, Agree
<1>2. Arrived = A
  BY DEF Arrived
<1> HIDE DEF A
<1>3. Range(rcv.sackstack) \subseteq TrueBlocks(A)
  BY <1>1 DEF Range
<1>4. ASSUME NEW i \in DOMAIN toS PROVE Range(toS[i].sack) \subseteq TrueBlocks(A)
  <2>1. toS[i] \in Acks(A, rcv.buffer.next)
    BY <1>1
  <2>2. toS[i].sack \in Seq(TrueBlocks(A))
    BY <2>1 DEF Acks
  <2> QED
    BY <2>2 DEF Range
<1>5. ASSUME NEW e \in Range(rcv.sackstack) \cup UNION {Range(toS[i].sack) : i \in DOMAIN toS}
      PROVE  Bytes(e[1], e[2]) \subseteq A
  <2>1. e \in TrueBlocks(A)
    BY <1>3, <1>4
  <2> QED
    BY <2>1 DEF TrueBlocks, Bytes
<1>6. ASSUME NEW t \in snd.scoreboard.acked \cup snd.scoreboard.sacked PROVE Bytes(t, t + MSS) \subseteq A
  <2>1. t \in Marks(snd.scoreboard)
    BY DEF Marks
  <2> QED
    BY <1>1, <2>1 DEF Seg, Bytes
<1> QED
  BY <1>2, <1>5, <1>6 DEF SackTruthful

LEMMA FlowFlushIsHarmless == FlowInv => FlushIsHarmless
<1> SUFFICES ASSUME FlowInv, NEW i \in DOMAIN toS, Flushes(snd, toS[i]), NEW j \in DOMAIN toR, toR[j].prio > 0
             PROVE  toR[j].seq + toR[j].len <= rcv.buffer.next
  BY DEF FlushIsHarmless
<1>1. /\ toR \in Seq(Sendable(snd.tail, snd.highTx, snd.p2_block_max))
      /\ toS \in Seq(Acks(Receiver!Arrived(rcv.buffer), rcv.buffer.next)) /\ Shape(snd) /\ RcvShape(rcv)
  BY DEF FlowInv, Sending, Acking
<1> DEFINE m == toR[j]
           a == toS[i].ack
<1>2. m \in Sendable(snd.tail, snd.highTx, snd.p2_block_max) /\ toS[i] \in Acks(Receiver!Arrived(rcv.buffer), rcv.buffer.next)
  BY <1>1
<1>3. a \in Nat /\ a <= rcv.buffer.next
  BY <1>2 DEF Acks
<1>4. a >= snd.p2_block_max
  BY DEF Flushes
<1> HIDE DEF m, a
<1>5. m \in Segs /\ m.seq + m.len <= snd.p2_block_max
  BY <1>2 DEF Sendable, Goes, m
<1>6. m.seq + m.len \in Nat /\ snd.p2_block_max \in Nat /\ rcv.buffer.next \in Nat
  BY <1>1, <1>5, SegTypes, ShapeTypes, ReceiverTypes
<1> QED
  BY <1>3, <1>4, <1>5, <1>6 DEF m

LEMMA FlowRecoveryEnds == FlowInv => RecoveryEnds
BY DEF FlowInv, Sending, Shape, RecoveryEnds

\* No data is marked at the sender, or reported, that the receiver lacks
\* (ScoreBoard::UpdateScoreBoard, TcpRC3Sack::FillSackStack).
THEOREM MarksAreTruthful ==
  ASSUME Segmented
  PROVE  Spec => []SackTruthful
<1>1. Init => FlowInv
  BY FlowInit
<1>2. FlowInv /\ [Next]_vars => FlowInv'
  BY FlowStep
<1>3. FlowInv => SackTruthful
  BY FlowSackTruthful
<1> QED
  BY <1>1, <1>2, <1>3, PTL DEF Spec

\* FlushOutFlowPackets never takes from the device what the receiver lacks.
THEOREM FlushNeverHarms ==
  ASSUME Segmented
  PROVE  Spec => []FlushIsHarmless
<1>1. Init => FlowInv
  BY FlowInit
<1>2. FlowInv /\ [Next]_vars => FlowInv'
  BY FlowStep
<1>3. FlowInv => FlushIsHarmless
  BY FlowFlushIsHarmless
<1> QED
  BY <1>1, <1>2, <1>3, PTL DEF Spec

\* Fast recovery is only on while an ACK that ends it is owed.
THEOREM RecoveryHasAnEnd ==
  ASSUME Segmented
  PROVE  Spec => []RecoveryEnds
<1>1. Init => FlowInv
  BY FlowInit
<1>2. FlowInv /\ [Next]_vars => FlowInv'
  BY FlowStep
<1>3. FlowInv => RecoveryEnds
  BY FlowRecoveryEnds
<1> QED
  BY <1>1, <1>2, <1>3, PTL DEF Spec

LEMMA StreamInit ==
  ASSUME Init
  PROVE  Stream!Init
<1>1. snd.tail = 1 /\ snd.head = 1
  BY DEF Init, SynSent
<1>2. rcv.read = 1 /\ rcv.buffer.next = 1
  BY DEF Init, Receiver!SynRcvd, Receiver!EmptyBuffer
<1> QED
  BY <1>1, <1>2 DEF Stream!Init

LEMMA StreamStep ==
  ASSUME Segmented, FlowInv, [Next]_vars, NEW total, Counts(total), snd.tail = 1 + total[Written]
  PROVE  [Stream!Next]_(Stream!vars)
<1>0. FlowInv'
  BY FlowStep
<1>1. /\ snd.tail \in Nat /\ snd.head \in Nat /\ rcv.buffer.next \in Nat /\ rcv.read \in Nat
      /\ rcv.buffer.next <= snd.tail /\ FlowSize \in Nat
      /\ Shape(snd) /\ RcvShape(rcv)
  <2>1. Shape(snd) /\ RcvShape(rcv) /\ Agree(snd, rcv)
    BY DEF FlowInv, Sending
  <2> QED
    BY <2>1, ShapeTypes, ReceiverTypes, NextWritten, SenderAssumption
<1>2. CASE AppSend
  <2>1. /\ rcv' = rcv /\ snd'.head = snd.head /\ snd'.tail = snd.tail + Head(toWrite) /\ Head(toWrite) \in Nat \ {0}
    BY <1>2, AppSendKeeps, HeadTailProperties DEF FlowInv, Left
  <2>2. snd'.tail <= FlowSize + 1
    <3>1. snd'.tail = 1 + total[Written']
      BY TailStep
    <3>2. Written' \in 0 .. Len(Writes)
      <4>1. Len(toWrite') \in Nat /\ Len(toWrite') <= Len(Writes)
        BY <1>0 DEF FlowInv, Left
      <4>2. Len(Writes) \in Nat
        BY WritesAssumption
      <4> QED
        BY <4>1, <4>2 DEF Written
    <3>3. total[Written'] \in 0 .. FlowSize
      BY <3>2 DEF Counts
    <3> QED
      BY <1>1, <3>1, <3>3
  <2>3. snd'.tail - 1 \in (snd.tail - 1) + 1 .. FlowSize
    BY <1>1, <2>1, <2>2
  <2>4. Stream!Write
    BY <2>1, <2>3 DEF Stream!Write
  <2> QED
    BY <2>4 DEF Stream!Next
<1>3. CASE SegmentArrives
  <2>1. /\ snd' = snd /\ rcv.buffer.next <= rcv'.buffer.next /\ rcv'.read \in {rcv.read, rcv'.buffer.next}
        /\ rcv'.buffer.next = rcv.buffer.next => rcv'.read = rcv.read
    BY <1>3, SegmentArrivesKeeps
  <2>2. RcvShape(rcv') /\ Agree(snd, rcv')
    BY <1>0, <2>1 DEF FlowInv
  <2>3. rcv'.buffer.next \in Nat /\ rcv'.buffer.next <= snd.tail
    BY <1>1, <2>2, ReceiverTypes, NextWritten
  <2>4. CASE rcv'.buffer.next = rcv.buffer.next
    BY <2>1, <2>4 DEF Stream!vars
  <2>5. CASE rcv'.buffer.next # rcv.buffer.next
    <3>1. rcv'.buffer.next - 1 \in (rcv.buffer.next - 1) + 1 .. snd.tail - 1
      BY <1>1, <2>1, <2>3, <2>5
    <3>2. rcv'.read - 1 \in {rcv.read - 1, rcv'.buffer.next - 1}
      BY <2>1
    <3> QED
      BY <2>1, <3>1, <3>2 DEF Stream!Next, Stream!Receive
  <2> QED
    BY <2>4, <2>5
<1>4. CASE AckArrives
  <2>1. /\ rcv' = rcv /\ snd'.tail = snd.tail /\ snd.head <= snd'.head /\ snd'.head <= rcv.buffer.next
    BY <1>4, AckArrivesKeeps
  <2>2. snd'.head \in Nat
    BY <1>0, ShapeTypes DEF FlowInv, Sending
  <2>3. CASE snd'.head = snd.head
    BY <2>1, <2>3 DEF Stream!vars
  <2>4. CASE snd'.head # snd.head
    <3>1. snd'.head - 1 \in (snd.head - 1) + 1 .. rcv.buffer.next - 1
      BY <1>1, <2>1, <2>2, <2>4
    <3> QED
      BY <2>1, <3>1 DEF Stream!Next, Stream!Acknowledge
  <2> QED
    BY <2>3, <2>4
<1>5. rcv' = rcv /\ snd'.head = snd.head /\ snd'.tail = snd.tail => UNCHANGED Stream!vars
  BY DEF Stream!vars
<1>6. CASE SynAckArrives
  BY <1>5, <1>6, SynAckArrivesKeeps
<1>7. CASE Timeout
  BY <1>5, <1>7, TimeoutKeeps
<1>8. CASE LoseSegment
  BY <1>5, <1>8, LoseSegmentKeeps
<1>9. CASE LoseAck
  BY <1>5, <1>9, LoseAckKeeps
<1>10. CASE UNCHANGED vars
  BY <1>5, <1>10 DEF vars
<1> QED
  BY <1>2, <1>3, <1>4, <1>6, <1>7, <1>8, <1>9, <1>10 DEF Next

LEMMA TailInit ==
  ASSUME Init, NEW total, Counts(total)
  PROVE  snd.tail = 1 + total[Written]
<1>1. snd.tail = 1 /\ toWrite = Writes /\ Len(Writes) \in Nat
  BY WritesAssumption DEF Init, SynSent
<1> QED
  BY <1>1 DEF Written, Counts

\* One RC3 flow over paths that lose and reorder is a reliable byte stream:
\* what the receiving application is given is in order and was written, and
\* what the sender frees has been received.
THEOREM FlowIsAStream ==
  ASSUME Segmented, WritesFit
  PROVE  Spec => ImplementsStream
<1>1. PICK total : Counts(total)
  BY DEF WritesFit, Counts
<1> DEFINE I == FlowInv /\ snd.tail = 1 + total[Written]
<1>2. Init => I /\ Stream!Init
  BY <1>1, FlowInit, TailInit, StreamInit
<1>3. I /\ [Next]_vars => I' /\ [Stream!Next]_(Stream!vars)
  <2>1. ASSUME I, [Next]_vars PROVE FlowInv' /\ snd'.tail = 1 + total[Written'] /\ [Stream!Next]_(Stream!vars)
    BY <1>1, <2>1, FlowStep, TailStep, StreamStep
  <2> QED
    BY <2>1
<1> HIDE DEF I
<1> QED
  BY <1>2, <1>3, PTL DEF Spec, ImplementsStream, Stream!Spec

LEMMA ChartIs ==
  ASSUME MSS > 1, NEW s, Shape(s), s.tail <= FlowSize + 1, Strides(1, FlowSize - 1) \subseteq s.scoreboard.known
  PROVE  Charted(s)
<1> SUFFICES ASSUME NEW t \in 1 .. s.tail - 1, OnGrid(t)
             PROVE  t \in s.scoreboard.known
  BY DEF Charted
<1>1. s.tail \in Nat /\ OnGrid(s.tail) /\ FlowSize \in Nat /\ MSS \in Nat
  BY ShapeTypes, SenderAssumption, MSSAssumption DEF Shape
<1>2. t \in Nat /\ t < s.tail
  BY <1>1
<1>3. t + MSS <= s.tail
  BY <1>1, <1>2, GridDiff
<1>4. t \in 1 .. FlowSize - 1 /\ (t - 1) % MSS = 0
  BY <1>1, <1>2, <1>3 DEF OnGrid
<1> QED
  BY <1>4 DEF Strides, Stride

\* All that the flow keeps while the window is open.
Busy(total) == FlowInv /\ snd.tail = 1 + total[Written] /\ Mapped /\ InUse

LEMMA BusyInit ==
  ASSUME Init, NEW total, Counts(total)
  PROVE  Busy(total)
<1>1. snd.state = "SYN_SENT"
  BY DEF Init, SynSent
<1>2. Mapped /\ InUse
  BY <1>1 DEF Mapped, InUse
<1> QED
  BY <1>2, FlowInit, TailInit DEF Busy

LEMMA BusyStep ==
  ASSUME Segmented, MSS > 1, NEW total, Counts(total), Busy(total), WindowOpen', [Next]_vars
  PROVE  Busy(total)'
<1>1. FlowInv /\ snd.tail = 1 + total[Written] /\ Mapped /\ InUse
  BY DEF Busy
<1>2. FlowInv' /\ Onward /\ snd'.tail = 1 + total[Written']
  BY <1>1, FlowStep, TailStep
<1>3. Mapped'
  BY <1>1, <1>2 DEF Onward
<1>4. Shape(snd) /\ snd.tail <= FlowSize + 1
  BY <1>1, WrittenIs DEF FlowInv, Sending
<1>5. Chart
  BY <1>1, <1>4, ChartIs DEF Chart, Mapped
<1>6. Shape(snd') /\ snd'.tail <= FlowSize + 1
  <2>1. Shape(snd')
    BY <1>2 DEF FlowInv, Sending
  <2>2. Len(Writes) \in Nat /\ Len(toWrite') \in Nat /\ Len(toWrite') <= Len(Writes) /\ FlowSize \in Nat
    BY <1>2, WritesAssumption, SenderAssumption DEF FlowInv, Left
  <2>3. Written' \in 0 .. Len(Writes)
    BY <2>2 DEF Written
  <2>4. total[Written'] \in 0 .. FlowSize
    BY <2>3 DEF Counts
  <2> QED
    BY <1>2, <2>1, <2>2, <2>4
<1>7. Chart'
  <2>1. snd'.state = "ESTABLISHED" => Strides(1, FlowSize - 1) \subseteq snd'.scoreboard.known
    BY <1>3 DEF Mapped
  <2> QED
    BY <1>6, <2>1, ChartIs DEF Chart
<1>8. Window(snd')
  BY DEF WindowOpen, Window
<1>9. InUse'
  BY <1>1, <1>2, <1>5, <1>7, <1>8 DEF Onward
<1> QED
  BY <1>2, <1>3, <1>9 DEF Busy

LEMMA BusyMeans ==
  ASSUME NEW total, Busy(total)
  PROVE  NeverStuck /\ NextTxInBuffer
<1>1. Shape(snd) /\ Timed(snd) /\ (Opening(snd) \/ Open(snd)) /\ InUse
  BY DEF Busy, FlowInv, Sending
<1>2. snd.head \in Nat /\ snd.tail \in Nat /\ snd.highTx \in Nat
  BY <1>1, ShapeTypes
<1> SUFFICES ASSUME snd.state = "ESTABLISHED"
             PROVE  /\ snd.head < snd.tail => snd.retx # Off
                    /\ snd.head <= snd.nextTx /\ (snd.head <= snd.highTx \/ snd.head = snd.tail)
  BY DEF NeverStuck, NextTxInBuffer
<1>3. Open(snd) /\ Used(snd)
  BY <1>1 DEF Opening, InUse
<1> QED
  BY <1>1, <1>2, <1>3 DEF Open, Used, Timed

\* Whatever was lost, the sender does not stop with data that nothing will
\* wake it up for: TcpRC3Sack and TcpSocketBase restart m_retxEvent in time.
\* A window that has wrapped below a segment would stop it: hence WindowOpen.
THEOREM SenderIsNeverStuck ==
  ASSUME Segmented, WritesFit, MSS > 1
  PROVE  Spec /\ []WindowOpen => []NeverStuck
<1>1. PICK total : Counts(total)
  BY DEF WritesFit, Counts
<1>2. Init => Busy(total)
  BY <1>1, BusyInit
<1>3. Busy(total) /\ WindowOpen' /\ [Next]_vars => Busy(total)'
  BY <1>1, BusyStep
<1>4. Busy(total) => NeverStuck
  BY BusyMeans
<1> QED
  BY <1>2, <1>3, <1>4, PTL DEF Spec

\* m_nextTxSequence stays in the transmit buffer, and m_highTxMark too, until
\* all is acknowledged: BytesInFlight does not wrap while anything is left.
THEOREM NextTxStaysInBuffer ==
  ASSUME Segmented, WritesFit, MSS > 1
  PROVE  Spec /\ []WindowOpen => []NextTxInBuffer
<1>1. PICK total : Counts(total)
  BY DEF WritesFit, Counts
<1>2. Init => Busy(total)
  BY <1>1, BusyInit
<1>3. Busy(total) /\ WindowOpen' /\ [Next]_vars => Busy(total)'
  BY <1>1, BusyStep
<1>4. Busy(total) => NextTxInBuffer
  BY BusyMeans
<1> QED
  BY <1>2, <1>3, <1>4, PTL DEF Spec

-----------------------------------------------------------------------------
\* The sender's steps once more: what they do to the window and to the block.

\* A sequence is a sequence of its own members.
LEMMA RangeSeq ==
  ASSUME NEW S, NEW q \in Seq(S)
  PROVE  q \in Seq(Range(q))
<1>1. Len(q) \in Nat /\ DOMAIN q = 1 .. Len(q) /\ q = [i \in 1 .. Len(q) |-> q[i]]
  OBVIOUS
<1>2. \A i \in 1 .. Len(q) : q[i] \in Range(q)
  BY <1>1 DEF Range
<1> QED
  BY <1>1, <1>2

\* The application writes, or the connection opens: SendPendingData has run and
\* the low-priority loop may have, or there is no connection yet.
LEMMA WritingStep ==
  ASSUME Segmented, FlowInv, AppSend \/ SynAckArrives
  PROVE  \E s : /\ SenderBecomes(s, toR) /\ rcv' = rcv /\ Shape(s) /\ snd.tail <= s.tail
                /\ \/ Opening(snd) /\ Keeps(snd, s, {"tail"})
                   \/ \E d : Precedes(snd, d, s)
<1>1. /\ Shape(snd) /\ Timed(snd) /\ (Opening(snd) \/ Open(snd)) /\ snd.tail \in Nat
  BY ShapeTypes DEF FlowInv, Sending
<1>2. CASE AppSend
  <2> DEFINE size == Head(toWrite)
             s == Send(snd, size)
  <2>1. size \in Nat /\ Multiple(size) /\ SenderBecomes(s, toR) /\ rcv' = rcv
    BY <1>2, NextWrite DEF AppSend, FlowInv
  <2> HIDE DEF size
  <2>2. /\ Shape(s) /\ s.tail = snd.tail + size
        /\ Open(snd) => \E d : Precedes(snd, d, s)
        /\ Opening(snd) => Keeps(snd, s, {"tail"})
    BY <1>1, <2>1, SendIs
  <2> HIDE DEF s
  <2> QED
    BY <1>1, <2>1, <2>2
<1>3. CASE SynAckArrives
  <2> DEFINE s == ProcessSynSent(snd)
  <2>1. Opening(snd) /\ SenderBecomes(s, toR) /\ rcv' = rcv
    BY <1>1, <1>3 DEF SynAckArrives, Open
  <2>2. Shape(s) /\ s.tail = snd.tail /\ \E d : Precedes(snd, d, s)
    BY <1>1, <2>1, ProcessSynSentIs
  <2> HIDE DEF s
  <2> QED
    BY <1>1, <2>1, <2>2
<1> QED
  BY <1>2, <1>3

\* An acknowledgement arrives or the timer expires: the block stays.
BlockKept(s, r) ==
  /\ r.rc3_p2 = s.rc3_p2 /\ r.p2_block_max = s.p2_block_max /\ r.last_block_seq = s.last_block_seq
  /\ r.p2_block_bytes_sent = s.p2_block_bytes_sent

LEMMA WaitingStep ==
  ASSUME FlowInv, AckArrives \/ Timeout
  PROVE  \E s, rest : /\ SenderBecomes(s, rest) /\ rcv' = rcv /\ rest \in Seq(Range(toR))
                      /\ Shape(s) /\ Open(s) /\ Open(snd) /\ s.tail = snd.tail
                      /\ Proceeds(snd, s) /\ BlockKept(snd, s) /\ Paced(snd, s)
<1>1. /\ Shape(snd) /\ Timed(snd) /\ (Opening(snd) \/ Open(snd))
      /\ toR \in Seq(Sendable(snd.tail, snd.highTx, snd.p2_block_max))
  BY DEF FlowInv, Sending
<1>2. Open(snd) /\ rcv' = rcv
  BY <1>1 DEF AckArrives, Timeout, Opening
<1>3. CASE AckArrives
  <2>1. PICK i \in Deliverable(toS) :
          /\ toS' = RemoveAt(toS, i)
          /\ IF Flushes(snd, toS[i])
             THEN \E F \in Flushable(toR) : SenderBecomes(ReceivedAck(snd, toS[i]), Keep(toR, F))
             ELSE SenderBecomes(ReceivedAck(snd, toS[i]), toR)
    BY <1>3 DEF AckArrives
  <2> DEFINE m == toS[i]
             s == ReceivedAck(snd, m)
  <2>2. /\ OnGrid(m.ack) /\ m.ack <= snd.tail /\ m.prio \in Nat
        /\ \A k \in DOMAIN m.sack : OnGrid(m.sack[k][1]) /\ OnGrid(m.sack[k][2]) /\ m.sack[k][2] <= snd.tail
        /\ m.prio = 0 => m.ack \notin Marks(UpdateScoreBoard(snd.scoreboard, m.ack, m.sack))
    BY <1>3, <2>1, AckFacts
  <2> HIDE DEF m
  <2>3. /\ Shape(s) /\ Open(s) /\ Proceeds(snd, s) /\ Paced(snd, s) /\ s.tail = snd.tail
        /\ Keeps(snd, s, Recovering \cup {"scoreboard"})
    BY <1>1, <1>2, <2>2, ReceivedAckIs
  <2> HIDE DEF s
  <2>4. BlockKept(snd, s)
    BY <2>3 DEF Keeps, SenderFields, Recovering, Windowed, Acked, Sent, BlockKept
  <2>5. \E rest : SenderBecomes(s, rest) /\ rest \in Seq(Range(toR))
    <3>1. CASE Flushes(snd, m)
      <4>1. PICK F \in Flushable(toR) : SenderBecomes(s, Keep(toR, F))
        BY <2>1, <3>1 DEF m, s
      <4>2. DOMAIN toR \ F \in SUBSET DOMAIN toR
        OBVIOUS
      <4> DEFINE S == Range(toR)
      <4>3. toR \in Seq(S)
        BY <1>1, RangeSeq
      <4> HIDE DEF S
      <4>4. Keep(toR, F) \in Seq(S)
        BY <4>2, <4>3, ChosenType DEF Keep, Chosen
      <4> QED
        BY <4>1, <4>4 DEF S
    <3>2. CASE ~Flushes(snd, m)
      <4>1. SenderBecomes(s, toR)
        BY <2>1, <3>2 DEF m, s
      <4> QED
        BY <1>1, <4>1, RangeSeq
    <3> QED
      BY <3>1, <3>2
  <2> QED
    BY <1>2, <2>3, <2>4, <2>5
<1>4. CASE Timeout
  <2> DEFINE s == ReTxTimeout(snd)
  <2>1. SenderBecomes(s, toR)
    BY <1>4 DEF Timeout
  <2>2. /\ Shape(s) /\ Open(s) /\ Proceeds(snd, s) /\ Paced(snd, s) /\ s.tail = snd.tail
        /\ BlockKept(snd, s)
    BY <1>1, <1>2, ReTxTimeoutIs DEF BlockKept
  <2> HIDE DEF s
  <2>3. toR \in Seq(Range(toR))
    BY <1>1, RangeSeq
  <2> QED
    BY <1>2, <2>1, <2>2, <2>3
<1> QED
  BY <1>3, <1>4

-----------------------------------------------------------------------------
\* The congestion window, the types.

InRange(s) == Tuned(s) /\ Window(s) /\ Ticks(s.retx)

\* A step keeps the window in range for as long as it takes one more segment.
LEMMA RangeStep ==
  ASSUME Segmented, FlowInv, Ample(snd), InRange(snd), [Next]_vars
  PROVE  Tuned(snd') /\ Ticks(snd'.retx) /\ (Room(snd) => Window(snd'))
<1>1. snd.tail \in Nat /\ DOMAIN snd = SenderFields
  BY ShapeTypes DEF FlowInv, Sending, Shape
<1>2. ASSUME NEW s, NEW rest, Shape(s), SenderBecomes(s, rest), Tuned(s), Ticks(s.retx), Room(snd) => Window(s)
      PROVE  Tuned(snd') /\ Ticks(snd'.retx) /\ (Room(snd) => Window(snd'))
  <2>1. snd' = [s EXCEPT !.out = <<>>] /\ DOMAIN s = SenderFields
    BY <1>2 DEF SenderBecomes, Shape
  <2>2. /\ snd'.cWnd = s.cWnd /\ snd'.ssThresh = s.ssThresh /\ snd'.recover = s.recover
        /\ snd'.bumpedSeq = s.bumpedSeq /\ snd'.inFastRec = s.inFastRec /\ snd'.tail = s.tail /\ snd'.retx = s.retx
    BY <2>1 DEF SenderFields
  <2> QED
    BY <1>2, <2>2 DEF Tuned, Window
<1>3. CASE AppSend \/ SynAckArrives
  <2>1. PICK s : /\ SenderBecomes(s, toR) /\ Shape(s) /\ snd.tail <= s.tail
                 /\ (Opening(snd) /\ Keeps(snd, s, {"tail"})) \/ \E d : Precedes(snd, d, s)
    BY <1>3, WritingStep
  <2>2. /\ s.cWnd = snd.cWnd /\ s.ssThresh = snd.ssThresh /\ s.recover = snd.recover
        /\ s.bumpedSeq = snd.bumpedSeq /\ s.inFastRec = snd.inFastRec /\ Ticks(s.retx)
    <3>1. CASE Opening(snd) /\ Keeps(snd, s, {"tail"})
      BY <3>1 DEF Keeps, SenderFields, InRange
    <3>2. CASE \E d : Precedes(snd, d, s)
      <4>1. PICK d : Precedes(snd, d, s)
        BY <3>2
      <4>2. Keeps(snd, d, Writing) /\ Keeps(d, s, Looped) /\ Ticks(d.retx)
        BY <4>1 DEF Precedes, Proceeds, InRange
      <4> QED
        BY <4>2 DEF Keeps, SenderFields, Writing, Sent, Looped
    <3> QED
      BY <2>1, <3>1, <3>2
  <2>3. s.tail \in Nat
    BY <2>1, ShapeTypes
  <2>4. Tuned(s) /\ Window(s)
    BY <1>1, <2>1, <2>2, <2>3 DEF InRange, Tuned, Window
  <2> QED
    BY <1>2, <2>1, <2>2, <2>4
<1>4. CASE AckArrives \/ Timeout
  <2>1. PICK s, rest : SenderBecomes(s, rest) /\ Shape(s) /\ Proceeds(snd, s) /\ Paced(snd, s)
    BY <1>4, WaitingStep
  <2>2. Tuned(s) /\ Ticks(s.retx) /\ (Room(snd) => Window(s))
    BY <2>1 DEF Paced, Proceeds, InRange
  <2> QED
    BY <1>2, <2>1, <2>2
<1>5. CASE snd' = snd
  BY <1>5 DEF InRange
<1>6. AppSend \/ SynAckArrives \/ AckArrives \/ Timeout \/ snd' = snd
  BY DEF Next, SegmentArrives, LoseSegment, LoseAck, vars
<1> QED
  BY <1>3, <1>4, <1>5, <1>6

\* The window of a flow that has written what total counts.
Clocked(total) == FlowInv /\ snd.tail = 1 + total[Written] /\ InRange(snd)

LEMMA ClockedInit ==
  ASSUME WordLarge, Init, NEW total, Counts(total)
  PROVE  Clocked(total)
<1>1. snd = SynSent
  BY DEF Init
<1>2. /\ snd.cWnd = InitialCwnd * MSS /\ snd.ssThresh = InitialSsThresh /\ snd.recover = 0 /\ snd.bumpedSeq = 0
      /\ snd.tail = 1 /\ snd.inFastRec = FALSE /\ snd.retx = Off
  BY <1>1 DEF SynSent
<1>3. InitialCwnd \in Nat \ {0} /\ MSS \in Nat \ {0} /\ InitialSsThresh \in 0 .. WordSize - 1 /\ WordSize \in Nat
  BY SenderAssumption, MSSAssumption
<1>4. InitialCwnd * MSS \in Nat /\ MSS <= InitialCwnd * MSS
  <2>1. \A a, b \in Nat \ {0} : a * b \in Nat /\ b <= a * b
    <3>1. ASSUME NEW a \in Nat \ {0}, NEW b \in Nat \ {0} PROVE a * b \in Nat /\ b <= a * b
      <4>1. (a - 1) * b >= 0 /\ a * b = (a - 1) * b + b /\ a * b \in Int /\ (a - 1) * b \in Int
        OBVIOUS
      <4> QED
        BY <4>1
    <3> QED
      BY <3>1
  <2> QED
    BY <1>3, <2>1
<1>5. InitialCwnd * MSS < WordSize
  BY DEF WordLarge
<1>6. InRange(snd)
  <2> DEFINE w == InitialCwnd * MSS
  <2>1. snd.cWnd = w /\ w \in Nat /\ MSS <= w /\ w < WordSize
    BY <1>2, <1>4, <1>5
  <2> HIDE DEF w
  <2> QED
    BY <1>2, <1>3, <2>1 DEF InRange, Tuned, Window, Ticks
<1> QED
  BY <1>6, FlowInit, TailInit DEF Clocked

LEMMA ClockedStep ==
  ASSUME Segmented, WordLarge, NEW total, Counts(total), Clocked(total), [Next]_vars, WindowFits \/ WindowOpen'
  PROVE  Clocked(total)'
<1>1. FlowInv /\ snd.tail = 1 + total[Written] /\ InRange(snd)
  BY DEF Clocked
<1>2. FlowInv' /\ snd'.tail = 1 + total[Written']
  BY <1>1, FlowStep, TailStep
<1>3. Ample(snd)
  <2>1. snd.tail <= FlowSize + 1 /\ FlowSize \in Nat /\ snd.tail \in Nat /\ MSS \in Nat /\ WordSize \in Nat
    BY <1>1, WrittenIs, ShapeTypes, SenderAssumption DEF FlowInv, Sending
  <2> QED
    BY <2>1 DEF WordLarge, Ample
<1>4. Tuned(snd') /\ Ticks(snd'.retx) /\ (Room(snd) => Window(snd'))
  BY <1>1, <1>3, RangeStep
<1>5. Window(snd')
  BY <1>4 DEF WindowFits, WindowOpen, Room, Window
<1> QED
  BY <1>2, <1>4, <1>5 DEF Clocked, InRange

\* The congestion window never closes below a segment outside fast recovery,
\* whatever was lost: partial ACKs take from m_cWnd what they acknowledge, and
\* the full ACK or the timeout that ends the recovery opens it again.
THEOREM WindowStaysOpen ==
  ASSUME Segmented, WritesFit, WordLarge
  PROVE  Spec /\ []WindowFits => []WindowOpen
<1>1. PICK total : Counts(total)
  BY DEF WritesFit, Counts
<1>2. Init => Clocked(total)
  BY <1>1, ClockedInit
<1>3. Clocked(total) /\ WindowFits /\ [Next]_vars => Clocked(total)'
  BY <1>1, ClockedStep
<1>4. Clocked(total) => WindowOpen
  BY DEF Clocked, InRange, Window, WindowOpen
<1> QED
  BY <1>2, <1>3, <1>4, PTL DEF Spec

LEMMA ClockedMeans ==
  ASSUME NEW total, Counts(total), Clocked(total)
  PROVE  TypeOK
<1>1. /\ Shape(snd) /\ (Opening(snd) \/ Open(snd)) /\ RcvShape(rcv) /\ Agree(snd, rcv)
      /\ toR \in Seq(Sendable(snd.tail, snd.highTx, snd.p2_block_max))
      /\ toS \in Seq(Acks(Receiver!Arrived(rcv.buffer), rcv.buffer.next))
      /\ Tuned(snd) /\ Ticks(snd.retx)
  BY DEF Clocked, FlowInv, Sending, Acking, InRange
<1>2. snd.tail <= FlowSize + 1 /\ FlowSize \in Nat
  BY WrittenIs DEF Clocked
<1>3. /\ snd.head \in Nat /\ snd.head > 0 /\ snd.tail \in Nat /\ snd.highTx \in Nat /\ snd.p2_block_max \in Nat
      /\ snd.highTx <= snd.tail /\ snd.p2_block_max <= snd.tail /\ snd.head <= snd.tail
  BY <1>1, ShapeTypes DEF Shape
<1>4. snd.state \in {"SYN_SENT", "ESTABLISHED"} /\ snd.nextTx \in 0 .. snd.tail
  <2>1. CASE Opening(snd)
    BY <1>3, <2>1 DEF Opening
  <2>2. CASE Open(snd)
    <3>1. snd.nextTx \in Nat
      BY <2>2, GridNat DEF Open
    <3> QED
      BY <1>3, <2>2, <3>1 DEF Open
  <2> QED
    BY <1>1, <2>1, <2>2
<1>5. /\ snd.scoreboard \in Board /\ {snd.cWnd, snd.ssThresh} \subseteq 0 .. WordSize - 1
      /\ snd.inFastRec \in BOOLEAN /\ snd.retx \in {Off, "ReTxTimeout"}
  BY <1>1 DEF Shape, BoardOK, Tuned, Ticks
<1>6. {snd.nextTx, snd.highTx, snd.recover, snd.bumpedSeq, snd.p2_block_max} \subseteq 0 .. FlowSize + 1
  BY SMTT(20), <1>1, <1>2, <1>3, <1>4 DEF Tuned
<1>7. /\ rcv.state \in {"SYN_RCVD", "ESTABLISHED"} /\ rcv.read \in 1 .. rcv.buffer.next
      /\ rcv.buffer.next \in Nat /\ rcv.buffer.next <= snd.tail
  BY <1>1, NextWritten, ReceiverTypes DEF RcvShape
<1>8. \A q, A : q \in Seq(TrueBlocks(A)) => q \in Blocks
  <2>1. ASSUME NEW A, NEW q \in Seq(TrueBlocks(A)) PROVE q \in Seq(Nat \X Nat)
    <3>1. \A e \in TrueBlocks(A) : e \in Nat \X Nat
      BY DEF TrueBlocks
    <3> DEFINE B == TrueBlocks(A)
    <3>2. q \in Seq(B) /\ \A e \in B : e \in Nat \X Nat
      BY <3>1
    <3> HIDE DEF B
    <3>3. Len(q) \in Nat /\ DOMAIN q = 1 .. Len(q) /\ q = [i \in 1 .. Len(q) |-> q[i]] /\ \A i \in 1 .. Len(q) : q[i] \in B
      BY <3>2
    <3>4. \A i \in 1 .. Len(q) : q[i] \in Nat \X Nat
      BY <3>2, <3>3
    <3> QED
      BY <3>3, <3>4
  <2> QED
    BY <2>1 DEF Blocks
<1>9. rcv.sackstack \in Blocks
  BY <1>1, <1>8 DEF RcvShape
<1>10. toR \in Seq(Segments)
  <2> DEFINE B == Sendable(snd.tail, snd.highTx, snd.p2_block_max)
  <2>1. \A m \in B : m \in Segments
    <3>1. {0, MSS} \subseteq 0 .. MSS
      BY MSSAssumption
    <3> QED
      BY <3>1 DEF Sendable, Segs, Segments
  <2>2. toR \in Seq(B)
    BY <1>1
  <2> HIDE DEF B
  <2>3. Len(toR) \in Nat /\ DOMAIN toR = 1 .. Len(toR) /\ toR = [i \in 1 .. Len(toR) |-> toR[i]]
        /\ \A i \in 1 .. Len(toR) : toR[i] \in B
    BY <2>2
  <2>4. \A i \in 1 .. Len(toR) : toR[i] \in Segments
    BY <2>1, <2>3
  <2> QED
    BY <2>3, <2>4
<1>11. ASSUME NEW i \in DOMAIN toS
       PROVE  toS[i].ack \in 1 .. FlowSize + 1 /\ toS[i].sack \in Blocks
  <2>1. toS[i] \in Acks(Receiver!Arrived(rcv.buffer), rcv.buffer.next)
    BY <1>1
  <2>2. /\ toS[i].ack \in Nat /\ OnGrid(toS[i].ack) /\ toS[i].ack <= rcv.buffer.next
        /\ toS[i].sack \in Seq(TrueBlocks(Receiver!Arrived(rcv.buffer)))
    BY <2>1 DEF Acks
  <2>3. toS[i].ack > 0
    BY <2>2, GridNat
  <2> QED
    BY <1>2, <1>3, <1>7, <1>8, <2>2, <2>3
<1> QED
  BY <1>2, <1>3, <1>4, <1>5, <1>6, <1>7, <1>9, <1>10, <1>11 DEF TypeOK

\* The sockets, the window and what is on the paths are of their types: the
\* window and the sequence numbers do not wrap, and the timer has one purpose.
THEOREM FlowTypes ==
  ASSUME Segmented, WritesFit, WordLarge
  PROVE  Spec /\ []WindowOpen => []TypeOK
<1>1. PICK total : Counts(total)
  BY DEF WritesFit, Counts
<1>2. Init => Clocked(total)
  BY <1>1, ClockedInit
<1>3. Clocked(total) /\ WindowOpen' /\ [Next]_vars => Clocked(total)'
  BY <1>1, ClockedStep
<1>4. Clocked(total) => TypeOK
  BY <1>1, ClockedMeans
<1> QED
  BY <1>2, <1>3, <1>4, PTL DEF Spec
-----------------------------------------------------------------------------
\* The low-priority block.

Covered(b, low) == \E q \in low : q <= b /\ b < q + MSS

LEMMA SegmentIs ==
  \A p, q, n : Segment(p, q, n).prio = p /\ Segment(p, q, n).seq = q /\ Segment(p, q, n).len = n
BY DEF Segment

\* StartRLPLoop sends the last m segments of the buffer, as far down as
\* m_nextTxSequence or the block that was sent before.

LEMMA LoopIs ==
  ASSUME NEW s, Shape(s), Open(s), Used(s), s.p2_block_bytes_sent = 0,
         Edge(s.last_block_seq), s.last_block_seq <= s.tail
  PROVE  LET r == StartRLPLoop(s)
         IN \/ r = s
            \/ \E m \in Nat : \E low :
                 /\ r.out = s.out \o low /\ low = [k \in 1 .. m |-> low[k]]
                 /\ r.p2_block_bytes_sent = 0 /\ r.last_block_seq = s.tail
                 /\ \A k \in 1 .. m :
                      /\ low[k].seq = s.tail - k * MSS /\ low[k].len = MSS /\ low[k].prio > 0
                      /\ OnGrid(low[k].seq) /\ low[k].seq >= s.head /\ low[k].seq >= s.last_block_seq
                      /\ low[k].seq + MSS <= s.tail
                 /\ s.tail - m * MSS <= s.nextTx \/ s.tail - m * MSS <= s.last_block_seq
<1> DEFINE n       == Outstanding(s) \div MSS
           seq(k)  == s.tail - s.p2_block_bytes_sent - k * MSS
           goes(k) == seq(k) + MSS > s.nextTx /\ seq(k) >= s.last_block_seq
           D       == {k \in 1 .. n : \A j \in 1 .. k : goes(j)}
           m       == Cardinality(D)
           low     == [k \in 1 .. m |-> Segment(Level((s.tail - seq(k)) \div MSS), seq(k), MSS)]
           r       == StartRLPLoop(s)
<1>0. /\ s.head \in Nat /\ s.tail \in Nat /\ s.head <= s.tail /\ s.nextTx \in Nat /\ s.nextTx > 0 /\ OnGrid(s.nextTx)
      /\ s.nextTx <= s.tail /\ s.head <= s.nextTx /\ OnGrid(s.tail) /\ OnGrid(s.head) /\ DOMAIN s = SenderFields
      /\ s.state = "ESTABLISHED" /\ MSS \in Nat \ {0} /\ s.last_block_seq \in Nat
  BY ShapeTypes, GridNat DEF Shape, Open, Edge
<1>1. n \in Nat /\ n * MSS = s.tail - s.head
  <2>1. Multiple(s.tail - s.head)
    BY <1>0, GridDiff
  <2>2. PICK k \in Int : s.tail - s.head = k * MSS
    BY <1>0, <2>1, MultipleIs
  <2>3. k \in Nat
    BY <1>0, <2>2, Multiples
  <2>4. (k * MSS) \div MSS = k
    BY <1>0, <2>3
  <2> QED
    BY <1>0, <2>2, <2>3, <2>4 DEF Outstanding
<1>2. \/ r = s
      \/ n > 0 /\ r = [s EXCEPT !.p2_block_max = s.tail,
                                !.p2_block_bytes_sent = IF m < n THEN 0 ELSE s.p2_block_bytes_sent + n * MSS,
                                !.last_block_seq = IF m < n THEN s.tail ELSE @, !.out = s.out \o low]
  <2>1. CASE ~s.rc3_p2 \/ n = 0
    BY <2>1 DEF StartRLPLoop
  <2>2. CASE ~(~s.rc3_p2 \/ n = 0)
    <3>1. n > 0
      <4> HIDE DEF n
      <4> QED
        BY <1>1, <2>2
    <3> QED
      BY <1>0, <2>2, <3>1 DEF StartRLPLoop, SenderFields
  <2> QED
    BY <2>1, <2>2
<1> HIDE DEF n, r
<1> SUFFICES ASSUME n > 0,
                    r = [s EXCEPT !.p2_block_max = s.tail,
                                  !.p2_block_bytes_sent = IF m < n THEN 0 ELSE s.p2_block_bytes_sent + n * MSS,
                                  !.last_block_seq = IF m < n THEN s.tail ELSE @, !.out = s.out \o low]
             PROVE  \E m1 \in Nat : \E low1 :
                 /\ r.out = s.out \o low1 /\ low1 = [k \in 1 .. m1 |-> low1[k]]
                 /\ r.p2_block_bytes_sent = 0 /\ r.last_block_seq = s.tail
                 /\ \A k \in 1 .. m1 :
                      /\ low1[k].seq = s.tail - k * MSS /\ low1[k].len = MSS /\ low1[k].prio > 0
                      /\ OnGrid(low1[k].seq) /\ low1[k].seq >= s.head /\ low1[k].seq >= s.last_block_seq
                      /\ low1[k].seq + MSS <= s.tail
                 /\ s.tail - m1 * MSS <= s.nextTx \/ s.tail - m1 * MSS <= s.last_block_seq
  BY <1>2 DEF r
<1>3. m \in Nat /\ m <= n /\ (\A k \in 1 .. m : goes(k)) /\ (m < n => ~goes(m + 1))
  <2>1. D \in SUBSET (1 .. n) /\ \A k \in D : 1 .. k \subseteq D
    <3>1. ASSUME NEW k \in D, NEW i \in 1 .. k PROVE i \in D
      <4>1. k \in 1 .. n /\ \A j \in 1 .. k : goes(j)
        OBVIOUS
      <4>2. i \in 1 .. n /\ \A j \in 1 .. i : j \in 1 .. k
        BY <1>1, <4>1
      <4> HIDE DEF goes
      <4> QED
        BY <4>1, <4>2
    <3> QED
      BY <3>1
  <2>2. m \in 0 .. n /\ 1 .. m \subseteq D /\ m + 1 \notin D
    <3> HIDE DEF D
    <3> QED
      BY <1>1, <2>1, Downward
  <2>3. \A k \in D : goes(k)
    <3> HIDE DEF goes
    <3>1. ASSUME NEW k \in D PROVE k \in 1 .. k
      BY <1>1
    <3> QED
      BY <3>1
  <2>4. ASSUME m < n, goes(m + 1) PROVE FALSE
    <3> DEFINE c == m
    <3>1. c \in Nat /\ c + 1 \in 1 .. n /\ (\A j \in 1 .. c : goes(j)) /\ goes(c + 1) /\ c + 1 \notin D
      <4> HIDE DEF D, goes
      <4> QED
        BY <1>1, <2>2, <2>3, <2>4
    <3> HIDE DEF c, goes
    <3>2. \A j \in 1 .. c + 1 : goes(j)
      <4>1. \A j \in 1 .. c + 1 : j \in 1 .. c \/ j = c + 1
        BY <3>1
      <4> QED
        BY <3>1, <4>1
    <3> QED
      BY <3>1, <3>2
  <2> HIDE DEF D, goes
  <2> QED
    BY <1>1, <2>2, <2>3, <2>4
<1> HIDE DEF m
<1>4. m < n /\ r.p2_block_bytes_sent = 0 /\ r.last_block_seq = s.tail /\ r.out = s.out \o low
  <2>1. ~goes(n)
    <3>1. seq(n) = s.head
      BY <1>0, <1>1
    <3>2. s.head < s.tail
      <4>1. n * MSS > 0
        BY <1>0, <1>1
      <4> QED
        BY <1>0, <1>1, <4>1
    <3>3. s.head < s.nextTx
      BY <1>0, <3>2 DEF Used
    <3>4. s.head + MSS <= s.nextTx
      BY <1>0, <3>3, GridDiff
    <3> QED
      BY <1>0, <3>1, <3>4
  <2>2. m # n
    <3>1. n \in 1 .. n
      BY <1>1
    <3> HIDE DEF goes
    <3> QED
      BY <1>3, <2>1, <3>1
  <2>3. m < n
    <3> HIDE DEF goes
    <3> QED
      BY <1>1, <1>3, <2>2
  <2> HIDE DEF low
  <2> QED
    BY <1>0, <2>3 DEF SenderFields
<1>5. \A k \in 1 .. m : seq(k) = s.tail - k * MSS
  BY <1>0, <1>3
<1>6. ASSUME NEW k \in 1 .. m
      PROVE  /\ low[k].seq = s.tail - k * MSS /\ low[k].len = MSS /\ low[k].prio > 0
             /\ OnGrid(low[k].seq) /\ low[k].seq >= s.head /\ low[k].seq >= s.last_block_seq
             /\ low[k].seq + MSS <= s.tail
  <2> DEFINE q == s.tail - k * MSS
             p == Level((s.tail - seq(k)) \div MSS)
  <2>1. k \in Nat /\ k * MSS \in Nat /\ k * MSS >= MSS /\ q \in Int /\ q + MSS <= s.tail /\ Multiple(k * MSS)
    BY <1>0, <1>3, Multiples
  <2>2. seq(k) = q
    BY <1>5
  <2>3. low[k] = Segment(p, q, MSS)
    BY <2>2
  <2>4. q + MSS > s.nextTx /\ q >= s.last_block_seq
    BY <1>3, <2>2
  <2>5. s.tail - q = k * MSS
    BY <1>0, <2>1
  <2>6. q >= s.nextTx
    <3>1. Multiple(s.tail - s.nextTx)
      BY <1>0, GridDiff
    <3>2. Multiple((s.tail - q) - (s.tail - s.nextTx))
      BY <2>1, <2>5, <3>1, Multiples
    <3>3. (s.tail - q) - (s.tail - s.nextTx) = s.nextTx - q
      BY <1>0, <2>1
    <3>4. s.nextTx - q > 0 => s.nextTx - q >= MSS
      BY <3>2, <3>3, Multiples
    <3> HIDE DEF q
    <3> QED
      BY <1>0, <2>1, <2>4, <3>4
  <2>7. q \in Nat /\ q > 0 /\ OnGrid(q)
    <3> HIDE DEF q
    <3>1. q > 0
      BY <1>0, <2>1, <2>6
    <3>2. OnGrid(q)
      BY <1>0, <2>1, <2>5, <3>1, GridShift
    <3> QED
      BY <2>1, <3>1, <3>2
  <2>8. p \in Nat /\ p > 0
    <3>1. (s.tail - seq(k)) \div MSS \in Nat
      <4>1. s.tail - seq(k) = k * MSS
        BY <2>2, <2>5
      <4>2. (k * MSS) \div MSS \in Nat
        BY <1>0, <2>1
      <4> QED
        BY <4>1, <4>2
    <3> QED
      BY <3>1, LevelType
  <2> HIDE DEF p, q, low
  <2>9. low[k].seq = q /\ low[k].len = MSS /\ low[k].prio = p
    BY <2>3, SegmentIs
  <2>10. low[k].seq >= s.head
    BY <1>0, <2>1, <2>6, <2>9
  <2> QED
    BY <2>1, <2>4, <2>7, <2>8, <2>9, <2>10 DEF q
<1>7. s.tail - m * MSS <= s.nextTx \/ s.tail - m * MSS <= s.last_block_seq
  <2> DEFINE e == s.tail - m * MSS
  <2>1. m * MSS \in Nat /\ (m + 1) * MSS = m * MSS + MSS /\ Multiple(m * MSS) /\ e \in Int /\ m * MSS <= n * MSS
    <3>1. \A a, b, c \in Nat : a <= b => a * c <= b * c
      <4>1. ASSUME NEW a \in Nat, NEW b \in Nat, NEW c \in Nat, a <= b PROVE a * c <= b * c
        <5>1. b * c = a * c + (b - a) * c /\ (b - a) * c \in Nat /\ a * c \in Nat
          BY <4>1
        <5> QED
          BY <5>1
      <4> QED
        BY <4>1
    <3> QED
      BY <1>0, <1>1, <1>3, <3>1, Multiples
  <2>2. seq(m + 1) + MSS = e
    BY <1>0, <1>3, <2>1
  <2>3. ~(e > s.nextTx /\ e - MSS >= s.last_block_seq)
    <3>1. seq(m + 1) = e - MSS
      BY <1>0, <1>3, <2>1
    <3> QED
      BY <1>3, <1>4, <2>2, <3>1
  <2>4. e >= s.head /\ OnGrid(e)
    <3>1. s.tail - e = m * MSS
      BY <1>0, <2>1
    <3> HIDE DEF e
    <3>2. e >= s.head /\ e > 0
      <4>1. s.head > 0
        BY <1>0, GridNat
      <4> QED
        BY <1>0, <1>1, <2>1, <3>1, <4>1
    <3> QED
      BY <1>0, <2>1, <3>1, <3>2, GridShift
  <2>5. CASE e - MSS < s.last_block_seq
    <3>1. OnGrid(s.last_block_seq) \/ s.last_block_seq = 0
      BY DEF Edge
    <3> HIDE DEF e
    <3>2. CASE s.last_block_seq = 0
      <4>1. 1 + MSS <= e \/ e = 1
        BY <2>4, GridFacts, GridDiff, GridNat
      <4>2. e = 1
        BY <1>0, <2>1, <2>5, <3>2, <4>1
      <4> QED
        BY <1>0, <4>2 DEF e
    <3>3. CASE OnGrid(s.last_block_seq)
      <4>1. s.last_block_seq < e => s.last_block_seq + MSS <= e
        BY <2>4, <3>3, GridDiff
      <4>2. e <= s.last_block_seq
        BY <1>0, <2>1, <2>5, <4>1
      <4> QED
        BY <4>2 DEF e
    <3> QED
      BY <3>1, <3>2, <3>3
  <2>6. CASE e <= s.nextTx
    BY <2>6
  <2> QED
    BY <1>0, <2>1, <2>3, <2>5, <2>6
<1>8. low = [k \in 1 .. m |-> low[k]]
  OBVIOUS
<1> HIDE DEF low, seq, goes
<1> QED
  BY <1>3, <1>4, <1>6, <1>7, <1>8

\* Below the block that was sent last, and wherever the receiver has something,
\* everything went out at one priority or the other.  L holds the low-priority
\* segments ever sent, A the bytes that have arrived.
\* Low is what was sent at low priority, Starts where such segments begin.
Low(q)    == {m \in Range(q) : m.prio > 0}
Starts(q) == {m.seq : m \in Range(q)}

Below(s, L, A) ==
  /\ s.p2_block_bytes_sent = 0 /\ Edge(s.last_block_seq) /\ s.last_block_seq <= s.tail
  /\ \A q \in L : OnGrid(q) /\ q + MSS <= s.last_block_seq
  /\ \A b \in (1 .. s.last_block_seq - 1) \cup A : b < s.highTx \/ Covered(b, L)

LEMMA ConcatRange ==
  ASSUME NEW S, NEW T, NEW q \in Seq(S), NEW w \in Seq(T)
  PROVE  Range(q \o w) = Range(q) \cup Range(w)
<1>1. /\ Len(q) \in Nat /\ DOMAIN q = 1 .. Len(q) /\ Len(w) \in Nat /\ DOMAIN w = 1 .. Len(w)
      /\ DOMAIN (q \o w) = 1 .. Len(q) + Len(w)
      /\ \A i \in 1 .. Len(q) + Len(w) : (q \o w)[i] = IF i <= Len(q) THEN q[i] ELSE w[i - Len(q)]
  OBVIOUS
<1>2. ASSUME NEW m \in Range(q \o w) PROVE m \in Range(q) \cup Range(w)
  <2>1. PICK i \in 1 .. Len(q) + Len(w) : m = (q \o w)[i]
    BY <1>1 DEF Range
  <2>2. CASE i <= Len(q)
    <3>1. i \in DOMAIN q /\ m = q[i]
      BY <1>1, <2>1, <2>2
    <3> QED
      BY <3>1 DEF Range
  <2>3. CASE i > Len(q)
    <3>1. i - Len(q) \in DOMAIN w /\ m = w[i - Len(q)]
      BY <1>1, <2>1, <2>3
    <3> QED
      BY <3>1 DEF Range
  <2> QED
    BY <1>1, <2>2, <2>3
<1>3. ASSUME NEW m \in Range(q) PROVE m \in Range(q \o w)
  <2>1. PICK i \in 1 .. Len(q) : m = q[i]
    BY <1>1 DEF Range
  <2>2. i \in 1 .. Len(q) + Len(w) /\ m = (q \o w)[i]
    BY <1>1, <2>1
  <2> QED
    BY <1>1, <2>2 DEF Range
<1>4. ASSUME NEW m \in Range(w) PROVE m \in Range(q \o w)
  <2>1. PICK i \in 1 .. Len(w) : m = w[i]
    BY <1>1 DEF Range
  <2>2. Len(q) + i \in 1 .. Len(q) + Len(w) /\ m = (q \o w)[Len(q) + i]
    BY <1>1, <2>1
  <2> QED
    BY <1>1, <2>2 DEF Range
<1> QED
  BY <1>2, <1>3, <1>4

\* A sequence given by its members.
LEMMA WordRange ==
  ASSUME NEW m \in Nat, NEW w, w = [k \in 1 .. m |-> w[k]]
  PROVE  w \in Seq(Range(w)) /\ Len(w) = m
<1> DEFINE S == Range(w)
<1>1. \A k \in 1 .. m : w[k] \in S
  BY DEF Range
<1> HIDE DEF S
<1>2. [k \in 1 .. m |-> w[k]] \in Seq(S) /\ Len([k \in 1 .. m |-> w[k]]) = m
  BY <1>1
<1>3. w \in Seq(S) /\ Len(w) = m
  BY <1>2
<1> QED
  BY <1>3 DEF S

LEMMA Strictly ==
  ASSUME NEW x \in Nat, NEW y \in Nat, x < y, MSS \in Nat \ {0}
  PROVE  x * MSS \in Nat /\ y * MSS \in Nat /\ x * MSS + MSS <= y * MSS
<1>1. y - x - 1 \in Nat /\ y = x + 1 + (y - x - 1)
  OBVIOUS
<1>2. y * MSS = x * MSS + MSS + (y - x - 1) * MSS /\ (y - x - 1) * MSS \in Nat
  BY <1>1
<1> QED
  BY <1>2

\* LowPriority takes the low segments out of a sequence, each once, and nothing else.
LEMMA LowPriorityIs ==
  ASSUME NEW S, NEW q \in Seq(S)
  PROVE  /\ LowPriority(q) \in Seq(Range(LowPriority(q))) /\ Range(LowPriority(q)) = Low(q)
         /\ \A i, j \in DOMAIN LowPriority(q) : i # j =>
              \E a, b \in DOMAIN q : /\ a # b /\ q[a].prio > 0 /\ q[b].prio > 0
                                     /\ LowPriority(q)[i] = q[a] /\ LowPriority(q)[j] = q[b]
<1> DEFINE K   == {i \in DOMAIN q : q[i].prio > 0}
           low == [n \in 1 .. Cardinality(K) |-> q[NthOf(K, n)]]
<1>1. LowPriority(q) = low
  BY DEF LowPriority, Chosen
<1>2. Len(q) \in Nat /\ DOMAIN q = 1 .. Len(q)
  OBVIOUS
<1>3. IsFiniteSet(K) /\ K \in SUBSET Int /\ Cardinality(K) \in Nat /\ K \in SUBSET DOMAIN q
  BY <1>2, UpTo, FS_Subset, FS_CardinalityType
<1>4. /\ \A n \in 1 .. Cardinality(K) : NthOf(K, n) \in K /\ Rank(K, NthOf(K, n)) = n
      /\ \A k \in K : NthOf(K, Rank(K, k)) = k /\ Rank(K, k) \in 1 .. Cardinality(K)
  BY <1>3, NthOfRank, RankType
<1>5. \A k \in DOMAIN q : k \in K <=> q[k].prio > 0
  OBVIOUS
<1> HIDE DEF K
<1>6. DOMAIN low = 1 .. Cardinality(K) /\ \A n \in 1 .. Cardinality(K) : low[n] = q[NthOf(K, n)]
  OBVIOUS
<1>7. low \in Seq(Range(low))
  BY <1>3, <1>6, WordRange
<1> HIDE DEF low
<1>8. ASSUME NEW m \in Range(low) PROVE m \in Low(q)
  <2>1. PICK n \in 1 .. Cardinality(K) : m = low[n]
    BY <1>6 DEF Range
  <2>2. NthOf(K, n) \in DOMAIN q /\ m = q[NthOf(K, n)] /\ m.prio > 0
    BY <1>3, <1>4, <1>5, <1>6, <2>1
  <2> QED
    BY <2>2 DEF Low, Range
<1>9. ASSUME NEW m \in Low(q) PROVE m \in Range(low)
  <2>1. PICK k \in DOMAIN q : m = q[k] /\ m.prio > 0
    BY DEF Low, Range
  <2>2. Rank(K, k) \in 1 .. Cardinality(K) /\ m = low[Rank(K, k)]
    BY <1>4, <1>5, <1>6, <2>1
  <2> QED
    BY <1>6, <2>2 DEF Range
<1>10. ASSUME NEW i \in DOMAIN low, NEW j \in DOMAIN low, i # j
       PROVE  \E a, b \in DOMAIN q : a # b /\ q[a].prio > 0 /\ q[b].prio > 0 /\ low[i] = q[a] /\ low[j] = q[b]
  <2> DEFINE a == NthOf(K, i)
             b == NthOf(K, j)
  <2>1. a \in K /\ b \in K /\ a # b
    BY <1>4, <1>6, <1>10
  <2>2. low[i] = q[a] /\ low[j] = q[b]
    BY <1>6
  <2> HIDE DEF a, b
  <2> QED
    BY <1>3, <1>5, <2>1, <2>2
<1>11. Range(low) = Low(q)
  BY <1>8, <1>9
<1> QED
  BY <1>1, <1>7, <1>10, <1>11

\* What a step adds to what was sent is apart from all that was sent, if it is
\* behind it and its own parts are apart.
LEMMA AddsAnew ==
  ASSUME NEW S, NEW q \in Seq(S), NEW T, NEW out \in Seq(T), MSS \in Nat,
         \A m \in Range(q) : m.len = MSS,
         \A m \in Low(out) : \A n \in Starts(q) : n + MSS <= m.seq,
         \A i, j \in DOMAIN out : i # j /\ out[i].prio > 0 /\ out[j].prio > 0 => Apart(out[i], out[j])
  PROVE  LET all == q \o LowPriority(out)
         IN \A j \in Len(q) + 1 .. Len(all) : all[j] \in Low(out) /\ \A i \in 1 .. j - 1 : Apart(all[i], all[j])
<1> DEFINE low == LowPriority(out)
           all == q \o low
<1>1. /\ low \in Seq(Range(low)) /\ Range(low) = Low(out)
      /\ \A i, j \in DOMAIN low : i # j => Apart(low[i], low[j])
  BY LowPriorityIs
<1> HIDE DEF low
<1>2. /\ Len(q) \in Nat /\ Len(low) \in Nat /\ DOMAIN q = 1 .. Len(q) /\ DOMAIN low = 1 .. Len(low)
      /\ Len(all) = Len(q) + Len(low)
      /\ \A i \in 1 .. Len(q) + Len(low) : all[i] = IF i <= Len(q) THEN q[i] ELSE low[i - Len(q)]
  BY <1>1
<1> HIDE DEF all
<1> SUFFICES ASSUME NEW j \in Len(q) + 1 .. Len(all)
             PROVE  all[j] \in Low(out) /\ \A i \in 1 .. j - 1 : Apart(all[i], all[j])
  BY DEF low, all
<1>4. j - Len(q) \in DOMAIN low /\ all[j] = low[j - Len(q)] /\ j \in Nat
  BY <1>2
<1>5. all[j] \in Low(out)
  BY <1>1, <1>4 DEF Range
<1>6. ASSUME NEW i \in 1 .. j - 1, i <= Len(q) PROVE Apart(all[i], all[j])
  <2>1. i \in DOMAIN q /\ all[i] = q[i]
    BY <1>2, <1>4, <1>6
  <2>2. all[i] \in Range(q) /\ all[i].len = MSS /\ all[i].seq \in Starts(q)
    BY <2>1 DEF Range, Starts
  <2> QED
    BY <1>5, <2>2 DEF Apart
<1>7. ASSUME NEW i \in 1 .. j - 1, i > Len(q) PROVE Apart(all[i], all[j])
  <2>1. i - Len(q) \in DOMAIN low /\ all[i] = low[i - Len(q)] /\ i - Len(q) # j - Len(q)
    BY <1>2, <1>4, <1>7
  <2> QED
    BY <1>1, <1>4, <2>1
<1> QED
  BY <1>2, <1>4, <1>5, <1>6, <1>7

\* A write, or the end of the handshake, takes the block to the end of the buffer.
LEMMA WritingBelow ==
  ASSUME NEW s, NEW d, NEW r, NEW L, NEW A \in SUBSET Nat, Shape(s), s.out = <<>>, Precedes(s, d, r), Used(r),
         Below(s, L, A), \A t \in Marks(r.scoreboard) : Seg(t) \subseteq A
  PROVE  /\ Below(r, L \cup {m.seq : m \in Low(r.out)}, A)
         /\ \A m \in Low(r.out) :
              /\ m.seq >= r.head /\ m.seq + m.len <= r.tail /\ m.seq \in Nat /\ m.len = MSS
              /\ \A q \in L : q + MSS <= m.seq
         /\ \A i, j \in DOMAIN r.out :
              i # j /\ r.out[i].prio > 0 /\ r.out[j].prio > 0 => Apart(r.out[i], r.out[j])
<1> DEFINE low == Low(r.out)
           sent == {m.seq : m \in low}
<1>1. /\ Shape(d) /\ Open(d) /\ Keeps(s, d, Writing) /\ Keeps(d, r, Looped) /\ r \in {d, StartRLPLoop(d)}
      /\ s.tail <= d.tail /\ s.highTx <= d.highTx /\ Urgent(d.out)
  <2>1. Urgent(s.out)
    BY DEF Urgent
  <2> QED
    BY <2>1 DEF Precedes, Proceeds
<1>2. /\ d.p2_block_bytes_sent = s.p2_block_bytes_sent /\ d.last_block_seq = s.last_block_seq
      /\ r.head = d.head /\ r.tail = d.tail /\ r.highTx = d.highTx /\ r.nextTx = d.nextTx
      /\ r.scoreboard = d.scoreboard
  BY <1>1 DEF Keeps, SenderFields, Writing, Sent, Looped
<1>3. /\ d.tail \in Nat /\ d.highTx \in Nat /\ s.tail \in Nat /\ s.highTx \in Nat /\ d.head \in Nat
      /\ OnGrid(d.nextTx) /\ d.nextTx \in Nat /\ OnGrid(d.tail) /\ MSS \in Nat \ {0} /\ Edge(d.highTx)
      /\ d.last_block_seq \in Nat
  <2>1. Edge(s.last_block_seq) /\ \A n : Edge(n) => n \in Nat
    BY GridNat DEF Below, Edge
  <2>2. d.last_block_seq \in Nat
    BY <1>2, <2>1
  <2> QED
    BY <1>1, <2>2, ShapeTypes, GridNat DEF Shape, Open
<1>4. Used(d)
  BY <1>2 DEF Used
<1>5. Below(d, L, A)
  <2>1. \A b \in (1 .. d.last_block_seq - 1) \cup A : b \in Nat
    BY <1>3
  <2>2. \A b \in (1 .. d.last_block_seq - 1) \cup A : b < d.highTx \/ Covered(b, L)
    BY <1>1, <1>2, <1>3, <2>1 DEF Below
  <2>3. d.last_block_seq <= d.tail
    BY <1>1, <1>2, <1>3 DEF Below
  <2> QED
    BY <1>2, <2>2, <2>3 DEF Below
<1>6. CASE r = d
  <2>1. low = {}
    <3>1. \A m \in Range(d.out) : m.prio = 0
      BY <1>1 DEF Urgent, Range
    <3> QED
      BY <1>6, <3>1 DEF Low
  <2>2. L \cup sent = L
    BY <2>1
  <2>3. \A i \in DOMAIN r.out : ~(r.out[i].prio > 0)
    BY <1>1, <1>6 DEF Urgent
  <2> HIDE DEF low
  <2> QED
    BY <1>5, <1>6, <2>1, <2>2, <2>3 DEF low
<1>7. CASE r # d
  <2>0. PICK m \in Nat :
          \E w :
             /\ r.out = d.out \o w /\ w = [k \in 1 .. m |-> w[k]]
             /\ r.p2_block_bytes_sent = 0 /\ r.last_block_seq = d.tail
             /\ \A k \in 1 .. m :
                  /\ w[k].seq = d.tail - k * MSS /\ w[k].len = MSS /\ w[k].prio > 0
                  /\ OnGrid(w[k].seq) /\ w[k].seq >= d.head /\ w[k].seq >= d.last_block_seq
                  /\ w[k].seq + MSS <= d.tail
             /\ d.tail - m * MSS <= d.nextTx \/ d.tail - m * MSS <= d.last_block_seq
    <3>1. r = StartRLPLoop(d)
      BY <1>1, <1>7
    <3> QED
      BY <1>1, <1>4, <1>5, <1>7, <3>1, LoopIs DEF Below
  <2>1. PICK w :
          /\ r.out = d.out \o w /\ w = [k \in 1 .. m |-> w[k]]
          /\ r.p2_block_bytes_sent = 0 /\ r.last_block_seq = d.tail
          /\ \A k \in 1 .. m :
               /\ w[k].seq = d.tail - k * MSS /\ w[k].len = MSS /\ w[k].prio > 0
               /\ OnGrid(w[k].seq) /\ w[k].seq >= d.head /\ w[k].seq >= d.last_block_seq
               /\ w[k].seq + MSS <= d.tail
          /\ d.tail - m * MSS <= d.nextTx \/ d.tail - m * MSS <= d.last_block_seq
    BY <2>0
  <2>2. low = {w[k] : k \in 1 .. m}
    <3>1. DOMAIN w = 1 .. m
      BY <2>1
    <3>2. w \in Seq(Range(w))
      BY <2>1, WordRange
    <3>4. Range(r.out) = Range(d.out) \cup Range(w)
      <4> DEFINE o == d.out
                 S == Sendable(d.tail, d.highTx, d.p2_block_max)
                 T == Range(w)
      <4>1. o \in Seq(S) /\ w \in Seq(T)
        BY <1>1, <3>2 DEF Shape
      <4>2. r.out = o \o w
        BY <2>1
      <4> HIDE DEF o, S, T
      <4>3. Range(o \o w) = Range(o) \cup Range(w)
        BY <4>1, ConcatRange
      <4> QED
        BY <4>2, <4>3 DEF o
    <3>5. \A x \in Range(d.out) : ~(x.prio > 0)
      BY <1>1 DEF Urgent, Range
    <3>6. \A x \in Range(w) : x.prio > 0
      BY <2>1, <3>1 DEF Range
    <3>7. Range(w) = {w[k] : k \in 1 .. m}
      BY <3>1 DEF Range
    <3> QED
      BY <3>4, <3>5, <3>6, <3>7 DEF Low
  <2>3. sent = {d.tail - k * MSS : k \in 1 .. m}
    <3>1. \A k \in 1 .. m : w[k].seq = d.tail - k * MSS
      BY <2>1
    <3> QED
      BY <2>2, <3>1
  <2> HIDE DEF low, sent
  <2>4. \A x \in low : /\ x.seq >= r.head /\ x.seq + x.len <= r.tail /\ OnGrid(x.seq)
                       /\ x.seq >= d.last_block_seq /\ x.len = MSS /\ x.seq \in Nat
    BY <1>2, <2>1, <2>2, GridNat
  <2>5. \A q \in L : OnGrid(q) /\ q \in Nat /\ q + MSS <= d.last_block_seq
    BY <1>5, GridNat DEF Below
  <2>6. \A x \in low : \A q \in L : q + MSS <= x.seq
    BY <1>3, <2>4, <2>5
  <2>7. \A q \in L \cup sent : OnGrid(q) /\ q + MSS <= r.last_block_seq
    <3>1. \A q \in sent : OnGrid(q) /\ q + MSS <= d.tail
      BY <2>1, <2>2 DEF sent
    <3>2. \A q \in L : q + MSS <= d.tail
      BY <1>3, <1>5, <2>5 DEF Below
    <3> QED
      BY <2>1, <2>5, <3>1, <3>2
  <2>8. ASSUME NEW b \in 1 .. d.tail - 1, b >= d.tail - m * MSS
        PROVE  Covered(b, sent)
    <3> DEFINE e == d.tail - m * MSS
    <3>1. m * MSS \in Nat /\ e \in Int /\ b \in Int /\ Multiple(m * MSS)
      BY <1>3, Multiples
    <3>2. PICK x \in e .. b : Multiple(x - e) /\ x \in Int /\ b < x + MSS
      BY <2>8, <3>1, InSegment
    <3>3. Multiple(m * MSS - (x - e)) /\ m * MSS - (x - e) = d.tail - x
      BY SMTT(20), <1>3, <3>1, <3>2, Multiples
    <3>4. PICK k \in Int : d.tail - x = k * MSS
      <4>1. d.tail - x \in Int
        BY <1>3, <3>2
      <4> QED
        BY <3>3, <4>1, MultipleIs
    <3>5. k \in 1 .. m
      <4>1. k * MSS > 0 /\ k * MSS <= m * MSS
        <5>1. x >= e /\ x < d.tail /\ x \in Int
          BY <1>3, <3>1, <3>2
        <5>2. d.tail - x > 0 /\ d.tail - x <= m * MSS
          BY <1>3, <3>1, <5>1
        <5> QED
          BY <3>4, <5>2
      <4>2. k > 0
        <5>1. ASSUME k <= 0 PROVE k * MSS <= 0
          BY <1>3, <5>1
        <5> QED
          BY <1>3, <4>1, <5>1
      <4>3. k <= m
        <5>1. ASSUME k > m PROVE FALSE
          <6>1. k - m >= 1 /\ k - m \in Nat
            BY <5>1
          <6>2. (k - m) * MSS >= MSS
            BY <1>3, <6>1
          <6>3. (k - m) * MSS = k * MSS - m * MSS /\ k * MSS \in Int
            BY <1>3, <5>1
          <6> QED
            BY <1>3, <3>1, <4>1, <6>2, <6>3
        <5> QED
          BY <5>1
      <4> QED
        BY <4>2, <4>3
    <3>6. x \in sent /\ x <= b
      <4>1. x = d.tail - k * MSS
        BY <1>3, <3>2, <3>4
      <4> QED
        BY <2>3, <3>1, <3>2, <3>5, <4>1
    <3> QED
      BY <3>2, <3>6 DEF Covered
  <2>9. ASSUME NEW b \in Nat, b < d.highTx \/ Covered(b, L)
        PROVE  b < r.highTx \/ Covered(b, L \cup sent)
    BY <1>2, <2>9 DEF Covered
  <2>10. ASSUME NEW b \in A
         PROVE  b < r.highTx \/ Covered(b, L \cup sent)
    BY <1>5, <2>9 DEF Below
  <2>11. ASSUME NEW b \in 1 .. r.last_block_seq - 1
         PROVE  b < r.highTx \/ Covered(b, L \cup sent)
    <3>1. b \in 1 .. d.tail - 1 /\ b \in Nat
      BY <1>3, <2>1
    <3>2. CASE b >= d.tail - m * MSS
      BY <2>8, <3>1, <3>2 DEF Covered
    <3>3. CASE b < d.last_block_seq
      <4>1. b \in 1 .. d.last_block_seq - 1
        BY <1>3, <3>1, <3>3
      <4> QED
        BY <1>5, <2>9, <3>1, <4>1 DEF Below
    <3>4. CASE b < d.nextTx /\ ~(b < d.highTx)
      <4>1. PICK t \in 1 .. b : Multiple(t - 1) /\ t \in Int /\ b < t + MSS
        BY <3>1, InSegment
      <4>2. OnGrid(t)
        BY <4>1, GridIs
      <4>3. t >= d.highTx
        <5>1. CASE d.highTx = 0
          BY <4>1, <5>1
        <5>2. CASE OnGrid(d.highTx)
          <6>1. t < d.highTx => t + MSS <= d.highTx
            BY <4>2, <5>2, GridDiff
          <6> QED
            BY <1>3, <3>1, <3>4, <4>1, <6>1
        <5> QED
          BY <1>3, <5>1, <5>2 DEF Edge
      <4>4. t \in d.highTx .. d.nextTx - 1
        BY <1>3, <3>1, <3>4, <4>1, <4>3
      <4>5. t \in Marks(r.scoreboard)
        BY <1>1, <1>2, <4>2, <4>4 DEF Open
      <4>6. b \in Seg(t)
        BY <1>3, <3>1, <4>1 DEF Seg
      <4> QED
        BY <2>10, <4>5, <4>6
    <3>5. CASE b < d.highTx
      BY <1>2, <3>5
    <3>6. b >= d.tail - m * MSS \/ b < d.last_block_seq \/ b < d.nextTx
      <4>1. m * MSS \in Nat
        BY <1>3
      <4> QED
        BY <1>3, <2>1, <3>1, <4>1
    <3> QED
      BY <3>2, <3>3, <3>4, <3>5, <3>6
  <2>12. Below(r, L \cup sent, A)
    <3>1. r.p2_block_bytes_sent = 0 /\ Edge(r.last_block_seq) /\ r.last_block_seq <= r.tail
      BY <1>2, <1>3, <2>1 DEF Edge
    <3> QED
      BY <2>7, <2>10, <2>11, <3>1 DEF Below
  <2>13. ASSUME NEW i \in DOMAIN r.out, NEW j \in DOMAIN r.out, i # j, r.out[i].prio > 0, r.out[j].prio > 0
         PROVE  Apart(r.out[i], r.out[j])
    <3> DEFINE o == d.out
               n == Len(o)
    <3>1. n \in Nat /\ o \in Seq(Sendable(d.tail, d.highTx, d.p2_block_max)) /\ \A x \in DOMAIN o : ~(o[x].prio > 0)
      BY <1>1 DEF Shape, Urgent
    <3>2. w \in Seq(Range(w)) /\ Len(w) = m /\ m \in Nat
      BY <2>1, WordRange
    <3>3. r.out = o \o w
      BY <2>1
    <3> HIDE DEF o
    <3>4. /\ DOMAIN r.out = 1 .. n + m
          /\ \A x \in 1 .. n + m : r.out[x] = IF x <= n THEN o[x] ELSE w[x - n]
      BY <3>1, <3>2, <3>3
    <3>5. \A x \in {i, j} : x - n \in 1 .. m /\ r.out[x] = w[x - n]
      <4>1. \A x \in {i, j} : x \in 1 .. n + m /\ r.out[x].prio > 0
        BY <2>13, <3>4
      <4>2. \A x \in {i, j} : ~(x <= n)
        BY <3>1, <3>4, <4>1
      <4>3. ASSUME NEW x \in {i, j}
            PROVE  x - n \in 1 .. m /\ r.out[x] = w[x - n]
        <5>1. x \in 1 .. n + m /\ ~(x <= n)
          BY <4>1, <4>2
        <5>2. r.out[x] = w[x - n]
          BY <3>4, <5>1
        <5>3. x - n \in 1 .. m
          BY <3>1, <3>2, <5>1
        <5> QED
          BY <5>2, <5>3
      <4> QED
        BY <4>3
    <3>6. i \in Nat /\ j \in Nat
      BY <3>1, <3>2, <3>4
    <3>7. PICK a \in 1 .. m, b \in 1 .. m : a # b /\ r.out[i] = w[a] /\ r.out[j] = w[b]
      <4>1. i - n # j - n
        BY <2>13, <3>1, <3>6
      <4>2. i - n \in 1 .. m /\ j - n \in 1 .. m /\ r.out[i] = w[i - n] /\ r.out[j] = w[j - n]
        BY <3>5
      <4> QED
        BY <4>1, <4>2
    <3>8. /\ w[a].seq = d.tail - a * MSS /\ w[a].len = MSS
          /\ w[b].seq = d.tail - b * MSS /\ w[b].len = MSS
      BY <2>1
    <3>9. a * MSS \in Nat /\ b * MSS \in Nat /\ (a * MSS + MSS <= b * MSS \/ b * MSS + MSS <= a * MSS)
      <4>1. \A x, y \in Nat : x < y => x * MSS \in Nat /\ y * MSS \in Nat /\ x * MSS + MSS <= y * MSS
        BY <1>3, Strictly
      <4>2. a \in Nat /\ b \in Nat /\ (a < b \/ b < a)
        BY <3>2, <3>7
      <4> QED
        BY <4>1, <4>2
    <3>10. d.tail - b * MSS + MSS <= d.tail - a * MSS \/ d.tail - a * MSS + MSS <= d.tail - b * MSS
      <4> DEFINE x == a * MSS
                 y == b * MSS
      <4>1. x \in Nat /\ y \in Nat /\ (x + MSS <= y \/ y + MSS <= x)
        BY <3>9
      <4> HIDE DEF x, y
      <4>2. d.tail - y + MSS <= d.tail - x \/ d.tail - x + MSS <= d.tail - y
        BY <1>3, <4>1
      <4> QED
        BY <4>2 DEF x, y
    <3>11. Apart(w[a], w[b])
      BY <3>8, <3>10 DEF Apart
    <3> QED
      BY <3>7, <3>11
  <2> QED
    BY <2>4, <2>6, <2>12, <2>13 DEF low, sent
<1> QED
  BY <1>6, <1>7

\* Other steps of the sender leave the block where it is.
LEMMA WaitingBelow ==
  ASSUME NEW s, NEW r, NEW L, NEW A \in SUBSET Nat, Shape(s), Shape(r), Proceeds(s, r), BlockKept(s, r),
         Below(s, L, A)
  PROVE  Below(r, L, A)
<1>1. /\ s.tail \in Nat /\ r.tail \in Nat /\ s.highTx \in Nat /\ r.highTx \in Nat
      /\ s.tail <= r.tail /\ s.highTx <= r.highTx /\ s.last_block_seq \in Nat
  BY ShapeTypes, GridNat DEF Proceeds, Below, Edge
<1>2. r.last_block_seq = s.last_block_seq /\ r.p2_block_bytes_sent = s.p2_block_bytes_sent
  BY DEF BlockKept
<1>3. \A b \in (1 .. s.last_block_seq - 1) \cup A : b \in Nat
  BY <1>1
<1>4. \A b \in (1 .. r.last_block_seq - 1) \cup A : b < r.highTx \/ Covered(b, L)
  BY <1>1, <1>2, <1>3 DEF Below
<1> QED
  BY <1>1, <1>2, <1>4 DEF Below

LEMMA FewerMembers ==
  ASSUME NEW S, NEW q \in Seq(S), NEW p, \E i \in DOMAIN q : p = RemoveAt(q, i)
  PROVE  Range(p) \subseteq Range(q)
<1> DEFINE T == Range(q)
<1>1. q \in Seq(T)
  BY RangeSeq
<1> HIDE DEF T
<1>2. p \in Seq(T)
  BY <1>1, RemoveAtIs
<1>3. Range(p) \subseteq T
  BY <1>2 DEF Range
<1> QED
  BY <1>3 DEF T

\* What is on the path at low priority has been noted in lowSent.
Tagged(q, L) == \A m \in Low(q) : m.seq \in L

Noted ==
  /\ Below(snd, Starts(lowSent), Arrived) /\ Tagged(toR, Starts(lowSent))
  /\ lowSent \in Seq(Range(lowSent)) /\ \A m \in Range(lowSent) : m.len = MSS

LEMMA NotedInit ==
  ASSUME Init
  PROVE  Noted
<1>1. snd = SynSent /\ toR = <<>> /\ lowSent = <<>>
  BY DEF Init
<1>2. snd.tail = 1 /\ snd.p2_block_bytes_sent = 0 /\ snd.last_block_seq = 0
  BY <1>1 DEF SynSent
<1>3. Arrived \subseteq 1 .. snd.tail - 1
  BY FlowInit DEF FlowInv, Agree, Arrived
<1>4. Arrived = {} /\ 1 .. snd.last_block_seq - 1 = {}
  BY <1>2, <1>3
<1>5. Low(<<>>) = {} /\ Starts(<<>>) = {} /\ Range(<<>>) = {}
  BY DEF Low, Starts, Range
<1>6. lowSent \in Seq(Range(lowSent))
  BY <1>1
<1> QED
  BY <1>1, <1>2, <1>4, <1>5, <1>6 DEF Noted, Below, Tagged, Edge

\* The sender becomes s: what joins the path and what is noted.
LEMMA BecomesNoted ==
  ASSUME NEW s, NEW rest, SenderBecomes(s, rest), Shape(s), rest \in Seq(Range(toR)), Noted,
         Below(s, Starts(lowSent) \cup {m.seq : m \in Low(s.out)}, Arrived), Arrived' = Arrived,
         \A m \in Low(s.out) : m.len = MSS
  PROVE  Noted' /\ snd'.head = s.head /\ snd'.tail = s.tail
<1>1. /\ snd' = [s EXCEPT !.out = <<>>] /\ toR' = rest \o s.out /\ DOMAIN s = SenderFields
      /\ lowSent' = lowSent \o LowPriority(s.out)
      /\ s.out \in Seq(Sendable(s.tail, s.highTx, s.p2_block_max))
  BY DEF SenderBecomes, Shape
<1>2. /\ snd'.p2_block_bytes_sent = s.p2_block_bytes_sent /\ snd'.last_block_seq = s.last_block_seq
      /\ snd'.head = s.head /\ snd'.tail = s.tail /\ snd'.highTx = s.highTx
  BY <1>1 DEF SenderFields
<1>3. Range(toR') = Range(rest) \cup Range(s.out)
  <2> DEFINE o == s.out
             S == Range(toR)
             T == Sendable(s.tail, s.highTx, s.p2_block_max)
  <2>1. rest \in Seq(S) /\ o \in Seq(T) /\ toR' = rest \o o
    BY <1>1
  <2> HIDE DEF o, S, T
  <2>2. Range(rest \o o) = Range(rest) \cup Range(o)
    BY <2>1, ConcatRange
  <2> QED
    BY <2>1, <2>2 DEF o
<1>4. Range(rest) \subseteq Range(toR)
  <2> DEFINE S == Range(toR)
  <2>1. rest \in Seq(S)
    OBVIOUS
  <2> HIDE DEF S
  <2>2. Range(rest) \subseteq S
    BY <2>1 DEF Range
  <2> QED
    BY <2>2 DEF S
<1>5. /\ lowSent' \in Seq(Range(lowSent')) /\ Range(lowSent') = Range(lowSent) \cup Low(s.out)
  <2> DEFINE o == s.out
             low == LowPriority(o)
             S == Range(lowSent)
             T == Range(low)
             U == S \cup T
  <2>1. low \in Seq(T) /\ T = Low(o) /\ lowSent \in Seq(S) /\ lowSent' = lowSent \o low
    BY <1>1, LowPriorityIs DEF Noted
  <2> HIDE DEF o, low, S, T
  <2>2. Range(lowSent \o low) = Range(lowSent) \cup Range(low)
    BY <2>1, ConcatRange
  <2>3. lowSent \in Seq(U) /\ low \in Seq(U)
    BY <2>1, SeqGrows
  <2> HIDE DEF U
  <2>4. lowSent \o low \in Seq(U)
    BY <2>3
  <2> QED
    BY <2>1, <2>2, <2>4 DEF o, S, T, U
<1>6. Starts(lowSent') = Starts(lowSent) \cup {m.seq : m \in Low(s.out)}
  BY <1>5 DEF Starts
<1>7. Below(snd', Starts(lowSent'), Arrived')
  BY <1>2, <1>6 DEF Below
<1>8. Tagged(toR', Starts(lowSent'))
  BY <1>3, <1>4, <1>6 DEF Noted, Tagged, Low
<1>9. \A m \in Range(lowSent') : m.len = MSS
  BY <1>5 DEF Noted
<1> QED
  BY <1>2, <1>5, <1>7, <1>8, <1>9 DEF Noted

\* Nothing of low priority leaves what was sent as it is.
LEMMA NothingLow ==
  ASSUME NEW S, NEW q \in Seq(S), NEW T, NEW out \in Seq(T), Low(out) = {}
  PROVE  q \o LowPriority(out) = q
<1> DEFINE low == LowPriority(out)
<1>1. low \in Seq(Range(low)) /\ Range(low) = {}
  BY LowPriorityIs
<1> HIDE DEF low
<1>2. low = <<>>
  <2>1. Len(low) \in Nat /\ DOMAIN low = 1 .. Len(low)
    BY <1>1
  <2>2. ~(1 \in DOMAIN low)
    BY <1>1 DEF Range
  <2>3. Len(low) = 0
    BY <2>1, <2>2
  <2> QED
    BY <1>1, <2>3
<1>3. q \o <<>> = q
  OBVIOUS
<1> QED
  BY <1>2, <1>3 DEF low

LEMMA NotedStep ==
  ASSUME Segmented, FlowInv, FlowInv', InUse', Noted, [Next]_vars
  PROVE  Noted' /\ (lowSent' = lowSent \/ SendsAnew)
<1>1. /\ Shape(snd) /\ snd.out = <<>> /\ (Opening(snd) \/ Open(snd)) /\ RcvShape(rcv) /\ rcv.out = <<>>
      /\ toR \in Seq(Sendable(snd.tail, snd.highTx, snd.p2_block_max)) /\ toR \in Seq(Range(toR))
      /\ snd.tail \in Nat
  BY RangeSeq, ShapeTypes DEF FlowInv, Sending
<1>2. Arrived \in SUBSET Nat
  <2>1. Arrived \subseteq 1 .. snd.tail - 1
    BY DEF FlowInv, Agree, Arrived
  <2> QED
    BY <1>1, <2>1
<1> DEFINE L == Starts(lowSent)
<1>3. /\ Below(snd, L, Arrived) /\ Tagged(toR, L)
      /\ lowSent \in Seq(Range(lowSent)) /\ \A m \in Range(lowSent) : m.len = MSS
  BY DEF Noted
<1> HIDE DEF L
<1>4. rcv' = rcv => Arrived' = Arrived
  BY DEF Arrived
<1>5. CASE AppSend \/ SynAckArrives
  <2>1. PICK s : /\ SenderBecomes(s, toR) /\ rcv' = rcv /\ Shape(s) /\ snd.tail <= s.tail
                 /\ \/ Opening(snd) /\ Keeps(snd, s, {"tail"})
                    \/ \E d : Precedes(snd, d, s)
    BY <1>5, WritingStep
  <2> DEFINE sent == {m.seq : m \in Low(s.out)}
  <2>2. CASE Opening(snd) /\ Keeps(snd, s, {"tail"})
    <3>1. /\ s.out = <<>> /\ s.p2_block_bytes_sent = snd.p2_block_bytes_sent
          /\ s.last_block_seq = snd.last_block_seq /\ s.highTx = snd.highTx
      BY <1>1, <2>2 DEF Keeps, SenderFields
    <3>2. Low(s.out) = {}
      BY <3>1 DEF Low, Range
    <3>3. L \cup sent = L /\ lowSent' = lowSent
      BY <1>3, <2>1, <3>2, NothingLow DEF Shape, SenderBecomes
    <3>4. s.tail \in Nat /\ snd.last_block_seq \in Nat
      BY <1>3, <2>1, ShapeTypes, GridNat DEF Below, Edge
    <3>5. Below(s, L, Arrived)
      BY <1>1, <1>3, <2>1, <3>1, <3>4 DEF Below
    <3>6. Below(s, L \cup sent, Arrived)
      BY <3>3, <3>5
    <3>7. Noted'
      BY <1>1, <1>4, <2>1, <3>2, <3>6, BecomesNoted DEF L
    <3> QED
      BY <3>3, <3>7
  <2>3. CASE \E d : Precedes(snd, d, s)
    <3>1. PICK d : Precedes(snd, d, s)
      BY <2>3
    <3>2. /\ snd' = [s EXCEPT !.out = <<>>] /\ DOMAIN s = SenderFields
          /\ s.state = d.state /\ d.state = "ESTABLISHED"
      BY <2>1, <3>1 DEF SenderBecomes, Shape, Precedes, Keeps, SenderFields, Looped, Open
    <3>3. /\ snd'.state = s.state /\ snd'.scoreboard = s.scoreboard /\ snd'.head = s.head /\ snd'.tail = s.tail
          /\ snd'.nextTx = s.nextTx /\ snd'.highTx = s.highTx
      BY <3>2 DEF SenderFields
    <3>4. Used(s)
      BY <3>2, <3>3 DEF InUse, Used
    <3>5. \A t \in Marks(s.scoreboard) : Seg(t) \subseteq Arrived
      <4>1. \A t \in Marks(snd'.scoreboard) : Seg(t) \subseteq Receiver!Arrived(rcv'.buffer)
        BY DEF FlowInv, Agree
      <4> QED
        BY <2>1, <3>3, <4>1 DEF Arrived
    <3>6. /\ Below(s, L \cup sent, Arrived)
          /\ \A m \in Low(s.out) :
               /\ m.seq >= s.head /\ m.seq + m.len <= s.tail /\ m.seq \in Nat /\ m.len = MSS
               /\ \A q \in L : q + MSS <= m.seq
          /\ \A i, j \in DOMAIN s.out :
               i # j /\ s.out[i].prio > 0 /\ s.out[j].prio > 0 => Apart(s.out[i], s.out[j])
      BY <1>1, <1>2, <1>3, <3>1, <3>4, <3>5, WritingBelow
    <3>7. Noted' /\ snd'.head = s.head /\ snd'.tail = s.tail
      BY <1>1, <1>4, <2>1, <3>6, BecomesNoted DEF L
    <3>8. SendsAnew
      <4> DEFINE o == s.out
                 S == Range(lowSent)
                 T == Sendable(s.tail, s.highTx, s.p2_block_max)
      <4>1. lowSent' = lowSent \o LowPriority(o) /\ o \in Seq(T) /\ lowSent \in Seq(S) /\ MSS \in Nat
        BY <1>3, <2>1, MSSAssumption DEF SenderBecomes, Shape
      <4>2. /\ \A m \in Range(lowSent) : m.len = MSS
            /\ \A m \in Low(o) : \A n \in Starts(lowSent) : n + MSS <= m.seq
            /\ \A i, j \in DOMAIN o : i # j /\ o[i].prio > 0 /\ o[j].prio > 0 => Apart(o[i], o[j])
        BY <1>3, <3>6 DEF L
      <4>3. \A m \in Low(o) : m.seq >= snd'.head /\ m.seq + m.len <= snd'.tail /\ m.seq \in Nat
        BY <3>6, <3>7
      <4>4. snd'.head \in Nat
        BY <2>1, <3>7, ShapeTypes
      <4> HIDE DEF o, S, T
      <4>5. \A j \in Len(lowSent) + 1 .. Len(lowSent') :
              lowSent'[j] \in Low(o) /\ \A i \in 1 .. j - 1 : Apart(lowSent'[i], lowSent'[j])
        BY <4>1, <4>2, AddsAnew
      <4> QED
        BY <4>3, <4>4, <4>5 DEF SendsAnew
    <3> QED
      BY <3>7, <3>8
  <2> QED
    BY <2>1, <2>2, <2>3
<1>6. CASE AckArrives \/ Timeout
  <2>1. PICK s, rest : /\ SenderBecomes(s, rest) /\ rcv' = rcv /\ rest \in Seq(Range(toR))
                       /\ Shape(s) /\ Proceeds(snd, s) /\ BlockKept(snd, s)
    BY <1>6, WaitingStep
  <2>2. Low(s.out) = {}
    <3>1. Urgent(snd.out)
      BY <1>1 DEF Urgent
    <3>2. \A m \in Range(s.out) : m.prio = 0
      BY <2>1, <3>1 DEF Proceeds, Urgent, Range
    <3> QED
      BY <3>2 DEF Low
  <2>3. L \cup {m.seq : m \in Low(s.out)} = L /\ lowSent' = lowSent
    BY <1>3, <2>1, <2>2, NothingLow DEF Shape, SenderBecomes
  <2>4. Below(s, L, Arrived)
    BY <1>1, <1>2, <1>3, <2>1, WaitingBelow
  <2>5. Below(s, L \cup {m.seq : m \in Low(s.out)}, Arrived)
    BY <2>3, <2>4
  <2>6. Noted'
    BY <1>4, <2>1, <2>2, <2>5, BecomesNoted DEF L
  <2> QED
    BY <2>3, <2>6
<1>7. CASE SegmentArrives
  <2>1. PICK i \in Deliverable(toR) :
          LET e == Receiver!DoForwardUp(rcv, toR[i])
          IN rcv' = [e EXCEPT !.out = <<>>] /\ toR' = RemoveAt(toR, i)
    BY <1>7 DEF SegmentArrives
  <2>2. snd' = snd /\ lowSent' = lowSent
    BY <1>7 DEF SegmentArrives
  <2> DEFINE m == toR[i]
             e == Receiver!DoForwardUp(rcv, m)
             bytes == m.seq .. (m.seq + m.len) - 1
  <2>3. i \in DOMAIN toR
    BY DEF Deliverable
  <2>4. m \in Range(toR) /\ m \in Segs /\ Goes(m, snd.tail, snd.highTx, snd.p2_block_max)
    <3>1. m \in Sendable(snd.tail, snd.highTx, snd.p2_block_max)
      BY <1>1, <2>3
    <3> QED
      BY <2>3, <3>1 DEF Sendable, Range
  <2>5. rcv' = [e EXCEPT !.out = <<>>]
    BY <2>1
  <2> HIDE DEF m
  <2>6. /\ OnGrid(m.seq) /\ m.len \in {0, MSS} /\ m.prio \in Nat /\ m.seq \in Nat /\ m.len \in Nat
        /\ m.prio = 0 => m.seq + m.len <= snd.highTx
        /\ m.prio > 0 => m.len = MSS
    BY <2>4, SegTypes DEF Goes
  <2>7. Received(rcv, e, bytes)
    BY <1>1, <2>6, DoForwardUpIs
  <2> HIDE DEF e
  <2>8. rcv'.buffer = e.buffer
    BY <2>5, <2>7 DEF Received, RcvShape, ReceiverFields
  <2>9. Arrived' \subseteq Arrived \cup bytes
    BY <2>7, <2>8 DEF Received, Arrived
  <2>10. ASSUME NEW b \in bytes
         PROVE  b < snd.highTx \/ Covered(b, L)
    <3>1. b \in Nat /\ m.seq <= b /\ b < m.seq + m.len /\ snd.highTx \in Nat
      BY <1>1, <2>6, ShapeTypes
    <3>2. CASE m.prio = 0
      BY <2>6, <3>1, <3>2
    <3>3. CASE m.prio > 0
      <4>1. m.seq \in L
        BY <1>3, <2>4, <3>3 DEF Tagged, Low
      <4> QED
        BY <2>6, <3>1, <3>3, <4>1 DEF Covered
    <3> QED
      BY <2>6, <3>2, <3>3
  <2>11. Below(snd', L, Arrived')
    BY <1>3, <2>2, <2>9, <2>10 DEF Below
  <2>12. Range(toR') \subseteq Range(toR)
    BY <1>1, <2>1, <2>3, FewerMembers
  <2>13. Tagged(toR', L)
    BY <1>3, <2>2, <2>12 DEF Tagged, Low
  <2> QED
    BY <1>3, <2>2, <2>11, <2>13 DEF Noted, L
<1>8. CASE LoseSegment
  <2>1. snd' = snd /\ lowSent' = lowSent /\ rcv' = rcv /\ \E i \in DOMAIN toR : toR' = RemoveAt(toR, i)
    BY <1>8 DEF LoseSegment
  <2>2. Range(toR') \subseteq Range(toR)
    BY <1>1, <2>1, FewerMembers
  <2>3. Tagged(toR', L)
    BY <1>3, <2>1, <2>2 DEF Tagged, Low
  <2> QED
    BY <1>3, <1>4, <2>1, <2>3 DEF Noted, L
<1>9. CASE LoseAck \/ UNCHANGED vars
  <2>1. snd' = snd /\ lowSent' = lowSent /\ rcv' = rcv /\ toR' = toR
    BY <1>9 DEF LoseAck, vars
  <2> QED
    BY <1>3, <1>4, <2>1 DEF Noted, L
<1> QED
  BY <1>5, <1>6, <1>7, <1>8, <1>9 DEF Next

LEMMA LowInit ==
  ASSUME Init, NEW total, Counts(total)
  PROVE  Busy(total) /\ Noted
BY BusyInit, NotedInit

LEMMA LowStep ==
  ASSUME Segmented, MSS > 1, NEW total, Counts(total), Busy(total), Noted, WindowOpen', [Next]_vars
  PROVE  Busy(total)' /\ Noted' /\ [SendsAnew]_vars
<1>1. Busy(total)'
  BY BusyStep
<1>2. FlowInv /\ FlowInv' /\ InUse'
  BY <1>1 DEF Busy
<1>3. Noted' /\ (lowSent' = lowSent \/ SendsAnew)
  BY <1>2, NotedStep
<1>4. lowSent' = lowSent => SendsAnew
  <2>1. Len(lowSent) \in Nat
    BY DEF Noted
  <2> QED
    BY <2>1 DEF SendsAnew
<1> QED
  BY <1>1, <1>3, <1>4

LEMMA NotedMeans == Noted => SentBelowBlock
<1> SUFFICES ASSUME Noted, NEW b \in 1 .. snd.last_block_seq - 1, ~(b < snd.highTx)
             PROVE  \E m \in Range(lowSent) : m.seq <= b /\ b < m.seq + m.len
  BY DEF SentBelowBlock
<1>1. PICK q \in Starts(lowSent) : q <= b /\ b < q + MSS
  BY DEF Noted, Below, Covered
<1>2. PICK m \in Range(lowSent) : m.seq = q
  BY DEF Starts
<1>3. m.len = MSS
  BY DEF Noted
<1> QED
  BY <1>1, <1>2, <1>3

\* StartRLPLoop sends bytes of the transmit buffer only, and never one that it
\* has sent before: it is entered at every write and stops at last_block_seq.
THEOREM LowPriorityIsOnce ==
  ASSUME Segmented, WritesFit, MSS > 1
  PROVE  Spec /\ []WindowOpen => LowPriorityOnce
<1>1. PICK total : Counts(total)
  BY DEF WritesFit, Counts
<1> DEFINE I == Busy(total) /\ Noted
<1>2. Init => I
  BY <1>1, LowInit
<1>3. I /\ WindowOpen' /\ [Next]_vars => I' /\ [SendsAnew]_vars
  <2>1. ASSUME I, WindowOpen', [Next]_vars PROVE Busy(total)' /\ Noted' /\ [SendsAnew]_vars
    BY <1>1, <2>1, LowStep
  <2> QED
    BY <2>1
<1> HIDE DEF I
<1> QED
  BY <1>2, <1>3, PTL DEF Spec, LowPriorityOnce

\* Below last_block_seq nothing was skipped: when the low-priority loop gives up
\* because "priority 0 took care of all data", or the last block did, they have.
THEOREM BlockIsSent ==
  ASSUME Segmented, WritesFit, MSS > 1
  PROVE  Spec /\ []WindowOpen => []SentBelowBlock
<1>1. PICK total : Counts(total)
  BY DEF WritesFit, Counts
<1> DEFINE I == Busy(total) /\ Noted
<1>2. Init => I
  BY <1>1, LowInit
<1>3. I /\ WindowOpen' /\ [Next]_vars => I'
  <2>1. ASSUME I, WindowOpen', [Next]_vars PROVE Busy(total)' /\ Noted'
    BY <1>1, <2>1, LowStep
  <2> QED
    BY <2>1
<1>4. I => SentBelowBlock
  BY NotedMeans
<1> HIDE DEF I
<1> QED
  BY <1>2, <1>3, <1>4, PTL DEF Spec
=============================================================================
