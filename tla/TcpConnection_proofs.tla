------------------------- MODULE TcpConnection_proofs -------------------------
(***************************************************************************)
(* What holds of every connection, however the packets of the two sockets  *)
(* cross, are lost and are sent again, whatever the constants.             *)
(*                                                                         *)
(* A handler maps a socket to its next state.  Core is what holds of a     *)
(* socket whatever has happened to it, Opening what else holds during the  *)
(* handshake.  Base relates a socket to the one a handler makes of it,     *)
(* Leads adds what a client relies on that closes only after all is        *)
(* acknowledged, Does what depends on the packet; each operator of         *)
(* RC3Sender, RC3Receiver and TcpSocket has a lemma in these terms.        *)
(* Together relates the two sockets and the two paths, Patient adds such a *)
(* client, and Joint, which each action preserves, is the two.             *)
(***************************************************************************)
EXTENDS TcpConnection, Ranking_proofs, SequenceTheorems
-----------------------------------------------------------------------------
\* One socket.

Fields ==
  {"cnCount", "endPoint", "closeNotified", "shutdownSend", "lastAckEvent", "told", "asserted", "sent",
   "state", "rc3_p2", "scoreboard", "head", "tail", "nextTx", "highTx", "cWnd", "ssThresh", "recover",
   "inFastRec", "dupAckCount", "bumpedSeq", "p2_block_max", "p2_block_bytes_sent", "last_block_seq",
   "retx", "out", "recvCallback", "buffer", "read", "sackstack"}

Events == {Off, "ReTxTimeout"} \cup Retried

\* What the sending half puts in out in a state: data ends with the flow, and
\* only a socket that has closed repeats a FIN.
Outs(state) ==
  {q \in [flags : {"ACK", "", "FIN+ACK"}, prio : Nat, seq : Nat, len : 0 .. MSS] :
     /\ q.len > 0 => q.seq + q.len <= FlowSize + 1
     /\ q.flags = "FIN+ACK" => state \in Finishing}

\* The sending half.  An acknowledgement of a FIN moves both ends of the buffer
\* beyond the flow, and m_nextTxSequence with them.
Sender(s) ==
  /\ s.head \in Nat /\ s.tail \in Nat /\ s.nextTx \in Nat /\ s.highTx \in Nat
  /\ s.head <= s.tail
  /\ s.tail <= FlowSize + 1 \/ (s.head = s.tail /\ s.head <= s.nextTx)
  /\ s.scoreboard \in [known : SUBSET Int, acked : SUBSET Int, sacked : SUBSET Int]
  /\ s.retx \in Events
  /\ s.out \in Seq(Outs(s.state))

\* The receiving half: fragments are pairs of numbers, and finitely many.
BufOK(b) == b \in [next : Nat \ {0}, frags : SUBSET (Nat \X Nat), fin : Nat] /\ IsFiniteSet(b.frags)

\* A packet that a socket can have sent which expects byte next.
SentBefore(next) ==
  {p \in Packets : p.ack <= next /\ (p.len > 0 => p.seq + p.len <= FlowSize + 1) /\ (p.flags = "SYN" => p.prio = 0)}

\* Nothing to send, and the next segment is not before the buffer.
Dry(s) == s.head = s.tail /\ s.head <= s.nextTx

\* Whatever has happened to it.
Core(s) ==
  /\ DOMAIN s = Fields
  /\ s.state \in States /\ s.told \subseteq Notices /\ s.cnCount \in 0 .. CnRetries
  /\ {s.endPoint, s.closeNotified, s.shutdownSend, s.asserted, s.recvCallback} \subseteq BOOLEAN
  /\ Sender(s) /\ s.out = <<>>
  /\ BufOK(s.buffer) /\ s.sackstack \in Seq(Nat \X Nat)
  /\ s.sent \in Seq(SentBefore(s.buffer.next))
  /\ ~s.endPoint \/ s.state \in {"CLOSED", "TIME_WAIT"} => s.retx = Off
  /\ s.retx = "SYN" => s.state = "SYN_SENT"

\* Nothing has happened to it before the handshake.
Opening(s) ==
  /\ s.state = "SYN_SENT" =>
       /\ s.retx = "SYN" /\ s.endPoint /\ s.head = 1 /\ s.nextTx = 0 /\ s.p2_block_bytes_sent = 0
       /\ s.buffer = Receiver!EmptyBuffer
  /\ s.state = "SYN_RCVD" =>
       /\ s.retx \in {Off, "SYN+ACK"} /\ s.head = 1 /\ s.tail = 1 /\ s.nextTx = 0
       /\ s.buffer = Receiver!EmptyBuffer /\ "created" \notin s.told

Sound(s) == Core(s) /\ Opening(s)

\* A client that has not closed its half.
Virgin(s) == s.state \in {"SYN_SENT", "ESTABLISHED", "CLOSE_WAIT", "CLOSED"} /\ s.retx # "FIN+ACK"
-----------------------------------------------------------------------------
\* The sending half.

\* r differs from s in the fields in F only.
Keeps(s, r, F) == DOMAIN r = Fields /\ \A f \in Fields \ F : r[f] = s[f]

\* What a handler of the sending half may change.
Sends == {"scoreboard", "head", "tail", "nextTx", "highTx", "cWnd", "ssThresh", "recover", "inFastRec",
          "dupAckCount", "bumpedSeq", "retx", "out"}

NoData(q) == \A i \in DOMAIN q : q[i].len = 0 /\ q[i].flags # ""

\* The handler of an acknowledgement of the bytes below ack makes r of s.
After(s, r, ack) ==
  /\ Keeps(s, r, Sends) /\ Sender(r)
  /\ s.head <= r.head /\ r.head <= Larger(s.head, ack) /\ s.tail <= r.tail
  /\ s.head <= s.nextTx => r.head <= r.nextTx
  /\ Dry(s) /\ NoData(s.out) => Dry(r) /\ NoData(r.out)
  /\ r.retx \in {s.retx, Off, "ReTxTimeout"} \/ (r.retx = "FIN+ACK" /\ s.state \in Finishing)

LEMMA SenderTypes ==
  ASSUME NEW s, Sender(s)
  PROVE  /\ s.head \in Nat /\ s.tail \in Nat /\ s.nextTx \in Nat /\ s.highTx \in Nat /\ s.head <= s.tail
         /\ MSS \in Nat \ {0} /\ FlowSize \in Nat
BY MSSAssumption, SenderAssumption DEF Sender

LEMMA AfterTwice ==
  ASSUME NEW s, Sender(s), NEW ack \in Nat, NEW d, After(s, d, ack), NEW r, After(d, r, ack)
  PROVE  After(s, r, ack)
<1>1. Sender(d) /\ Sender(r) /\ Keeps(s, d, Sends) /\ Keeps(d, r, Sends)
  BY DEF After
<1>2. /\ s.head \in Nat /\ d.head \in Nat /\ r.head \in Nat /\ s.tail \in Nat /\ d.tail \in Nat /\ r.tail \in Nat
  BY <1>1, SenderTypes
<1>3. Keeps(s, r, Sends) /\ d.state = s.state
  BY <1>1 DEF Keeps, Fields, Sends
<1>4. s.head <= r.head /\ r.head <= Larger(s.head, ack) /\ s.tail <= r.tail
  BY <1>2 DEF After, Larger
<1>5. r.retx \in {s.retx, Off, "ReTxTimeout"} \/ (r.retx = "FIN+ACK" /\ s.state \in Finishing)
  BY <1>3 DEF After
<1>6. /\ s.head <= s.nextTx => r.head <= r.nextTx
      /\ Dry(s) /\ NoData(s.out) => Dry(r) /\ NoData(r.out)
  BY DEF After
<1> QED
  BY <1>1, <1>3, <1>4, <1>5, <1>6 DEF After

LEMMA AfterMore ==
  ASSUME NEW s, Sender(s), NEW ack \in Nat, NEW r, After(s, r, 0)
  PROVE  After(s, r, ack)
<1>1. s.head \in Nat /\ r.head \in Nat
  BY SenderTypes DEF After
<1>2. r.head <= Larger(s.head, ack)
  BY <1>1 DEF After, Larger
<1> QED
  BY <1>2 DEF After

\* The windows and the counters of recovery mean nothing here.
Windows == {"cWnd", "ssThresh", "recover", "inFastRec", "dupAckCount", "bumpedSeq"}

LEMMA AfterSame ==
  ASSUME NEW s, Sender(s), NEW r, Keeps(s, r, Windows)
  PROVE  Sender(r) /\ After(s, r, 0)
<1>1. /\ r.head = s.head /\ r.tail = s.tail /\ r.nextTx = s.nextTx /\ r.highTx = s.highTx
      /\ r.scoreboard = s.scoreboard /\ r.retx = s.retx /\ r.out = s.out /\ r.state = s.state
  BY DEF Keeps, Fields, Windows
<1>2. Sender(r)
  BY <1>1 DEF Sender
<1>3. Keeps(s, r, Sends)
  BY DEF Keeps, Windows, Sends
<1>4. s.head <= s.head /\ s.head <= Larger(s.head, 0) /\ s.tail <= s.tail
  BY SenderTypes DEF Larger
<1> QED
  BY <1>1, <1>2, <1>3, <1>4 DEF After, Dry

LEMMA SendDataPacketsIs ==
  ASSUME NEW s, DOMAIN s = Fields, Sender(s), s.tail <= FlowSize + 1,
         NEW seqs \in Seq(Nat), IsFiniteSet(Range(seqs)), \A t \in Range(seqs) : t < s.tail
  PROVE  LET r == SendDataPackets(s, seqs)
         IN /\ Keeps(s, r, {"highTx", "retx", "out"})
            /\ r.highTx \in Nat /\ r.retx \in {s.retx, "ReTxTimeout"} /\ r.out \in Seq(Outs(s.state))
<1> DEFINE r == SendDataPackets(s, seqs)
           ends == {t + Length(s, t) : t \in Range(seqs)}
           K == ends \cup {s.highTx}
           new == [i \in DOMAIN seqs |-> Segment(0, seqs[i], Length(s, seqs[i]))]
           S == Outs(s.state)
<1>1. Keeps(s, r, {"highTx", "retx", "out"})
  BY DEF Keeps, Fields, SendDataPackets
<1>2. r.highTx = Max(K) /\ r.out = s.out \o new /\ r.retx \in {s.retx, "ReTxTimeout"}
  BY DEF SendDataPackets, Fields, Schedule
<1>3. \A t \in Range(seqs) : t \in Nat /\ Length(s, t) \in 0 .. MSS /\ t + Length(s, t) <= s.tail
  <2>1. \A t \in Range(seqs) : t \in Nat /\ t < s.tail
    BY DEF Range
  <2>2. s.tail \in Nat /\ MSS \in Nat \ {0}
    BY SenderTypes
  <2> QED
    BY <2>1, <2>2 DEF Length, Smaller
<1>4. r.highTx \in Nat
  <2> DEFINE n == s.tail + s.highTx
  <2>0. s.tail \in Nat /\ s.highTx \in Nat /\ n \in Nat /\ s.tail <= n /\ s.highTx <= n
    BY SenderTypes
  <2> HIDE DEF n
  <2>1. K \in SUBSET (0 .. n) /\ K # {} /\ K \in SUBSET Nat
    <3>1. \A k \in ends : k \in 0 .. n
      BY <1>3, <2>0
    <3> HIDE DEF ends
    <3> QED
      BY <2>0, <3>1
  <2>2. IsFiniteSet(0 .. n)
    <3>1. 0 \in Int /\ n \in Int
      BY <2>0
    <3> QED
      BY <3>1, FS_Interval
  <2> HIDE DEF K, r
  <2>3. IsFiniteSet(K)
    BY <2>1, <2>2, FS_Subset
  <2>4. Max(K) \in K
    <3>1. K \in SUBSET Int
      BY <2>1
    <3> QED
      BY <2>1, <2>3, <3>1, MaxIs
  <2> QED
    BY <1>2, <2>1, <2>4
<1>5. new \in Seq(S)
  <2>1. DOMAIN seqs = 1 .. Len(seqs) /\ Len(seqs) \in Nat
    OBVIOUS
  <2>2. ASSUME NEW i \in DOMAIN seqs PROVE new[i] \in S
    <3> DEFINE t == seqs[i]
               l == Length(s, t)
    <3>1. t \in Range(seqs)
      BY DEF Range
    <3>2. t \in Nat /\ l \in 0 .. MSS /\ l \in Nat /\ t + l <= FlowSize + 1
      <4>1. t \in Nat /\ l \in 0 .. MSS /\ t + l <= s.tail
        BY <1>3, <3>1
      <4> HIDE DEF t, l
      <4> QED
        BY <4>1, SenderTypes
    <3>3. new[i] = [flags |-> "ACK", prio |-> 0, seq |-> t, len |-> l]
      BY DEF Segment
    <3> HIDE DEF new, t, l
    <3> QED
      BY <3>2, <3>3 DEF Outs
  <2>3. DOMAIN new = 1 .. Len(seqs) /\ new = [i \in 1 .. Len(seqs) |-> new[i]]
    BY <2>1
  <2> HIDE DEF new, S
  <2> QED
    BY <2>1, <2>2, <2>3
<1>6. r.out \in Seq(S)
  <2>1. s.out \in Seq(S)
    BY DEF Sender
  <2> HIDE DEF r, new, S
  <2> QED
    BY <1>2, <1>5, <2>1
<1> QED
  BY <1>1, <1>2, <1>4, <1>6
-----------------------------------------------------------------------------
\* Its packets and timers.  What SendPendingData may change:
Sent == {"nextTx", "highTx", "retx", "out"}

LEMMA BoardTypes ==
  ASSUME NEW board \in [known : SUBSET Int, acked : SUBSET Int, sacked : SUBSET Int], NEW a \in Nat
  PROVE  /\ Unmarked(board, a) \in SUBSET Nat /\ \A t \in Unmarked(board, a) : a <= t
         /\ GetNextAggSegment(board, a) \in Nat
         /\ GetNextAggSegment(board, a) = 0 \/ a <= GetNextAggSegment(board, a)
<1> DEFINE U == Unmarked(board, a)
<1>1. \A t \in U : t \in Int /\ a <= t
  BY DEF Unmarked, WalkUp
<1>2. U \in SUBSET Nat
  BY <1>1
<1>3. CASE U = {}
  BY <1>1, <1>2, <1>3 DEF GetNextAggSegment
<1>4. CASE U # {}
  <2>1. GetNextAggSegment(board, a) = Min(U)
    BY <1>4 DEF GetNextAggSegment
  <2> HIDE DEF U
  <2>2. Min(U) \in U
    BY <1>2, <1>4, MinOfNat
  <2> QED
    BY <1>1, <1>2, <2>1, <2>2 DEF U
<1> QED
  BY <1>3, <1>4

LEMMA SendSegmentsIs ==
  ASSUME NEW s, DOMAIN s = Fields, Sender(s), s.tail <= FlowSize + 1,
         NEW seqs \in Seq(Nat), seqs # <<>>, IsFiniteSet(Range(seqs)), Last(seqs) \in Range(seqs),
         \A t \in Range(seqs) : t < s.tail /\ s.nextTx <= t
  PROVE  LET r == SendSegments(s, seqs)
         IN /\ Keeps(s, r, Sent) /\ Sender(r) /\ s.nextTx < r.nextTx
            /\ r.retx \in {s.retx, "ReTxTimeout"}
<1> DEFINE d == SendDataPackets(s, seqs)
           last == Last(seqs)
           after == last + Length(s, last)
           e == [d EXCEPT !.nextTx = after]
           g == GetNextAggSegment(s.scoreboard, after)
           r == SendSegments(s, seqs)
<1>0. s.tail \in Nat /\ s.nextTx \in Nat /\ MSS \in Nat \ {0}
  BY SenderTypes
<1>1. after \in Nat /\ s.nextTx < after
  <2>1. last \in Nat /\ last < s.tail /\ s.nextTx <= last
    <3>1. \A t \in Range(seqs) : t \in Nat
      BY DEF Range
    <3> QED
      BY <3>1
  <2> HIDE DEF last
  <2> QED
    BY <1>0, <2>1 DEF Length, Smaller
<1>2. /\ Keeps(s, d, {"highTx", "retx", "out"})
      /\ d.highTx \in Nat /\ d.retx \in {s.retx, "ReTxTimeout"} /\ d.out \in Seq(Outs(s.state))
  BY SendDataPacketsIs
<1>3. r = [e EXCEPT !.nextTx = IF g > 0 THEN g ELSE @]
  BY <1>2 DEF SendSegments, Advance, Keeps, Fields
<1>4. g \in Nat /\ (g = 0 \/ after <= g)
  <2> HIDE DEF after
  <2> QED
    BY <1>1, BoardTypes DEF Sender
<1> HIDE DEF d, after, g, r
<1>5. Keeps(d, r, {"nextTx"}) /\ r.nextTx = (IF g > 0 THEN g ELSE after)
  BY <1>2, <1>3 DEF Keeps, Fields
<1>6. r.nextTx \in Nat /\ s.nextTx < r.nextTx
  BY <1>1, <1>4, <1>5, SenderTypes
<1>7. /\ r.head = s.head /\ r.tail = s.tail /\ r.scoreboard = s.scoreboard /\ r.state = s.state
      /\ r.highTx = d.highTx /\ r.retx = d.retx /\ r.out = d.out
  BY <1>2, <1>5 DEF Keeps, Fields
<1>8. Keeps(s, r, Sent)
  BY <1>2, <1>5 DEF Keeps, Fields, Sent
<1>9. r.retx \in Events
  BY <1>2, <1>7 DEF Sender, Events
<1>10. Sender(r)
  BY <1>2, <1>6, <1>7, <1>9 DEF Sender
<1> QED
  BY <1>2, <1>6, <1>7, <1>8, <1>10 DEF r

LEMMA LastIs ==
  ASSUME NEW S, NEW q \in Seq(S), q # <<>>
  PROVE  Last(q) \in Range(q)
<1>1. Len(q) \in DOMAIN q
  OBVIOUS
<1> QED
  BY <1>1 DEF Last, Range

\* What is pending goes out from m_nextTxSequence on, and only from the buffer.
LEMMA SendPendingDataIs ==
  ASSUME NEW s, DOMAIN s = Fields, Sender(s)
  PROVE  LET r == SendPendingData(s)
         IN Keeps(s, r, Sent) /\ Sender(r) /\ After(s, r, 0)
<1> DEFINE U == {t \in Unmarked(s.scoreboard, s.nextTx) : t < s.tail}
           K == WindowTakes(s, U)
           seqs == Ascending(K)
           r == SendPendingData(s)
<1>1. r = SendSegments(s, seqs)
  BY DEF SendPendingData
<1>2. K \subseteq U
  BY DEF WindowTakes
<1>3. \A t \in U : t \in Nat /\ s.nextTx <= t /\ t < s.tail /\ t \in 0 .. s.tail
  <2>1. Unmarked(s.scoreboard, s.nextTx) \in SUBSET Nat /\ \A t \in Unmarked(s.scoreboard, s.nextTx) : s.nextTx <= t
    BY BoardTypes DEF Sender
  <2> QED
    BY <2>1, SenderTypes
<1>4. K \in SUBSET Int /\ IsFiniteSet(K)
  <2>1. 0 \in Int /\ s.tail \in Int
    BY SenderTypes
  <2>2. IsFiniteSet(0 .. s.tail)
    BY <2>1, FS_Interval
  <2> HIDE DEF K
  <2>3. K \in SUBSET (0 .. s.tail) /\ K \in SUBSET Int
    BY <1>2, <1>3
  <2>4. IsFiniteSet(K)
    BY <2>2, <2>3, FS_Subset
  <2> QED
    BY <2>3, <2>4
<1> HIDE DEF K
<1>5. seqs \in Seq(K) /\ (seqs = <<>> <=> K = {}) /\ Range(seqs) = K
  BY <1>4, AscendingIs
<1> HIDE DEF seqs, r
<1>7. CASE K = {}
  <2>1. r = s
    BY <1>1, <1>5, <1>7 DEF SendSegments
  <2>2. Keeps(s, s, Sent) /\ Keeps(s, s, Windows)
    BY DEF Keeps
  <2> QED
    BY <2>1, <2>2, AfterSame DEF r
<1>8. CASE K # {}
  <2>1. seqs \in Seq(Nat)
    <3>1. K \subseteq Nat
      BY <1>2, <1>3
    <3> QED
      BY <1>5, <3>1, SeqGrows
  <2>2. seqs # <<>> /\ IsFiniteSet(Range(seqs)) /\ Last(seqs) \in Range(seqs)
    BY <1>4, <1>5, <1>8, LastIs
  <2>3. \A t \in Range(seqs) : t < s.tail /\ s.nextTx <= t
    BY <1>2, <1>3, <1>5
  <2>4. s.tail <= FlowSize + 1 /\ ~Dry(s)
    <3>1. PICK t \in U : TRUE
      BY <1>2, <1>8
    <3>2. t \in Nat /\ s.nextTx <= t /\ t < s.tail
      BY <1>3
    <3>3. ~(s.head = s.tail /\ s.head <= s.nextTx)
      BY <3>2, SenderTypes
    <3> QED
      BY <3>3 DEF Sender, Dry
  <2>5. /\ Keeps(s, r, Sent) /\ Sender(r) /\ s.nextTx < r.nextTx
        /\ r.retx \in {s.retx, "ReTxTimeout"}
    BY <1>1, <2>1, <2>2, <2>3, <2>4, SendSegmentsIs
  <2>6. r.head = s.head /\ r.tail = s.tail /\ Keeps(s, r, Sends)
    BY <2>5 DEF Keeps, Fields, Sent, Sends
  <2>7. r.nextTx \in Nat
    BY <2>5, SenderTypes
  <2>8. After(s, r, 0)
    BY <2>4, <2>5, <2>6, <2>7, SenderTypes DEF After, Larger
  <2> QED
    BY <2>5, <2>8 DEF r
<1> QED
  BY <1>7, <1>8
-----------------------------------------------------------------------------
\* An acknowledgement.  The parts of After, for the last leaf of the lemmas below:
LEMMA AfterParts ==
  ASSUME NEW s, Sender(s), NEW ack \in Nat, NEW r, Keeps(s, r, Sends), Sender(r),
         s.head <= r.head, r.head <= Larger(s.head, ack), s.tail <= r.tail,
         s.head <= s.nextTx => r.head <= r.nextTx,
         Dry(s) /\ NoData(s.out) => Dry(r) /\ NoData(r.out),
         r.retx \in {s.retx, Off, "ReTxTimeout"} \/ (r.retx = "FIN+ACK" /\ s.state \in Finishing)
  PROVE  After(s, r, ack)
BY DEF After

\* The first segment goes again, or the FIN when there is none.
LEMMA DoRetransmitIs ==
  ASSUME NEW s, DOMAIN s = Fields, Sender(s)
  PROVE  After(s, DoRetransmit(s), 0)
<1> DEFINE r == DoRetransmit(s)
<1>0. /\ s.head \in Nat /\ s.tail \in Nat /\ s.nextTx \in Nat /\ s.head <= s.tail /\ MSS \in Nat \ {0}
      /\ s.head <= Larger(s.head, 0) /\ s.head <= s.head /\ s.tail <= s.tail
  BY SenderTypes DEF Larger
<1>1. CASE s.head = s.tail /\ s.state \notin Finishing
  <2>1. r = s
    BY <1>0, <1>1 DEF DoRetransmit, Outstanding
  <2>2. Keeps(s, s, Windows)
    BY DEF Keeps
  <2> QED
    BY <2>1, <2>2, AfterSame
<1>2. CASE s.head = s.tail /\ s.state \in Finishing
  <2> DEFINE q == [flags |-> "FIN+ACK", prio |-> 0, seq |-> s.nextTx, len |-> 0]
  <2>1. r = [s EXCEPT !.retx = Schedule(@, "FIN+ACK"), !.out = Append(@, q)]
    <3>1. r = ResendFin(s)
      BY <1>0, <1>2 DEF DoRetransmit, Outstanding
    <3>2. [Segment(0, s.nextTx, 0) EXCEPT !.flags = "FIN+ACK"] = q
      BY DEF Segment
    <3> HIDE DEF q, r
    <3> QED
      BY <3>1, <3>2 DEF ResendFin
  <2>2. q \in Outs(s.state) /\ q.len = 0 /\ q.flags # ""
    BY <1>0, <1>2 DEF Outs
  <2> HIDE DEF q
  <2>3. Keeps(s, r, {"retx", "out"}) /\ r.retx = Schedule(s.retx, "FIN+ACK") /\ r.out = Append(s.out, q)
    BY <2>1 DEF Keeps, Fields
  <2> HIDE DEF r
  <2>4. /\ r.head = s.head /\ r.tail = s.tail /\ r.nextTx = s.nextTx /\ r.highTx = s.highTx
        /\ r.scoreboard = s.scoreboard /\ r.state = s.state
    BY <2>3 DEF Keeps, Fields
  <2>5. r.retx \in {s.retx, "FIN+ACK"} /\ r.retx \in Events
    BY <2>3 DEF Schedule, Sender, Events, Retried
  <2>6. r.out \in Seq(Outs(s.state)) /\ (NoData(s.out) => NoData(r.out))
    <3> DEFINE p == s.out
               S == Outs(s.state)
    <3>1. p \in Seq(S) /\ q \in S /\ r.out = Append(p, q)
      BY <2>2, <2>3 DEF Sender
    <3> HIDE DEF p, S
    <3>2. Append(p, q) \in Seq(S)
      BY <3>1
    <3>3. ASSUME NoData(p) PROVE NoData(Append(p, q))
      <4>1. Len(p) \in Nat /\ DOMAIN p = 1 .. Len(p) /\ DOMAIN Append(p, q) = 1 .. Len(p) + 1
        BY <3>1
      <4>2. \A i \in 1 .. Len(p) + 1 : Append(p, q)[i] = q \/ (i \in 1 .. Len(p) /\ Append(p, q)[i] = p[i])
        BY <3>1, <4>1
      <4> QED
        BY <2>2, <3>3, <4>1, <4>2 DEF NoData
    <3> QED
      BY <3>1, <3>2, <3>3 DEF p, S
  <2>7. Sender(r)
    BY <2>4, <2>5, <2>6 DEF Sender
  <2>8. Keeps(s, r, Sends)
    BY <2>3 DEF Keeps, Sends
  <2>9. Dry(s) /\ NoData(s.out) => Dry(r) /\ NoData(r.out)
    BY <2>4, <2>6 DEF Dry
  <2>10. After(s, r, 0)
    BY <1>0, <1>2, <2>4, <2>5, <2>7, <2>8, <2>9, AfterParts
  <2> QED
    BY <2>10 DEF r
<1>3. CASE s.head # s.tail
  <2> DEFINE seqs == <<s.head>>
             d == SendDataPackets(s, seqs)
             end == s.head + Length(s, s.head)
  <2>1. r = [d EXCEPT !.nextTx = Larger(@, end)]
    BY <1>0, <1>3 DEF DoRetransmit, Outstanding
  <2>2. end \in Nat /\ s.head <= end
    BY <1>0 DEF Length, Smaller
  <2>3. s.tail <= FlowSize + 1 /\ ~Dry(s)
    BY <1>3 DEF Sender, Dry
  <2>4. seqs \in Seq(Nat) /\ Range(seqs) = {s.head}
    BY <1>0 DEF Range
  <2>5. /\ Keeps(s, d, {"highTx", "retx", "out"})
        /\ d.highTx \in Nat /\ d.retx \in {s.retx, "ReTxTimeout"} /\ d.out \in Seq(Outs(s.state))
    <3> HIDE DEF seqs
    <3>1. IsFiniteSet(Range(seqs))
      BY <2>4, FS_Singleton
    <3>2. \A t \in Range(seqs) : t < s.tail
      BY <1>0, <1>3, <2>4
    <3> QED
      BY <2>3, <2>4, <3>1, <3>2, SendDataPacketsIs
  <2> HIDE DEF d, end, r
  <2>6. Keeps(d, r, {"nextTx"}) /\ r.nextTx = Larger(s.nextTx, end)
    BY <2>1, <2>5 DEF Keeps, Fields
  <2>7. /\ r.head = s.head /\ r.tail = s.tail /\ r.scoreboard = s.scoreboard /\ r.state = s.state
        /\ r.highTx = d.highTx /\ r.retx = d.retx /\ r.out = d.out
    BY <2>5, <2>6 DEF Keeps, Fields
  <2>8. Keeps(s, r, Sends)
    BY <2>5, <2>6 DEF Keeps, Fields, Sends
  <2>9. r.nextTx \in Nat /\ (s.head <= s.nextTx => r.head <= r.nextTx)
    BY <1>0, <2>2, <2>6, <2>7 DEF Larger
  <2>10. r.retx \in Events
    BY <2>5, <2>7 DEF Sender, Events
  <2>11. Sender(r)
    BY <1>3, <2>5, <2>7, <2>9, <2>10 DEF Sender
  <2>12. r.retx \in {s.retx, Off, "ReTxTimeout"}
    BY <2>5, <2>7
  <2>13. After(s, r, 0)
    BY <1>0, <2>3, <2>7, <2>8, <2>9, <2>11, <2>12, AfterParts
  <2> QED
    BY <2>13 DEF r
<1> QED
  BY <1>1, <1>2, <1>3

LEMMA BaseNewAckIs ==
  ASSUME NEW s, DOMAIN s = Fields, Sender(s), NEW ack \in Nat
  PROVE  After(s, BaseNewAck(s, ack), ack)
<1> DEFINE disc == DiscardUpTo(s, ack)
           freed == [disc EXCEPT !.nextTx = Larger(@, ack)]
           owed == Outstanding(freed) > 0 \/ s.state \in Finishing
           f == [freed EXCEPT !.retx = IF owed THEN "ReTxTimeout" ELSE Off]
<1>1. BaseNewAck(s, ack) = SendPendingData(f)
  BY DEF BaseNewAck
<1>2. /\ Keeps(s, f, {"head", "tail", "nextTx", "retx"}) /\ f.retx \in {Off, "ReTxTimeout"}
      /\ f.head = Larger(s.head, ack) /\ f.tail = Larger(s.tail, ack) /\ f.nextTx = Larger(s.nextTx, ack)
  <2> HIDE DEF owed
  <2> QED
    BY DEF DiscardUpTo, Keeps, Fields
<1> HIDE DEF f
<1>3. /\ f.highTx = s.highTx /\ f.scoreboard = s.scoreboard /\ f.out = s.out /\ f.state = s.state
  BY <1>2 DEF Keeps, Fields
<1>4. s.head \in Nat /\ s.tail \in Nat /\ s.nextTx \in Nat /\ s.head <= s.tail /\ FlowSize \in Nat
  BY SenderTypes
<1>5. /\ f.head \in Nat /\ f.tail \in Nat /\ f.nextTx \in Nat /\ f.head <= f.tail
      /\ s.head <= f.head /\ s.tail <= f.tail /\ f.head <= Larger(s.head, ack)
      /\ s.head <= s.nextTx => f.head <= f.nextTx
      /\ Dry(s) => Dry(f)
  BY <1>2, <1>4 DEF Larger, Dry
<1>6. f.tail <= FlowSize + 1 \/ (f.head = f.tail /\ f.head <= f.nextTx)
  <2>1. CASE s.tail <= FlowSize + 1
    BY <1>2, <1>4, <2>1 DEF Larger
  <2>2. CASE s.head = s.tail /\ s.head <= s.nextTx
    BY <1>2, <1>4, <2>2 DEF Larger
  <2> QED
    BY <2>1, <2>2 DEF Sender
<1>7. f.retx \in Events
  BY <1>2 DEF Events
<1>8. Sender(f)
  BY <1>3, <1>5, <1>6, <1>7 DEF Sender
<1>9. Keeps(s, f, Sends)
  BY <1>2 DEF Keeps, Sends
<1>10. After(s, f, ack)
  BY <1>2, <1>3, <1>5, <1>8, <1>9, AfterParts
<1>11. DOMAIN f = Fields
  BY <1>2 DEF Keeps
<1>12. After(f, SendPendingData(f), ack)
  BY <1>8, <1>11, SendPendingDataIs, AfterMore
<1> QED
  BY <1>1, <1>10, <1>12, AfterTwice

LEMMA AfterDomain ==
  ASSUME NEW s, NEW r, NEW ack, After(s, r, ack)
  PROVE  DOMAIN r = Fields /\ Sender(r)
BY DEF After, Keeps

LEMMA NewAckIs ==
  ASSUME NEW s, DOMAIN s = Fields, Sender(s), NEW ack \in Nat
  PROVE  After(s, NewAck(s, ack), ack)
<1>1. CASE s.inFastRec /\ ack < s.recover
  <2> DEFINE d == [s EXCEPT !.cWnd = (@ - (ack - s.head) + MSS) % WordSize]
             b == BaseNewAck(d, ack)
  <2>1. NewAck(s, ack) = DoRetransmit(b)
    BY <1>1 DEF NewAck
  <2>2. Keeps(s, d, Windows)
    BY DEF Keeps, Fields, Windows
  <2> HIDE DEF d
  <2>3. Sender(d) /\ DOMAIN d = Fields /\ After(s, d, ack)
    BY <2>2, AfterSame, AfterMore DEF Keeps
  <2>4. After(d, b, ack)
    BY <2>3, BaseNewAckIs
  <2> HIDE DEF b
  <2>5. Sender(b) /\ DOMAIN b = Fields
    BY <2>4, AfterDomain
  <2>6. After(b, DoRetransmit(b), ack)
    BY <2>5, DoRetransmitIs, AfterMore
  <2>7. After(s, b, ack)
    BY <2>3, <2>4, AfterTwice
  <2> QED
    BY <2>1, <2>6, <2>7, AfterTwice
<1>2. CASE ~(s.inFastRec /\ ack < s.recover)
  <2> DEFINE d == Recovered(s)
             e == Grown(d)
  <2>1. NewAck(s, ack) = BaseNewAck(e, ack)
    BY <1>2 DEF NewAck
  <2>2. Keeps(s, d, Windows)
    BY DEF Recovered, Keeps, Fields, Windows
  <2> HIDE DEF d
  <2>3. Keeps(s, e, Windows)
    BY <2>2 DEF Grown, Keeps, Fields, Windows
  <2> HIDE DEF e
  <2>4. Sender(e) /\ DOMAIN e = Fields /\ After(s, e, ack)
    BY <2>3, AfterSame, AfterMore DEF Keeps
  <2>5. After(e, BaseNewAck(e, ack), ack)
    BY <2>4, BaseNewAckIs
  <2> QED
    BY <2>1, <2>4, <2>5, AfterTwice
<1> QED
  BY <1>1, <1>2

\* The acknowledgement is beyond what this socket takes for sent.
LEMMA BumpedIs ==
  ASSUME NEW s, DOMAIN s = Fields, Sender(s), NEW ack \in Nat, ack > s.nextTx
  PROVE  After(s, Bumped(s, ack), ack)
<1> DEFINE r == Bumped(s, ack)
<1>1. /\ Keeps(s, r, {"bumpedSeq", "nextTx", "highTx"}) /\ r.nextTx = ack /\ r.highTx = Larger(s.highTx, ack)
  BY DEF Bumped, Keeps, Fields
<1> HIDE DEF r
<1>2. /\ r.head = s.head /\ r.tail = s.tail /\ r.scoreboard = s.scoreboard /\ r.state = s.state
      /\ r.retx = s.retx /\ r.out = s.out
  BY <1>1 DEF Keeps, Fields
<1>3. /\ s.head \in Nat /\ s.tail \in Nat /\ s.nextTx \in Nat /\ s.highTx \in Nat
  BY SenderTypes
<1>4. /\ r.highTx \in Nat /\ s.head <= r.head /\ s.tail <= r.tail /\ r.head <= Larger(s.head, ack)
      /\ s.head <= s.nextTx => r.head <= r.nextTx
      /\ Dry(s) => Dry(r)
  BY <1>1, <1>2, <1>3 DEF Larger, Dry
<1>5. r.tail <= FlowSize + 1 \/ (r.head = r.tail /\ r.head <= r.nextTx)
  BY <1>1, <1>2, <1>3, <1>4 DEF Sender
<1>6. Sender(r)
  BY <1>1, <1>2, <1>4, <1>5 DEF Sender
<1>7. Keeps(s, r, Sends)
  BY <1>1 DEF Keeps, Sends
<1>8. After(s, r, ack)
  BY <1>2, <1>4, <1>6, <1>7, AfterParts
<1> QED
  BY <1>8 DEF r

LEMMA BumpedNewAck ==
  ASSUME NEW s, DOMAIN s = Fields, Sender(s), NEW ack \in Nat, ack > s.nextTx
  PROVE  After(s, NewAck(Bumped(s, ack), ack), ack)
<1> DEFINE b == Bumped(s, ack)
<1>1. After(s, b, ack)
  BY BumpedIs
<1> HIDE DEF b
<1>2. After(b, NewAck(b, ack), ack)
  BY <1>1, AfterDomain, NewAckIs
<1>3. After(s, NewAck(b, ack), ack)
  BY <1>1, <1>2, AfterTwice
<1> QED
  BY <1>3 DEF b

LEMMA DupAckIs ==
  ASSUME NEW s0, DOMAIN s0 = Fields, Sender(s0)
  PROVE  After(s0, DupAck(s0), 0)
<1> DEFINE s == [s0 EXCEPT !.dupAckCount = @ + 1]
           lost == [s EXCEPT !.ssThresh = HalfFlight(s), !.cWnd = HalfFlight(s) + 3 * MSS,
                             !.recover = s.highTx, !.inFastRec = TRUE]
           more == [s EXCEPT !.cWnd = (@ + MSS) % WordSize]
<1>1. DupAck(s0) \in {DoRetransmit(lost), SendPendingData(more), s}
  BY DEF DupAck
<1>2. Keeps(s0, s, Windows)
  BY DEF Keeps, Fields, Windows
<1> HIDE DEF s
<1>3. Keeps(s0, lost, Windows) /\ Keeps(s0, more, Windows)
  BY <1>2 DEF Keeps, Fields, Windows
<1> HIDE DEF lost, more
<1>4. /\ Sender(lost) /\ DOMAIN lost = Fields /\ After(s0, lost, 0)
      /\ Sender(more) /\ DOMAIN more = Fields /\ After(s0, more, 0)
      /\ After(s0, s, 0)
  BY <1>2, <1>3, AfterSame DEF Keeps
<1>5. After(lost, DoRetransmit(lost), 0) /\ After(more, SendPendingData(more), 0)
  BY <1>4, DoRetransmitIs, SendPendingDataIs
<1>6. After(s0, DoRetransmit(lost), 0) /\ After(s0, SendPendingData(more), 0)
  BY <1>4, <1>5, AfterTwice
<1> QED
  BY <1>1, <1>4, <1>6

LEMMA SameAckIs ==
  ASSUME NEW s, DOMAIN s = Fields, Sender(s), NEW ack \in Nat
  PROVE  After(s, SameAck(s, ack), ack)
<1>1. CASE s.rc3_p2 /\ ack = s.bumpedSeq
  <2> DEFINE d == [s EXCEPT !.highTx = Larger(@, s.nextTx)]
  <2>1. SameAck(s, ack) = NewAck(d, ack)
    BY <1>1 DEF SameAck
  <2>2. Keeps(s, d, {"highTx"}) /\ d.highTx = Larger(s.highTx, s.nextTx)
    BY DEF Keeps, Fields
  <2> HIDE DEF d
  <2>3. /\ d.head = s.head /\ d.tail = s.tail /\ d.scoreboard = s.scoreboard /\ d.state = s.state
        /\ d.retx = s.retx /\ d.out = s.out /\ d.nextTx = s.nextTx
    BY <2>2 DEF Keeps, Fields
  <2>4. d.highTx \in Nat /\ s.head \in Nat /\ s.tail \in Nat /\ s.head <= s.head /\ s.tail <= s.tail
        /\ s.head <= Larger(s.head, ack)
    BY <2>2, SenderTypes DEF Larger
  <2>5. Sender(d)
    BY <2>3, <2>4 DEF Sender
  <2>6. Keeps(s, d, Sends)
    BY <2>2 DEF Keeps, Sends
  <2>7. After(s, d, ack)
    BY <2>3, <2>4, <2>5, <2>6, AfterParts DEF Dry
  <2>8. After(d, NewAck(d, ack), ack)
    BY <2>7, AfterDomain, NewAckIs
  <2> QED
    BY <2>1, <2>7, <2>8, AfterTwice
<1>2. CASE ~(s.rc3_p2 /\ ack = s.bumpedSeq)
  <2> DEFINE d == IF ack < s.nextTx THEN DupAck(s) ELSE s
  <2>1. SameAck(s, ack) = AckBeyondNext(d, ack)
    BY <1>2 DEF SameAck
  <2>2. After(s, d, ack)
    <3>1. Keeps(s, s, Windows)
      BY DEF Keeps
    <3>2. After(s, s, 0) /\ After(s, DupAck(s), 0)
      BY <3>1, AfterSame, DupAckIs
    <3> QED
      BY <3>2, AfterMore
  <2> HIDE DEF d
  <2>3. DOMAIN d = Fields /\ Sender(d)
    BY <2>2, AfterDomain
  <2>4. CASE ack > d.nextTx /\ d.nextTx # 0
    <3>1. After(d, AckBeyondNext(d, ack), ack)
      BY <2>3, <2>4, BumpedNewAck DEF AckBeyondNext
    <3> QED
      BY <2>1, <2>2, <3>1, AfterTwice
  <2>5. CASE ~(ack > d.nextTx /\ d.nextTx # 0)
    BY <2>1, <2>2, <2>5 DEF AckBeyondNext
  <2> QED
    BY <2>4, <2>5
<1> QED
  BY <1>1, <1>2
-----------------------------------------------------------------------------
\* An acknowledgement as a whole, and the timeout.

LEMMA BoardUpdated ==
  ASSUME NEW board \in [known : SUBSET Int, acked : SUBSET Int, sacked : SUBSET Int],
         NEW ack, NEW sack \in Seq(Nat \X Nat)
  PROVE  UpdateScoreBoard(board, ack, sack) \in [known : SUBSET Int, acked : SUBSET Int, sacked : SUBSET Int]
<1> DEFINE fresh == board.known \ board.acked
           below == {t \in fresh : t < ack /\ Stride(t, ack) /\ Strides(t, ack - 1) \subseteq fresh}
           inBlocks == UNION {Strides(b[1], b[2] - 1) : b \in Range(sack)}
<1>1. below \in SUBSET Int
  OBVIOUS
<1>2. inBlocks \in SUBSET Int
  BY DEF Strides
<1> HIDE DEF below, inBlocks
<1> QED
  BY <1>1, <1>2 DEF UpdateScoreBoard, below, inBlocks, fresh

LEMMA ReceivedAckIs ==
  ASSUME NEW s0, DOMAIN s0 = Fields, Sender(s0), NEW m, m.ack \in Nat, m.sack \in Seq(Nat \X Nat)
  PROVE  After(s0, ReceivedAck(s0, m), m.ack)
<1> DEFINE s == [s0 EXCEPT !.scoreboard = UpdateScoreBoard(@, m.ack, m.sack)]
           ack == m.ack
<1>1. /\ Keeps(s0, s, {"scoreboard"}) /\ ack \in Nat
      /\ s.scoreboard \in [known : SUBSET Int, acked : SUBSET Int, sacked : SUBSET Int]
  <2> DEFINE board == UpdateScoreBoard(s0.scoreboard, m.ack, m.sack)
  <2>1. board \in [known : SUBSET Int, acked : SUBSET Int, sacked : SUBSET Int]
    BY BoardUpdated DEF Sender
  <2>2. s = [s0 EXCEPT !.scoreboard = board]
    OBVIOUS
  <2> HIDE DEF board, s
  <2> QED
    BY <2>1, <2>2 DEF Keeps, Fields
<1>2. ReceivedAck(s0, m) \in {s, SameAck(s, ack), [NewAck(Bumped(s, ack), ack) EXCEPT !.dupAckCount = 0],
                              [NewAck(s, ack) EXCEPT !.dupAckCount = 0]}
      /\ (ReceivedAck(s0, m) = [NewAck(Bumped(s, ack), ack) EXCEPT !.dupAckCount = 0] => ack > s.nextTx
            \/ ReceivedAck(s0, m) \in {s, SameAck(s, ack), [NewAck(s, ack) EXCEPT !.dupAckCount = 0]})
  BY DEF ReceivedAck
<1> HIDE DEF s, ack
<1>3. /\ s.head = s0.head /\ s.tail = s0.tail /\ s.nextTx = s0.nextTx /\ s.highTx = s0.highTx
      /\ s.retx = s0.retx /\ s.out = s0.out /\ s.state = s0.state /\ DOMAIN s = Fields
  BY <1>1 DEF Keeps, Fields
<1>4. Sender(s)
  BY <1>1, <1>3 DEF Sender
<1>5. After(s0, s, ack)
  <2>1. s0.head <= s.head /\ s.head <= Larger(s0.head, ack) /\ s0.tail <= s.tail
    BY <1>1, <1>3, SenderTypes DEF Larger
  <2>2. Keeps(s0, s, Sends)
    BY <1>1 DEF Keeps, Sends
  <2> QED
    BY <1>1, <1>3, <1>4, <2>1, <2>2, AfterParts DEF Dry
<1>6. ASSUME NEW d, After(s, d, ack) PROVE After(s0, d, ack) /\ After(s0, [d EXCEPT !.dupAckCount = 0], ack)
  <2>1. After(s0, d, ack)
    BY <1>1, <1>5, <1>6, AfterTwice
  <2> DEFINE e == [d EXCEPT !.dupAckCount = 0]
  <2>2. DOMAIN d = Fields /\ Sender(d)
    BY <1>6, AfterDomain
  <2>3. Keeps(d, e, Windows)
    BY <2>2 DEF Keeps, Fields, Windows
  <2> HIDE DEF e
  <2>4. After(d, e, ack)
    BY <1>1, <2>2, <2>3, AfterSame, AfterMore
  <2>5. After(s0, e, ack)
    BY <1>1, <2>1, <2>4, AfterTwice
  <2> QED
    BY <2>1, <2>5 DEF e
<1>7. /\ After(s, SameAck(s, ack), ack) /\ After(s, NewAck(s, ack), ack)
      /\ ack > s.nextTx => After(s, NewAck(Bumped(s, ack), ack), ack)
  BY <1>1, <1>3, <1>4, SameAckIs, NewAckIs, BumpedNewAck
<1> QED
  BY <1>2, <1>5, <1>6, <1>7 DEF ack

LEMMA ReTxTimeoutIs ==
  ASSUME NEW s0, DOMAIN s0 = Fields, Sender(s0)
  PROVE  After(s0, ReTxTimeout(s0), 0)
<1> DEFINE s == [s0 EXCEPT !.retx = Off]
           d == [s EXCEPT !.inFastRec = FALSE, !.scoreboard = ClearScoreBoard(@), !.ssThresh = HalfFlight(s),
                          !.cWnd = MSS, !.nextTx = s.head]
<1>1. ReTxTimeout(s0) \in {s, DoRetransmit(d)}
  BY DEF ReTxTimeout
<1>2. Keeps(s0, s, {"retx"}) /\ s.retx = Off
  BY DEF Keeps, Fields
<1> HIDE DEF s
<1>3. /\ Keeps(s, d, {"inFastRec", "scoreboard", "ssThresh", "cWnd", "nextTx"}) /\ d.nextTx = s.head
      /\ d.scoreboard = ClearScoreBoard(s.scoreboard)
  BY <1>2 DEF Keeps, Fields
<1> HIDE DEF d
<1>4. /\ s.head = s0.head /\ s.tail = s0.tail /\ s.nextTx = s0.nextTx /\ s.highTx = s0.highTx
      /\ s.scoreboard = s0.scoreboard /\ s.out = s0.out /\ s.state = s0.state /\ DOMAIN s = Fields
  BY <1>2 DEF Keeps, Fields
<1>5. /\ d.head = s0.head /\ d.tail = s0.tail /\ d.nextTx = s0.head /\ d.highTx = s0.highTx
      /\ d.retx = Off /\ d.out = s0.out /\ d.state = s0.state /\ DOMAIN d = Fields
  BY <1>2, <1>3, <1>4 DEF Keeps, Fields
<1>6. d.scoreboard \in [known : SUBSET Int, acked : SUBSET Int, sacked : SUBSET Int]
  <2> DEFINE board == s0.scoreboard
  <2>1. board \in [known : SUBSET Int, acked : SUBSET Int, sacked : SUBSET Int] /\ d.scoreboard = ClearScoreBoard(board)
    BY <1>3, <1>4 DEF Sender
  <2> HIDE DEF board
  <2> QED
    BY <2>1 DEF ClearScoreBoard
<1>7. Sender(s) /\ Sender(d)
  <2>1. Off \in Events
    BY DEF Events
  <2>2. s0.head <= s0.head
    BY SenderTypes
  <2> QED
    BY <1>2, <1>4, <1>5, <1>6, <2>1, <2>2 DEF Sender
<1>8. Keeps(s0, s, Sends) /\ Keeps(s0, d, Sends)
  BY <1>2, <1>3, <1>4 DEF Keeps, Fields, Sends
<1>9. s0.head <= s0.head /\ s0.tail <= s0.tail /\ s0.head <= Larger(s0.head, 0)
  BY SenderTypes DEF Larger
<1>10. After(s0, s, 0)
  BY <1>2, <1>4, <1>7, <1>8, <1>9, AfterParts DEF Dry
<1>11. After(s0, d, 0)
  BY <1>5, <1>7, <1>8, <1>9, AfterParts DEF Dry
<1>12. After(d, DoRetransmit(d), 0)
  BY <1>5, <1>7, DoRetransmitIs
<1>13. After(s0, DoRetransmit(d), 0)
  BY <1>11, <1>12, AfterTwice
<1> QED
  BY <1>1, <1>10, <1>13
-----------------------------------------------------------------------------
\* The handshake of the client and its low-priority loop.

\* As many as there are of a set that has every smaller one: all of those.
LEMMA Downward ==
  ASSUME NEW n \in Nat, NEW D \in SUBSET (1 .. n)
  PROVE  Cardinality(D) \in 0 .. n
<1>1. IsFiniteSet(1 .. n) /\ Cardinality(1 .. n) = n
  BY UpTo
<1>2. IsFiniteSet(D) /\ Cardinality(D) <= Cardinality(1 .. n)
  BY <1>1, FS_Subset
<1>3. Cardinality(D) \in Nat
  BY <1>2, FS_CardinalityType
<1> QED
  BY <1>1, <1>2, <1>3

LEMMA LevelType == \A n \in Nat : Level(n) \in Nat
<1> SUFFICES ASSUME NEW n \in Nat PROVE Level(n) \in Nat
  OBVIOUS
<1> DEFINE K == {p \in 1 .. n : n > FirstLevel * ((10^p - 1) \div 9)}
<1>1. K \in SUBSET (1 .. n) /\ Level(n) = 1 + Cardinality(K)
  BY DEF Level
<1> HIDE DEF K
<1>2. Cardinality(K) \in 0 .. n
  BY <1>1, Downward
<1> QED
  BY <1>1, <1>2

LEMMA SegmentOut ==
  ASSUME NEW p \in Nat, NEW q \in Nat, q + MSS <= FlowSize + 1, NEW state
  PROVE  Segment(p, q, MSS) \in Outs(state)
<1> DEFINE f == IF p = 0 THEN "ACK" ELSE ""
           x == Segment(p, q, MSS)
<1>1. x = [flags |-> f, prio |-> p, seq |-> q, len |-> MSS]
  BY DEF Segment
<1>2. f \in {"ACK", ""} /\ MSS \in 0 .. MSS
  BY MSSAssumption
<1> HIDE DEF f, x
<1>3. x \in Outs(state)
  BY <1>1, <1>2 DEF Outs
<1> QED
  BY <1>3 DEF x

\* What the loop may change.
Looped == {"p2_block_max", "p2_block_bytes_sent", "last_block_seq", "out"}

LEMMA StartRLPLoopIs ==
  ASSUME NEW s, DOMAIN s = Fields, Sender(s), s.p2_block_bytes_sent = 0
  PROVE  LET r == StartRLPLoop(s) IN Keeps(s, r, Looped) /\ Sender(r)
<1> DEFINE n       == Outstanding(s) \div MSS
           seq(k)  == s.tail - s.p2_block_bytes_sent - k * MSS
           goes(k) == seq(k) + MSS > s.nextTx /\ seq(k) >= s.last_block_seq
           D       == {k \in 1 .. n : \A j \in 1 .. k : goes(j)}
           m       == Cardinality(D)
           low     == [k \in 1 .. m |-> Segment(Level((s.tail - seq(k)) \div MSS), seq(k), MSS)]
           b       == IF m < n THEN 0 ELSE s.p2_block_bytes_sent + n * MSS
           r       == StartRLPLoop(s)
           S       == Outs(s.state)
<1>0. s.head \in Nat /\ s.tail \in Nat /\ s.head <= s.tail /\ MSS \in Nat \ {0} /\ FlowSize \in Nat
  BY SenderTypes
<1>1. n \in Nat /\ n * MSS <= s.tail - s.head /\ (s.head = s.tail => n = 0)
  <2> DEFINE x == s.tail - s.head
  <2>1. x \in Nat /\ Outstanding(s) = x
    BY <1>0 DEF Outstanding
  <2> HIDE DEF x
  <2>2. (x \div MSS) \in Nat /\ (x \div MSS) * MSS <= x /\ (x = 0 => x \div MSS = 0)
    <3>1. x = (x \div MSS) * MSS + (x % MSS) /\ (x % MSS) \in 0 .. MSS - 1 /\ (x \div MSS) \in Int
      BY <1>0, <2>1
    <3>2. (x \div MSS) \in Nat
      BY <1>0, <2>1
    <3>3. x = 0 => x \div MSS = 0
      BY <1>0, <2>1
    <3> QED
      BY <1>0, <2>1, <3>1, <3>2, <3>3
  <2>3. x = 0 <=> s.head = s.tail
    BY <1>0 DEF x
  <2> QED
    BY <2>1, <2>2, <2>3 DEF x
<1>2. \/ r = s
      \/ n # 0 /\ r = [s EXCEPT !.p2_block_max = s.tail, !.p2_block_bytes_sent = b,
                                !.last_block_seq = IF m < n THEN s.tail ELSE @, !.out = s.out \o low]
  <2>1. CASE s.state # "ESTABLISHED" \/ ~s.rc3_p2 \/ n = 0
    BY <2>1 DEF StartRLPLoop
  <2>2. CASE ~(s.state # "ESTABLISHED" \/ ~s.rc3_p2 \/ n = 0)
    BY <2>2 DEF StartRLPLoop, Fields
  <2> QED
    BY <2>1, <2>2
<1> HIDE DEF n, r
<1>3. m \in 0 .. n
  <2>1. D \in SUBSET (1 .. n)
    OBVIOUS
  <2> HIDE DEF D
  <2> QED
    BY <1>1, <2>1, Downward
<1> HIDE DEF m
<1>4. CASE r = s
  BY <1>4 DEF Keeps, r
<1>5. CASE n # 0 /\ r = [s EXCEPT !.p2_block_max = s.tail, !.p2_block_bytes_sent = b,
                                  !.last_block_seq = IF m < n THEN s.tail ELSE @, !.out = s.out \o low]
  <2>1. s.tail <= FlowSize + 1
    BY <1>1, <1>5 DEF Sender
  <2>2. ASSUME NEW k \in 1 .. m PROVE low[k] \in S
    <3> DEFINE q == seq(k)
               p == Level((s.tail - q) \div MSS)
    <3>1. k \in Nat /\ k * MSS \in Nat /\ k * MSS >= MSS /\ k * MSS <= n * MSS
      <4>1. k \in Nat /\ k >= 1 /\ n - k \in Nat /\ n \in Nat
        BY <1>1, <1>3
      <4>2. (n - k) * MSS \in Nat /\ n * MSS = k * MSS + (n - k) * MSS /\ k * MSS \in Nat /\ k * MSS >= MSS
        BY <1>0, <4>1
      <4> QED
        BY <1>0, <4>1, <4>2
    <3>2. q = s.tail - k * MSS
      BY <1>0, <3>1
    <3>3. n * MSS \in Nat
      BY <1>0, <1>1
    <3> HIDE DEF q
    <3>4. q \in Nat /\ q + MSS <= FlowSize + 1 /\ s.tail - q \in Nat
      BY <1>0, <1>1, <2>1, <3>1, <3>2, <3>3
    <3>5. p \in Nat
      <4>1. (s.tail - q) \div MSS \in Nat
        BY <1>0, <3>4
      <4> QED
        BY <4>1, LevelType
    <3>6. low[k] = Segment(p, q, MSS)
      BY DEF q
    <3> HIDE DEF p, low
    <3>7. Segment(p, q, MSS) \in S
      BY <3>4, <3>5, SegmentOut
    <3> QED
      BY <3>6, <3>7
  <2>3. low \in Seq(S)
    <3>1. DOMAIN low = 1 .. m /\ low = [k \in 1 .. m |-> low[k]] /\ m \in Nat
      BY <1>1, <1>3
    <3> HIDE DEF low, S
    <3> QED
      BY <2>2, <3>1
  <2> HIDE DEF low, b, S
  <2>4. Keeps(s, r, Looped) /\ r.out = s.out \o low
    BY <1>5 DEF Keeps, Fields, Looped
  <2>5. /\ r.head = s.head /\ r.tail = s.tail /\ r.nextTx = s.nextTx /\ r.highTx = s.highTx
        /\ r.scoreboard = s.scoreboard /\ r.retx = s.retx /\ r.state = s.state
    BY <2>4 DEF Keeps, Fields, Looped
  <2>6. r.out \in Seq(S)
    BY <2>3, <2>4 DEF Sender, S
  <2>7. Sender(r)
    BY <2>5, <2>6 DEF Sender, S
  <2> QED
    BY <2>4, <2>7 DEF r
<1> QED
  BY <1>2, <1>4, <1>5

\* The handshake opens the sender.
LEMMA ProcessSynSentIs ==
  ASSUME NEW s, DOMAIN s = Fields, Sender(s), s.head = 1, s.nextTx = 0, s.out = <<>>,
         s.p2_block_bytes_sent = 0, s.retx = Off
  PROVE  LET r == ProcessSynSent(s)
         IN /\ Keeps(s, r, Sends \cup Looped \cup {"state"}) /\ Sender(r)
            /\ r.state = "ESTABLISHED" /\ r.head = 1 /\ r.tail = s.tail /\ r.retx \in {Off, "ReTxTimeout"}
<1> DEFINE ack == Segment(0, 1, 0)
           open == [s EXCEPT !.state = "ESTABLISHED", !.scoreboard = CreateScoreBoard(@, FlowSize),
                             !.nextTx = @ + 1, !.highTx = s.nextTx + 1, !.head = s.nextTx + 1,
                             !.out = @ \o <<Segment(0, s.nextTx + 1, 0)>>]
           sent == SendPendingData(open)
           r == ProcessSynSent(s)
<1>1. r = StartRLPLoop(sent)
  BY DEF ProcessSynSent
<1>2. /\ Keeps(s, open, {"state", "scoreboard", "nextTx", "highTx", "head", "out"})
      /\ open.state = "ESTABLISHED" /\ open.scoreboard = CreateScoreBoard(s.scoreboard, FlowSize)
      /\ open.nextTx = 1 /\ open.highTx = 1 /\ open.head = 1 /\ open.out = <<>> \o <<ack>>
  <2> HIDE DEF ack
  <2>1. Segment(0, s.nextTx + 1, 0) = ack /\ s.nextTx + 1 = 1
    BY DEF ack
  <2> QED
    BY <2>1 DEF Keeps, Fields
<1> HIDE DEF open, sent, r
<1>3. open.tail = s.tail /\ open.p2_block_bytes_sent = 0 /\ open.retx = Off /\ DOMAIN open = Fields
  BY <1>2 DEF Keeps, Fields
<1>4. open.scoreboard \in [known : SUBSET Int, acked : SUBSET Int, sacked : SUBSET Int]
  <2> DEFINE board == s.scoreboard
  <2>1. board \in [known : SUBSET Int, acked : SUBSET Int, sacked : SUBSET Int]
    BY DEF Sender
  <2>2. Strides(1, FlowSize - 1) \in SUBSET Int
    BY DEF Strides
  <2>3. open.scoreboard = CreateScoreBoard(board, FlowSize)
    BY <1>2
  <2> HIDE DEF board
  <2> QED
    BY <2>1, <2>2, <2>3 DEF CreateScoreBoard
<1>5. open.out \in Seq(Outs("ESTABLISHED"))
  <2>1. ack = [flags |-> "ACK", prio |-> 0, seq |-> 1, len |-> 0] /\ 0 \in 0 .. MSS
    BY MSSAssumption DEF Segment
  <2> HIDE DEF ack
  <2>2. ack \in Outs("ESTABLISHED")
    BY <2>1 DEF Outs
  <2> QED
    BY <1>2, <2>2
<1>6. Sender(open)
  <2>1. s.tail \in Nat /\ 1 <= s.tail /\ (s.tail <= FlowSize + 1 \/ s.tail = 1)
    BY SenderTypes DEF Sender
  <2>2. Off \in Events
    BY DEF Events
  <2> QED
    BY <1>2, <1>3, <1>4, <1>5, <2>1, <2>2 DEF Sender
<1>7. Keeps(open, sent, Sent) /\ Sender(sent) /\ After(open, sent, 0)
  BY <1>3, <1>6, SendPendingDataIs DEF sent
<1>8. /\ DOMAIN sent = Fields /\ sent.p2_block_bytes_sent = 0 /\ sent.state = "ESTABLISHED"
      /\ sent.head = 1 /\ sent.tail = s.tail
  BY <1>2, <1>3, <1>7 DEF Keeps, Fields, Sent
<1>9. sent.retx \in {Off, "ReTxTimeout"}
  BY <1>2, <1>3, <1>7 DEF After, Finishing
<1>10. Keeps(sent, r, Looped) /\ Sender(r)
  BY <1>1, <1>7, <1>8, StartRLPLoopIs
<1>11. r.state = "ESTABLISHED" /\ r.head = 1 /\ r.tail = s.tail /\ r.retx = sent.retx
  BY <1>8, <1>10 DEF Keeps, Fields, Looped
<1>12. Keeps(s, r, Sends \cup Looped \cup {"state"})
  BY <1>2, <1>7, <1>10 DEF Keeps, Fields, Looped, Sends, Sent
<1> QED
  BY <1>9, <1>10, <1>11, <1>12 DEF r
-----------------------------------------------------------------------------
\* The receiving half.

LEMMA ReceiverMin ==
  ASSUME NEW K \in SUBSET Nat, K # {}
  PROVE  Receiver!Min(K) \in K /\ \A j \in K : Receiver!Min(K) <= j
<1>1. Receiver!Min(K) = Min(K)
  BY DEF Receiver!Min, Min
<1> QED
  BY <1>1, MinOfNat

LEMMA ReceiverMax ==
  ASSUME NEW K \in SUBSET Nat, IsFiniteSet(K), K # {}
  PROVE  Receiver!Max(K) \in K /\ \A j \in K : j <= Receiver!Max(K)
<1>1. Receiver!Max(K) = Max(K)
  BY DEF Receiver!Max, Max
<1>2. K \in SUBSET Int
  OBVIOUS
<1> QED
  BY <1>1, <1>2, MaxIs

\* The members of a finite set have finitely many ends.
LEMMA EndsFinite ==
  ASSUME NEW F \in SUBSET (Nat \X Nat), IsFiniteSet(F)
  PROVE  /\ IsFiniteSet({f[1] : f \in F}) /\ {f[1] : f \in F} \in SUBSET Nat
         /\ IsFiniteSet({f[2] : f \in F}) /\ {f[2] : f \in F} \in SUBSET Nat
<1>1. ASSUME NEW k \in {1, 2} PROVE IsFiniteSet({f[k] : f \in F}) /\ {f[k] : f \in F} \in SUBSET Nat
  <2> DEFINE T == {f[k] : f \in F}
             g == [f \in F |-> f[k]]
  <2>1. g \in Surjection(F, T)
    BY DEF Surjection
  <2>2. T \in SUBSET Nat
    BY <1>1
  <2> HIDE DEF T, g
  <2>3. IsFiniteSet(T)
    BY <2>1, FS_Surjection
  <2> QED
    BY <2>2, <2>3 DEF T
<1> QED
  BY <1>1

LEMMA FinCountedIs ==
  ASSUME NEW b, BufOK(b)
  PROVE  LET r == Receiver!FinCounted(b) IN BufOK(r) /\ b.next <= r.next /\ r.fin = b.fin /\ r.frags = b.frags
<1> DEFINE r == Receiver!FinCounted(b)
<1>1. r = b \/ r = [b EXCEPT !.next = @ + 1]
  BY DEF Receiver!FinCounted
<1> HIDE DEF r
<1>2. b.next \in Nat \ {0}
  BY DEF BufOK
<1>3. b.next <= r.next /\ r.fin = b.fin /\ r.frags = b.frags /\ BufOK(r)
  BY <1>1, <1>2 DEF BufOK
<1> QED
  BY <1>3 DEF r

\* A FIN in order is counted, one beyond a gap is not.
LEMMA SetFinIs ==
  ASSUME NEW b, BufOK(b), NEW seq \in Nat
  PROVE  LET r == Receiver!SetFinSequence(b, seq)
         IN /\ BufOK(r) /\ b.next <= r.next
            /\ seq = b.next => Receiver!Finished(r)
            /\ seq >= b.next /\ Receiver!Finished(r) => b.next < r.next
<1> DEFINE c == [b EXCEPT !.fin = seq]
           r == Receiver!SetFinSequence(b, seq)
<1>1. r = Receiver!FinCounted(c)
  BY DEF Receiver!SetFinSequence
<1>2. BufOK(c) /\ c.next = b.next /\ c.fin = seq /\ b.next \in Nat \ {0}
  BY DEF BufOK
<1> HIDE DEF c
<1>3. BufOK(r) /\ c.next <= r.next /\ r.fin = c.fin
  BY <1>1, <1>2, FinCountedIs
<1>4. seq = b.next => r.next = b.next + 1
  BY <1>1, <1>2 DEF Receiver!FinCounted, BufOK
<1>5. r.next \in Nat
  BY <1>3 DEF BufOK
<1> HIDE DEF r
<1>6. /\ seq = b.next => Receiver!Finished(r)
      /\ seq >= b.next /\ Receiver!Finished(r) => b.next < r.next
  BY <1>2, <1>3, <1>4, <1>5 DEF Receiver!Finished
<1> QED
  BY <1>2, <1>3, <1>6 DEF r

LEMMA AdvancedIs ==
  ASSUME NEW b, BufOK(b)
  PROVE  LET r == Receiver!Advanced(b) IN BufOK(r) /\ b.next <= r.next /\ r.fin = b.fin
<1> DEFINE ends == {f[2] : f \in b.frags} \cup {b.next}
           top  == Receiver!Max(ends)
           miss == Receiver!Missing(b.frags, b.next, top)
           n    == Receiver!Min(miss)
           c    == [b EXCEPT !.next = n]
<1>0. b.next \in Nat \ {0} /\ b.frags \in SUBSET (Nat \X Nat) /\ IsFiniteSet(b.frags)
  BY DEF BufOK
<1>1. Receiver!Advanced(b) = Receiver!FinCounted(c)
  BY DEF Receiver!Advanced
<1>2. top \in ends /\ top \in Nat /\ \A e \in ends : e <= top
  <2> DEFINE T == {f[2] : f \in b.frags}
  <2>1. IsFiniteSet(T) /\ T \in SUBSET Nat
    BY <1>0, EndsFinite
  <2> HIDE DEF T
  <2>2. IsFiniteSet(T \cup {b.next}) /\ T \cup {b.next} \in SUBSET Nat /\ T \cup {b.next} # {}
    BY <1>0, <2>1, FS_AddElement
  <2>3. IsFiniteSet(ends) /\ ends \in SUBSET Nat /\ ends # {}
    BY <2>2 DEF T
  <2> HIDE DEF ends
  <2>4. top \in ends /\ \A e \in ends : e <= top
    BY <2>3, ReceiverMax
  <2> QED
    BY <2>3, <2>4
<1>3. b.next <= top
  BY <1>2
<1>4. top \notin Receiver!Holds(b.frags)
  <2> SUFFICES ASSUME NEW f \in b.frags, top \in f[1] .. f[2] - 1 PROVE FALSE
    BY DEF Receiver!Holds
  <2>1. f[1] \in Nat /\ f[2] \in Nat /\ f[2] <= top
    BY <1>0, <1>2
  <2> HIDE DEF top
  <2> QED
    BY <1>2, <2>1
<1> HIDE DEF top
<1>5. miss \in SUBSET Nat /\ miss # {} /\ \A k \in miss : b.next <= k
  <2>1. \A k \in b.next .. top : k \in Nat /\ b.next <= k
    BY <1>0, <1>2
  <2>2. top \in b.next .. top
    BY <1>0, <1>2, <1>3
  <2>3. miss = {k \in b.next .. top : k \notin Receiver!Holds(b.frags)}
    BY DEF Receiver!Missing
  <2> HIDE DEF miss
  <2>4. top \in miss
    BY <1>4, <2>2, <2>3
  <2>5. \A k \in miss : k \in Nat /\ b.next <= k
    BY <2>1, <2>3
  <2> QED
    BY <2>4, <2>5
<1> HIDE DEF miss
<1>6. n \in miss
  BY <1>5, ReceiverMin
<1> HIDE DEF n
<1>7. BufOK(c) /\ b.next <= c.next /\ c.fin = b.fin
  <2>1. n \in Nat /\ b.next <= n /\ n \in Nat \ {0}
    BY <1>0, <1>5, <1>6
  <2> QED
    BY <1>0, <2>1 DEF BufOK
<1> HIDE DEF c
<1>8. /\ BufOK(Receiver!FinCounted(c)) /\ c.next <= Receiver!FinCounted(c).next
      /\ Receiver!FinCounted(c).fin = c.fin
  BY <1>7, FinCountedIs
<1>9. c.next \in Nat /\ Receiver!FinCounted(c).next \in Nat
  BY <1>7, <1>8 DEF BufOK
<1> QED
  BY <1>0, <1>1, <1>7, <1>8, <1>9

\* Data can only add to the buffer, and only data that is new does.
LEMMA AddIs ==
  ASSUME NEW b, BufOK(b), NEW seq \in Nat, NEW len \in Nat
  PROVE  LET r == Receiver!Add(b, seq, seq + len)
         IN /\ BufOK(r) /\ b.next <= r.next /\ r.fin = b.fin
            /\ len = 0 \/ seq + len <= b.next => r = b
<1> DEFINE end  == seq + len
           miss == Receiver!Missing(b.frags, Receiver!Head0(b, seq), end) \cup {end}
           head == Receiver!Min(miss)
           over == {f \in b.frags : f[1] > head /\ f[1] <= end /\ f[2] >= end}
           last == Receiver!Min(Receiver!Starts(over) \cup {end})
           cut  == Receiver!Cut(b, seq, end)
           c    == [b EXCEPT !.frags = {f \in @ : ~(f[1] > cut[1] /\ f[2] < end)} \cup {cut}]
           r    == Receiver!Add(b, seq, end)
<1>0. b.next \in Nat \ {0} /\ b.frags \in SUBSET (Nat \X Nat) /\ IsFiniteSet(b.frags) /\ end \in Nat
  BY DEF BufOK
<1>1. r = b \/ (Receiver!Stores(b, seq, end) /\ r = Receiver!Advanced(c))
  BY DEF Receiver!Add, Receiver!Replace
<1>2. Receiver!Head0(b, seq) \in Nat /\ Receiver!Head0(b, seq) >= seq /\ Receiver!Head0(b, seq) >= b.next
  BY <1>0 DEF Receiver!Head0
<1>3. cut = <<head, last>>
  BY DEF Receiver!Cut
<1>4. head \in Nat
  <2>1. \A n \in miss : n \in Nat
    BY <1>0, <1>2 DEF Receiver!Missing
  <2>2. miss # {}
    OBVIOUS
  <2> HIDE DEF miss
  <2> QED
    BY <2>1, <2>2, ReceiverMin
<1> HIDE DEF head
<1>5. last \in Nat
  <2> DEFINE K == Receiver!Starts(over) \cup {end}
  <2>1. \A n \in K : n \in Nat
    BY <1>0 DEF Receiver!Starts
  <2>2. K # {}
    OBVIOUS
  <2> HIDE DEF K
  <2>3. Receiver!Min(K) \in Nat
    BY <2>1, <2>2, ReceiverMin
  <2> QED
    BY <2>3 DEF K
<1>6. cut \in Nat \X Nat
  <2> HIDE DEF cut, last
  <2> QED
    BY <1>3, <1>4, <1>5
<1> HIDE DEF cut
<1>7. BufOK(c) /\ c.next = b.next /\ c.fin = b.fin
  <2> DEFINE F == {f \in b.frags : ~(f[1] > cut[1] /\ f[2] < end)}
  <2>1. F \in SUBSET b.frags /\ IsFiniteSet(F)
    <3>1. F \in SUBSET b.frags
      OBVIOUS
    <3> HIDE DEF F
    <3> QED
      BY <1>0, <3>1, FS_Subset
  <2> HIDE DEF F
  <2>2. IsFiniteSet(F \cup {cut}) /\ F \cup {cut} \in SUBSET (Nat \X Nat)
    BY <1>0, <1>6, <2>1, FS_AddElement
  <2>3. c = [b EXCEPT !.frags = F \cup {cut}]
    BY DEF F
  <2> HIDE DEF c
  <2> DEFINE G == F \cup {cut}
  <2>4. IsFiniteSet(G) /\ G \in SUBSET (Nat \X Nat) /\ c = [b EXCEPT !.frags = G]
    BY <2>2, <2>3
  <2> HIDE DEF G
  <2> QED
    BY <1>0, <2>4 DEF BufOK
<1> HIDE DEF c, r
<1>8. BufOK(Receiver!Advanced(c)) /\ b.next <= Receiver!Advanced(c).next /\ Receiver!Advanced(c).fin = b.fin
  BY <1>7, AdvancedIs
<1>9. ASSUME len = 0 \/ end <= b.next PROVE ~Receiver!Stores(b, seq, end)
  <2>1. ~(Receiver!Head0(b, seq) < end)
    BY <1>0, <1>2, <1>9
  <2> QED
    BY <2>1 DEF Receiver!Stores
<1>10. b.next <= b.next
  BY <1>0
<1> QED
  BY <1>1, <1>8, <1>9, <1>10 DEF r, end

LEMMA ExtractIs ==
  ASSUME NEW b, BufOK(b)
  PROVE  LET r == Receiver!ExtractAll(b) IN BufOK(r) /\ r.next = b.next /\ r.fin = b.fin
<1> DEFINE F == {f \in b.frags : f[1] >= b.next}
           r == Receiver!ExtractAll(b)
<1>1. r = [b EXCEPT !.frags = F]
  BY DEF Receiver!ExtractAll
<1>2. IsFiniteSet(b.frags) /\ b.frags \in SUBSET (Nat \X Nat)
  BY DEF BufOK
<1>3. F \in SUBSET b.frags
  OBVIOUS
<1> HIDE DEF F, r
<1>4. IsFiniteSet(F) /\ F \in SUBSET (Nat \X Nat)
  BY <1>2, <1>3, FS_Subset
<1>5. BufOK(r) /\ r.next = b.next /\ r.fin = b.fin
  BY <1>1, <1>4 DEF BufOK
<1> QED
  BY <1>5 DEF r
-----------------------------------------------------------------------------
\* The blocks for the SACK option, and the answer to a data segment.

LEMMA NoRest == 0 % MSS = 0 /\ MSS % MSS = 0
<1>0. MSS \in Nat \ {0}
  BY MSSAssumption
<1>1. ASSUME NEW k \in Int, k * MSS < MSS, k * MSS > - MSS PROVE k = 0
  <2>1. CASE k > 0
    <3>1. k * MSS >= MSS
      BY <1>0, <2>1
    <3> QED
      BY <1>0, <1>1, <3>1
  <2>2. CASE k < 0
    <3>1. k * MSS <= - MSS
      BY <1>0, <2>2
    <3> QED
      BY <1>0, <1>1, <3>1
  <2> QED
    BY <2>1, <2>2
<1>2. /\ (0 % MSS) \in 0 .. MSS - 1 /\ (0 \div MSS) \in Int /\ 0 = (0 \div MSS) * MSS + (0 % MSS)
      /\ (MSS % MSS) \in 0 .. MSS - 1 /\ (MSS \div MSS) \in Int /\ MSS = (MSS \div MSS) * MSS + (MSS % MSS)
  BY <1>0
<1>3. 0 % MSS = 0
  <2> DEFINE k == 0 \div MSS
  <2>1. k \in Int /\ k * MSS \in Int /\ k * MSS = - (0 % MSS)
    BY <1>0, <1>2
  <2>2. k * MSS < MSS /\ k * MSS > - MSS
    BY <1>0, <1>2, <2>1
  <2> HIDE DEF k
  <2>3. k = 0
    BY <1>1, <2>1, <2>2
  <2> QED
    BY <1>0, <1>2, <2>1, <2>3
<1>4. MSS % MSS = 0
  <2> DEFINE k == MSS \div MSS
  <2>1. k \in Int /\ k - 1 \in Int /\ (k - 1) * MSS = k * MSS - MSS /\ k * MSS = MSS - (MSS % MSS)
    BY <1>0, <1>2
  <2>2. (k - 1) * MSS < MSS /\ (k - 1) * MSS > - MSS
    BY <1>0, <1>2, <2>1
  <2> HIDE DEF k
  <2>3. k - 1 = 0
    BY <1>1, <2>1, <2>2
  <2> QED
    BY <1>0, <1>2, <2>1, <2>3
<1> QED
  BY <1>3, <1>4

LEMMA EdgesAre ==
  ASSUME NEW keys \in SUBSET Nat, IsFiniteSet(keys), NEW seq \in Nat
  PROVE  Receiver!LeftEdge(keys, seq) \in Nat /\ Receiver!RightEdge(keys, seq) \in Nat
<1> DEFINE all == keys \cup {seq}
           L == {l \in all : l <= seq /\ (seq - l) % MSS = 0 /\ Receiver!Steps(l, seq - 1) \subseteq keys}
           R == {r \in {k + MSS : k \in all} :
                   r > seq /\ (r - seq) % MSS = 0 /\ Receiver!Steps(seq + MSS, r - 1) \subseteq keys}
           e == seq + MSS
<1>0. MSS \in Nat \ {0} /\ e \in Nat
  BY MSSAssumption
<1>1. Receiver!LeftEdge(keys, seq) = Receiver!Min(L) /\ Receiver!RightEdge(keys, seq) = Receiver!Max(R)
  BY DEF Receiver!LeftEdge, Receiver!RightEdge
<1>2. seq \in L
  <2>1. Receiver!Steps(seq, seq - 1) = {}
    BY <1>0 DEF Receiver!Steps
  <2>2. seq - seq = 0 /\ seq <= seq
    OBVIOUS
  <2> QED
    BY <2>1, <2>2, NoRest
<1>3. e \in R
  <2>1. Receiver!Steps(e, e - 1) = {}
    BY <1>0 DEF Receiver!Steps
  <2>2. e - seq = MSS /\ e > seq /\ e \in {k + MSS : k \in all}
    BY <1>0
  <2>3. Receiver!Steps(e, e - 1) \subseteq keys /\ (e - seq) % MSS = 0 /\ e > seq
    BY <2>1, <2>2, NoRest
  <2> HIDE DEF e, all
  <2>4. e \in {r \in {k + MSS : k \in all} :
                 r > seq /\ (r - seq) % MSS = 0 /\ Receiver!Steps(e, r - 1) \subseteq keys}
    BY <2>2, <2>3
  <2> QED
    BY <2>4 DEF e
<1>4. L \in SUBSET Nat /\ R \in SUBSET Nat
  <2>1. \A k \in all : k + MSS \in Nat
    BY <1>0
  <2> QED
    BY <2>1
<1>5. IsFiniteSet(R)
  <2> DEFINE T == {k + MSS : k \in all}
             g == [k \in all |-> k + MSS]
  <2>1. IsFiniteSet(all)
    BY FS_AddElement
  <2>2. R \subseteq T
    OBVIOUS
  <2> HIDE DEF all, R
  <2>3. g \in Surjection(all, T)
    BY DEF Surjection
  <2> HIDE DEF T, g
  <2>4. IsFiniteSet(T)
    BY <2>1, <2>3, FS_Surjection
  <2> QED
    BY <2>2, <2>4, FS_Subset
<1> HIDE DEF L, R, e
<1>6. Receiver!Min(L) \in L /\ Receiver!Max(R) \in R
  BY <1>2, <1>3, <1>4, <1>5, ReceiverMin, ReceiverMax
<1> QED
  BY <1>1, <1>4, <1>6

LEMMA ReceiverChosen == \A q, K : Receiver!Chosen(q, K) = Chosen(q, K)
<1>1. \A K, n : Receiver!NthOf(K, n) = NthOf(K, n) /\ Receiver!Cardinality(K) = Cardinality(K)
  <2>1. \A K : Receiver!Cardinality(K) = Cardinality(K)
    BY DEF Receiver!Cardinality, Cardinality
  <2>2. \A K, k : Receiver!Rank(K, k) = Rank(K, k)
    BY <2>1 DEF Receiver!Rank, Rank
  <2> QED
    BY <2>1, <2>2 DEF Receiver!NthOf, NthOf
<1> QED
  BY <1>1 DEF Receiver!Chosen, Chosen

LEMMA FillIs ==
  ASSUME NEW r, BufOK(r.buffer), r.sackstack \in Seq(Nat \X Nat), NEW seq \in Nat
  PROVE  \E x \in Seq(Nat \X Nat) : Receiver!FillSackStack(r, seq) = [r EXCEPT !.sackstack = x]
<1> DEFINE F     == r.buffer.frags
           keys  == Receiver!Starts(F)
           left  == Receiver!LeftEdge(keys, seq)
           right == Receiver!RightEdge(keys, seq)
           older == {i \in DOMAIN r.sackstack : ~(r.sackstack[i][1] >= left /\ r.sackstack[i][2] <= right)}
           kept  == Receiver!Chosen(r.sackstack, older)
           x     == IF left > 1 THEN <<<<left, right>>>> \o kept ELSE kept
           S     == Nat \X Nat
<1>1. Receiver!FillSackStack(r, seq) = [r EXCEPT !.sackstack = x]
  BY DEF Receiver!FillSackStack
<1>2. left \in Nat /\ right \in Nat
  <2>1. F \in SUBSET (Nat \X Nat) /\ IsFiniteSet(F)
    BY DEF BufOK
  <2> HIDE DEF F
  <2>2. keys = {f[1] : f \in F}
    BY DEF Receiver!Starts
  <2>3. keys \in SUBSET Nat /\ IsFiniteSet(keys)
    BY <2>1, <2>2, EndsFinite
  <2> HIDE DEF keys
  <2> QED
    BY <2>3, EdgesAre
<1> HIDE DEF left, right
<1>3. kept \in Seq(S)
  <2>1. older \in SUBSET DOMAIN r.sackstack
    OBVIOUS
  <2> DEFINE q == r.sackstack
  <2>2. q \in Seq(S)
    OBVIOUS
  <2> HIDE DEF older, q, S
  <2>3. Chosen(q, older) \in Seq(S)
    BY <2>1, <2>2, ChosenType DEF Chosen, q
  <2> QED
    BY <2>3, ReceiverChosen DEF q
<1> HIDE DEF kept
<1>4. <<left, right>> \in S
  BY <1>2
<1>5. x \in Seq(S)
  <2> HIDE DEF S
  <2> QED
    BY <1>3, <1>4
<1> HIDE DEF x
<1> QED
  BY <1>1, <1>5

\* A packet without data that is not a low-priority one.
Mute == {p \in Packets : p.len = 0 /\ p.flags # ""}

Replies == [prio : Nat, ack : Nat, sack : Seq(Nat \X Nat)]

LEMMA ReplyIs ==
  ASSUME NEW r, BufOK(r.buffer), r.out = <<>>, r.sackstack \in Seq(Nat \X Nat),
         NEW prio \in Nat, NEW withSack \in BOOLEAN
  PROVE  \E a \in Replies : Receiver!SendEmptyPacket(r, prio, withSack) = [r EXCEPT !.out = <<a>>]
<1> DEFINE S    == Nat \X Nat
           n    == Receiver!Min({3, Len(r.sackstack)})
           sack == IF withSack THEN SubSeq(r.sackstack, 1, n) ELSE <<>>
           a    == [prio |-> prio, ack |-> r.buffer.next, sack |-> sack]
<1>1. Receiver!SendEmptyPacket(r, prio, withSack) = [r EXCEPT !.out = Append(r.out, a)]
  BY DEF Receiver!SendEmptyPacket
<1>2. n \in 0 .. Len(r.sackstack)
  <2>1. Len(r.sackstack) \in Nat
    OBVIOUS
  <2>2. {3, Len(r.sackstack)} \in SUBSET Nat /\ {3, Len(r.sackstack)} # {}
    BY <2>1
  <2>3. n \in {3, Len(r.sackstack)} /\ n <= Len(r.sackstack)
    BY <2>2, ReceiverMin
  <2> HIDE DEF n
  <2> QED
    BY <2>1, <2>3
<1>3. sack \in Seq(S)
  <2> DEFINE q == r.sackstack
  <2>1. q \in Seq(S) /\ n \in 0 .. Len(q)
    BY <1>2
  <2> HIDE DEF q, n, S
  <2>2. SubSeq(q, 1, n) \in Seq(S)
    <3>1. \A i \in 1 .. n : q[i] \in S
      BY <2>1
    <3>2. n \in Nat /\ SubSeq(q, 1, n) = [i \in 1 .. n |-> q[i]]
      BY <2>1
    <3> QED
      BY <3>1, <3>2
  <2>3. <<>> \in Seq(S)
    OBVIOUS
  <2> QED
    BY <2>2, <2>3 DEF q
<1> HIDE DEF sack
<1>4. a \in Replies
  BY <1>3 DEF Replies, BufOK
<1> HIDE DEF a
<1>5. Append(r.out, a) = <<a>>
  OBVIOUS
<1> QED
  BY <1>1, <1>4, <1>5
-----------------------------------------------------------------------------
\* What every handler of a socket does and does not do.

Synless == {p \in Packets : p.flags # "SYN"}
Finless == {p \in Packets : p.flags # "FIN+ACK"}

\* The server's socket has nothing to send.
Reader(s) ==
  /\ s.head = s.tail /\ (s.state \in {"CLOSED", "SYN_RCVD"} \/ s.head <= s.nextTx)
  /\ s.sent \in Seq(Mute)

Base(s, r) ==
  /\ Core(r)
  /\ s.buffer.next <= r.buffer.next /\ r.shutdownSend = s.shutdownSend
  /\ s.head <= r.head /\ s.tail <= r.tail
  /\ Reader(s) => Reader(r)
  /\ s.sent \in Seq(Synless) => r.sent \in Seq(Synless)
  /\ r.state \in {"SYN_SENT", "SYN_RCVD"} => r.state = s.state

\* It frees no more than is acknowledged, and does not close before the
\* application does.
Modest(s, r, ack) ==
  /\ r.head <= Larger(s.head, ack)
  /\ Virgin(s) /\ s.sent \in Seq(Finless) => Virgin(r) /\ r.sent \in Seq(Finless)

Leads(s, r, ack) == Base(s, r) /\ (~s.shutdownSend => Modest(s, r, ack))

LEMMA CoreTypes ==
  ASSUME NEW s, Core(s)
  PROVE  /\ s.head \in Nat /\ s.tail \in Nat /\ s.nextTx \in Nat /\ s.highTx \in Nat /\ s.head <= s.tail
         /\ s.buffer.next \in Nat \ {0} /\ s.buffer.fin \in Nat /\ s.state \in States
         /\ s.out = <<>> /\ DOMAIN s = Fields /\ Sender(s) /\ BufOK(s.buffer)
         /\ s.retx \in Events /\ s.shutdownSend \in BOOLEAN /\ s.sent \in Seq(Packets)
<1>1. Sender(s) /\ BufOK(s.buffer)
  BY DEF Core
<1>2. s.sent \in Seq(Packets)
  <2>1. SentBefore(s.buffer.next) \subseteq Packets /\ s.sent \in Seq(SentBefore(s.buffer.next))
    BY DEF Core, SentBefore
  <2> QED
    BY <2>1, SeqGrows
<1>3. s.shutdownSend \in BOOLEAN
  BY DEF Core
<1> QED
  BY <1>1, <1>2, <1>3 DEF Core, Sender, BufOK

LEMMA LeadsSame ==
  ASSUME NEW s, Core(s), NEW ack \in Nat
  PROVE  Leads(s, s, ack)
BY CoreTypes DEF Leads, Base, Modest, Larger

LEMMA LeadsTwice ==
  ASSUME NEW s, Core(s), NEW ack \in Nat, NEW d, Leads(s, d, ack), NEW r, Leads(d, r, ack)
  PROVE  Leads(s, r, ack)
<1>1. Base(s, d) /\ Base(d, r) /\ Core(d) /\ Core(r) /\ d.shutdownSend = s.shutdownSend
  BY DEF Leads, Base
<1>2. /\ s.head \in Nat /\ d.head \in Nat /\ r.head \in Nat /\ s.tail \in Nat /\ d.tail \in Nat /\ r.tail \in Nat
      /\ s.buffer.next \in Nat /\ d.buffer.next \in Nat /\ r.buffer.next \in Nat
  BY <1>1, CoreTypes
<1>3. s.buffer.next <= r.buffer.next /\ s.head <= r.head /\ s.tail <= r.tail
  BY <1>1, <1>2 DEF Base
<1>4. Base(s, r)
  BY <1>1, <1>3 DEF Base
<1>5. ASSUME ~s.shutdownSend PROVE Modest(s, r, ack)
  <2>1. Modest(s, d, ack) /\ Modest(d, r, ack)
    BY <1>1, <1>5 DEF Leads
  <2>2. r.head <= Larger(s.head, ack)
    BY <1>2, <2>1 DEF Modest, Larger
  <2> QED
    BY <2>1, <2>2 DEF Modest
<1> QED
  BY <1>4, <1>5 DEF Leads

\* The same for what is between a socket and its packets: r is s with the
\* packets new sent, and differs otherwise in fields in F.
LEMMA SentMore ==
  ASSUME NEW s, Core(s), NEW new \in Seq(SentBefore(s.buffer.next)), NEW sent, sent = s.sent \o new
  PROVE  /\ sent \in Seq(SentBefore(s.buffer.next))
         /\ \A A \in {Mute, Synless, Finless} : s.sent \in Seq(A) /\ new \in Seq(A) => sent \in Seq(A)
<1> DEFINE S == SentBefore(s.buffer.next)
           q == s.sent
<1>1. q \in Seq(S) /\ sent = q \o new
  BY DEF Core
<1> HIDE DEF S, q
<1>2. sent \in Seq(S)
  BY <1>1 DEF S
<1>3. ASSUME NEW A, q \in Seq(A), new \in Seq(A) PROVE sent \in Seq(A)
  BY <1>1, <1>3
<1> QED
  BY <1>2, <1>3 DEF q, S
-----------------------------------------------------------------------------
\* Control: the fields that no half of the socket reads.
Control == {"cnCount", "endPoint", "closeNotified", "lastAckEvent", "told", "asserted", "recvCallback",
            "state", "retx"}

\* r is s with other control, in a way that a handler may leave it.
Controlled(s, r) ==
  /\ Keeps(s, r, Control)
  /\ r.state \in States /\ r.told \subseteq Notices /\ r.cnCount \in 0 .. CnRetries
  /\ {r.endPoint, r.closeNotified, r.asserted, r.recvCallback} \subseteq BOOLEAN
  /\ r.retx \in {s.retx, Off}
  /\ ~r.endPoint \/ r.state \in {"CLOSED", "TIME_WAIT"} => r.retx = Off
  /\ r.retx = "SYN" => r.state = "SYN_SENT"
  /\ r.state \in {"SYN_SENT", "SYN_RCVD"} => r.state = s.state
  /\ s.state \notin {"CLOSED", "SYN_RCVD"} \/ r.state \in {"CLOSED", "SYN_RCVD"} \/ s.head <= s.nextTx

LEMMA ControlledBase ==
  ASSUME NEW s, Core(s), NEW r, Controlled(s, r)
  PROVE  Base(s, r)
<1>1. /\ r.head = s.head /\ r.tail = s.tail /\ r.nextTx = s.nextTx /\ r.highTx = s.highTx
      /\ r.scoreboard = s.scoreboard /\ r.out = s.out /\ r.buffer = s.buffer /\ r.sackstack = s.sackstack
      /\ r.sent = s.sent /\ r.shutdownSend = s.shutdownSend /\ DOMAIN r = Fields
  BY DEF Controlled, Keeps, Fields, Control
<1>2. /\ Sender(s) /\ s.out = <<>> /\ s.shutdownSend \in BOOLEAN /\ BufOK(s.buffer)
      /\ s.sackstack \in Seq(Nat \X Nat) /\ s.sent \in Seq(SentBefore(s.buffer.next))
  BY DEF Core
<1>3. r.retx \in Events
  BY <1>2 DEF Controlled, Sender, Events
<1>4. Sender(r)
  <2>1. <<>> \in Seq(Outs(r.state))
    OBVIOUS
  <2> QED
    BY <1>1, <1>2, <1>3, <2>1 DEF Sender
<1>5. Core(r)
  BY <1>1, <1>2, <1>4 DEF Controlled, Core
<1>6. s.head <= s.head /\ s.tail <= s.tail /\ s.buffer.next <= s.buffer.next
  BY CoreTypes
<1>7. Reader(s) => Reader(r)
  BY <1>1 DEF Reader, Controlled
<1>8. r.state \in {"SYN_SENT", "SYN_RCVD"} => r.state = s.state
  BY DEF Controlled
<1> QED
  BY <1>1, <1>5, <1>6, <1>7, <1>8 DEF Base

LEMMA ControlledLeads ==
  ASSUME NEW s, Core(s), NEW ack \in Nat, NEW r, Controlled(s, r), ~s.shutdownSend /\ Virgin(s) => Virgin(r)
  PROVE  Leads(s, r, ack)
<1>1. Base(s, r)
  BY ControlledBase
<1>2. r.head = s.head /\ r.sent = s.sent
  BY DEF Controlled, Keeps, Fields, Control
<1>3. s.head <= Larger(s.head, ack)
  BY CoreTypes DEF Larger
<1> QED
  BY <1>1, <1>2, <1>3 DEF Leads, Modest
-----------------------------------------------------------------------------
\* r is s with the packet p sent, the timer perhaps started and a try used up.
Emits(s, r, p) ==
  /\ Keeps(s, r, {"sent", "retx", "cnCount"}) /\ r.sent = Append(s.sent, p)
  /\ p \in SentBefore(s.buffer.next) /\ p.len = 0 /\ p.flags # ""
  /\ r.retx \in Events /\ r.cnCount \in 0 .. CnRetries
  /\ ~s.endPoint \/ s.state \in {"CLOSED", "TIME_WAIT"} => r.retx = Off
  /\ r.retx = "SYN" => s.state = "SYN_SENT"

LEMMA EmitsCore ==
  ASSUME NEW s, Core(s), NEW r, NEW p, Emits(s, r, p)
  PROVE  /\ Core(r) /\ r.sent \in Seq(Packets)
         /\ p \in Mute /\ \A A \in {Mute, Synless, Finless} : p \in A /\ s.sent \in Seq(A) => r.sent \in Seq(A)
<1>1. /\ r.head = s.head /\ r.tail = s.tail /\ r.nextTx = s.nextTx /\ r.highTx = s.highTx
      /\ r.scoreboard = s.scoreboard /\ r.out = s.out /\ r.buffer = s.buffer /\ r.sackstack = s.sackstack
      /\ r.shutdownSend = s.shutdownSend /\ DOMAIN r = Fields /\ r.state = s.state /\ r.told = s.told
      /\ r.endPoint = s.endPoint /\ r.closeNotified = s.closeNotified /\ r.asserted = s.asserted
      /\ r.recvCallback = s.recvCallback
  BY DEF Emits, Keeps, Fields
<1>2. Sender(r)
  BY <1>1 DEF Core, Sender, Emits
<1> DEFINE S == SentBefore(s.buffer.next)
           q == s.sent
<1>3. q \in Seq(S) /\ p \in S /\ r.sent = Append(q, p)
  BY DEF Core, Emits
<1>4. p \in Mute
  BY DEF Emits, SentBefore, Mute
<1> HIDE DEF S, q
<1>5. r.sent \in Seq(S)
  BY <1>3
<1>6. ASSUME NEW A, p \in A, q \in Seq(A) PROVE r.sent \in Seq(A)
  BY <1>3, <1>6
<1>7. Core(r)
  BY <1>1, <1>2, <1>5 DEF Core, Emits, S
<1> QED
  BY <1>4, <1>6, <1>7, CoreTypes DEF q

LEMMA EmitsBase ==
  ASSUME NEW s, Core(s), NEW r, NEW p, Emits(s, r, p), p.flags # "SYN"
  PROVE  Base(s, r)
<1>1. Core(r) /\ p \in Mute /\ p \in Synless
  BY EmitsCore DEF Mute, Synless
<1>2. (s.sent \in Seq(Mute) => r.sent \in Seq(Mute)) /\ (s.sent \in Seq(Synless) => r.sent \in Seq(Synless))
  BY <1>1, EmitsCore
<1>3. /\ r.head = s.head /\ r.tail = s.tail /\ r.nextTx = s.nextTx /\ r.buffer = s.buffer
      /\ r.shutdownSend = s.shutdownSend /\ r.state = s.state
  BY DEF Emits, Keeps, Fields
<1>4. s.head <= s.head /\ s.tail <= s.tail /\ s.buffer.next <= s.buffer.next
  BY CoreTypes
<1> QED
  BY <1>1, <1>2, <1>3, <1>4 DEF Base, Reader

LEMMA EmitsLeads ==
  ASSUME NEW s, Core(s), NEW ack \in Nat, NEW r, NEW p, Emits(s, r, p), p.flags \notin {"SYN", "FIN+ACK"},
         r.retx # "FIN+ACK" \/ r.retx = s.retx
  PROVE  Leads(s, r, ack)
<1>1. Base(s, r)
  BY EmitsBase
<1>2. r.head = s.head /\ r.state = s.state
  BY DEF Emits, Keeps, Fields
<1>3. p \in Finless /\ (s.sent \in Seq(Finless) => r.sent \in Seq(Finless))
  <2>1. p \in Finless
    BY EmitsCore DEF Mute, Finless
  <2> QED
    BY <2>1, EmitsCore
<1>4. s.head <= Larger(s.head, ack)
  BY CoreTypes DEF Larger
<1> QED
  BY <1>1, <1>2, <1>3, <1>4 DEF Leads, Modest, Virgin
-----------------------------------------------------------------------------
\* The empty packets.

LEMMA PacketIs ==
  ASSUME NEW s, Core(s), NEW flags \in {"ACK", "SYN", "SYN+ACK", "FIN+ACK", "RST"},
         NEW prio \in Nat, flags = "SYN" => prio = 0, NEW seq \in Nat, NEW sack \in Seq(Nat \X Nat)
  PROVE  LET p == Packet(s, flags, prio, seq, 0, sack)
         IN p \in SentBefore(s.buffer.next) /\ p.len = 0 /\ p.flags = flags
<1> DEFINE p == Packet(s, flags, prio, seq, 0, sack)
           n == s.buffer.next
<1>1. n \in Nat /\ n <= n /\ 0 \in 0 .. MSS
  BY CoreTypes, MSSAssumption
<1>2. p = [flags |-> flags, prio |-> prio, seq |-> seq, len |-> 0, ack |-> n, sack |-> sack]
  BY DEF Packet
<1> HIDE DEF p, n
<1>3. p \in Packets /\ p.len = 0 /\ p.flags = flags /\ p.ack <= n /\ p.prio = prio
  BY <1>1, <1>2 DEF Packets
<1>4. p \in SentBefore(n)
  BY <1>3 DEF SentBefore
<1> QED
  BY <1>3, <1>4 DEF p, n

LEMMA SeqOfEmptyType == \A s : Core(s) => SeqOfEmpty(s) \in Nat
BY CoreTypes DEF SeqOfEmpty

\* What SendEmptyPacket does of itself, that is unless it gives up.
LEMMA EmptyEmits ==
  ASSUME NEW s, Core(s), s.endPoint, NEW flags \in {"ACK", "RST", "SYN", "SYN+ACK", "FIN+ACK"},
         NEW cnCount \in 0 .. CnRetries,
         flags \in Retried => s.state \notin {"CLOSED", "TIME_WAIT"},
         flags = "SYN" => s.state = "SYN_SENT",
         NEW r, Keeps(s, r, {"sent", "retx", "cnCount"}), r.cnCount = cnCount,
         r.sent = Append(s.sent, Packet(s, flags, 0, IF flags = "FIN+ACK" THEN s.nextTx ELSE SeqOfEmpty(s), 0, <<>>)),
         r.retx = IF flags \in Retried THEN Schedule(s.retx, flags) ELSE s.retx
  PROVE  \E p : p.flags = flags /\ Emits(s, r, p)
<1> DEFINE seq == IF flags = "FIN+ACK" THEN s.nextTx ELSE SeqOfEmpty(s)
           none == <<>>
           p == Packet(s, flags, 0, seq, 0, none)
<1>1. seq \in Nat /\ none \in Seq(Nat \X Nat) /\ 0 \in Nat
  BY CoreTypes, SeqOfEmptyType
<1> HIDE DEF seq, none
<1>2. p \in SentBefore(s.buffer.next) /\ p.len = 0 /\ p.flags = flags
  BY <1>1, PacketIs
<1>3. r.sent = Append(s.sent, p)
  BY DEF seq, none
<1> HIDE DEF p
<1>4. r.retx \in Events
  BY CoreTypes DEF Schedule, Events, Retried
<1>5. /\ s.state \in {"CLOSED", "TIME_WAIT"} => r.retx = Off
      /\ r.retx = "SYN" => s.state = "SYN_SENT"
  BY DEF Core, Retried, Schedule
<1>6. Emits(s, r, p)
  BY <1>2, <1>3, <1>4, <1>5 DEF Emits
<1> QED
  BY <1>2, <1>6

LEMMA AnswerIs ==
  ASSUME NEW s, Core(s), NEW flags \in {"ACK", "RST"}, NEW ack \in Nat
  PROVE  LET r == SendEmptyPacket(s, flags) IN Keeps(s, r, {"sent"}) /\ Leads(s, r, ack)
<1> DEFINE r == SendEmptyPacket(s, flags)
<1>1. CASE ~s.endPoint
  <2>1. r = s
    BY <1>1 DEF SendEmptyPacket
  <2> QED
    BY <2>1, LeadsSame, CoreTypes DEF Keeps
<1>2. CASE s.endPoint
  <2>1. r = [s EXCEPT !.sent = Append(@, Packet(s, flags, 0, SeqOfEmpty(s), 0, <<>>))]
    BY <1>2, CoreTypes DEF SendEmptyPacket, Retried, Fields
  <2> HIDE DEF r
  <2>2. Keeps(s, r, {"sent"}) /\ r.sent = Append(s.sent, Packet(s, flags, 0, SeqOfEmpty(s), 0, <<>>))
    BY <2>1, CoreTypes DEF Keeps, Fields
  <2>3. Keeps(s, r, {"sent", "retx", "cnCount"}) /\ r.retx = s.retx /\ r.cnCount = s.cnCount
    BY <2>2 DEF Keeps, Fields
  <2>4. s.cnCount \in 0 .. CnRetries /\ flags \notin Retried
    BY DEF Core, Retried
  <2>5. \E p : p.flags = flags /\ Emits(s, r, p)
    BY <1>2, <2>2, <2>3, <2>4, EmptyEmits
  <2>6. Leads(s, r, ack)
    BY <2>3, <2>5, EmitsLeads
  <2> QED
    BY <2>2, <2>6 DEF r
<1> QED
  BY <1>1, <1>2

\* A FIN, from a socket that is not done.
LEMMA FinIs ==
  ASSUME NEW s, Core(s), s.state \notin {"CLOSED", "TIME_WAIT"}
  PROVE  LET r == SendEmptyPacket(s, "FIN+ACK")
         IN Keeps(s, r, {"sent", "retx"}) /\ Base(s, r) /\ r.retx \in {s.retx, "FIN+ACK"}
<1> DEFINE r == SendEmptyPacket(s, "FIN+ACK")
<1>1. CASE ~s.endPoint
  <2>1. r = s
    BY <1>1 DEF SendEmptyPacket
  <2> QED
    BY <2>1, LeadsSame, CoreTypes DEF Keeps, Leads
<1>2. CASE s.endPoint
  <2>1. r = [s EXCEPT !.sent = Append(@, Packet(s, "FIN+ACK", 0, s.nextTx, 0, <<>>)),
                      !.retx = Schedule(@, "FIN+ACK")]
    BY <1>2, CoreTypes DEF SendEmptyPacket, Retried, Fields
  <2> HIDE DEF r
  <2>2. Keeps(s, r, {"sent", "retx"}) /\ r.sent = Append(s.sent, Packet(s, "FIN+ACK", 0, s.nextTx, 0, <<>>))
        /\ r.retx = Schedule(s.retx, "FIN+ACK")
    BY <2>1, CoreTypes DEF Keeps, Fields
  <2>3. Keeps(s, r, {"sent", "retx", "cnCount"}) /\ r.cnCount = s.cnCount
    BY <2>2 DEF Keeps, Fields
  <2>4. s.cnCount \in 0 .. CnRetries /\ "FIN+ACK" \in Retried
    BY DEF Core, Retried
  <2>5. \E p : p.flags = "FIN+ACK" /\ Emits(s, r, p)
    BY <1>2, <2>2, <2>3, <2>4, EmptyEmits
  <2>6. Base(s, r)
    BY <2>5, EmitsBase
  <2> QED
    BY <2>2, <2>6 DEF r, Schedule
<1> QED
  BY <1>1, <1>2
-----------------------------------------------------------------------------
\* The ways to close.

Released == {"closeNotified", "told", "endPoint", "retx", "lastAckEvent", "state"}

LEMMA CloseAndNotifyIs ==
  ASSUME NEW s, Core(s), NEW ack \in Nat
  PROVE  LET r == CloseAndNotify(s)
         IN /\ Keeps(s, r, Released) /\ Leads(s, r, ack) /\ r.state = "CLOSED" /\ r.retx = Off
            /\ r.told \in {s.told, s.told \cup {"normalClose"}}
<1> DEFINE notified == IF s.closeNotified THEN s ELSE Told([s EXCEPT !.closeNotified = TRUE], "normalClose")
           freed == IF s.state = "TIME_WAIT" THEN notified ELSE DeallocateEndPoint(notified)
           r == CloseAndNotify(s)
<1>1. r = [CancelAllTimers(freed) EXCEPT !.state = "CLOSED"]
  BY DEF CloseAndNotify
<1>2. /\ Keeps(s, notified, {"closeNotified", "told"}) /\ notified.closeNotified \in BOOLEAN
      /\ notified.told \in {s.told, s.told \cup {"normalClose"}}
  BY CoreTypes DEF Told, Keeps, Fields, Core
<1> HIDE DEF notified
<1>3. /\ Keeps(notified, freed, {"endPoint", "retx", "lastAckEvent"}) /\ freed.endPoint \in {notified.endPoint, FALSE}
  BY <1>2 DEF DeallocateEndPoint, CancelAllTimers, Keeps, Fields
<1> HIDE DEF freed, r
<1>4. Keeps(freed, r, {"retx", "lastAckEvent", "state"}) /\ r.state = "CLOSED" /\ r.retx = Off
      /\ r.lastAckEvent = FALSE
  BY <1>1, <1>3 DEF CancelAllTimers, Keeps, Fields
<1>5. /\ Keeps(s, r, Released) /\ r.closeNotified = notified.closeNotified /\ r.told = notified.told
      /\ r.endPoint = freed.endPoint
  BY <1>2, <1>3, <1>4 DEF Keeps, Fields, Released
<1>6. notified.endPoint = s.endPoint
  BY <1>2 DEF Keeps, Fields
<1>7. Controlled(s, r)
  <2>1. Keeps(s, r, Control) /\ r.cnCount = s.cnCount /\ r.asserted = s.asserted /\ r.recvCallback = s.recvCallback
    BY <1>5 DEF Keeps, Released, Control, Fields
  <2>2. /\ s.cnCount \in 0 .. CnRetries /\ s.asserted \in BOOLEAN /\ s.recvCallback \in BOOLEAN
        /\ s.endPoint \in BOOLEAN /\ s.told \subseteq Notices /\ "normalClose" \in Notices /\ "CLOSED" \in States
    BY DEF Core, Notices, States
  <2>3. r.told \subseteq Notices /\ r.endPoint \in BOOLEAN /\ r.closeNotified \in BOOLEAN
    BY <1>2, <1>3, <1>5, <1>6, <2>2
  <2>4. Off # "SYN"
    BY DEF Off
  <2> QED
    BY <1>4, <2>1, <2>2, <2>3, <2>4 DEF Controlled
<1>8. Virgin(r)
  BY <1>4 DEF Virgin, Off
<1>9. Leads(s, r, ack)
  BY <1>7, <1>8, ControlledLeads
<1> QED
  BY <1>2, <1>4, <1>5, <1>9 DEF r

LEMMA SendRSTIs ==
  ASSUME NEW s, Core(s), NEW ack \in Nat
  PROVE  LET r == SendRST(s)
         IN /\ Keeps(s, r, {"sent", "told", "endPoint", "retx", "lastAckEvent"}) /\ Leads(s, r, ack)
            /\ r.retx = Off /\ r.told = s.told \cup {"errorClose"}
<1> DEFINE e == SendEmptyPacket(s, "RST")
           d == Told(e, "errorClose")
           r == SendRST(s)
<1>1. r = DeallocateEndPoint(d)
  BY DEF SendRST
<1>2. Keeps(s, e, {"sent"}) /\ Leads(s, e, ack) /\ Core(e)
  BY AnswerIs DEF Leads, Base
<1> HIDE DEF e
<1>3. Keeps(e, d, {"told"}) /\ d.told = e.told \cup {"errorClose"}
  BY <1>2 DEF Told, Keeps, Fields
<1> HIDE DEF d, r
<1>4. /\ Keeps(d, r, {"endPoint", "retx", "lastAckEvent"})
      /\ \/ d.endPoint /\ r.retx = Off /\ r.lastAckEvent = FALSE /\ ~r.endPoint /\ r.endPoint = FALSE
         \/ ~d.endPoint /\ r = d
  BY <1>1, <1>3 DEF DeallocateEndPoint, CancelAllTimers, Keeps, Fields
<1>5. Keeps(e, r, {"told", "endPoint", "retx", "lastAckEvent"}) /\ r.told = e.told \cup {"errorClose"}
      /\ d.endPoint = e.endPoint /\ d.retx = e.retx
  BY <1>3, <1>4 DEF Keeps, Fields
<1>6. r.retx = Off /\ r.endPoint \in BOOLEAN /\ e.told \subseteq Notices /\ "errorClose" \in Notices
  BY <1>2, <1>4, <1>5 DEF Core, Notices
<1>7. Controlled(e, r)
  <2>1. /\ Keeps(e, r, Control) /\ r.cnCount = e.cnCount /\ r.asserted = e.asserted /\ r.recvCallback = e.recvCallback
        /\ r.state = e.state /\ r.closeNotified = e.closeNotified
    BY <1>5 DEF Keeps, Control, Fields
  <2>2. /\ e.cnCount \in 0 .. CnRetries /\ e.asserted \in BOOLEAN /\ e.recvCallback \in BOOLEAN
        /\ e.closeNotified \in BOOLEAN /\ e.state \in States
    BY <1>2 DEF Core
  <2>3. Off # "SYN"
    BY DEF Off
  <2> QED
    BY <1>5, <1>6, <2>1, <2>2, <2>3 DEF Controlled
<1>8. e.state = r.state
  BY <1>5 DEF Keeps, Fields
<1>9. Leads(e, r, ack)
  BY <1>2, <1>6, <1>7, <1>8, ControlledLeads DEF Virgin, Off
<1>10. Leads(s, r, ack)
  BY <1>2, <1>9, LeadsTwice
<1>11. Keeps(s, r, {"sent", "told", "endPoint", "retx", "lastAckEvent"}) /\ e.told = s.told
  BY <1>2, <1>5 DEF Keeps, Fields
<1> QED
  BY <1>5, <1>6, <1>10, <1>11 DEF r

LEMMA AbortIs ==
  ASSUME NEW s, Core(s), NEW m, NEW ack \in Nat
  PROVE  LET r == Abort(s, m)
         IN /\ Leads(s, r, ack) /\ r.state = "CLOSED" /\ r.buffer = s.buffer /\ r.asserted = s.asserted
            /\ "created" \in r.told => "created" \in s.told
<1> DEFINE d == IF m.flags = "RST" THEN s ELSE SendRST(s)
           r == Abort(s, m)
<1>1. r = CloseAndNotify(d)
  BY DEF Abort
<1>2. /\ Leads(s, d, ack) /\ d.buffer = s.buffer /\ d.asserted = s.asserted /\ Core(d)
      /\ d.told \in {s.told, s.told \cup {"errorClose"}}
  <2>1. CASE m.flags = "RST"
    BY <2>1, LeadsSame
  <2>2. CASE m.flags # "RST"
    <3> DEFINE e == SendRST(s)
    <3>1. d = e
      BY <2>2
    <3>2. /\ Keeps(s, e, {"sent", "told", "endPoint", "retx", "lastAckEvent"}) /\ Leads(s, e, ack)
          /\ e.told = s.told \cup {"errorClose"}
      BY SendRSTIs
    <3> HIDE DEF d, e
    <3>3. Core(e)
      BY <3>2 DEF Leads, Base
    <3>4. e.buffer = s.buffer /\ e.asserted = s.asserted
      BY <3>2 DEF Keeps, Fields
    <3> QED
      BY <3>1, <3>2, <3>3, <3>4
  <2> QED
    BY <2>1, <2>2
<1> HIDE DEF d, r
<1>3. /\ Keeps(d, r, Released) /\ Leads(d, r, ack) /\ r.state = "CLOSED"
      /\ r.told \in {d.told, d.told \cup {"normalClose"}}
  BY <1>1, <1>2, CloseAndNotifyIs
<1>4. r.buffer = d.buffer /\ r.asserted = d.asserted
  BY <1>3 DEF Keeps, Fields, Released
<1>5. Leads(s, r, ack)
  BY <1>2, <1>3, LeadsTwice
<1> QED
  BY <1>2, <1>3, <1>4, <1>5 DEF r
-----------------------------------------------------------------------------
\* Close, by the application or when the peer has closed.

LEMMA BaseTwice ==
  ASSUME NEW s, Core(s), NEW d, Base(s, d), NEW r, Base(d, r)
  PROVE  Base(s, r)
<1>1. Core(d) /\ Core(r)
  BY DEF Base
<1>2. /\ s.head \in Nat /\ d.head \in Nat /\ r.head \in Nat /\ s.tail \in Nat /\ d.tail \in Nat /\ r.tail \in Nat
      /\ s.buffer.next \in Nat /\ d.buffer.next \in Nat /\ r.buffer.next \in Nat
  BY <1>1, CoreTypes
<1>3. s.buffer.next <= r.buffer.next /\ s.head <= r.head /\ s.tail <= r.tail
  BY SMTT(20), <1>2 DEF Base
<1> QED
  BY <1>1, <1>3 DEF Base

LEMMA TimeWaitIs ==
  ASSUME NEW s, Core(s), s.state \in {"FIN_WAIT_1", "FIN_WAIT_2", "CLOSING"}, NEW ack \in Nat
  PROVE  LET r == TimeWait(s)
         IN Keeps(s, r, {"retx", "lastAckEvent", "state"}) /\ r.state = "TIME_WAIT" /\ Leads(s, r, ack)
<1> DEFINE r == TimeWait(s)
<1>1. /\ Keeps(s, r, {"retx", "lastAckEvent", "state"}) /\ r.state = "TIME_WAIT" /\ r.retx = Off
      /\ r.lastAckEvent = FALSE
  BY CoreTypes DEF TimeWait, CancelAllTimers, Keeps, Fields
<1> HIDE DEF r
<1>2. Controlled(s, r)
  <2>1. /\ Keeps(s, r, Control) /\ r.cnCount = s.cnCount /\ r.asserted = s.asserted /\ r.recvCallback = s.recvCallback
        /\ r.closeNotified = s.closeNotified /\ r.told = s.told /\ r.endPoint = s.endPoint
    BY <1>1 DEF Keeps, Control, Fields
  <2>2. /\ s.cnCount \in 0 .. CnRetries /\ s.asserted \in BOOLEAN /\ s.recvCallback \in BOOLEAN
        /\ s.endPoint \in BOOLEAN /\ s.told \subseteq Notices /\ s.closeNotified \in BOOLEAN
        /\ "TIME_WAIT" \in States
    BY DEF Core, States
  <2>3. Off # "SYN"
    BY DEF Off
  <2> QED
    BY <1>1, <2>1, <2>2, <2>3 DEF Controlled
<1>3. ~Virgin(s)
  BY DEF Virgin
<1>4. Leads(s, r, ack)
  BY <1>2, <1>3, ControlledLeads
<1> QED
  BY <1>1, <1>4 DEF r

\* What closing may change.
Closed == {"sent", "retx", "state", "closeNotified", "told", "endPoint", "lastAckEvent"}

\* Where Close leads from a state.
AfterClose(state) ==
  CASE state = "ESTABLISHED" -> "FIN_WAIT_1"
    [] state = "CLOSE_WAIT" -> "LAST_ACK"
    [] state \in {"SYN_SENT", "CLOSING", "LAST_ACK"} -> "CLOSED"
    [] OTHER -> state

LEMMA FinSent ==
  ASSUME NEW s, Core(s), s.state \in {"ESTABLISHED", "CLOSE_WAIT"}, NEW next \in {"FIN_WAIT_1", "LAST_ACK"}
  PROVE  LET r == [SendEmptyPacket(s, "FIN+ACK") EXCEPT !.state = next]
         IN Keeps(s, r, {"sent", "retx", "state"}) /\ Base(s, r) /\ r.state = next
<1> DEFINE d == SendEmptyPacket(s, "FIN+ACK")
           r == [d EXCEPT !.state = next]
<1>1. Keeps(s, d, {"sent", "retx"}) /\ Base(s, d) /\ Core(d)
  BY FinIs DEF Base
<1> HIDE DEF d
<1>2. Keeps(d, r, {"state"}) /\ r.state = next
  BY <1>1 DEF Keeps, Fields
<1> HIDE DEF r
<1>3. d.state = s.state
  BY <1>1 DEF Keeps, Fields
<1>4. Controlled(d, r)
  <2>1. /\ Keeps(d, r, Control) /\ r.cnCount = d.cnCount /\ r.asserted = d.asserted /\ r.recvCallback = d.recvCallback
        /\ r.closeNotified = d.closeNotified /\ r.told = d.told /\ r.endPoint = d.endPoint /\ r.retx = d.retx
    BY <1>2 DEF Keeps, Control, Fields
  <2>2. /\ d.cnCount \in 0 .. CnRetries /\ d.asserted \in BOOLEAN /\ d.recvCallback \in BOOLEAN
        /\ d.endPoint \in BOOLEAN /\ d.told \subseteq Notices /\ d.closeNotified \in BOOLEAN
        /\ next \in States /\ (d.retx = "SYN" => d.state = "SYN_SENT")
        /\ (~d.endPoint => d.retx = Off)
    BY <1>1 DEF Core, States
  <2> QED
    BY <1>2, <1>3, <2>1, <2>2 DEF Controlled
<1>5. Base(s, r)
  BY <1>1, <1>4, ControlledBase, BaseTwice
<1>6. Keeps(s, r, {"sent", "retx", "state"})
  BY <1>1, <1>2 DEF Keeps, Fields
<1> QED
  BY <1>2, <1>5, <1>6 DEF r, d

LEMMA DoCloseIs ==
  ASSUME NEW s, Core(s), s.state # "SYN_RCVD"
  PROVE  LET r == DoClose(s)
         IN /\ Keeps(s, r, Closed) /\ Base(s, r) /\ r.state = AfterClose(s.state)
            /\ "created" \in r.told => "created" \in s.told
            /\ s.state = "CLOSED" => r = s
<1> DEFINE r == DoClose(s)
           P(x) == /\ Keeps(s, x, Closed) /\ Base(s, x) /\ x.state = AfterClose(s.state)
                   /\ "created" \in x.told => "created" \in s.told
                   /\ s.state = "CLOSED" => x = s
<1>1. CASE s.state = "ESTABLISHED"
  <2>1. r = [SendEmptyPacket(s, "FIN+ACK") EXCEPT !.state = "FIN_WAIT_1"]
    BY <1>1 DEF DoClose
  <2>2. Keeps(s, r, {"sent", "retx", "state"}) /\ Base(s, r) /\ r.state = "FIN_WAIT_1"
    BY <1>1, <2>1, FinSent
  <2> HIDE DEF r
  <2>3. Keeps(s, r, Closed) /\ r.told = s.told
    BY <2>2 DEF Keeps, Fields, Closed
  <2> QED
    BY <1>1, <2>2, <2>3 DEF AfterClose, r
<1>2. CASE s.state = "CLOSE_WAIT"
  <2>1. r = [SendEmptyPacket(s, "FIN+ACK") EXCEPT !.state = "LAST_ACK"]
    BY <1>2 DEF DoClose
  <2>2. Keeps(s, r, {"sent", "retx", "state"}) /\ Base(s, r) /\ r.state = "LAST_ACK"
    BY <1>2, <2>1, FinSent
  <2> HIDE DEF r
  <2>3. Keeps(s, r, Closed) /\ r.told = s.told
    BY <2>2 DEF Keeps, Fields, Closed
  <2> QED
    BY <1>2, <2>2, <2>3 DEF AfterClose, r
<1>3. CASE s.state \in {"SYN_SENT", "CLOSING"}
  <2> DEFINE d == SendRST(s)
  <2>1. r = CloseAndNotify(d)
    BY <1>3 DEF DoClose
  <2>2. /\ Keeps(s, d, {"sent", "told", "endPoint", "retx", "lastAckEvent"}) /\ Leads(s, d, 0) /\ Core(d)
        /\ d.told = s.told \cup {"errorClose"}
    BY SendRSTIs DEF Leads, Base
  <2> HIDE DEF d, r
  <2>3. /\ Keeps(d, r, Released) /\ Leads(d, r, 0) /\ r.state = "CLOSED"
        /\ r.told \in {d.told, d.told \cup {"normalClose"}}
    BY <2>1, <2>2, CloseAndNotifyIs
  <2>4. Keeps(s, r, Closed)
    BY <2>2, <2>3 DEF Keeps, Fields, Closed, Released
  <2>5. Base(s, r)
    BY <2>2, <2>3, BaseTwice DEF Leads
  <2>6. ("created" \in r.told => "created" \in s.told) /\ AfterClose(s.state) = "CLOSED"
    BY <1>3, <2>2, <2>3 DEF AfterClose
  <2> QED
    BY <1>3, <2>3, <2>4, <2>5, <2>6 DEF r
<1>4. CASE s.state = "LAST_ACK"
  <2>1. r = CloseAndNotify(s)
    BY <1>4 DEF DoClose
  <2> HIDE DEF r
  <2>2. /\ Keeps(s, r, Released) /\ Leads(s, r, 0) /\ r.state = "CLOSED"
        /\ r.told \in {s.told, s.told \cup {"normalClose"}}
    BY <2>1, CloseAndNotifyIs
  <2>3. Keeps(s, r, Closed) /\ Base(s, r) /\ ("created" \in r.told => "created" \in s.told)
    BY <2>2 DEF Keeps, Closed, Released, Leads
  <2> QED
    BY <1>4, <2>2, <2>3 DEF r, AfterClose
<1>5. CASE s.state \notin {"ESTABLISHED", "CLOSE_WAIT", "SYN_SENT", "CLOSING", "LAST_ACK"}
  <2>1. r = s
    BY <1>5 DEF DoClose
  <2>2. AfterClose(s.state) = s.state
    BY <1>5 DEF AfterClose
  <2>3. Base(s, s) /\ Keeps(s, s, Closed)
    BY LeadsSame, CoreTypes DEF Keeps, Leads
  <2> QED
    BY <2>1, <2>2, <2>3
<1> QED
  BY <1>1, <1>2, <1>3, <1>4, <1>5

LEMMA CloseIs ==
  ASSUME NEW s, Core(s), s.state # "SYN_RCVD"
  PROVE  LET r == Close(s)
         IN /\ Keeps(s, r, Closed \cup {"head", "tail"}) /\ Base(s, r) /\ r.state = AfterClose(s.state)
            /\ "created" \in r.told => "created" \in s.told
            /\ s.head = s.tail => r.head = s.head
            /\ s.state = "CLOSED" /\ s.sent \in Seq(Finless) => r.sent \in Seq(Finless)
<1> DEFINE reset == IF s.buffer.frags /= {} THEN SendRST(s) ELSE s
           d == IF s.tail > s.nextTx THEN DiscardUpTo(reset, s.tail) ELSE reset
           r == Close(s)
<1>1. r = DoClose(d)
  BY DEF Close
<1>2. /\ Keeps(s, reset, {"sent", "told", "endPoint", "retx", "lastAckEvent"}) /\ Leads(s, reset, 0) /\ Core(reset)
      /\ reset.told \subseteq s.told \cup {"errorClose"}
  <2>1. Keeps(s, s, {"sent", "told", "endPoint", "retx", "lastAckEvent"}) /\ Leads(s, s, 0)
    BY LeadsSame, CoreTypes DEF Keeps
  <2> QED
    BY <2>1, SendRSTIs DEF Leads, Base
<1>3. s.state = "CLOSED" /\ s.sent \in Seq(Finless) => reset.sent \in Seq(Finless)
  <2>1. CASE reset = s
    BY <2>1
  <2>2. CASE reset = SendRST(s)
    <3> DEFINE e == SendEmptyPacket(s, "RST")
    <3>1. Keeps(s, e, {"sent"}) /\ Leads(s, e, 0)
      BY AnswerIs
    <3>2. reset.sent = e.sent
      <4> HIDE DEF e
      <4>1. DOMAIN e = Fields
        BY <3>1 DEF Keeps
      <4> QED
        BY <2>2, <4>1 DEF SendRST, DeallocateEndPoint, CancelAllTimers, Told, Fields, e
    <3> HIDE DEF e, reset
    <3>3. CASE s.state = "CLOSED" /\ s.endPoint
      <4>1. \E p : p.flags = "RST" /\ Emits(s, e, p)
        <5>1. e = [s EXCEPT !.sent = Append(@, Packet(s, "RST", 0, SeqOfEmpty(s), 0, <<>>))]
          BY <3>3, CoreTypes DEF SendEmptyPacket, Retried, Fields, e
        <5>2. /\ Keeps(s, e, {"sent", "retx", "cnCount"})
              /\ e.sent = Append(s.sent, Packet(s, "RST", 0, SeqOfEmpty(s), 0, <<>>))
              /\ e.retx = s.retx /\ e.cnCount = s.cnCount
          BY <5>1, CoreTypes DEF Keeps, Fields
        <5>3. s.cnCount \in 0 .. CnRetries /\ "RST" \notin Retried
          BY DEF Core, Retried
        <5> QED
          BY <3>3, <5>2, <5>3, EmptyEmits
      <4>2. PICK p : p.flags = "RST" /\ Emits(s, e, p)
        BY <4>1
      <4>3. p \in Finless
        BY <4>2, EmitsCore DEF Mute, Finless
      <4> QED
        BY <3>2, <4>2, <4>3, EmitsCore
    <3>4. CASE ~s.endPoint
      BY <3>2, <3>4 DEF SendEmptyPacket, e
    <3> QED
      BY <3>3, <3>4
  <2> QED
    BY <2>1, <2>2
<1> HIDE DEF reset
<1>4. reset.head = s.head /\ reset.tail = s.tail /\ reset.nextTx = s.nextTx /\ reset.state = s.state
      /\ s.head \in Nat /\ s.tail \in Nat /\ s.nextTx \in Nat /\ s.head <= s.tail
  BY <1>2, CoreTypes DEF Keeps, Fields
<1>5. CASE ~(s.tail > s.nextTx)
  <2>1. d = reset
    BY <1>5
  <2>2. /\ Keeps(d, r, Closed) /\ Base(d, r) /\ r.state = AfterClose(s.state)
        /\ "created" \in r.told => "created" \in d.told
        /\ d.state = "CLOSED" => r = d
    BY <1>1, <1>2, <1>4, <2>1, DoCloseIs
  <2> HIDE DEF d, r
  <2>3. Base(s, r)
    BY <1>2, <2>1, <2>2, BaseTwice DEF Leads
  <2>4. Keeps(s, r, Closed \cup {"head", "tail"}) /\ r.head = s.head
    BY <1>2, <2>1, <2>2 DEF Keeps, Fields, Closed
  <2> QED
    BY <1>2, <1>3, <1>4, <2>1, <2>2, <2>3, <2>4 DEF r
<1>6. CASE s.tail > s.nextTx
  <2>1. d = [reset EXCEPT !.head = Larger(@, s.tail), !.tail = Larger(@, s.tail)]
    BY <1>6 DEF DiscardUpTo
  <2> HIDE DEF d
  <2>2. Keeps(reset, d, {"head", "tail"}) /\ d.head = s.tail /\ d.tail = s.tail
    <3>1. DOMAIN reset = Fields /\ Larger(reset.head, s.tail) = s.tail /\ Larger(reset.tail, s.tail) = s.tail
      BY <1>2, <1>4, CoreTypes DEF Larger
    <3> QED
      BY <2>1, <3>1 DEF Keeps, Fields
  <2>3. /\ d.nextTx = reset.nextTx /\ d.highTx = reset.highTx /\ d.scoreboard = reset.scoreboard
        /\ d.retx = reset.retx /\ d.out = reset.out /\ d.state = reset.state /\ d.buffer = reset.buffer
        /\ d.sackstack = reset.sackstack /\ d.sent = reset.sent /\ d.shutdownSend = reset.shutdownSend
        /\ d.told = reset.told /\ d.cnCount = reset.cnCount /\ d.endPoint = reset.endPoint
        /\ d.closeNotified = reset.closeNotified /\ d.asserted = reset.asserted
        /\ d.recvCallback = reset.recvCallback /\ DOMAIN d = Fields
    BY <2>2 DEF Keeps, Fields
  <2>4. Sender(d)
    <3>1. s.tail <= FlowSize + 1
      BY <1>4, <1>6, CoreTypes DEF Sender
    <3>2. d.head <= d.tail /\ Sender(reset)
      BY <1>2, <1>4, <2>2, CoreTypes
    <3> QED
      BY <1>4, <2>2, <2>3, <3>1, <3>2 DEF Sender
  <2>5. Core(d)
    BY <1>2, <2>3, <2>4 DEF Core
  <2>6. Base(reset, d)
    <3>1. reset.head <= d.head /\ reset.tail <= d.tail /\ reset.buffer.next <= reset.buffer.next
      BY <1>2, <1>4, <2>2, CoreTypes
    <3>2. Reader(reset) => Reader(d)
      BY <1>4, <2>2, <2>3 DEF Reader
    <3> QED
      BY <2>3, <2>5, <3>1, <3>2 DEF Base
  <2>7. /\ Keeps(d, r, Closed) /\ Base(d, r) /\ r.state = AfterClose(s.state)
        /\ "created" \in r.told => "created" \in d.told
        /\ d.state = "CLOSED" => r = d
    BY <1>1, <1>4, <2>3, <2>5, DoCloseIs
  <2> HIDE DEF r
  <2>8. Base(s, r)
    BY <1>2, <2>6, <2>7, BaseTwice DEF Leads
  <2>9. Keeps(s, r, Closed \cup {"head", "tail"}) /\ r.head = d.head
    BY <1>2, <2>2, <2>7 DEF Keeps, Fields, Closed
  <2> QED
    BY <1>2, <1>3, <1>4, <2>2, <2>3, <2>7, <2>8, <2>9 DEF r
<1> QED
  BY <1>5, <1>6
-----------------------------------------------------------------------------
\* The peer has closed.

LEMMA DoPeerCloseIs ==
  ASSUME NEW s, Core(s), s.state \notin {"CLOSED", "SYN_SENT", "TIME_WAIT"}, NEW ack \in Nat,
         s.state = "SYN_RCVD" => s.head <= s.nextTx
  PROVE  LET r == DoPeerClose(s)
         IN /\ Leads(s, r, ack) /\ r.buffer = s.buffer /\ r.state \in {"CLOSE_WAIT", "LAST_ACK"}
            /\ r.asserted = (s.asserted /\ s.state \in {"ESTABLISHED", "SYN_RCVD"})
            /\ r.recvCallback = s.recvCallback
            /\ "created" \in r.told => "created" \in s.told
<1> DEFINE told == IF s.closeNotified THEN s ELSE Told(s, "normalClose")
           d == [told EXCEPT !.asserted = @ /\ s.state \in {"ESTABLISHED", "SYN_RCVD"},
                             !.state = "CLOSE_WAIT", !.closeNotified = TRUE]
           done == IF s.shutdownSend THEN Close(d) ELSE SendEmptyPacket(d, "ACK")
           r == DoPeerClose(s)
<1>1. r = [done EXCEPT !.lastAckEvent = @ \/ done.state = "LAST_ACK"]
  BY DEF DoPeerClose
<1>2. Keeps(s, told, {"told"}) /\ told.told \in {s.told, s.told \cup {"normalClose"}}
  BY CoreTypes DEF Told, Keeps, Fields
<1> HIDE DEF told
<1>3. /\ Keeps(s, d, {"told", "asserted", "state", "closeNotified"}) /\ d.told = told.told
      /\ d.asserted = (s.asserted /\ s.state \in {"ESTABLISHED", "SYN_RCVD"})
      /\ d.state = "CLOSE_WAIT" /\ d.closeNotified = TRUE
  <2>1. told.asserted = s.asserted
    BY <1>2 DEF Keeps, Fields
  <2> QED
    BY <1>2, <2>1 DEF Keeps, Fields
<1> HIDE DEF d
<1>4. Leads(s, d, ack)
  <2>1. /\ Keeps(s, d, Control) /\ d.cnCount = s.cnCount /\ d.recvCallback = s.recvCallback
        /\ d.endPoint = s.endPoint /\ d.retx = s.retx
    BY <1>3 DEF Keeps, Control, Fields
  <2>2. /\ s.cnCount \in 0 .. CnRetries /\ s.asserted \in BOOLEAN /\ s.recvCallback \in BOOLEAN
        /\ s.endPoint \in BOOLEAN /\ s.told \subseteq Notices
        /\ "CLOSE_WAIT" \in States /\ "normalClose" \in Notices /\ (s.retx = "SYN" => s.state = "SYN_SENT")
        /\ (~s.endPoint => s.retx = Off)
    BY DEF Core, States, Notices
  <2>3. Controlled(s, d)
    BY <1>2, <1>3, <2>1, <2>2 DEF Controlled
  <2>4. Virgin(s) => Virgin(d)
    BY <1>3, <2>1 DEF Virgin
  <2> QED
    BY <2>3, <2>4, ControlledLeads
<1>5. Core(d) /\ d.shutdownSend = s.shutdownSend /\ d.buffer = s.buffer /\ d.recvCallback = s.recvCallback
  BY <1>3, <1>4 DEF Leads, Base, Keeps, Fields
<1>6. /\ Leads(d, done, ack) /\ done.buffer = d.buffer /\ done.asserted = d.asserted
      /\ done.recvCallback = d.recvCallback /\ ("created" \in done.told => "created" \in d.told)
      /\ done.state \in {"CLOSE_WAIT", "LAST_ACK"} /\ DOMAIN done = Fields
  <2>1. CASE s.shutdownSend
    <3>1. done = Close(d)
      BY <2>1
    <3> HIDE DEF done
    <3>2. /\ Keeps(d, done, Closed \cup {"head", "tail"}) /\ Base(d, done) /\ done.state = AfterClose(d.state)
          /\ "created" \in done.told => "created" \in d.told
      BY <1>3, <1>5, <3>1, CloseIs
    <3>3. done.buffer = d.buffer /\ done.asserted = d.asserted /\ done.recvCallback = d.recvCallback
          /\ DOMAIN done = Fields
      BY <3>2 DEF Keeps, Fields, Closed
    <3>4. done.state = "LAST_ACK"
      BY <1>3, <3>2 DEF AfterClose
    <3> QED
      BY <1>5, <2>1, <3>2, <3>3, <3>4 DEF Leads
  <2>2. CASE ~s.shutdownSend
    <3>1. done = SendEmptyPacket(d, "ACK")
      BY <2>2
    <3> HIDE DEF done
    <3>2. Keeps(d, done, {"sent"}) /\ Leads(d, done, ack)
      BY <1>5, <3>1, AnswerIs
    <3> QED
      BY <1>3, <3>2 DEF Keeps, Fields
  <2> QED
    BY <2>1, <2>2
<1> HIDE DEF done, r
<1>7. Keeps(done, r, {"lastAckEvent"})
  BY <1>1, <1>6 DEF Keeps, Fields
<1>8. /\ r.buffer = done.buffer /\ r.state = done.state /\ r.asserted = done.asserted
      /\ r.recvCallback = done.recvCallback /\ r.told = done.told /\ r.retx = done.retx
      /\ r.cnCount = done.cnCount /\ r.endPoint = done.endPoint /\ r.closeNotified = done.closeNotified
  BY <1>7 DEF Keeps, Fields
<1>9. Core(done)
  BY <1>6 DEF Leads, Base
<1>10. Controlled(done, r)
  <2>1. Keeps(done, r, Control)
    BY <1>7 DEF Keeps, Control
  <2> QED
    BY <1>6, <1>8, <1>9, <2>1 DEF Controlled, Core
<1>11. Leads(done, r, ack)
  BY <1>8, <1>9, <1>10, ControlledLeads DEF Virgin
<1>12. Leads(s, r, ack)
  BY <1>4, <1>5, <1>6, <1>11, LeadsTwice
<1> QED
  BY <1>2, <1>3, <1>5, <1>6, <1>8, <1>12 DEF r

\* r is s with another state of the receiving half.
LEMMA BufferedLeads ==
  ASSUME NEW s, Core(s), NEW ack \in Nat, NEW r, Keeps(s, r, {"buffer", "sackstack", "read"}),
         BufOK(r.buffer), s.buffer.next <= r.buffer.next, r.sackstack \in Seq(Nat \X Nat)
  PROVE  Leads(s, r, ack)
<1>1. /\ r.head = s.head /\ r.tail = s.tail /\ r.nextTx = s.nextTx /\ r.highTx = s.highTx
      /\ r.scoreboard = s.scoreboard /\ r.retx = s.retx /\ r.out = s.out /\ r.state = s.state
      /\ r.sent = s.sent /\ r.shutdownSend = s.shutdownSend /\ r.told = s.told /\ r.cnCount = s.cnCount
      /\ r.endPoint = s.endPoint /\ r.closeNotified = s.closeNotified /\ r.asserted = s.asserted
      /\ r.recvCallback = s.recvCallback /\ DOMAIN r = Fields
  BY DEF Keeps, Fields
<1>2. Sender(r)
  BY <1>1, CoreTypes DEF Sender
<1>3. r.sent \in Seq(SentBefore(r.buffer.next))
  <2>1. s.buffer.next \in Nat /\ r.buffer.next \in Nat
    BY CoreTypes DEF BufOK
  <2>2. SentBefore(s.buffer.next) \subseteq SentBefore(r.buffer.next)
    <3>1. \A p \in Packets : p.ack \in Nat
      BY DEF Packets
    <3> QED
      BY <2>1, <3>1 DEF SentBefore
  <2>3. s.sent \in Seq(SentBefore(s.buffer.next))
    BY DEF Core
  <2> QED
    BY <1>1, <2>2, <2>3, SeqGrows
<1>4. Core(r)
  BY <1>1, <1>2, <1>3 DEF Core
<1>5. s.head <= s.head /\ s.tail <= s.tail /\ s.head <= Larger(s.head, ack)
  BY CoreTypes DEF Larger
<1>6. Base(s, r)
  BY <1>1, <1>4, <1>5 DEF Base, Reader
<1>7. Modest(s, r, ack)
  BY <1>1, <1>5 DEF Modest, Virgin
<1> QED
  BY <1>6, <1>7 DEF Leads

\* A FIN in order closes, in the two states in which one is looked at.
LEMMA PeerCloseIs ==
  ASSUME NEW s, Core(s), s.state \in {"SYN_RCVD", "ESTABLISHED"}, NEW ack \in Nat,
         s.state = "SYN_RCVD" => s.head <= s.nextTx, NEW m, m.seq \in Nat
  PROVE  LET r == PeerClose(s, m)
         IN /\ Leads(s, r, ack) /\ r.asserted = s.asserted
            /\ r.state = s.state \/ (r.state \in {"CLOSE_WAIT", "LAST_ACK"} /\ s.buffer.next < r.buffer.next)
            /\ m.seq = s.buffer.next /\ s.buffer.fin = 0 => r.state # s.state
            /\ "created" \in r.told => "created" \in s.told
<1> DEFINE b == Receiver!SetFinSequence(s.buffer, m.seq)
           known == [s EXCEPT !.buffer = b]
           out == m.seq < s.buffer.next \/ (s.buffer.fin /= 0 /\ m.seq > s.buffer.fin)
           r == PeerClose(s, m)
<1>0. s.buffer.next \in Nat /\ s.buffer.fin \in Nat /\ BufOK(s.buffer)
  BY CoreTypes
<1>1. r = IF out THEN s ELSE IF ~Receiver!Finished(known.buffer) THEN known ELSE DoPeerClose(known)
  BY DEF PeerClose
<1>2. /\ BufOK(b) /\ s.buffer.next <= b.next
      /\ m.seq = s.buffer.next => Receiver!Finished(b)
      /\ m.seq >= s.buffer.next /\ Receiver!Finished(b) => s.buffer.next < b.next
  BY <1>0, SetFinIs
<1> HIDE DEF b
<1>3. Keeps(s, known, {"buffer", "sackstack", "read"}) /\ known.buffer = b /\ known.sackstack = s.sackstack
      /\ known.state = s.state /\ known.asserted = s.asserted /\ known.told = s.told
      /\ known.head = s.head /\ known.nextTx = s.nextTx
  BY CoreTypes DEF Keeps, Fields
<1> HIDE DEF known, r
<1>4. Leads(s, known, ack)
  <2>1. known.sackstack \in Seq(Nat \X Nat)
    BY <1>3 DEF Core
  <2> QED
    BY <1>2, <1>3, <2>1, BufferedLeads
<1>5. CASE out
  BY <1>0, <1>1, <1>5, LeadsSame DEF r
<1>6. CASE ~out /\ ~Receiver!Finished(b)
  BY <1>1, <1>2, <1>3, <1>4, <1>6 DEF r
<1>7. CASE ~out /\ Receiver!Finished(b)
  <2>1. r = DoPeerClose(known) /\ m.seq >= s.buffer.next
    BY <1>0, <1>1, <1>3, <1>7
  <2>2. Core(known)
    BY <1>4 DEF Leads, Base
  <2>3. /\ Leads(known, r, ack) /\ r.buffer = known.buffer /\ r.state \in {"CLOSE_WAIT", "LAST_ACK"}
        /\ r.asserted = (known.asserted /\ known.state \in {"ESTABLISHED", "SYN_RCVD"})
        /\ "created" \in r.told => "created" \in known.told
    BY <1>3, <2>1, <2>2, DoPeerCloseIs
  <2>4. Leads(s, r, ack)
    BY <1>4, <2>3, LeadsTwice
  <2>5. r.asserted = s.asserted
    BY <1>3, <2>3 DEF Core
  <2> QED
    BY <1>2, <1>3, <1>7, <2>1, <2>3, <2>4, <2>5 DEF r
<1> QED
  BY <1>5, <1>6, <1>7
-----------------------------------------------------------------------------
\* Data arrives.

LEMMA DataStored ==
  ASSUME NEW s, Core(s), NEW m, m.prio \in Nat, m.seq \in Nat, m.len \in Nat
  PROVE  LET d == Receiver!ReceivedData(s, m)
         IN /\ Keeps(s, d, {"buffer", "sackstack", "out", "read"}) /\ BufOK(d.buffer)
            /\ s.buffer.next <= d.buffer.next /\ d.buffer.fin = s.buffer.fin
            /\ m.len = 0 \/ m.seq + m.len <= s.buffer.next => d.buffer.next = s.buffer.next
            /\ d.sackstack \in Seq(Nat \X Nat) /\ \E a \in Replies : d.out = <<a>>
<1> DEFINE b == Receiver!Add(s.buffer, m.seq, m.seq + m.len)
           added == [s EXCEPT !.buffer = b]
           filled == Receiver!FillSackStack(added, m.seq)
           sacked == Receiver!SendEmptyPacket(filled, m.prio, TRUE)
           plain == Receiver!SendEmptyPacket(added, 0, FALSE)
           d == Receiver!ReceivedData(s, m)
<1>1. d \in {sacked, plain, Receiver!ReadAll(sacked), Receiver!ReadAll(plain)}
  BY DEF Receiver!ReceivedData, Receiver!NotifyDataRecv
<1>2. /\ BufOK(b) /\ s.buffer.next <= b.next /\ b.fin = s.buffer.fin
      /\ m.len = 0 \/ m.seq + m.len <= s.buffer.next => b.next = s.buffer.next
  BY CoreTypes, AddIs
<1> HIDE DEF b
<1>3. /\ Keeps(s, added, {"buffer"}) /\ added.buffer = b /\ added.sackstack = s.sackstack /\ added.out = <<>>
      /\ DOMAIN added = Fields
  BY CoreTypes DEF Keeps, Fields
<1>4. added.sackstack \in Seq(Nat \X Nat)
  BY <1>3 DEF Core
<1> HIDE DEF added
<1>5. PICK x \in Seq(Nat \X Nat) : filled = [added EXCEPT !.sackstack = x]
  BY <1>2, <1>3, <1>4, FillIs
<1> HIDE DEF filled
<1>6. Keeps(added, filled, {"sackstack"}) /\ filled.sackstack = x /\ filled.buffer = b /\ filled.out = <<>>
  BY <1>3, <1>5 DEF Keeps, Fields
<1>7. PICK p \in Replies : plain = [added EXCEPT !.out = <<p>>]
  <2>1. 0 \in Nat /\ FALSE \in BOOLEAN
    OBVIOUS
  <2> QED
    BY <1>2, <1>3, <1>4, <2>1, ReplyIs
<1>8. PICK q \in Replies : sacked = [filled EXCEPT !.out = <<q>>]
  <2> DEFINE prio == m.prio
             yes == TRUE
  <2>1. prio \in Nat /\ yes \in BOOLEAN
    OBVIOUS
  <2>2. BufOK(filled.buffer) /\ filled.out = <<>> /\ filled.sackstack \in Seq(Nat \X Nat)
    BY <1>2, <1>5, <1>6
  <2> HIDE DEF prio, yes
  <2>3. \E q \in Replies : Receiver!SendEmptyPacket(filled, prio, yes) = [filled EXCEPT !.out = <<q>>]
    BY <2>1, <2>2, ReplyIs
  <2> QED
    BY <2>3 DEF prio, yes
<1> HIDE DEF plain, sacked, d
<1>9. ASSUME NEW e \in {sacked, plain}
      PROVE  Keeps(s, e, {"buffer", "sackstack", "out", "read"}) /\ e.buffer = b
             /\ e.sackstack \in Seq(Nat \X Nat) /\ \E a \in Replies : e.out = <<a>>
  <2>1. CASE e = plain
    BY <1>3, <1>4, <1>7, <2>1 DEF Keeps, Fields
  <2>2. CASE e = sacked
    <3>1. Keeps(filled, e, {"out"}) /\ e.out = <<q>>
      BY <1>3, <1>6, <1>8, <2>2 DEF Keeps, Fields
    <3> QED
      BY <1>3, <1>5, <1>6, <3>1 DEF Keeps, Fields
  <2> QED
    BY <2>1, <2>2
<1>10. ASSUME NEW e, Keeps(s, e, {"buffer", "sackstack", "out", "read"}), e.buffer = b
       PROVE  LET r == Receiver!ReadAll(e)
              IN Keeps(e, r, {"buffer", "read"}) /\ BufOK(r.buffer) /\ r.buffer.next = b.next /\ r.buffer.fin = b.fin
  <2> DEFINE r == Receiver!ReadAll(e)
             c == Receiver!ExtractAll(b)
             top == Receiver!Max({f[2] : f \in {g \in e.buffer.frags : g[1] < e.buffer.next}} \cup {e.read})
  <2>1. BufOK(c) /\ c.next = b.next /\ c.fin = b.fin
    BY <1>2, ExtractIs
  <2>2. r = [e EXCEPT !.buffer = c, !.read = top]
    BY <1>10 DEF Receiver!ReadAll, Keeps, Fields
  <2> HIDE DEF c, top, r
  <2>3. Keeps(e, r, {"buffer", "read"}) /\ r.buffer = c
    BY <1>10, <2>2 DEF Keeps, Fields
  <2> QED
    BY <2>1, <2>3 DEF r
<1>11. CASE d \in {sacked, plain}
  BY <1>2, <1>9, <1>11 DEF d
<1>12. CASE d \in {Receiver!ReadAll(sacked), Receiver!ReadAll(plain)}
  <2>1. PICK e \in {sacked, plain} : d = Receiver!ReadAll(e)
    BY <1>12
  <2>2. Keeps(s, e, {"buffer", "sackstack", "out", "read"}) /\ e.buffer = b
        /\ e.sackstack \in Seq(Nat \X Nat) /\ \E a \in Replies : e.out = <<a>>
    BY <1>9
  <2>3. Keeps(e, d, {"buffer", "read"}) /\ BufOK(d.buffer) /\ d.buffer.next = b.next /\ d.buffer.fin = b.fin
    BY <1>10, <2>1, <2>2
  <2>4. Keeps(s, d, {"buffer", "sackstack", "out", "read"}) /\ d.sackstack = e.sackstack /\ d.out = e.out
    BY <2>2, <2>3 DEF Keeps, Fields
  <2> QED
    BY <1>2, <2>2, <2>3, <2>4 DEF d
<1> QED
  BY <1>1, <1>11, <1>12

\* What has come with it, and the acknowledgement.
Buffered == {"buffer", "sackstack", "read", "sent"}

LEMMA AckPacketIs ==
  ASSUME NEW s, Core(s), NEW prio \in Nat, NEW seq \in Nat, NEW sack \in Seq(Nat \X Nat)
  PROVE  LET p == Packet(s, "ACK", prio, seq, 0, sack)
         IN p \in SentBefore(s.buffer.next) /\ p.len = 0 /\ p.flags = "ACK"
<1> DEFINE f == "ACK"
<1>1. f \in {"ACK", "SYN", "SYN+ACK", "FIN+ACK", "RST"} /\ (f = "SYN" => prio = 0)
  OBVIOUS
<1> HIDE DEF f
<1>2. LET p == Packet(s, f, prio, seq, 0, sack)
      IN p \in SentBefore(s.buffer.next) /\ p.len = 0 /\ p.flags = f
  BY <1>1, PacketIs
<1> QED
  BY <1>2 DEF f

LEMMA DataIs ==
  ASSUME NEW s, Core(s), NEW m, m.prio \in Nat, m.seq \in Nat, m.len \in Nat, NEW ack \in Nat
  PROVE  LET r == SentByReceiver(Receiver!ReceivedData(s, m))
         IN /\ Keeps(s, r, Buffered) /\ Leads(s, r, ack)
            /\ s.buffer.next <= r.buffer.next /\ r.buffer.fin = s.buffer.fin
            /\ m.len = 0 \/ m.seq + m.len <= s.buffer.next => r.buffer.next = s.buffer.next
<1> DEFINE d == Receiver!ReceivedData(s, m)
           e == [d EXCEPT !.out = <<>>]
           r == SentByReceiver(d)
<1>1. /\ Keeps(s, d, {"buffer", "sackstack", "out", "read"}) /\ BufOK(d.buffer)
      /\ s.buffer.next <= d.buffer.next /\ d.buffer.fin = s.buffer.fin
      /\ m.len = 0 \/ m.seq + m.len <= s.buffer.next => d.buffer.next = s.buffer.next
      /\ d.sackstack \in Seq(Nat \X Nat)
  BY DataStored
<1>2. PICK a \in Replies : d.out = <<a>>
  BY DataStored
<1> HIDE DEF d
<1>3. /\ Keeps(d, e, {"out"}) /\ e.out = <<>> /\ e.buffer = d.buffer /\ e.sackstack = d.sackstack /\ e.state = d.state
      /\ e.nextTx = d.nextTx /\ e.sent = d.sent
  BY <1>1 DEF Keeps, Fields
<1>4. Keeps(s, e, {"buffer", "sackstack", "read"})
  <2>1. e.out = s.out
    BY <1>3, CoreTypes
  <2> QED
    BY <1>1, <1>3, <2>1 DEF Keeps, Fields
<1>5. Leads(s, e, ack)
  BY <1>1, <1>3, <1>4, BufferedLeads
<1>6. Core(e)
  BY <1>5 DEF Leads, Base
<1> DEFINE p == Packet(d, "ACK", a.prio, SeqOfEmpty(d), 0, a.sack)
<1>7. r = [d EXCEPT !.out = <<>>, !.sent = d.sent \o <<p>>]
  <2>1. [i \in DOMAIN d.out |-> Packet(d, "ACK", d.out[i].prio, SeqOfEmpty(d), 0, d.out[i].sack)] = <<p>>
    <3> DEFINE g == [i \in DOMAIN d.out |-> Packet(d, "ACK", d.out[i].prio, SeqOfEmpty(d), 0, d.out[i].sack)]
    <3>1. DOMAIN d.out = 1 .. 1 /\ d.out[1] = a
      BY <1>2
    <3>2. g = [i \in 1 .. 1 |-> p]
      BY <3>1
    <3> HIDE DEF g, p
    <3> QED
      BY <3>2 DEF g
  <2> HIDE DEF p
  <2> QED
    BY <2>1 DEF SentByReceiver
<1>8. p = Packet(e, "ACK", a.prio, SeqOfEmpty(e), 0, a.sack)
  BY <1>3 DEF Packet, SeqOfEmpty
<1>9. p \in SentBefore(e.buffer.next) /\ p.len = 0 /\ p.flags = "ACK"
  <2>1. a.prio \in Nat /\ a.sack \in Seq(Nat \X Nat) /\ SeqOfEmpty(e) \in Nat
    BY <1>6, SeqOfEmptyType DEF Replies
  <2> DEFINE prio == a.prio
             seq == SeqOfEmpty(e)
             sack == a.sack
  <2> HIDE DEF p, e, prio, seq, sack
  <2>2. LET t == Packet(e, "ACK", prio, seq, 0, sack)
        IN t \in SentBefore(e.buffer.next) /\ t.len = 0 /\ t.flags = "ACK"
    <3>1. prio \in Nat /\ sack \in Seq(Nat \X Nat) /\ seq \in Nat
      BY <2>1 DEF prio, seq, sack
    <3> QED
      BY <1>6, <3>1, AckPacketIs
  <2> QED
    BY <1>8, <2>2 DEF prio, seq, sack
<1> HIDE DEF p, r
<1>10. Keeps(e, r, {"sent"}) /\ r.sent = Append(e.sent, p)
  <2>1. d.sent \o <<p>> = Append(e.sent, p)
    <3>1. e.sent \in Seq(Packets)
      BY <1>6, CoreTypes
    <3> QED
      BY <1>3, <3>1
  <2>2. DOMAIN d = Fields
    BY <1>1 DEF Keeps
  <2> HIDE DEF e
  <2> QED
    BY <1>3, <1>7, <2>1, <2>2 DEF Keeps, Fields
<1> HIDE DEF e
<1>11. Emits(e, r, p)
  <2>1. Keeps(e, r, {"sent", "retx", "cnCount"}) /\ r.retx = e.retx /\ r.cnCount = e.cnCount
    BY <1>10 DEF Keeps, Fields
  <2>2. e.retx \in Events /\ e.cnCount \in 0 .. CnRetries /\ (e.retx = "SYN" => e.state = "SYN_SENT")
        /\ (~e.endPoint \/ e.state \in {"CLOSED", "TIME_WAIT"} => e.retx = Off)
    BY <1>6, CoreTypes DEF Core
  <2> QED
    BY <1>9, <1>10, <2>1, <2>2 DEF Emits
<1>12. Leads(e, r, ack)
  <2>1. r.retx = e.retx
    BY <1>10 DEF Keeps, Fields
  <2> QED
    BY <1>6, <1>9, <1>11, <2>1, EmitsLeads
<1>13. Leads(s, r, ack)
  BY <1>5, <1>12, LeadsTwice
<1>14. Keeps(s, r, Buffered) /\ r.buffer = d.buffer
  BY <1>3, <1>4, <1>10 DEF Keeps, Fields, Buffered
<1> QED
  BY <1>1, <1>13, <1>14 DEF r, d

\* Data is new only before a FIN.
NoNews(s, m) == s.buffer.fin # 0 => m.len = 0 \/ m.seq + m.len <= s.buffer.next

LEMMA ReceivedDataIs ==
  ASSUME NEW s, Core(s), s.state \notin {"CLOSED", "SYN_SENT", "SYN_RCVD", "TIME_WAIT"},
         NEW m, m.prio \in Nat, m.seq \in Nat, m.len \in Nat, NEW ack \in Nat
  PROVE  LET r == ReceivedData(s, m)
         IN /\ Leads(s, r, ack) /\ r.buffer.fin = s.buffer.fin /\ r.recvCallback = s.recvCallback
            /\ r.state \in {s.state, "CLOSE_WAIT", "LAST_ACK"}
            /\ "created" \in r.told => "created" \in s.told
            /\ NoNews(s, m) => r.state = s.state /\ r.asserted = s.asserted
<1> DEFINE d == SentByReceiver(Receiver!ReceivedData(s, m))
           r == ReceivedData(s, m)
<1>1. r = d \/ (d.buffer.next > s.buffer.next /\ Receiver!Finished(d.buffer) /\ r = DoPeerClose(d))
  BY DEF ReceivedData, ClosedByData
<1>2. /\ Keeps(s, d, Buffered) /\ Leads(s, d, ack)
      /\ s.buffer.next <= d.buffer.next /\ d.buffer.fin = s.buffer.fin
      /\ m.len = 0 \/ m.seq + m.len <= s.buffer.next => d.buffer.next = s.buffer.next
  BY DataIs
<1> HIDE DEF d, r
<1>3. Core(d)
  BY <1>2 DEF Leads, Base
<1>4. d.state = s.state /\ d.asserted = s.asserted /\ d.told = s.told /\ d.recvCallback = s.recvCallback
  BY <1>2 DEF Keeps, Fields, Buffered
<1>5. CASE r = d
  BY <1>2, <1>4, <1>5 DEF r
<1>6. CASE d.buffer.next > s.buffer.next /\ Receiver!Finished(d.buffer) /\ r = DoPeerClose(d)
  <2>1. /\ Leads(d, r, ack) /\ r.buffer = d.buffer /\ r.state \in {"CLOSE_WAIT", "LAST_ACK"}
        /\ r.recvCallback = d.recvCallback /\ ("created" \in r.told => "created" \in d.told)
    BY <1>3, <1>4, <1>6, DoPeerCloseIs
  <2>2. Leads(s, r, ack)
    BY <1>2, <2>1, LeadsTwice
  <2>3. ~NoNews(s, m)
    <3>1. s.buffer.next \in Nat
      BY CoreTypes
    <3> QED
      BY <1>2, <1>6, <3>1 DEF NoNews, Receiver!Finished
  <2> QED
    BY <1>2, <1>4, <2>1, <2>2, <2>3 DEF r
<1> QED
  BY <1>1, <1>5, <1>6
-----------------------------------------------------------------------------
\* What the sending half hands over goes out.

LEMMA SentBySenderIs ==
  ASSUME NEW s, Core(s), s.endPoint, NEW ack \in Nat, NEW d, Keeps(s, d, Sends \cup Looped \cup {"state"}), Sender(d),
         d.state \in States \ {"CLOSED", "TIME_WAIT", "SYN_SENT", "SYN_RCVD"}, d.state \in {s.state, "ESTABLISHED"},
         d.state = s.state \/ s.state = "SYN_SENT",
         s.head <= d.head, d.head <= Larger(s.head, ack), s.tail <= d.tail,
         Reader(s) => Dry(d) /\ NoData(d.out),
         d.retx \in {s.retx, Off, "ReTxTimeout"} \/ (d.retx = "FIN+ACK" /\ s.state \in Finishing),
         d.retx # "SYN"
  PROVE  LET r == SentBySender(d) IN Keeps(d, r, {"out", "sent"}) /\ Leads(s, r, ack)
<1> DEFINE r == SentBySender(d)
           packet(o) == Packet(d, o.flags, o.prio, o.seq, o.len, <<>>)
           new == [i \in DOMAIN d.out |-> packet(d.out[i])]
           n == s.buffer.next
<1>1. r = [d EXCEPT !.out = <<>>, !.sent = d.sent \o new]
  BY DEF SentBySender
<1> HIDE DEF r
<1>2. d.out \in Seq(Outs(d.state)) /\ d.buffer = s.buffer /\ d.sent = s.sent
  BY DEF Sender, Keeps, Fields, Sends, Looped
<1>3. n \in Nat /\ <<>> \in Seq(Nat \X Nat)
  BY CoreTypes
<1>4. ASSUME NEW o \in Outs(d.state)
      PROVE  /\ packet(o) \in SentBefore(n) /\ packet(o) \in Synless
             /\ d.state \notin Finishing => packet(o) \in Finless
             /\ o.len = 0 /\ o.flags # "" => packet(o) \in Mute
  <2> DEFINE p == packet(o)
  <2>1. /\ o.flags \in {"ACK", "", "FIN+ACK"} /\ o.prio \in Nat /\ o.seq \in Nat /\ o.len \in 0 .. MSS
        /\ o.len > 0 => o.seq + o.len <= FlowSize + 1
        /\ o.flags = "FIN+ACK" => d.state \in Finishing
    BY DEF Outs
  <2>2. p = [flags |-> o.flags, prio |-> o.prio, seq |-> o.seq, len |-> o.len, ack |-> n, sack |-> <<>>]
    BY <1>2 DEF Packet
  <2> HIDE DEF p, n
  <2>3. /\ p \in Packets /\ p.flags = o.flags /\ p.len = o.len /\ p.seq = o.seq /\ p.ack = n
    BY <1>3, <2>1, <2>2 DEF Packets
  <2>4. p.ack <= n
    BY <1>3, <2>3
  <2>5. p \in SentBefore(n) /\ p \in Synless
    BY <2>1, <2>3, <2>4 DEF SentBefore, Synless
  <2>6. d.state \notin Finishing => p \in Finless
    BY <2>1, <2>3 DEF Finless
  <2>7. o.len = 0 /\ o.flags # "" => p \in Mute
    BY <2>3 DEF Mute
  <2> QED
    BY <2>5, <2>6, <2>7 DEF p, n
<1> HIDE DEF packet, n
<1>5. ASSUME NEW A, \A i \in DOMAIN d.out : packet(d.out[i]) \in A
      PROVE  new \in Seq(A)
  <2>1. DOMAIN d.out = 1 .. Len(d.out) /\ Len(d.out) \in Nat
    BY <1>2
  <2>2. new \in [1 .. Len(d.out) -> A]
    BY <1>5, <2>1
  <2> HIDE DEF new
  <2> QED
    BY <2>1, <2>2, SeqDef
<1>6. \A i \in DOMAIN d.out : d.out[i] \in Outs(d.state)
  BY <1>2
<1>7. new \in Seq(SentBefore(n)) /\ new \in Seq(Synless)
  BY <1>4, <1>5, <1>6
<1>8. d.state \notin Finishing => new \in Seq(Finless)
  BY <1>4, <1>5, <1>6
<1>9. NoData(d.out) => new \in Seq(Mute)
  BY <1>4, <1>5, <1>6 DEF NoData
<1> HIDE DEF new
<1>10. Keeps(d, r, {"out", "sent"}) /\ r.out = <<>> /\ r.sent = s.sent \o new
  BY <1>1, <1>2 DEF Keeps, Fields
<1>11. /\ r.sent \in Seq(SentBefore(n))
       /\ \A A \in {Mute, Synless, Finless} : s.sent \in Seq(A) /\ new \in Seq(A) => r.sent \in Seq(A)
  BY <1>7, <1>10, SentMore DEF n
<1>12. /\ Keeps(s, r, Sends \cup Looped \cup {"state", "sent"})
       /\ r.head = d.head /\ r.tail = d.tail /\ r.nextTx = d.nextTx /\ r.highTx = d.highTx /\ r.state = d.state
       /\ r.scoreboard = d.scoreboard /\ r.retx = d.retx /\ r.buffer = s.buffer /\ r.shutdownSend = s.shutdownSend
  BY <1>2, <1>10 DEF Keeps, Fields, Sends, Looped
<1>13. Sender(r)
  <2>1. <<>> \in Seq(Outs(r.state))
    OBVIOUS
  <2> QED
    BY <1>10, <1>12, <2>1 DEF Sender
<1>14. Core(r)
  <2>1. DOMAIN r = Fields /\ r.state \in States /\ r.retx # "SYN"
    BY <1>12 DEF Keeps
  <2>. /\ r.told = s.told /\ r.cnCount = s.cnCount /\ r.endPoint = s.endPoint
       /\ r.closeNotified = s.closeNotified /\ r.asserted = s.asserted /\ r.recvCallback = s.recvCallback
       /\ r.sackstack = s.sackstack
    BY ZenonT(40), <1>12 DEF Keeps, Fields, Sends, Looped
  <2>2. r.told \subseteq Notices /\ r.cnCount \in 0 .. CnRetries /\ r.endPoint
        /\ {r.endPoint, r.closeNotified, r.shutdownSend, r.asserted, r.recvCallback} \subseteq BOOLEAN
    BY <1>12 DEF Core
  <2>3. BufOK(r.buffer) /\ r.sackstack \in Seq(Nat \X Nat) /\ r.sent \in Seq(SentBefore(r.buffer.next))
    BY <1>11, <1>12 DEF Core, n
  <2>4. r.state \notin {"CLOSED", "TIME_WAIT"}
    BY <1>12
  <2> QED
    BY <1>10, <1>13, <2>1, <2>2, <2>3, <2>4 DEF Core
<1>15. Base(s, r)
  <2>1. Reader(s) => Reader(r)
    <3> HAVE Reader(s)
    <3>1. r.head = r.tail /\ r.head <= r.nextTx /\ new \in Seq(Mute)
      BY <1>9, <1>12 DEF Dry
    <3>2. r.sent \in Seq(Mute)
      BY <1>11, <3>1 DEF Reader
    <3> QED
      BY <3>1, <3>2 DEF Reader
  <2>2. s.sent \in Seq(Synless) => r.sent \in Seq(Synless)
    BY <1>7, <1>11
  <2> QED
    BY <1>3, <1>12, <1>14, <2>1, <2>2 DEF Base, n
<1>16. Modest(s, r, ack)
  <2>1. r.head <= Larger(s.head, ack)
    BY <1>12
  <2>2. Virgin(s) /\ s.sent \in Seq(Finless) => Virgin(r) /\ r.sent \in Seq(Finless)
    <3> HAVE Virgin(s) /\ s.sent \in Seq(Finless)
    <3>1. d.state \notin Finishing /\ s.state \notin Finishing /\ s.retx # "FIN+ACK"
      BY DEF Virgin, Finishing
    <3>2. r.sent \in Seq(Finless)
      BY <1>8, <1>11, <3>1
    <3> QED
      BY <1>12, <3>1, <3>2 DEF Virgin, Off
  <2> QED
    BY <2>1, <2>2 DEF Modest
<1> QED
  BY <1>10, <1>15, <1>16 DEF Leads, r

LEMMA PacketTypes ==
  ASSUME NEW m \in Packets
  PROVE  m.prio \in Nat /\ m.seq \in Nat /\ m.len \in Nat /\ m.ack \in Nat /\ m.sack \in Seq(Nat \X Nat)
<1>1. m.prio \in Nat /\ m.seq \in Nat /\ m.len \in 0 .. MSS /\ m.ack \in Nat /\ m.sack \in Seq(Nat \X Nat)
  BY DEF Packets
<1>2. MSS \in Nat
  BY MSSAssumption
<1> QED
  BY <1>1, <1>2

\* A socket that may be sending.
Live(s) == s.endPoint /\ s.state \notin {"CLOSED", "TIME_WAIT", "SYN_SENT", "SYN_RCVD"}

LEMMA SentAfter ==
  ASSUME NEW s, Core(s), Live(s), NEW ack \in Nat, NEW d, After(s, d, ack)
  PROVE  LET r == SentBySender(d) IN Keeps(s, r, Sends \cup {"sent"}) /\ Leads(s, r, ack)
<1> DEFINE r == SentBySender(d)
<1>1. Keeps(s, d, Sends) /\ Sender(d) /\ s.head <= d.head /\ d.head <= Larger(s.head, ack) /\ s.tail <= d.tail
      /\ (d.retx \in {s.retx, Off, "ReTxTimeout"} \/ (d.retx = "FIN+ACK" /\ s.state \in Finishing))
  BY DEF After
<1>2. Keeps(s, d, Sends \cup Looped \cup {"state"}) /\ d.state = s.state
  BY <1>1 DEF Keeps, Fields, Sends
<1>3. Reader(s) => Dry(d) /\ NoData(d.out)
  <2>1. s.out = <<>> /\ NoData(<<>>)
    BY CoreTypes DEF NoData
  <2> QED
    BY <2>1 DEF After, Reader, Dry, Live
<1>4. d.retx # "SYN"
  BY <1>1 DEF Core, Live, Off
<1>5. d.state \in States \ {"CLOSED", "TIME_WAIT", "SYN_SENT", "SYN_RCVD"} /\ s.endPoint
  BY <1>2, CoreTypes DEF Live
<1> HIDE DEF r
<1>6. Keeps(d, r, {"out", "sent"}) /\ Leads(s, r, ack)
  BY <1>1, <1>2, <1>3, <1>4, <1>5, SentBySenderIs DEF r
<1>7. Keeps(s, r, Sends \cup {"sent"})
  BY <1>1, <1>6 DEF Keeps, Fields, Sends
<1> QED
  BY <1>6, <1>7 DEF r

LEMMA AckedIs ==
  ASSUME NEW s, Core(s), Live(s), NEW m \in Packets
  PROVE  LET r == SentBySender(ReceivedAck(s, m)) IN Keeps(s, r, Sends \cup {"sent"}) /\ Leads(s, r, m.ack)
<1>1. m.ack \in Nat /\ m.sack \in Seq(Nat \X Nat)
  BY PacketTypes
<1>2. After(s, ReceivedAck(s, m), m.ack)
  BY <1>1, CoreTypes, ReceivedAckIs
<1> QED
  BY <1>1, <1>2, SentAfter

LEMMA TimedOutIs ==
  ASSUME NEW s, Core(s), Live(s), NEW ack \in Nat
  PROVE  LET r == SentBySender(ReTxTimeout(s)) IN Keeps(s, r, Sends \cup {"sent"}) /\ Leads(s, r, ack)
<1>1. After(s, ReTxTimeout(s), 0)
  BY CoreTypes, ReTxTimeoutIs
<1>2. After(s, ReTxTimeout(s), ack)
  BY <1>1, CoreTypes, AfterMore
<1> QED
  BY <1>2, SentAfter

LEMMA ReceivedAckAndDataIs ==
  ASSUME NEW s, Core(s), Live(s), NEW m \in Packets
  PROVE  LET r == ReceivedAckAndData(s, m)
         IN /\ Leads(s, r, m.ack) /\ r.buffer.fin = s.buffer.fin /\ r.recvCallback = s.recvCallback
            /\ r.state \in {s.state, "CLOSE_WAIT", "LAST_ACK"}
            /\ NoNews(s, m) => r.state = s.state /\ r.asserted = s.asserted
<1> DEFINE d == SentBySender(ReceivedAck(s, m))
           r == ReceivedAckAndData(s, m)
<1>1. Keeps(s, d, Sends \cup {"sent"}) /\ Leads(s, d, m.ack)
  BY AckedIs
<1>2. r = d \/ r = ReceivedData(d, m)
  BY DEF ReceivedAckAndData, WithItsData
<1> HIDE DEF d, r
<1>3. /\ Core(d) /\ d.state = s.state /\ d.buffer = s.buffer /\ d.recvCallback = s.recvCallback
      /\ d.asserted = s.asserted
  BY <1>1 DEF Leads, Base, Keeps, Fields, Sends
<1>4. CASE r = d
  BY <1>1, <1>3, <1>4 DEF r
<1>5. CASE r = ReceivedData(d, m)
  <2>1. m.prio \in Nat /\ m.seq \in Nat /\ m.len \in Nat /\ m.ack \in Nat
    BY PacketTypes
  <2>2. d.state \notin {"CLOSED", "SYN_SENT", "SYN_RCVD", "TIME_WAIT"}
    BY <1>3 DEF Live
  <2> DEFINE e == ReceivedData(d, m)
  <2>3. /\ Leads(d, e, m.ack) /\ e.buffer.fin = d.buffer.fin /\ e.recvCallback = d.recvCallback
        /\ e.state \in {d.state, "CLOSE_WAIT", "LAST_ACK"}
        /\ NoNews(d, m) => e.state = d.state /\ e.asserted = d.asserted
    BY <1>3, <2>1, <2>2, ReceivedDataIs
  <2> HIDE DEF e
  <2>4. r = e
    BY <1>5 DEF e
  <2>5. Leads(s, r, m.ack)
    BY <1>1, <2>1, <2>3, <2>4, LeadsTwice
  <2>6. NoNews(s, m) => NoNews(d, m)
    BY <1>3 DEF NoNews
  <2> QED
    BY <1>3, <2>3, <2>4, <2>5, <2>6 DEF r
<1> QED
  BY <1>2, <1>4, <1>5
-----------------------------------------------------------------------------
\* The handlers.

\* A step of the state diagram.
Moves(s, r) == r.state \in {s.state, "CLOSED"} \/ <<s.state, r.state>> \in Diagram

\* The packet m is one that a peer sends which closes only when it has sent all.
InTime(s, m) == NoNews(s, m) /\ (s.state = "SYN_RCVD" => m.flags # "FIN+ACK")

\* What any handler of m makes of a socket.
Does(s, r, m) ==
  /\ Leads(s, r, m.ack) /\ Opening(r)
  /\ m.flags # "FIN+ACK" => r.buffer.fin = s.buffer.fin
  /\ r.state = "SYN_SENT" => r.sent = s.sent
  /\ m.flags = "SYN" /\ s.state \in {"CLOSED", "SYN_RCVD"} =>
       r.state \in {s.state, "CLOSED"} /\ r.buffer = s.buffer /\ ("created" \in r.told => "created" \in s.told)
  /\ InTime(s, m) =>
       /\ r.asserted = s.asserted /\ Moves(s, r)
       /\ r.state \in {"CLOSE_WAIT", "LAST_ACK"} =>
            r.state = s.state \/ (m.flags = "FIN+ACK" /\ s.buffer.next < r.buffer.next)

LEMMA SameDoes ==
  ASSUME NEW s, Sound(s), NEW m \in Packets
  PROVE  Does(s, s, m)
<1>1. Leads(s, s, m.ack)
  BY PacketTypes, LeadsSame DEF Sound
<1> QED
  BY <1>1 DEF Does, Sound, Moves

\* A reset.
LEMMA AbortDoes ==
  ASSUME NEW s, Sound(s), NEW m \in Packets
  PROVE  Does(s, Abort(s, m), m)
<1> DEFINE r == Abort(s, m)
<1>1. Leads(s, r, m.ack) /\ r.state = "CLOSED" /\ r.buffer = s.buffer /\ r.asserted = s.asserted
      /\ ("created" \in r.told => "created" \in s.told)
  BY PacketTypes, AbortIs DEF Sound
<1> HIDE DEF r
<1>2. Opening(r) /\ Moves(s, r)
  BY <1>1 DEF Opening, Moves
<1> QED
  BY <1>1, <1>2 DEF Does, r

\* Once open, it is enough to say less.
Opened(s) == s.state \notin {"CLOSED", "SYN_SENT", "SYN_RCVD"}

LEMMA OpenDoes ==
  ASSUME NEW s, Sound(s), Opened(s), NEW m \in Packets, NEW r, Leads(s, r, m.ack),
         m.flags # "FIN+ACK" => r.buffer.fin = s.buffer.fin,
         NoNews(s, m) =>
           /\ r.asserted = s.asserted /\ Moves(s, r)
           /\ r.state \in {"CLOSE_WAIT", "LAST_ACK"} =>
                r.state = s.state \/ (m.flags = "FIN+ACK" /\ s.buffer.next < r.buffer.next)
  PROVE  Does(s, r, m)
<1>1. r.state \notin {"SYN_SENT", "SYN_RCVD"}
  BY DEF Leads, Base, Opened
<1>2. Opening(r)
  BY <1>1 DEF Opening
<1> QED
  BY <1>1, <1>2 DEF Does, Opened, InTime

\* Data alone.
LEMMA DataDoes ==
  ASSUME NEW s, Sound(s), Opened(s), s.state # "TIME_WAIT", NEW m \in Packets
  PROVE  Does(s, ReceivedData(s, m), m)
<1> DEFINE r == ReceivedData(s, m)
<1>1. m.prio \in Nat /\ m.seq \in Nat /\ m.len \in Nat /\ m.ack \in Nat
  BY PacketTypes
<1>2. Core(s) /\ s.state \notin {"CLOSED", "SYN_SENT", "SYN_RCVD", "TIME_WAIT"}
  BY DEF Sound, Opened
<1>3. /\ Leads(s, r, m.ack) /\ r.buffer.fin = s.buffer.fin
      /\ NoNews(s, m) => r.state = s.state /\ r.asserted = s.asserted
  BY <1>1, <1>2, ReceivedDataIs
<1> HIDE DEF r
<1>4. NoNews(s, m) => Moves(s, r)
  BY <1>3 DEF Moves
<1> QED
  BY <1>3, <1>4, OpenDoes DEF r

LEMMA ClosingDoes ==
  ASSUME NEW s, Sound(s), Opened(s), NEW m \in Packets
  PROVE  /\ Does(s, CloseAndNotify(s), m)
         /\ Does(s, CloseAndNotify(SendEmptyPacket(s, "ACK")), m)
<1> DEFINE d == SendEmptyPacket(s, "ACK")
<1>1. m.ack \in Nat /\ Core(s) /\ "ACK" \in {"ACK", "RST"}
  BY PacketTypes DEF Sound
<1>2. Keeps(s, d, {"sent"}) /\ Leads(s, d, m.ack)
  BY <1>1, AnswerIs
<1> HIDE DEF d
<1>3. Core(d) /\ d.buffer = s.buffer /\ d.asserted = s.asserted
  BY <1>2 DEF Leads, Base, Keeps, Fields
<1>4. ASSUME NEW e, Core(e), Leads(s, e, m.ack), e.buffer = s.buffer, e.asserted = s.asserted
      PROVE  Does(s, CloseAndNotify(e), m)
  <2> DEFINE r == CloseAndNotify(e)
  <2>1. Keeps(e, r, Released) /\ Leads(e, r, m.ack) /\ r.state = "CLOSED"
    BY <1>1, <1>4, CloseAndNotifyIs
  <2> HIDE DEF r
  <2>2. r.buffer = s.buffer /\ r.asserted = s.asserted
    BY <1>4, <2>1 DEF Keeps, Fields, Released
  <2>3. Leads(s, r, m.ack)
    BY <1>1, <1>4, <2>1, LeadsTwice
  <2>4. Moves(s, r)
    BY <2>1 DEF Moves
  <2> QED
    BY <2>1, <2>2, <2>3, <2>4, OpenDoes DEF r
<1>5. Leads(s, s, m.ack)
  BY <1>1, LeadsSame
<1> QED
  BY <1>1, <1>2, <1>3, <1>4, <1>5 DEF d
-----------------------------------------------------------------------------
\* FIN_WAIT_1, FIN_WAIT_2 and CLOSE_WAIT.

LEMMA AckFinIs ==
  ASSUME NEW s, Core(s), NEW ack \in Nat
  PROVE  LET r == AckFin(s)
         IN Leads(s, r, ack) /\ r.state = s.state /\ r.asserted = s.asserted /\ r.buffer.fin = s.buffer.fin
<1> DEFINE d == SendEmptyPacket(s, "ACK")
           e == Receiver!ReadAll(d)
           c == Receiver!ExtractAll(d.buffer)
<1>1. "ACK" \in {"ACK", "RST"}
  OBVIOUS
<1>2. Keeps(s, d, {"sent"}) /\ Leads(s, d, ack)
  BY <1>1, AnswerIs
<1>3. AckFin(s) \in {d, e}
  BY DEF AckFin
<1> HIDE DEF d
<1>4. Core(d) /\ d.state = s.state /\ d.buffer = s.buffer /\ d.asserted = s.asserted
  BY <1>2 DEF Leads, Base, Keeps, Fields
<1>5. BufOK(c) /\ c.next = d.buffer.next /\ c.fin = d.buffer.fin
  BY <1>4, CoreTypes, ExtractIs
<1> DEFINE top == Receiver!Max({f[2] : f \in {g \in d.buffer.frags : g[1] < d.buffer.next}} \cup {d.read})
<1>6. e = [d EXCEPT !.buffer = c, !.read = top]
  BY <1>4, CoreTypes DEF Receiver!ReadAll, Fields
<1>7. DOMAIN d = Fields /\ d.buffer.next \in Nat
  BY <1>4, CoreTypes
<1> HIDE DEF c, top, e
<1>8. /\ Keeps(d, e, {"buffer", "sackstack", "read"}) /\ e.buffer = c /\ e.sackstack = d.sackstack
      /\ e.state = d.state /\ e.asserted = d.asserted
  BY <1>6, <1>7 DEF Keeps, Fields
<1>9. d.sackstack \in Seq(Nat \X Nat) /\ d.buffer.next <= c.next
  BY <1>4, <1>5, <1>7 DEF Core
<1>10. Leads(d, e, ack)
  BY <1>4, <1>5, <1>8, <1>9, BufferedLeads
<1>11. Core(s) /\ Leads(s, e, ack)
  BY <1>2, <1>10, LeadsTwice
<1> QED
  BY <1>2, <1>3, <1>4, <1>5, <1>8, <1>11

LEMMA InSequenceFinIs ==
  ASSUME NEW s, Core(s), NEW m, NEW ack \in Nat
  PROVE  LET r == InSequenceFin(s, m)
         IN /\ Leads(s, r, ack) /\ r.asserted = s.asserted /\ r.buffer.fin = s.buffer.fin
            /\ \/ r.state = s.state
               \/ s.state = "FIN_WAIT_1" /\ r.state \in {"CLOSING", "TIME_WAIT"}
               \/ s.state = "FIN_WAIT_2" /\ r.state = "TIME_WAIT"
<1> DEFINE r == InSequenceFin(s, m)
           closing == [s EXCEPT !.state = "CLOSING"]
           waiting == TimeWait(s)
<1>1. \/ r = s
      \/ s.state = "FIN_WAIT_1" /\ r = AckFin(closing)
      \/ s.state \in {"FIN_WAIT_1", "FIN_WAIT_2"} /\ r = AckFin(waiting)
  BY DEF InSequenceFin
<1> HIDE DEF r
<1>2. CASE r = s
  BY <1>2, LeadsSame DEF r
<1>3. CASE s.state = "FIN_WAIT_1" /\ r = AckFin(closing)
  <2>1. Keeps(s, closing, {"state"}) /\ closing.state = "CLOSING" /\ closing.asserted = s.asserted
        /\ closing.buffer = s.buffer
    BY CoreTypes DEF Keeps, Fields
  <2> HIDE DEF closing
  <2>2. Controlled(s, closing)
    <3>1. Keeps(s, closing, Control) /\ closing.retx = s.retx
      BY <2>1 DEF Keeps, Control, Fields
    <3>2. /\ closing.told = s.told /\ closing.cnCount = s.cnCount /\ closing.endPoint = s.endPoint
          /\ closing.closeNotified = s.closeNotified /\ closing.recvCallback = s.recvCallback
      BY <2>1 DEF Keeps, Fields
    <3>3. closing.state \in States
      BY <2>1 DEF States
    <3> QED
      BY <1>3, <2>1, <3>1, <3>2, <3>3 DEF Controlled, Core
  <2>3. Leads(s, closing, ack)
    <3>1. ~s.shutdownSend /\ Virgin(s) => Virgin(closing)
      BY <1>3 DEF Virgin
    <3> QED
      BY <2>2, <3>1, ControlledLeads
  <2>4. Core(closing)
    BY <2>3 DEF Leads, Base
  <2>5. Leads(closing, r, ack) /\ r.state = closing.state /\ r.asserted = closing.asserted
        /\ r.buffer.fin = closing.buffer.fin
    BY <1>3, <2>4, AckFinIs
  <2>6. Leads(s, r, ack)
    BY <2>3, <2>5, LeadsTwice
  <2> QED
    BY <1>3, <2>1, <2>5, <2>6 DEF r
<1>4. CASE s.state \in {"FIN_WAIT_1", "FIN_WAIT_2"} /\ r = AckFin(waiting)
  <2>1. Keeps(s, waiting, {"retx", "lastAckEvent", "state"}) /\ waiting.state = "TIME_WAIT" /\ Leads(s, waiting, ack)
    BY <1>4, TimeWaitIs
  <2> HIDE DEF waiting
  <2>2. Core(waiting) /\ waiting.buffer = s.buffer /\ waiting.asserted = s.asserted
    BY <2>1 DEF Leads, Base, Keeps, Fields
  <2>3. Leads(waiting, r, ack) /\ r.state = waiting.state /\ r.asserted = waiting.asserted
        /\ r.buffer.fin = waiting.buffer.fin
    BY <1>4, <2>2, AckFinIs
  <2>4. Leads(s, r, ack)
    BY <2>1, <2>3, LeadsTwice
  <2> QED
    BY <1>4, <2>1, <2>2, <2>3, <2>4 DEF r
<1> QED
  BY <1>1, <1>2, <1>3, <1>4

LEMMA AckOrFinIs ==
  ASSUME NEW s, Core(s), NEW m \in Packets, NEW ack \in Nat
  PROVE  LET r == AckOrFin(s, m)
         IN /\ Leads(s, r, ack) /\ r.asserted = s.asserted
            /\ m.flags # "FIN+ACK" => r.buffer = s.buffer
            /\ r.state = s.state \/ (s.state = "FIN_WAIT_1" /\ r.state = "FIN_WAIT_2")
<1> DEFINE r == AckOrFin(s, m)
           b == Receiver!SetFinSequence(s.buffer, m.seq)
           known == [s EXCEPT !.buffer = b]
           acked == [s EXCEPT !.state = "FIN_WAIT_2"]
<1>1. \/ r = s
      \/ m.flags = "FIN+ACK" /\ r = known
      \/ s.state = "FIN_WAIT_1" /\ r = acked
  BY DEF AckOrFin
<1>2. BufOK(b) /\ s.buffer.next <= b.next
  BY CoreTypes, PacketTypes, SetFinIs
<1> HIDE DEF r, b
<1>3. CASE r = s
  BY <1>3, LeadsSame DEF r
<1>4. CASE m.flags = "FIN+ACK" /\ r = known
  <2>1. /\ Keeps(s, r, {"buffer", "sackstack", "read"}) /\ r.buffer = b /\ r.sackstack = s.sackstack
        /\ r.state = s.state /\ r.asserted = s.asserted
    BY <1>4, CoreTypes DEF Keeps, Fields
  <2>2. s.sackstack \in Seq(Nat \X Nat)
    BY DEF Core
  <2>3. Leads(s, r, ack)
    BY <1>2, <2>1, <2>2, BufferedLeads
  <2> QED
    BY <1>4, <2>1, <2>3 DEF r
<1>5. CASE s.state = "FIN_WAIT_1" /\ r = acked
  <2>1. Keeps(s, r, {"state"}) /\ r.state = "FIN_WAIT_2" /\ r.asserted = s.asserted /\ r.buffer = s.buffer
    BY <1>5, CoreTypes DEF Keeps, Fields
  <2>2. Controlled(s, r)
    <3>1. Keeps(s, r, Control) /\ r.retx = s.retx
      BY <2>1 DEF Keeps, Control, Fields
    <3>2. /\ r.told = s.told /\ r.cnCount = s.cnCount /\ r.endPoint = s.endPoint
          /\ r.closeNotified = s.closeNotified /\ r.recvCallback = s.recvCallback
      BY <2>1 DEF Keeps, Fields
    <3>3. r.state \in States
      BY <2>1 DEF States
    <3> QED
      BY <1>5, <2>1, <3>1, <3>2, <3>3 DEF Controlled, Core
  <2>3. ~s.shutdownSend /\ Virgin(s) => Virgin(r)
    BY <1>5 DEF Virgin
  <2> QED
    BY <1>5, <2>1, <2>2, <2>3, ControlledLeads DEF r
<1> QED
  BY <1>1, <1>3, <1>4, <1>5

LEMMA WaitDoes ==
  ASSUME NEW s, Sound(s), s.endPoint, s.state \in {"FIN_WAIT_1", "FIN_WAIT_2", "CLOSE_WAIT"}, NEW m \in Packets
  PROVE  Does(s, ProcessWait(s, m), m)
<1> DEFINE r == ProcessWait(s, m)
           data == ReceivedData(s, m)
           acked == ReceivedAckAndData(s, m)
           fin == AckOrFin(acked, m)
<1>1. Core(s) /\ Live(s) /\ Opened(s) /\ s.state # "TIME_WAIT"
  BY DEF Sound, Live, Opened
<1>2. m.prio \in Nat /\ m.seq \in Nat /\ m.len \in Nat /\ m.ack \in Nat
  BY PacketTypes
<1>3. \/ r = s
      \/ m.flags = "" /\ r = InSequenceFin(data, m)
      \/ r = InSequenceFin(fin, m)
      \/ r = Abort(s, m)
  BY DEF ProcessWait
<1>4. ASSUME NEW d, Leads(s, d, m.ack), m.flags # "FIN+ACK" => d.buffer.fin = s.buffer.fin,
             NoNews(s, m) => /\ d.asserted = s.asserted
                             /\ d.state = s.state \/ (s.state = "FIN_WAIT_1" /\ d.state = "FIN_WAIT_2"),
             r = InSequenceFin(d, m)
      PROVE  Does(s, r, m)
  <2> HIDE DEF r
  <2>1. Core(d)
    BY <1>4 DEF Leads, Base
  <2>2. /\ Leads(d, r, m.ack) /\ r.asserted = d.asserted /\ r.buffer.fin = d.buffer.fin
        /\ \/ r.state = d.state
           \/ d.state = "FIN_WAIT_1" /\ r.state \in {"CLOSING", "TIME_WAIT"}
           \/ d.state = "FIN_WAIT_2" /\ r.state = "TIME_WAIT"
    BY <1>2, <1>4, <2>1, InSequenceFinIs
  <2>3. Leads(s, r, m.ack)
    BY <1>1, <1>2, <1>4, <2>2, LeadsTwice
  <2>4. NoNews(s, m) => r.asserted = s.asserted /\ Moves(s, r)
                        /\ (r.state \in {"CLOSE_WAIT", "LAST_ACK"} => r.state = s.state)
    BY <1>4, <2>2 DEF Moves, Diagram
  <2> QED
    BY <1>1, <1>4, <2>2, <2>3, <2>4, OpenDoes
<1>5. CASE r = s
  BY <1>5, SameDoes
<1>6. CASE m.flags = "" /\ r = InSequenceFin(data, m)
  <2>1. /\ Leads(s, data, m.ack) /\ data.buffer.fin = s.buffer.fin
        /\ NoNews(s, m) => data.state = s.state /\ data.asserted = s.asserted
    BY <1>1, <1>2, ReceivedDataIs DEF Opened
  <2> QED
    BY <1>4, <1>6, <2>1
<1>7. CASE r = InSequenceFin(fin, m)
  <2>1. /\ Leads(s, acked, m.ack) /\ acked.buffer.fin = s.buffer.fin
        /\ NoNews(s, m) => acked.state = s.state /\ acked.asserted = s.asserted
    BY <1>1, ReceivedAckAndDataIs
  <2> HIDE DEF acked
  <2>2. Core(acked)
    BY <2>1 DEF Leads, Base
  <2>3. /\ Leads(acked, fin, m.ack) /\ fin.asserted = acked.asserted
        /\ m.flags # "FIN+ACK" => fin.buffer = acked.buffer
        /\ fin.state = acked.state \/ (acked.state = "FIN_WAIT_1" /\ fin.state = "FIN_WAIT_2")
    BY <1>2, <2>2, AckOrFinIs
  <2> HIDE DEF fin
  <2>4. Leads(s, fin, m.ack)
    BY <1>1, <1>2, <2>1, <2>3, LeadsTwice
  <2> QED
    BY <1>4, <1>7, <2>1, <2>3, <2>4
<1>8. CASE r = Abort(s, m)
  BY <1>8, AbortDoes
<1> QED
  BY <1>3, <1>5, <1>6, <1>7, <1>8
-----------------------------------------------------------------------------
\* ESTABLISHED and the last states.

LEMMA EstablishedDoes ==
  ASSUME NEW s, Sound(s), s.endPoint, s.state = "ESTABLISHED", NEW m \in Packets
  PROVE  Does(s, ProcessEstablished(s, m), m)
<1> DEFINE r == ProcessEstablished(s, m)
           acked == ReceivedAckAndData(s, m)
           fin == PeerClose(s, m)
<1>1. Core(s) /\ Live(s) /\ Opened(s) /\ s.state # "TIME_WAIT"
  BY DEF Sound, Live, Opened
<1>2. m.seq \in Nat /\ m.ack \in Nat
  BY PacketTypes
<1>3. Does(s, acked, m)
  <2>1. /\ Leads(s, acked, m.ack) /\ acked.buffer.fin = s.buffer.fin
        /\ NoNews(s, m) => acked.state = s.state /\ acked.asserted = s.asserted
    BY <1>1, ReceivedAckAndDataIs
  <2> HIDE DEF acked
  <2>2. NoNews(s, m) => Moves(s, acked)
    BY <2>1 DEF Moves
  <2> QED
    BY <1>1, <2>1, <2>2, OpenDoes
<1>4. m.flags = "FIN+ACK" => Does(s, fin, m)
  <2> HAVE m.flags = "FIN+ACK"
  <2>1. /\ Leads(s, fin, m.ack) /\ fin.asserted = s.asserted
        /\ fin.state = s.state \/ (fin.state \in {"CLOSE_WAIT", "LAST_ACK"} /\ s.buffer.next < fin.buffer.next)
    BY <1>1, <1>2, PeerCloseIs
  <2> HIDE DEF fin
  <2>2. Moves(s, fin)
    BY <2>1 DEF Moves, Diagram
  <2> QED
    BY <1>1, <2>1, <2>2, OpenDoes
<1>5. Does(s, ReceivedData(s, m), m)
  BY <1>1, DataDoes
<1>6. Does(s, s, m) /\ Does(s, Abort(s, m), m)
  BY SameDoes, AbortDoes
<1>7. r \in {acked, s, ReceivedData(s, m), Abort(s, m)} \/ (m.flags = "FIN+ACK" /\ r = fin)
  BY DEF ProcessEstablished
<1> HIDE DEF r, acked, fin
<1> QED
  BY <1>3, <1>4, <1>5, <1>6, <1>7 DEF r

LEMMA LastDoes ==
  ASSUME NEW s, Sound(s), NEW m \in Packets
  PROVE  /\ s.state = "CLOSING" => Does(s, ProcessClosing(s, m), m)
         /\ s.state = "LAST_ACK" => Does(s, ProcessLastAck(s, m), m)
<1>1. Core(s) /\ m.ack \in Nat
  BY PacketTypes DEF Sound
<1>2. Does(s, s, m) /\ Does(s, Abort(s, m), m)
  BY SameDoes, AbortDoes
<1>3. ASSUME s.state = "CLOSING"
      PROVE  Does(s, ProcessClosing(s, m), m)
  <2> DEFINE waiting == TimeWait(s)
  <2>1. Keeps(s, waiting, {"retx", "lastAckEvent", "state"}) /\ waiting.state = "TIME_WAIT" /\ Leads(s, waiting, m.ack)
    BY <1>1, <1>3, TimeWaitIs
  <2> HIDE DEF waiting
  <2>2. waiting.buffer = s.buffer /\ waiting.asserted = s.asserted
    BY <2>1 DEF Keeps, Fields
  <2>3. Moves(s, waiting) /\ Opened(s)
    BY <1>3, <2>1 DEF Moves, Diagram, Opened
  <2>4. Does(s, waiting, m)
    BY <2>1, <2>2, <2>3, OpenDoes
  <2>5. Does(s, CloseAndNotify(SendEmptyPacket(s, "ACK")), m)
    BY <2>3, ClosingDoes
  <2> QED
    BY <1>2, <2>4, <2>5 DEF ProcessClosing, waiting
<1>4. ASSUME s.state = "LAST_ACK"
      PROVE  Does(s, ProcessLastAck(s, m), m)
  <2>1. Opened(s) /\ s.state # "TIME_WAIT"
    BY <1>4 DEF Opened
  <2>2. Does(s, CloseAndNotify(s), m) /\ Does(s, ReceivedData(s, m), m)
    BY <2>1, ClosingDoes, DataDoes
  <2> QED
    BY <1>2, <2>2 DEF ProcessLastAck
<1> QED
  BY <1>3, <1>4
-----------------------------------------------------------------------------
\* SYN_SENT.

\* r is s with another state of the sending half, which has sent nothing new.
LEMMA SendingLeads ==
  ASSUME NEW s, Core(s), NEW ack \in Nat,
         NEW r, Keeps(s, r, {"scoreboard", "nextTx", "highTx", "head", "retx", "state"}),
         Sender(r), r.head = s.head, r.retx \in {s.retx, Off}, r.state \in {s.state, "ESTABLISHED"},
         r.retx = "SYN" => r.state = "SYN_SENT",
         Reader(s) => r.state = "CLOSED" \/ r.state = "SYN_RCVD" \/ r.head <= r.nextTx
  PROVE  Leads(s, r, ack)
<1>1. /\ r.tail = s.tail /\ r.buffer = s.buffer /\ r.shutdownSend = s.shutdownSend /\ r.sent = s.sent
      /\ r.told = s.told /\ r.cnCount = s.cnCount /\ r.endPoint = s.endPoint /\ r.out = s.out
      /\ r.closeNotified = s.closeNotified /\ r.asserted = s.asserted /\ r.recvCallback = s.recvCallback
      /\ r.sackstack = s.sackstack /\ DOMAIN r = Fields
  BY DEF Keeps, Fields
<1>2. r.state \in States
  BY DEF Core, States
<1>3. Core(r)
  BY <1>1, <1>2 DEF Core
<1>4. s.head \in Nat /\ s.tail \in Nat /\ s.buffer.next \in Nat
  BY CoreTypes
<1>5. Base(s, r)
  BY <1>1, <1>3, <1>4 DEF Base, Reader
<1>6. Virgin(s) => Virgin(r)
  BY DEF Virgin, Off
<1> QED
  BY <1>1, <1>4, <1>5, <1>6 DEF Leads, Modest, Larger

\* The scoreboard that SYN_SENT makes anew.
LEMMA FreshIs ==
  ASSUME NEW s, Core(s), NEW ack \in Nat
  PROVE  LET r == [s EXCEPT !.scoreboard = CreateScoreBoard(@, FlowSize)]
         IN Keeps(s, r, {"scoreboard"}) /\ Leads(s, r, ack)
<1> DEFINE board == CreateScoreBoard(s.scoreboard, FlowSize)
           r == [s EXCEPT !.scoreboard = board]
<1>1. board \in [known : SUBSET Int, acked : SUBSET Int, sacked : SUBSET Int]
  <2>1. Strides(1, FlowSize - 1) \in SUBSET Int
    BY DEF Strides
  <2>2. s.scoreboard \in [known : SUBSET Int, acked : SUBSET Int, sacked : SUBSET Int]
    BY DEF Core, Sender
  <2> QED
    BY <2>1, <2>2 DEF CreateScoreBoard
<1> HIDE DEF board
<1>2. Keeps(s, r, {"scoreboard"}) /\ r.scoreboard = board
  BY CoreTypes DEF Keeps, Fields
<1> HIDE DEF r
<1>3. /\ r.head = s.head /\ r.tail = s.tail /\ r.nextTx = s.nextTx /\ r.highTx = s.highTx /\ r.retx = s.retx
      /\ r.state = s.state /\ r.out = s.out
  BY <1>2 DEF Keeps, Fields
<1>4. Sender(r)
  BY <1>1, <1>2, <1>3, CoreTypes DEF Sender
<1>5. Keeps(s, r, {"scoreboard", "nextTx", "highTx", "head", "retx", "state"})
  BY <1>2 DEF Keeps
<1>6. (r.retx = "SYN" => r.state = "SYN_SENT")
      /\ (Reader(s) => r.state = "CLOSED" \/ r.state = "SYN_RCVD" \/ r.head <= r.nextTx)
  BY <1>3 DEF Core, Reader
<1>7. Leads(s, r, ack)
  BY <1>3, <1>4, <1>5, <1>6, SendingLeads
<1> QED
  BY <1>2, <1>7 DEF r, board

LEMMA ToldIs ==
  ASSUME NEW s, Core(s), s.state # "SYN_RCVD", NEW notice \in Notices, NEW ack \in Nat,
         NEW flag \in BOOLEAN, NEW r, r = [s EXCEPT !.recvCallback = flag, !.told = s.told \cup {notice}]
  PROVE  /\ Keeps(s, r, {"told", "recvCallback"}) /\ Leads(s, r, ack)
<1>1. Keeps(s, r, {"told", "recvCallback"}) /\ r.told = s.told \cup {notice} /\ r.recvCallback = flag
  BY CoreTypes DEF Keeps, Fields
<1>2. Keeps(s, r, Control)
  BY <1>1 DEF Keeps, Control
<1>3. /\ r.state = s.state /\ r.cnCount = s.cnCount /\ r.endPoint = s.endPoint /\ r.closeNotified = s.closeNotified
      /\ r.asserted = s.asserted /\ r.retx = s.retx
  BY <1>1 DEF Keeps, Fields
<1>4. Controlled(s, r)
  BY <1>1, <1>2, <1>3 DEF Controlled, Core
<1>5. Virgin(s) => Virgin(r)
  BY <1>3 DEF Virgin
<1> QED
  BY <1>1, <1>4, <1>5, ControlledLeads

LEMMA OpenIs ==
  ASSUME NEW s, Sound(s), s.state = "SYN_SENT", NEW ack \in Nat
  PROVE  LET r == Told(SentBySender(ProcessSynSent([s EXCEPT !.retx = Off])), "succeeded")
         IN /\ Leads(s, r, ack) /\ r.state = "ESTABLISHED" /\ r.asserted = s.asserted /\ r.buffer = s.buffer
<1> DEFINE t == [s EXCEPT !.retx = Off]
           d == ProcessSynSent(t)
           e == SentBySender(d)
           r == Told(e, "succeeded")
<1>1. /\ Core(s) /\ s.head = 1 /\ s.nextTx = 0 /\ s.p2_block_bytes_sent = 0 /\ s.endPoint /\ s.out = <<>>
      /\ s.tail \in Nat /\ s.shutdownSend \in BOOLEAN
  BY CoreTypes DEF Sound, Opening
<1>2. Keeps(s, t, {"retx"}) /\ t.retx = Off
  BY <1>1, CoreTypes DEF Keeps, Fields
<1> HIDE DEF t
<1>3. /\ DOMAIN t = Fields /\ t.head = 1 /\ t.nextTx = 0 /\ t.out = <<>> /\ t.p2_block_bytes_sent = 0
      /\ t.tail = s.tail /\ t.highTx = s.highTx /\ t.scoreboard = s.scoreboard /\ t.state = s.state
  BY <1>1, <1>2 DEF Keeps, Fields
<1>4. Sender(t)
  <2>1. Sender(s)
    BY <1>1, CoreTypes
  <2> QED
    BY <1>1, <1>2, <1>3, <2>1 DEF Sender, Events
<1>5. /\ Keeps(t, d, Sends \cup Looped \cup {"state"}) /\ Sender(d)
      /\ d.state = "ESTABLISHED" /\ d.head = 1 /\ d.tail = t.tail /\ d.retx \in {Off, "ReTxTimeout"}
  BY <1>2, <1>3, <1>4, ProcessSynSentIs
<1> HIDE DEF d
<1>6. Keeps(s, d, Sends \cup Looped \cup {"state"})
  BY <1>2, <1>5 DEF Keeps, Sends
<1>7. d.state \in States \ {"CLOSED", "TIME_WAIT", "SYN_SENT", "SYN_RCVD"} /\ d.state \in {s.state, "ESTABLISHED"}
      /\ (d.state = s.state \/ s.state = "SYN_SENT")
  BY <1>5 DEF States
<1>8. s.head <= d.head /\ d.head <= Larger(s.head, ack) /\ s.tail <= d.tail
  BY <1>1, <1>3, <1>5 DEF Larger
<1>9. ~Reader(s)
  BY <1>1 DEF Reader
<1>10. d.retx # "SYN" /\ d.retx \in {s.retx, Off, "ReTxTimeout"}
  BY <1>5 DEF Off
<1>11. Keeps(d, e, {"out", "sent"}) /\ Leads(s, e, ack)
  BY <1>1, <1>5, <1>6, <1>7, <1>8, <1>9, <1>10, SentBySenderIs
<1> HIDE DEF e
<1>12. Core(e) /\ e.state = "ESTABLISHED" /\ e.asserted = s.asserted /\ e.buffer = s.buffer
  BY <1>5, <1>6, <1>11 DEF Leads, Base, Keeps, Fields, Sends, Looped
<1> DEFINE flag == e.recvCallback
<1>13. r = [e EXCEPT !.recvCallback = flag, !.told = e.told \cup {"succeeded"}]
  <2>1. [e EXCEPT !.recvCallback = flag, !.told = e.told \cup {"succeeded"}]
          = [e EXCEPT !.told = e.told \cup {"succeeded"}]
    BY <1>12, CoreTypes DEF Fields
  <2> QED
    BY <2>1 DEF Told
<1>14. flag \in BOOLEAN /\ "succeeded" \in Notices /\ e.state # "SYN_RCVD"
  BY <1>12 DEF Core, Notices
<1> HIDE DEF flag, r
<1>15. Keeps(e, r, {"told", "recvCallback"}) /\ Leads(e, r, ack)
  BY <1>12, <1>13, <1>14, ToldIs
<1>16. Leads(s, r, ack)
  BY <1>1, <1>11, <1>15, LeadsTwice
<1>17. r.state = e.state /\ r.asserted = e.asserted /\ r.buffer = e.buffer
  BY <1>15 DEF Keeps, Fields
<1> QED
  BY <1>12, <1>16, <1>17 DEF r, e, d, t

LEMMA SynSentDoes ==
  ASSUME NEW s, Sound(s), s.state = "SYN_SENT", NEW m \in Packets
  PROVE  Does(s, ProcessSynSentOf(s, m), m)
<1> DEFINE r == ProcessSynSentOf(s, m)
           fresh == [s EXCEPT !.scoreboard = CreateScoreBoard(@, FlowSize)]
           open == Told(SentBySender(ProcessSynSent([s EXCEPT !.retx = Off])), "succeeded")
<1>1. m.ack \in Nat /\ Core(s)
  BY PacketTypes DEF Sound
<1>2. r = fresh \/ r = open \/ r = Abort(fresh, m)
  BY DEF ProcessSynSentOf
<1>3. Keeps(s, fresh, {"scoreboard"}) /\ Leads(s, fresh, m.ack)
  BY <1>1, FreshIs
<1>4. Leads(s, open, m.ack) /\ open.state = "ESTABLISHED" /\ open.asserted = s.asserted /\ open.buffer = s.buffer
  BY <1>1, OpenIs
<1> HIDE DEF fresh, open, r
<1>5. /\ Core(fresh) /\ fresh.state = s.state /\ fresh.asserted = s.asserted /\ fresh.buffer = s.buffer
      /\ fresh.sent = s.sent
  BY <1>3 DEF Leads, Base, Keeps, Fields
<1>6. CASE r = fresh
  <2>1. Opening(fresh)
    BY <1>3 DEF Opening, Sound, Keeps, Fields
  <2> QED
    BY <1>3, <1>5, <1>6, <2>1 DEF Does, Moves, r
<1>7. CASE r = open
  <2>1. Opening(open) /\ Moves(s, open)
    BY <1>4 DEF Opening, Moves, Diagram
  <2> QED
    BY <1>4, <1>7, <2>1 DEF Does, r
<1>8. CASE r = Abort(fresh, m)
  <2>1. Leads(fresh, r, m.ack) /\ r.state = "CLOSED" /\ r.buffer = fresh.buffer /\ r.asserted = fresh.asserted
    BY <1>1, <1>5, <1>8, AbortIs
  <2>2. Leads(s, r, m.ack)
    BY <1>1, <1>3, <2>1, LeadsTwice
  <2>3. Opening(r) /\ Moves(s, r)
    BY <2>1 DEF Opening, Moves
  <2> QED
    BY <1>5, <2>1, <2>2, <2>3 DEF Does, r
<1> QED
  BY <1>2, <1>6, <1>7, <1>8
-----------------------------------------------------------------------------
\* SYN_RCVD.

\* SYN+ACK goes again, unless it has too often.
LEMMA SynAckIs ==
  ASSUME NEW s, Core(s), s.state \notin {"CLOSED", "TIME_WAIT"}, NEW ack \in Nat
  PROVE  LET r == SendEmptyPacket(s, "SYN+ACK")
         IN /\ Leads(s, r, ack)
            /\ \/ r.state = "CLOSED" /\ Keeps(s, r, Released)
               \/ Keeps(s, r, {"sent", "retx", "cnCount"})
            /\ r.retx \in {s.retx, Off, "SYN+ACK"} /\ ("created" \in r.told => "created" \in s.told)
<1> DEFINE seq == IF "SYN+ACK" = "FIN+ACK" THEN s.nextTx ELSE SeqOfEmpty(s)
           p == Packet(s, "SYN+ACK", 0, seq, 0, <<>>)
           timer == IF "SYN+ACK" \in Retried THEN Schedule(s.retx, "SYN+ACK") ELSE s.retx
           e == [s EXCEPT !.sent = Append(@, p), !.retx = timer, !.cnCount = @ - 1]
           r == SendEmptyPacket(s, "SYN+ACK")
<1>1. \/ r = s
      \/ s.endPoint /\ s.cnCount = 0 /\ r = CloseAndNotify(s)
      \/ s.endPoint /\ s.cnCount # 0 /\ r = e
  <2>1. DOMAIN s = Fields
    BY CoreTypes
  <2>2. "SYN+ACK" # "FIN+ACK" /\ "SYN+ACK" \in {"SYN", "SYN+ACK"}
    OBVIOUS
  <2> HIDE DEF p, seq
  <2>3. [[s EXCEPT !.sent = Append(@, p), !.retx = timer] EXCEPT !.cnCount = @ - 1] = e
    BY <2>1 DEF Fields
  <2> QED
    BY <2>2, <2>3 DEF SendEmptyPacket, p, seq
<1>2. CASE r = s
  <2>1. Keeps(s, s, {"sent", "retx", "cnCount"})
    BY CoreTypes DEF Keeps
  <2> HIDE DEF r
  <2> QED
    BY <1>2, <2>1, LeadsSame DEF r
<1>3. CASE s.endPoint /\ s.cnCount = 0 /\ r = CloseAndNotify(s)
  <2> HIDE DEF r
  <2>1. /\ Keeps(s, r, Released) /\ Leads(s, r, ack) /\ r.state = "CLOSED" /\ r.retx = Off
        /\ r.told \in {s.told, s.told \cup {"normalClose"}}
    BY <1>3, CloseAndNotifyIs
  <2> QED
    BY <2>1 DEF r
<1>4. CASE s.endPoint /\ s.cnCount # 0 /\ r = e
  <2> DEFINE f == "SYN+ACK"
             left == s.cnCount - 1
  <2>1. f \in {"ACK", "RST", "SYN", "SYN+ACK", "FIN+ACK"} /\ (f \in Retried => s.state \notin {"CLOSED", "TIME_WAIT"})
        /\ (f = "SYN" => s.state = "SYN_SENT") /\ f \notin {"SYN", "FIN+ACK"} /\ f \in Retried
    BY DEF Retried
  <2>2. left \in 0 .. CnRetries
    BY <1>4, CnRetriesAssumption DEF Core
  <2>3. /\ Keeps(s, e, {"sent", "retx", "cnCount"}) /\ e.cnCount = left /\ e.sent = Append(s.sent, p) /\ e.retx = timer
    <3> HIDE DEF p, timer
    <3> QED
      BY CoreTypes DEF Keeps, Fields
  <2>4. e.sent = Append(s.sent, Packet(s, f, 0, IF f = "FIN+ACK" THEN s.nextTx ELSE SeqOfEmpty(s), 0, <<>>))
    BY <2>3
  <2>5. e.retx = IF f \in Retried THEN Schedule(s.retx, f) ELSE s.retx
    BY <2>3
  <2>6. timer \in {s.retx, "SYN+ACK"}
    BY DEF Schedule
  <2> HIDE DEF e, f, left, r, p, timer
  <2>7. PICK q : q.flags = f /\ Emits(s, e, q)
    BY <1>4, <2>1, <2>2, <2>3, <2>4, <2>5, EmptyEmits
  <2>8. Leads(s, e, ack)
    <3>1. e.retx # "FIN+ACK" \/ e.retx = s.retx
      BY <2>3, <2>6
    <3> QED
      BY <2>1, <2>7, <3>1, EmitsLeads
  <2>9. e.told = s.told
    BY <2>3 DEF Keeps, Fields
  <2> QED
    BY <1>4, <2>3, <2>6, <2>8, <2>9 DEF r
<1> QED
  BY <1>1, <1>2, <1>3, <1>4

\* What the server's socket is when the handshake is over.
LEMMA HandshakeIs ==
  ASSUME NEW s, Sound(s), s.state = "SYN_RCVD", NEW ack \in Nat,
         NEW r, Keeps(s, r, {"retx", "nextTx", "highTx", "head", "state"}),
         r.retx = Off, r.nextTx = 1, r.highTx = 1, r.head = 1, r.state \in {"SYN_RCVD", "ESTABLISHED"}
  PROVE  Leads(s, r, ack)
<1>1. /\ Core(s) /\ s.head = 1 /\ s.tail = 1 /\ s.nextTx = 0 /\ s.out = <<>>
  BY DEF Sound, Opening, Core
<1>3. r.tail = 1 /\ r.out = <<>> /\ r.scoreboard = s.scoreboard
  BY <1>1 DEF Keeps, Fields
<1>4. Sender(r)
  <2>1. /\ r.tail <= FlowSize + 1 /\ r.head <= r.tail
        /\ r.head \in Nat /\ r.tail \in Nat /\ r.nextTx \in Nat /\ r.highTx \in Nat
    BY <1>3, SenderAssumption
  <2>2. r.scoreboard \in [known : SUBSET Int, acked : SUBSET Int, sacked : SUBSET Int]
    BY <1>1, <1>3 DEF Core, Sender
  <2>3. r.out \in Seq(Outs(r.state)) /\ r.retx \in Events
    BY <1>3 DEF Events
  <2> QED
    BY <2>1, <2>2, <2>3 DEF Sender
<1>5. Keeps(s, r, {"scoreboard", "nextTx", "highTx", "head", "retx", "state"})
  BY DEF Keeps
<1>6. r.retx # "SYN" /\ r.head = s.head /\ r.retx \in {s.retx, Off} /\ r.state \in {s.state, "ESTABLISHED"}
      /\ (r.retx = "SYN" => r.state = "SYN_SENT") /\ r.head <= r.nextTx
  BY <1>1 DEF Off
<1> QED
  BY <1>1, <1>4, <1>5, <1>6, SendingLeads

LEMMA SynRcvdDoes ==
  ASSUME NEW s, Sound(s), s.endPoint, s.state = "SYN_RCVD", NEW m \in Packets
  PROVE  Does(s, ProcessSynRcvd(s, m), m)
<1> DEFINE r == ProcessSynRcvd(s, m)
           open == [s EXCEPT !.retx = Off, !.nextTx = @ + 1, !.highTx = s.nextTx + 1, !.head = s.nextTx + 1]
           opened == [open EXCEPT !.state = "ESTABLISHED"]
           acked == ReceivedAckAndData(opened, m)
           created == Told([acked EXCEPT !.recvCallback = TRUE], "created")
           again == SendEmptyPacket(s, "SYN+ACK")
           fin == PeerClose(open, m)
<1>1. Core(s) /\ m.ack \in Nat /\ m.seq \in Nat /\ s.buffer.fin = 0
  BY PacketTypes DEF Sound, Opening, Receiver!EmptyBuffer
<1>2. \/ m.flags # "FIN+ACK" /\ m.flags # "SYN" /\ r = created
      \/ m.flags = "SYN" /\ r = again
      \/ m.flags = "FIN+ACK" /\ m.seq = s.buffer.next /\ r = fin
      \/ r = s
      \/ r = Abort(s, m)
  BY DEF ProcessSynRcvd
<1>3. /\ Keeps(s, open, {"retx", "nextTx", "highTx", "head", "state"}) /\ open.state = "SYN_RCVD"
      /\ open.head = 1 /\ open.nextTx = 1 /\ open.highTx = 1 /\ open.retx = Off /\ Leads(s, open, m.ack)
  <2>1. DOMAIN s = Fields /\ s.nextTx = 0
    BY <1>1, CoreTypes DEF Sound, Opening
  <2> HIDE DEF open
  <2>2. open = [s EXCEPT !.retx = Off, !.nextTx = 1, !.highTx = 1, !.head = 1]
    <3>1. s.nextTx + 1 = 1
      BY <2>1
    <3> QED
      BY <3>1 DEF open
  <2>3. Keeps(s, open, {"retx", "nextTx", "highTx", "head"}) /\ open.state = "SYN_RCVD"
        /\ open.retx = Off /\ open.nextTx = 1 /\ open.highTx = 1 /\ open.head = 1
    BY <2>1, <2>2 DEF Keeps, Fields
  <2>4. Keeps(s, open, {"retx", "nextTx", "highTx", "head", "state"})
    BY <2>3 DEF Keeps
  <2> QED
    BY <1>1, <2>3, <2>4, HandshakeIs
<1>4. /\ opened.state = "ESTABLISHED" /\ Leads(s, opened, m.ack) /\ Keeps(open, opened, {"state"})
  <2>1. DOMAIN open = Fields
    BY <1>3 DEF Keeps
  <2> HIDE DEF open
  <2>2. Keeps(open, opened, {"state"}) /\ opened.state = "ESTABLISHED"
    BY <2>1 DEF Keeps, Fields
  <2> HIDE DEF opened
  <2>3. /\ Keeps(s, opened, {"retx", "nextTx", "highTx", "head", "state"})
        /\ opened.retx = Off /\ opened.nextTx = 1 /\ opened.highTx = 1 /\ opened.head = 1
    BY <1>3, <2>2 DEF Keeps, Fields
  <2> QED
    BY <1>1, <2>2, <2>3, HandshakeIs
<1> HIDE DEF open, opened
<1>5. /\ Core(opened) /\ opened.buffer = s.buffer /\ opened.asserted = s.asserted /\ opened.endPoint
      /\ Core(open) /\ open.buffer = s.buffer
  BY <1>3, <1>4 DEF Leads, Base, Keeps, Fields
<1>6. /\ Leads(opened, acked, m.ack) /\ acked.buffer.fin = opened.buffer.fin
      /\ acked.state \in {opened.state, "CLOSE_WAIT", "LAST_ACK"}
      /\ NoNews(opened, m) => acked.state = opened.state /\ acked.asserted = opened.asserted
  BY <1>4, <1>5, ReceivedAckAndDataIs DEF Live
<1> HIDE DEF acked
<1>7. CASE m.flags # "FIN+ACK" /\ m.flags # "SYN" /\ r = created
  <2>1. Core(acked) /\ acked.state # "SYN_RCVD" /\ "created" \in Notices /\ TRUE \in BOOLEAN
    BY <1>4, <1>6 DEF Leads, Base, Notices
  <2> DEFINE flag == TRUE
             notice == "created"
             t == [acked EXCEPT !.recvCallback = flag, !.told = acked.told \cup {notice}]
  <2>2. created = t
    BY <2>1, CoreTypes DEF Told, Fields
  <2>3. flag \in BOOLEAN /\ notice \in Notices
    BY <2>1
  <2> HIDE DEF flag, notice, created
  <2>4. Keeps(acked, t, {"told", "recvCallback"}) /\ Leads(acked, t, m.ack)
    BY <1>1, <2>1, <2>3, ToldIs
  <2> HIDE DEF t
  <2>5. r.state = acked.state /\ r.asserted = acked.asserted /\ r.buffer = acked.buffer /\ Leads(acked, r, m.ack)
    BY <1>7, <2>2, <2>4 DEF Keeps, Fields
  <2> HIDE DEF r
  <2>6. Leads(opened, r, m.ack)
    BY <1>1, <1>5, <1>6, <2>5, LeadsTwice
  <2>7. Leads(s, r, m.ack)
    BY <1>1, <1>4, <2>6, LeadsTwice
  <2>8. Opening(r) /\ r.state \notin {"SYN_SENT", "SYN_RCVD"}
    BY <1>4, <1>6, <2>5 DEF Opening
  <2>9. NoNews(s, m) => r.asserted = s.asserted /\ Moves(s, r) /\ r.state = "ESTABLISHED"
    BY <1>4, <1>5, <1>6, <2>5 DEF NoNews, Moves, Diagram
  <2> QED
    BY <1>5, <1>6, <1>7, <2>5, <2>7, <2>8, <2>9 DEF Does, InTime, r
<1>8. CASE m.flags = "SYN" /\ r = again
  <2>1. /\ Leads(s, again, m.ack)
        /\ \/ again.state = "CLOSED" /\ Keeps(s, again, Released)
           \/ Keeps(s, again, {"sent", "retx", "cnCount"})
        /\ again.retx \in {s.retx, Off, "SYN+ACK"} /\ ("created" \in again.told => "created" \in s.told)
    BY <1>1, SynAckIs
  <2> HIDE DEF again, r
  <2>2. again.buffer = s.buffer /\ again.asserted = s.asserted /\ again.state \in {s.state, "CLOSED"}
    BY <2>1 DEF Keeps, Fields, Released
  <2>3. Opening(again)
    <3>1. CASE again.state = "CLOSED"
      BY <3>1 DEF Opening
    <3>2. CASE Keeps(s, again, {"sent", "retx", "cnCount"})
      <4>1. again.head = s.head /\ again.tail = s.tail /\ again.nextTx = s.nextTx /\ again.state = s.state
        BY <3>2 DEF Keeps, Fields
      <4> QED
        BY <2>1, <2>2, <4>1 DEF Opening, Sound
    <3> QED
      BY <2>1, <3>1, <3>2
  <2> QED
    BY <1>8, <2>1, <2>2, <2>3 DEF Does, Moves, r
<1>9. CASE m.flags = "FIN+ACK" /\ m.seq = s.buffer.next /\ r = fin
  <2>1. /\ Leads(open, fin, m.ack)
        /\ fin.state = open.state \/ fin.state \in {"CLOSE_WAIT", "LAST_ACK"}
        /\ m.seq = open.buffer.next /\ open.buffer.fin = 0 => fin.state # open.state
    BY <1>1, <1>3, <1>5, PeerCloseIs
  <2> HIDE DEF fin, r
  <2>2. fin.state \in {"CLOSE_WAIT", "LAST_ACK"}
    BY <1>1, <1>5, <1>9, <2>1
  <2>3. Opening(fin)
    BY <2>2 DEF Opening
  <2>4. Leads(s, fin, m.ack)
    BY <1>1, <1>3, <2>1, LeadsTwice
  <2>5. ~InTime(s, m)
    BY <1>9 DEF InTime
  <2> QED
    BY <1>9, <2>2, <2>3, <2>4, <2>5 DEF Does, r
<1>10. CASE r = s
  BY <1>10, SameDoes DEF r
<1>11. CASE r = Abort(s, m)
  BY <1>11, AbortDoes DEF r
<1> QED
  BY <1>2, <1>7, <1>8, <1>9, <1>10, <1>11
-----------------------------------------------------------------------------
\* Every packet that the socket is given.

LEMMA ProcessDoes ==
  ASSUME NEW s, Sound(s), s.endPoint, NEW m \in Packets
  PROVE  Does(s, Process(s, m), m)
<1>1. CASE s.state = "CLOSED"
  <2> DEFINE p == Reset("RST")
             r == [s EXCEPT !.sent = Append(@, p)]
  <2>1. Core(s) /\ m.ack \in Nat
    BY PacketTypes DEF Sound
  <2>2. p \in SentBefore(s.buffer.next) /\ p.len = 0 /\ p.flags = "RST"
    <3>1. p = [flags |-> "RST", prio |-> 0, seq |-> 0, len |-> 0, ack |-> 0, sack |-> <<>>]
      BY DEF Reset
    <3>2. 0 \in Nat /\ 0 \in 0 .. MSS /\ <<>> \in Seq(Nat \X Nat) /\ 0 <= s.buffer.next
      BY <2>1, MSSAssumption, CoreTypes
    <3> HIDE DEF p
    <3>3. p \in Packets /\ p.flags = "RST" /\ p.len = 0 /\ p.ack = 0
      BY <3>1, <3>2 DEF Packets
    <3> QED
      BY <3>2, <3>3 DEF SentBefore
  <2> HIDE DEF p
  <2>3. Keeps(s, r, {"sent", "retx", "cnCount"}) /\ r.sent = Append(s.sent, p) /\ r.retx = s.retx
        /\ r.cnCount = s.cnCount /\ r.state = s.state /\ r.buffer = s.buffer /\ r.asserted = s.asserted
        /\ r.told = s.told
    BY <2>1, CoreTypes DEF Keeps, Fields
  <2> HIDE DEF r
  <2>4. Emits(s, r, p)
    BY <2>1, <2>2, <2>3, CoreTypes DEF Emits, Core
  <2>5. Leads(s, r, m.ack)
    BY <2>1, <2>2, <2>3, <2>4, EmitsLeads
  <2>6. Does(s, r, m)
    <3>1. Opening(r) /\ Moves(s, r) /\ r.state = s.state
      BY <1>1, <2>3 DEF Opening, Moves
    <3> QED
      BY <1>1, <2>3, <2>5, <3>1 DEF Does
  <2> QED
    BY <1>1, <2>6, SameDoes DEF Process, r, p
<1>2. CASE s.state = "SYN_SENT"
  BY <1>2, SynSentDoes DEF Process
<1>3. CASE s.state = "SYN_RCVD"
  BY <1>3, SynRcvdDoes DEF Process
<1>4. CASE s.state = "ESTABLISHED"
  BY <1>4, EstablishedDoes DEF Process
<1>5. CASE s.state \in {"FIN_WAIT_1", "FIN_WAIT_2", "CLOSE_WAIT"}
  BY <1>5, WaitDoes DEF Process
<1>6. CASE s.state \in {"CLOSING", "LAST_ACK"}
  BY <1>6, LastDoes DEF Process
<1>7. CASE s.state = "TIME_WAIT"
  BY <1>7, SameDoes DEF Process
<1> QED
  BY <1>1, <1>2, <1>3, <1>4, <1>5, <1>6, <1>7 DEF Sound, Core, States

LEMMA DoForwardUpDoes ==
  ASSUME NEW s, Sound(s), s.endPoint, NEW m \in Packets
  PROVE  Does(s, DoForwardUp(s, m), m)
<1> DEFINE d == SendEmptyPacket(s, "ACK")
<1>1. s.state = "ESTABLISHED" => Does(s, d, m)
  <2> HAVE s.state = "ESTABLISHED"
  <2>1. Core(s) /\ m.ack \in Nat /\ "ACK" \in {"ACK", "RST"}
    BY PacketTypes DEF Sound
  <2>2. Keeps(s, d, {"sent"}) /\ Leads(s, d, m.ack)
    BY <2>1, AnswerIs
  <2> HIDE DEF d
  <2>3. d.state = s.state /\ d.buffer = s.buffer /\ d.asserted = s.asserted
    BY <2>2 DEF Keeps, Fields
  <2>4. Moves(s, d) /\ Opened(s)
    BY <2>3 DEF Moves, Opened
  <2> QED
    BY <2>2, <2>3, <2>4, OpenDoes
<1>2. Does(s, s, m) /\ Does(s, Process(s, m), m)
  BY SameDoes, ProcessDoes
<1> HIDE DEF d
<1>3. DoForwardUp(s, m) \in {s, Process(s, m)} \/ (s.state = "ESTABLISHED" /\ DoForwardUp(s, m) = d)
  BY DEF DoForwardUp, d
<1> QED
  BY <1>1, <1>2, <1>3
-----------------------------------------------------------------------------
\* The timers.

\* What a timer makes of a socket.
Wakes(s, r) ==
  /\ Core(r) /\ Opening(r) /\ r.state \in {s.state, "CLOSED"} /\ r.buffer = s.buffer /\ r.asserted = s.asserted
  /\ "created" \in r.told => "created" \in s.told

\* The timer is taken off before its function runs.
LEMMA TakenOff ==
  ASSUME NEW s, Core(s), NEW ack \in Nat
  PROVE  LET t == [s EXCEPT !.retx = Off] IN Keeps(s, t, {"retx"}) /\ t.retx = Off /\ Leads(s, t, ack)
<1> DEFINE t == [s EXCEPT !.retx = Off]
<1>1. Keeps(s, t, {"retx"}) /\ t.retx = Off
  BY CoreTypes DEF Keeps, Fields
<1> HIDE DEF t
<1>2. /\ t.told = s.told /\ t.cnCount = s.cnCount /\ t.endPoint = s.endPoint /\ t.state = s.state
      /\ t.closeNotified = s.closeNotified /\ t.recvCallback = s.recvCallback /\ t.asserted = s.asserted
  BY <1>1 DEF Keeps, Fields
<1>3. Keeps(s, t, Control)
  BY <1>1 DEF Keeps, Control
<1>4. Off # "SYN" /\ Off # "FIN+ACK"
  BY DEF Off
<1>5. Controlled(s, t)
  BY <1>1, <1>2, <1>3, <1>4 DEF Controlled, Core
<1>6. Virgin(s) => Virgin(t)
  BY <1>1, <1>2, <1>4 DEF Virgin
<1> QED
  BY <1>1, <1>5, <1>6, ControlledLeads DEF t

\* A SYN goes again, unless it has too often.
LEMMA SynIs ==
  ASSUME NEW s, Sound(s), s.state = "SYN_SENT"
  PROVE  LET r == SendEmptyPacket([s EXCEPT !.retx = Off], "SYN")
         IN /\ Wakes(s, r)
            /\ \/ s.cnCount = 0 /\ r.state = "CLOSED" /\ Leads(s, r, 0)
               \/ /\ Keeps(s, r, {"sent", "cnCount"})
                  /\ \E p \in SentBefore(s.buffer.next) : p.flags = "SYN" /\ r.sent = Append(s.sent, p)
<1> DEFINE t == [s EXCEPT !.retx = Off]
           seq == SeqOfEmpty(t)
           p == Packet(t, "SYN", 0, seq, 0, <<>>)
           timer == IF "SYN" \in Retried THEN Schedule(t.retx, "SYN") ELSE t.retx
           e == [t EXCEPT !.sent = Append(@, p), !.retx = timer, !.cnCount = @ - 1]
           r == SendEmptyPacket(t, "SYN")
<1>1. Core(s) /\ s.endPoint /\ s.retx = "SYN" /\ 0 \in Nat
  BY DEF Sound, Opening
<1>2. Keeps(s, t, {"retx"}) /\ t.retx = Off /\ Leads(s, t, 0)
  BY <1>1, TakenOff
<1> HIDE DEF t
<1>3. /\ Core(t) /\ DOMAIN t = Fields /\ t.endPoint /\ t.state = "SYN_SENT" /\ t.buffer = s.buffer
      /\ t.sent = s.sent /\ t.cnCount = s.cnCount /\ t.asserted = s.asserted /\ t.told = s.told
  BY <1>1, <1>2 DEF Leads, Base, Keeps, Fields
<1>4. \/ t.cnCount = 0 /\ r = CloseAndNotify(t)
      \/ t.cnCount # 0 /\ r = e
  <2>1. "SYN" # "FIN+ACK" /\ "SYN" \in {"SYN", "SYN+ACK"}
    OBVIOUS
  <2> HIDE DEF p, seq
  <2>2. [[t EXCEPT !.sent = Append(@, p), !.retx = timer] EXCEPT !.cnCount = @ - 1] = e
    BY <1>3 DEF Fields
  <2> QED
    BY <1>3, <2>1, <2>2 DEF SendEmptyPacket, p, seq
<1>5. CASE t.cnCount = 0 /\ r = CloseAndNotify(t)
  <2> HIDE DEF r
  <2>1. /\ Keeps(t, r, Released) /\ Leads(t, r, 0) /\ r.state = "CLOSED"
        /\ r.told \in {t.told, t.told \cup {"normalClose"}}
    BY <1>1, <1>3, <1>5, CloseAndNotifyIs
  <2>2. r.buffer = s.buffer /\ r.asserted = s.asserted /\ ("created" \in r.told => "created" \in s.told)
    BY <1>3, <2>1 DEF Keeps, Fields, Released
  <2>3. Leads(s, r, 0) /\ Opening(r)
    BY <1>1, <1>2, <2>1, LeadsTwice DEF Opening
  <2> QED
    BY <1>3, <1>5, <2>1, <2>2, <2>3 DEF Wakes, Leads, Base, r, t
<1>6. CASE t.cnCount # 0 /\ r = e
  <2> DEFINE f == "SYN"
             left == t.cnCount - 1
  <2>1. f \in {"ACK", "RST", "SYN", "SYN+ACK", "FIN+ACK"} /\ (f \in Retried => t.state \notin {"CLOSED", "TIME_WAIT"})
        /\ (f = "SYN" => t.state = "SYN_SENT") /\ f \in Retried
    BY <1>3 DEF Retried
  <2>2. left \in 0 .. CnRetries
    BY <1>3, <1>6, CnRetriesAssumption DEF Core
  <2>3. /\ Keeps(t, e, {"sent", "retx", "cnCount"}) /\ e.cnCount = left /\ e.sent = Append(t.sent, p) /\ e.retx = timer
    <3> HIDE DEF p, timer
    <3> QED
      BY <1>3 DEF Keeps, Fields
  <2>4. e.sent = Append(t.sent, Packet(t, f, 0, IF f = "FIN+ACK" THEN t.nextTx ELSE SeqOfEmpty(t), 0, <<>>))
    BY <2>3
  <2>5. e.retx = IF f \in Retried THEN Schedule(t.retx, f) ELSE t.retx
    BY <2>3
  <2>6. timer = "SYN" /\ p.flags = "SYN"
    BY <1>2, <2>1 DEF Schedule, Packet
  <2> HIDE DEF e, f, left, r, p, timer
  <2>7. PICK q : q.flags = f /\ Emits(t, e, q)
    BY <1>3, <2>1, <2>2, <2>3, <2>4, <2>5, EmptyEmits
  <2>8. q \in SentBefore(s.buffer.next) /\ e.sent = Append(s.sent, q) /\ Core(e)
    BY <1>3, <2>7, EmitsCore DEF Emits
  <2>9. Keeps(s, e, {"sent", "cnCount"})
    BY <1>1, <1>2, <2>3, <2>6 DEF Keeps, Fields
  <2>10. /\ e.told = s.told /\ e.state = s.state /\ e.buffer = s.buffer /\ e.asserted = s.asserted /\ e.retx = s.retx
         /\ e.endPoint = s.endPoint /\ e.head = s.head /\ e.nextTx = s.nextTx
         /\ e.p2_block_bytes_sent = s.p2_block_bytes_sent
    BY <2>9 DEF Keeps, Fields
  <2>11. Opening(e)
    BY <2>10 DEF Sound, Opening
  <2>12. q.flags = "SYN"
    BY <2>7 DEF f
  <2> QED
    BY <1>6, <2>8, <2>9, <2>10, <2>11, <2>12 DEF Wakes, r, t
<1> QED
  BY <1>4, <1>5, <1>6

LEMMA ExpiredIs ==
  ASSUME NEW s, Sound(s), s.retx # Off
  PROVE  LET r == Expired(s)
         IN /\ Wakes(s, r)
            /\ \/ Leads(s, r, 0) /\ r.state # "SYN_SENT"
               \/ /\ s.state = "SYN_SENT" /\ Keeps(s, r, {"sent", "cnCount"})
                  /\ \E p \in SentBefore(s.buffer.next) : p.flags = "SYN" /\ r.sent = Append(s.sent, p)
<1> DEFINE t == [s EXCEPT !.retx = Off]
           r == Expired(s)
<1>1. Core(s) /\ s.endPoint /\ s.state \notin {"CLOSED", "TIME_WAIT"} /\ s.retx \in Events /\ 0 \in Nat
  BY CoreTypes DEF Sound, Core
<1>2. s.retx \in {"ReTxTimeout", "SYN", "SYN+ACK", "FIN+ACK"}
  BY <1>1 DEF Events, Retried
<1>3. Keeps(s, t, {"retx"}) /\ t.retx = Off /\ Leads(s, t, 0)
  BY <1>1, TakenOff
<1>4. CASE s.retx = "SYN"
  <2>1. s.state = "SYN_SENT" /\ r = SendEmptyPacket(t, "SYN")
    BY <1>1, <1>4 DEF Core, Expired
  <2> QED
    BY <2>1, SynIs
<1> HIDE DEF t
<1>5. /\ Core(t) /\ t.state = s.state /\ t.buffer = s.buffer /\ t.sent = s.sent /\ t.asserted = s.asserted
      /\ t.told = s.told /\ t.head = s.head
  BY <1>3 DEF Leads, Base, Keeps, Fields
<1>6. CASE s.retx = "ReTxTimeout"
  <2> DEFINE e == SentBySender(ReTxTimeout(s))
  <2>1. r = e
    BY <1>6 DEF Expired
  <2>2. Live(s) /\ s.state \notin {"SYN_SENT", "SYN_RCVD"}
    BY <1>1, <1>6 DEF Live, Sound, Opening, Off
  <2>3. Keeps(s, e, Sends \cup {"sent"}) /\ Leads(s, e, 0)
    BY <1>1, <2>2, TimedOutIs
  <2> HIDE DEF e, r
  <2>4. e.state = s.state /\ e.buffer = s.buffer /\ e.asserted = s.asserted /\ e.told = s.told
    BY <2>3 DEF Keeps, Fields, Sends
  <2>5. Opening(e)
    BY <2>2, <2>4 DEF Opening
  <2> QED
    BY <1>6, <2>1, <2>3, <2>4, <2>5 DEF Wakes, Leads, Base, Sound, Opening, r
<1>7. CASE s.retx = "SYN+ACK"
  <2> DEFINE e == SendEmptyPacket(t, "SYN+ACK")
  <2>1. r = e
    BY <1>7 DEF Expired, t
  <2>2. /\ Leads(t, e, 0)
        /\ \/ e.state = "CLOSED" /\ Keeps(t, e, Released)
           \/ Keeps(t, e, {"sent", "retx", "cnCount"})
        /\ e.retx \in {t.retx, Off, "SYN+ACK"} /\ ("created" \in e.told => "created" \in t.told)
    BY <1>1, <1>5, SynAckIs
  <2> HIDE DEF e, r
  <2>3. e.state \in {s.state, "CLOSED"} /\ e.buffer = s.buffer /\ e.asserted = s.asserted
        /\ ("created" \in e.told => "created" \in s.told)
    BY <1>5, <2>2 DEF Keeps, Fields, Released
  <2>4. Leads(s, e, 0)
    BY <1>1, <1>3, <2>2, LeadsTwice
  <2>5. Opening(e)
    <3>1. s.state # "SYN_SENT"
      BY <1>7 DEF Sound, Opening
    <3>2. CASE e.state = "CLOSED"
      BY <3>2 DEF Opening
    <3>3. CASE Keeps(t, e, {"sent", "retx", "cnCount"})
      <4>1. e.head = s.head /\ e.tail = s.tail /\ e.nextTx = s.nextTx /\ e.state = s.state
        BY <1>3, <3>3 DEF Keeps, Fields
      <4> QED
        BY <1>3, <2>2, <2>3, <3>1, <4>1 DEF Opening, Sound
    <3> QED
      BY <2>2, <3>2, <3>3
  <2> QED
    BY <1>7, <2>1, <2>3, <2>4, <2>5 DEF Wakes, Leads, Base, Sound, Opening, r
<1>8. CASE s.retx = "FIN+ACK"
  <2> DEFINE e == SendEmptyPacket(t, "FIN+ACK")
  <2>1. r = e
    BY <1>8 DEF Expired, t
  <2>2. Keeps(t, e, {"sent", "retx"}) /\ Base(t, e)
    BY <1>1, <1>5, FinIs
  <2> HIDE DEF e, r
  <2>3. e.state = s.state /\ e.buffer = s.buffer /\ e.asserted = s.asserted /\ e.told = s.told /\ e.head = s.head
    BY <1>5, <2>2 DEF Keeps, Fields
  <2>4. Base(s, e)
    BY <1>1, <1>3, <2>2, BaseTwice DEF Leads
  <2>5. ~Virgin(s) /\ s.head \in Nat
    BY <1>1, <1>8, CoreTypes DEF Virgin
  <2>6. Leads(s, e, 0)
    BY <2>3, <2>4, <2>5 DEF Leads, Modest, Larger
  <2>7. Opening(e)
    BY <1>8, <2>3 DEF Sound, Opening, Off
  <2> QED
    BY <1>8, <2>1, <2>3, <2>6, <2>7 DEF Wakes, Leads, Base, Sound, Opening, r
<1> QED
  BY <1>2, <1>4, <1>6, <1>7, <1>8

\* What only differs in the notes of closing.
LEMMA LastAckTimeoutIs ==
  ASSUME NEW s, Sound(s)
  PROVE  LET r == LastAckTimeout(s) IN Wakes(s, r) /\ Leads(s, r, 0)
<1> DEFINE c == IF s.state = "LAST_ACK" THEN CloseAndNotify(s) ELSE s
           r == LastAckTimeout(s)
<1>1. Core(s) /\ 0 \in Nat
  BY DEF Sound
<1>2. /\ Leads(s, c, 0) /\ c.state \in {s.state, "CLOSED"} /\ c.buffer = s.buffer /\ c.asserted = s.asserted
      /\ ("created" \in c.told => "created" \in s.told) /\ Opening(c)
  <2> DEFINE d == CloseAndNotify(s)
  <2>1. /\ Keeps(s, d, Released) /\ Leads(s, d, 0) /\ d.state = "CLOSED"
        /\ d.told \in {s.told, s.told \cup {"normalClose"}}
    BY <1>1, CloseAndNotifyIs
  <2> HIDE DEF d
  <2>2. d.buffer = s.buffer /\ d.asserted = s.asserted /\ Opening(d)
    BY <2>1 DEF Keeps, Fields, Released, Opening
  <2>3. Leads(s, s, 0)
    BY <1>1, LeadsSame
  <2> QED
    BY <2>1, <2>2, <2>3 DEF Sound, d
<1> HIDE DEF c
<1>3. Core(c) /\ DOMAIN c = Fields
  BY <1>2, CoreTypes DEF Leads, Base
<1>4. r = [c EXCEPT !.lastAckEvent = FALSE, !.closeNotified = TRUE]
  BY <1>3 DEF LastAckTimeout, c, Fields
<1>5. Keeps(c, r, {"lastAckEvent", "closeNotified"}) /\ r.closeNotified = TRUE
  <2> HIDE DEF r
  <2> QED
    BY <1>3, <1>4 DEF Keeps, Fields
<1> HIDE DEF r
<1>6. /\ r.told = c.told /\ r.cnCount = c.cnCount /\ r.endPoint = c.endPoint /\ r.state = c.state /\ r.retx = c.retx
      /\ r.recvCallback = c.recvCallback /\ r.asserted = c.asserted /\ r.buffer = c.buffer
      /\ r.head = c.head /\ r.tail = c.tail /\ r.nextTx = c.nextTx /\ r.p2_block_bytes_sent = c.p2_block_bytes_sent
  BY <1>5 DEF Keeps, Fields
<1>7. Keeps(c, r, Control)
  BY <1>5 DEF Keeps, Control
<1>8. Controlled(c, r)
  BY <1>3, <1>5, <1>6, <1>7 DEF Controlled, Core
<1>9. Virgin(c) => Virgin(r)
  BY <1>6 DEF Virgin
<1>10. Leads(c, r, 0)
  BY <1>1, <1>3, <1>8, <1>9, ControlledLeads
<1>11. Leads(s, r, 0)
  BY <1>1, <1>2, <1>10, LeadsTwice
<1>12. Opening(r)
  BY <1>2, <1>6 DEF Opening
<1> QED
  BY <1>2, <1>6, <1>11, <1>12 DEF Wakes, Leads, Base, r
-----------------------------------------------------------------------------
\* The two sockets and the paths.

HasSyn(path) == \E i \in DOMAIN path : path[i].flags = "SYN"
HasFin(path) == \E i \in DOMAIN path : path[i].flags = "FIN+ACK"
OnlySyns(path) == \A i \in DOMAIN path : path[i].flags = "SYN"
SynsFirst(path) == \A i, j \in DOMAIN path : i < j /\ path[j].flags = "SYN" => path[i].flags = "SYN"

\* What may be on the paths: the server only answers.
ToServer == {p \in Packets : (p.len > 0 => p.seq + p.len <= FlowSize + 1) /\ (p.flags = "SYN" => p.prio = 0)}
ToClient(next) == {p \in Packets : p.len = 0 /\ p.flags \notin {"", "SYN"} /\ p.ack <= next}

Client(c) == Sound(c) /\ c.sent = <<>> /\ c.state # "SYN_RCVD" /\ ~c.shutdownSend /\ FlowSize + 1 <= c.tail
Server(s) == Sound(s) /\ s.sent = <<>> /\ s.state # "SYN_SENT" /\ Reader(s)

\* A SYN may still arrive, and what the server is until none can.
Early(c, ts) == c.state = "SYN_SENT" \/ HasSyn(ts)
Unopened(s) == s.state \in {"CLOSED", "SYN_RCVD"} /\ s.buffer = Receiver!EmptyBuffer /\ "created" \notin s.told

Together(c, s, ts, tc) ==
  /\ Client(c) /\ Server(s)
  /\ ts \in Seq(ToServer) /\ tc \in Seq(ToClient(s.buffer.next))
  /\ SynsFirst(ts) /\ (c.state = "SYN_SENT" => OnlySyns(ts))
  /\ Early(c, ts) => Unopened(s)

\* What a client adds that closes only when all is acknowledged.
Patient(c, s, ts) ==
  /\ c.state # "CLOSED" => c.head <= s.buffer.next
  /\ s.buffer.next <= FlowSize => Virgin(c) /\ ~HasFin(ts) /\ s.buffer.fin = 0
  /\ s.state \in {"CLOSE_WAIT", "LAST_ACK"} => s.buffer.next > FlowSize + 1
  /\ c.asserted /\ s.asserted

Joint ==
  /\ Together(cli, srv, toS, toC)
  /\ program \in Programs /\ running \subseteq {"client", "server"} /\ listening \in BOOLEAN
  /\ program.patient => Patient(cli, srv, toS)
-----------------------------------------------------------------------------
\* Paths.

LEMMA CutIs ==
  ASSUME NEW S, NEW path \in Seq(S), NEW i \in DOMAIN path
  PROVE  LET cut == RemoveAt(path, i)
         IN /\ cut \in Seq(S)
            /\ SynsFirst(path) => SynsFirst(cut)
            /\ OnlySyns(path) => OnlySyns(cut)
            /\ HasSyn(cut) => HasSyn(path)
            /\ HasFin(cut) => HasFin(path)
<1> DEFINE cut == RemoveAt(path, i)
           at(k) == IF k < i THEN k ELSE k + 1
           n == Len(path)
<1>1. /\ cut \in Seq(S) /\ Len(cut) = n - 1 /\ n - 1 \in Nat /\ \A k \in 1 .. n - 1 : cut[k] = path[at(k)]
  BY Removed DEF RemoveAt
<1>2. n \in Nat /\ i \in 1 .. n /\ DOMAIN path = 1 .. n
  OBVIOUS
<1> HIDE DEF cut, n
<1>3. DOMAIN cut = 1 .. n - 1
  BY <1>1
<1>4. \A k \in DOMAIN cut : at(k) \in DOMAIN path /\ cut[k] = path[at(k)]
  BY <1>1, <1>2, <1>3
<1>5. \A k, l \in DOMAIN cut : k < l => at(k) < at(l)
  BY <1>2, <1>3
<1> HIDE DEF at
<1>6. SynsFirst(path) => SynsFirst(cut)
  BY <1>4, <1>5 DEF SynsFirst
<1>7. (OnlySyns(path) => OnlySyns(cut)) /\ (HasSyn(cut) => HasSyn(path)) /\ (HasFin(cut) => HasFin(path))
  BY <1>4 DEF OnlySyns, HasSyn, HasFin
<1> QED
  BY <1>1, <1>6, <1>7 DEF cut

LEMMA JoinIs ==
  ASSUME NEW S, NEW path \in Seq(S), NEW new \in Seq(S)
  PROVE  LET join == path \o new
         IN /\ join \in Seq(S)
            /\ OnlySyns(path) /\ OnlySyns(new) => OnlySyns(join) /\ SynsFirst(join)
            /\ SynsFirst(path) /\ ~HasSyn(new) => SynsFirst(join)
            /\ HasSyn(join) => HasSyn(path) \/ HasSyn(new)
            /\ HasFin(join) => HasFin(path) \/ HasFin(new)
<1> DEFINE join == path \o new
           n == Len(path)
           l == Len(new)
<1>1. /\ join \in Seq(S) /\ n \in Nat /\ l \in Nat /\ DOMAIN join = 1 .. n + l /\ DOMAIN path = 1 .. n
      /\ DOMAIN new = 1 .. l
      /\ \A k \in 1 .. n + l : join[k] = IF k <= n THEN path[k] ELSE new[k - n]
  OBVIOUS
<1> HIDE DEF join, n, l
<1>2. \A k \in DOMAIN join : (k <= n /\ k \in DOMAIN path /\ join[k] = path[k])
                             \/ (k > n /\ k - n \in DOMAIN new /\ join[k] = new[k - n])
  BY <1>1
<1>3. OnlySyns(path) /\ OnlySyns(new) => OnlySyns(join) /\ SynsFirst(join)
  BY <1>2 DEF OnlySyns, SynsFirst
<1>4. SynsFirst(path) /\ ~HasSyn(new) => SynsFirst(join)
  <2> SUFFICES ASSUME SynsFirst(path), ~HasSyn(new), NEW i \in DOMAIN join, NEW j \in DOMAIN join, i < j,
                      join[j].flags = "SYN"
               PROVE  join[i].flags = "SYN"
    BY DEF SynsFirst
  <2>1. j <= n /\ j \in DOMAIN path /\ join[j] = path[j]
    BY <1>2 DEF HasSyn
  <2>2. i \in DOMAIN path /\ join[i] = path[i]
    BY <1>1, <2>1
  <2> QED
    BY <2>1, <2>2 DEF SynsFirst
<1>5. (HasSyn(join) => HasSyn(path) \/ HasSyn(new)) /\ (HasFin(join) => HasFin(path) \/ HasFin(new))
  BY <1>2 DEF HasSyn, HasFin
<1> QED
  BY <1>1, <1>3, <1>4, <1>5 DEF join

LEMMA SynlessHas ==
  /\ \A new \in Seq(Synless) : ~HasSyn(new)
  /\ \A new \in Seq(Finless) : ~HasFin(new)
<1>1. ASSUME NEW new \in Seq(Synless) PROVE ~HasSyn(new)
  <2>1. \A i \in DOMAIN new : new[i] \in Synless
    OBVIOUS
  <2> QED
    BY <2>1 DEF HasSyn, Synless
<1>2. ASSUME NEW new \in Seq(Finless) PROVE ~HasFin(new)
  <2>1. \A i \in DOMAIN new : new[i] \in Finless
    OBVIOUS
  <2> QED
    BY <2>1 DEF HasFin, Finless
<1> QED
  BY <1>1, <1>2

\* A SYN has the highest priority: nothing passes it.
LEMMA SynsDelivered ==
  ASSUME NEW ts \in Seq(ToServer), SynsFirst(ts), NEW i \in Deliverable(ts), HasSyn(ts)
  PROVE  ts[i].flags = "SYN"
<1>1. i \in DOMAIN ts /\ \A j \in 1 .. i - 1 : ts[j].prio > ts[i].prio
  BY DEF Deliverable
<1>2. PICK j \in DOMAIN ts : ts[j].flags = "SYN"
  BY DEF HasSyn
<1>3. ts[j] \in ToServer /\ ts[i] \in ToServer /\ i \in Nat /\ j \in Nat /\ DOMAIN ts = 1 .. Len(ts)
  BY <1>1, <1>2
<1>4. ts[j].prio = 0 /\ ts[i].prio \in Nat
  BY <1>2, <1>3 DEF ToServer, Packets
<1>5. ~(j < i)
  <2>1. ASSUME j < i PROVE FALSE
    <3>1. j \in 1 .. i - 1
      BY <1>2, <1>3, <2>1
    <3> QED
      BY <1>1, <1>4, <3>1
  <2> QED
    BY <2>1
<1>6. CASE i < j
  BY <1>1, <1>2, <1>6 DEF SynsFirst
<1>7. CASE i = j
  BY <1>2, <1>7
<1> QED
  BY <1>3, <1>5, <1>6, <1>7
-----------------------------------------------------------------------------
\* The turns of the two sockets.

LEMMA BecomesIs ==
  ASSUME NEW r, Sound(r)
  PROVE  LET c == Settled([r EXCEPT !.sent = <<>>])
         IN Keeps(r, c, {"cWnd", "ssThresh", "sent"}) /\ c.sent = <<>> /\ Sound(c)
<1> DEFINE t == [r EXCEPT !.sent = <<>>]
           c == Settled(t)
<1>1. Core(r) /\ DOMAIN r = Fields
  BY CoreTypes DEF Sound
<1>2. Keeps(r, t, {"sent"}) /\ t.sent = <<>>
  BY <1>1 DEF Keeps, Fields
<1> HIDE DEF t
<1>3. Keeps(t, c, {"cWnd", "ssThresh"})
  <2>1. DOMAIN t = Fields
    BY <1>2 DEF Keeps
  <2> DEFINE u == [t EXCEPT !.cWnd = MSS, !.ssThresh = MSS]
  <2>2. Keeps(t, u, {"cWnd", "ssThresh"}) /\ Keeps(t, t, {"cWnd", "ssThresh"})
    BY <2>1 DEF Keeps, Fields
  <2>3. c \in {t, u}
    BY DEF Settled
  <2> HIDE DEF u, c
  <2> QED
    BY <2>2, <2>3
<1> HIDE DEF c
<1>4. Keeps(r, c, {"cWnd", "ssThresh", "sent"}) /\ c.sent = <<>>
  BY <1>2, <1>3 DEF Keeps, Fields
<1>5. /\ c.told = r.told /\ c.cnCount = r.cnCount /\ c.endPoint = r.endPoint /\ c.state = r.state /\ c.retx = r.retx
      /\ c.closeNotified = r.closeNotified /\ c.shutdownSend = r.shutdownSend /\ c.asserted = r.asserted
      /\ c.recvCallback = r.recvCallback /\ c.buffer = r.buffer /\ c.sackstack = r.sackstack /\ c.out = r.out
  BY <1>4 DEF Keeps, Fields
<1>6. /\ c.head = r.head /\ c.tail = r.tail /\ c.nextTx = r.nextTx /\ c.highTx = r.highTx
      /\ c.scoreboard = r.scoreboard /\ c.p2_block_bytes_sent = r.p2_block_bytes_sent
  BY <1>4 DEF Keeps, Fields
<1>7. Sender(c)
  BY <1>1, <1>5, <1>6 DEF Sender, Core
<1>8. c.sent \in Seq(SentBefore(c.buffer.next)) /\ DOMAIN c = Fields
  BY <1>4 DEF Keeps
<1>9. Core(c)
  BY <1>1, <1>5, <1>7, <1>8 DEF Core
<1>10. Opening(c)
  BY <1>5, <1>6 DEF Opening, Sound
<1> QED
  BY <1>4, <1>9, <1>10 DEF Sound, c, t

\* What has been sent fits the path to the server.
LEMMA SentToServer ==
  ASSUME NEW n, NEW new \in Seq(SentBefore(n))
  PROVE  new \in Seq(ToServer)
<1>1. SentBefore(n) \subseteq ToServer
  BY DEF SentBefore, ToServer
<1> QED
  BY <1>1

LEMMA ClientTurn ==
  ASSUME NEW c, NEW s, NEW ts, NEW tc, Together(c, s, ts, tc),
         NEW r, Base(c, r), Opening(r), r.state = "SYN_SENT" => r.sent = <<>>
  PROVE  LET n == Settled([r EXCEPT !.sent = <<>>])
         IN Together(n, s, ts \o r.sent, tc) /\ Keeps(r, n, {"cWnd", "ssThresh", "sent"})
<1> DEFINE n == Settled([r EXCEPT !.sent = <<>>])
           new == r.sent
<1>1. Core(r) /\ Sound(r) /\ Core(c) /\ c.sent = <<>> /\ c.tail \in Nat /\ c.shutdownSend \in BOOLEAN
  BY CoreTypes DEF Base, Sound, Together, Client
<1>2. Keeps(r, n, {"cWnd", "ssThresh", "sent"}) /\ n.sent = <<>> /\ Sound(n)
  BY <1>1, BecomesIs
<1> HIDE DEF n
<1>3. n.state = r.state /\ n.tail = r.tail /\ n.shutdownSend = r.shutdownSend
  BY <1>2 DEF Keeps, Fields
<1>4. r.tail \in Nat /\ FlowSize \in Nat
  BY <1>1, CoreTypes, SenderAssumption
<1>5. Client(n)
  BY <1>1, <1>2, <1>3, <1>4 DEF Base, Together, Client
<1>6. new \in Seq(ToServer) /\ ~HasSyn(new)
  <2>1. new \in Seq(SentBefore(r.buffer.next))
    BY <1>1 DEF Core
  <2>2. c.sent \in Seq(Synless)
    BY <1>1
  <2> HIDE DEF new
  <2>3. new \in Seq(Synless)
    BY <2>2 DEF Base, new
  <2> QED
    BY <2>1, <2>3, SentToServer, SynlessHas
<1> HIDE DEF new
<1>7. ts \in Seq(ToServer) /\ SynsFirst(ts)
  BY DEF Together
<1>8. ts \o new \in Seq(ToServer) /\ SynsFirst(ts \o new) /\ (HasSyn(ts \o new) => HasSyn(ts))
  BY <1>6, <1>7, JoinIs
<1>9. r.state = "SYN_SENT" => c.state = "SYN_SENT"
  BY DEF Base
<1>10. n.state = "SYN_SENT" => OnlySyns(ts \o new)
  <2> HAVE n.state = "SYN_SENT"
  <2>1. ts \o new = ts
    BY <1>3, <1>7 DEF new
  <2> QED
    BY <1>3, <1>9, <2>1 DEF Together
<1>11. Early(n, ts \o new) => Unopened(s)
  BY <1>3, <1>8, <1>9 DEF Early, Together
<1>12. Together(n, s, ts \o new, tc)
  BY <1>5, <1>8, <1>10, <1>11 DEF Together
<1> QED
  BY <1>2, <1>12 DEF n, new

\* A SYN sent again.
LEMMA ClientSyn ==
  ASSUME NEW c, NEW s, NEW ts, NEW tc, Together(c, s, ts, tc), c.state = "SYN_SENT",
         NEW r, Sound(r), Keeps(c, r, {"sent", "cnCount"}),
         NEW p \in SentBefore(c.buffer.next), p.flags = "SYN", r.sent = Append(c.sent, p)
  PROVE  LET n == Settled([r EXCEPT !.sent = <<>>])
         IN /\ Together(n, s, ts \o r.sent, tc) /\ Keeps(r, n, {"cWnd", "ssThresh", "sent"})
            /\ HasFin(ts \o r.sent) => HasFin(ts)
<1> DEFINE n == Settled([r EXCEPT !.sent = <<>>])
           new == <<p>>
<1>1. r.sent = new /\ c.sent = <<>>
  BY DEF Together, Client
<1>2. Keeps(r, n, {"cWnd", "ssThresh", "sent"}) /\ n.sent = <<>> /\ Sound(n)
  BY BecomesIs
<1> HIDE DEF n
<1>3. n.state = c.state /\ n.tail = c.tail /\ n.shutdownSend = c.shutdownSend
  BY <1>2 DEF Keeps, Fields
<1>4. Client(n)
  BY <1>2, <1>3 DEF Together, Client
<1>5. new \in Seq(ToServer) /\ OnlySyns(new) /\ ~HasFin(new)
  <2>1. p \in ToServer
    BY DEF SentBefore, ToServer
  <2>2. DOMAIN new = {1} /\ new[1] = p
    OBVIOUS
  <2> QED
    BY <2>1, <2>2 DEF OnlySyns, HasFin
<1> HIDE DEF new
<1>6. ts \in Seq(ToServer) /\ OnlySyns(ts)
  BY DEF Together
<1>7. /\ ts \o new \in Seq(ToServer) /\ OnlySyns(ts \o new) /\ SynsFirst(ts \o new)
      /\ HasFin(ts \o new) => HasFin(ts)
  BY <1>5, <1>6, JoinIs
<1>8. Unopened(s)
  BY DEF Together, Early
<1>9. Together(n, s, ts \o new, tc)
  BY <1>4, <1>7, <1>8 DEF Together
<1> QED
  BY <1>1, <1>2, <1>7, <1>9 DEF n

LEMMA ServerTurn ==
  ASSUME NEW c, NEW s, NEW ts, NEW tc, Together(c, s, ts, tc),
         NEW r, Base(s, r), Opening(r), Early(c, ts) => Unopened(r)
  PROVE  LET n == Settled([r EXCEPT !.sent = <<>>])
         IN Together(c, n, ts, tc \o r.sent) /\ Keeps(r, n, {"cWnd", "ssThresh", "sent"})
<1> DEFINE n == Settled([r EXCEPT !.sent = <<>>])
           new == r.sent
<1>1. Core(r) /\ Sound(r) /\ Core(s) /\ s.sent = <<>> /\ s.state # "SYN_SENT"
  BY DEF Base, Sound, Together, Server
<1>2. Keeps(r, n, {"cWnd", "ssThresh", "sent"}) /\ n.sent = <<>> /\ Sound(n)
  BY <1>1, BecomesIs
<1> HIDE DEF n
<1>3. /\ n.state = r.state /\ n.buffer = r.buffer /\ n.told = r.told
      /\ n.head = r.head /\ n.tail = r.tail /\ n.nextTx = r.nextTx
  BY <1>2 DEF Keeps, Fields
<1>4. Reader(r)
  BY DEF Base, Together, Server
<1>5. Server(n)
  <2>1. n.state # "SYN_SENT"
    BY <1>1, <1>3 DEF Base
  <2>2. Reader(n)
    BY <1>2, <1>3, <1>4 DEF Reader
  <2> QED
    BY <1>2, <2>1, <2>2 DEF Server
<1>6. new \in Seq(ToClient(r.buffer.next))
  <2>1. new \in Seq(SentBefore(r.buffer.next)) /\ new \in Seq(Mute)
    BY <1>1, <1>4 DEF Core, Reader
  <2>2. s.sent \in Seq(Synless)
    BY <1>1
  <2> HIDE DEF new
  <2>3. new \in Seq(Synless)
    BY <2>2 DEF Base, new
  <2>4. \A i \in 1 .. Len(new) : new[i] \in ToClient(r.buffer.next)
    <3>1. \A i \in 1 .. Len(new) : new[i] \in SentBefore(r.buffer.next) /\ new[i] \in Mute /\ new[i] \in Synless
      BY <2>1, <2>3
    <3> QED
      BY <3>1 DEF SentBefore, Mute, Synless, ToClient
  <2>5. Len(new) \in Nat /\ new \in [1 .. Len(new) -> ToClient(r.buffer.next)]
    <3>1. new = [i \in 1 .. Len(new) |-> new[i]] /\ Len(new) \in Nat
      BY <2>1
    <3> QED
      BY <2>4, <3>1
  <2> QED
    BY <2>5, SeqDef
<1>7. tc \in Seq(ToClient(r.buffer.next))
  <2>1. s.buffer.next \in Nat /\ r.buffer.next \in Nat /\ s.buffer.next <= r.buffer.next
    BY <1>1, CoreTypes DEF Base
  <2>2. ToClient(s.buffer.next) \subseteq ToClient(r.buffer.next)
    <3> SUFFICES ASSUME NEW p \in Packets, p.ack <= s.buffer.next
                 PROVE  p.ack <= r.buffer.next
      BY DEF ToClient
    <3>1. p.ack \in Nat
      BY PacketTypes
    <3> QED
      BY <2>1, <3>1
  <2> QED
    BY <2>2 DEF Together
<1>8. tc \o new \in Seq(ToClient(n.buffer.next))
  <2> HIDE DEF new
  <2> QED
    BY <1>3, <1>6, <1>7
<1>9. Early(c, ts) => Unopened(n)
  BY <1>3 DEF Unopened
<1>10. Together(c, n, ts, tc \o new)
  BY <1>5, <1>8, <1>9 DEF Together
<1> QED
  BY <1>2, <1>10 DEF n, new
-----------------------------------------------------------------------------
\* A packet less.

LEMMA TogetherCut ==
  ASSUME NEW c, NEW s, NEW ts, NEW tc, Together(c, s, ts, tc)
  PROVE  /\ \A i \in DOMAIN ts : /\ Together(c, s, RemoveAt(ts, i), tc)
                                 /\ Early(c, RemoveAt(ts, i)) => Early(c, ts)
                                 /\ Patient(c, s, ts) => Patient(c, s, RemoveAt(ts, i))
         /\ \A i \in DOMAIN tc : Together(c, s, ts, RemoveAt(tc, i))
<1>1. ts \in Seq(ToServer) /\ tc \in Seq(ToClient(s.buffer.next))
  BY DEF Together
<1>2. ASSUME NEW i \in DOMAIN ts
      PROVE  /\ Together(c, s, RemoveAt(ts, i), tc)
             /\ Early(c, RemoveAt(ts, i)) => Early(c, ts)
             /\ Patient(c, s, ts) => Patient(c, s, RemoveAt(ts, i))
  <2> DEFINE cut == RemoveAt(ts, i)
  <2>1. /\ cut \in Seq(ToServer) /\ (SynsFirst(ts) => SynsFirst(cut)) /\ (OnlySyns(ts) => OnlySyns(cut))
        /\ (HasSyn(cut) => HasSyn(ts)) /\ (HasFin(cut) => HasFin(ts))
    BY <1>1, CutIs
  <2> HIDE DEF cut
  <2>2. Early(c, cut) => Early(c, ts)
    BY <2>1 DEF Early
  <2>3. Together(c, s, cut, tc)
    BY <2>1, <2>2 DEF Together
  <2>4. Patient(c, s, ts) => Patient(c, s, cut)
    BY <2>1 DEF Patient
  <2> QED
    BY <2>2, <2>3, <2>4 DEF cut
<1>3. ASSUME NEW i \in DOMAIN tc
      PROVE  Together(c, s, ts, RemoveAt(tc, i))
  <2>1. RemoveAt(tc, i) \in Seq(ToClient(s.buffer.next))
    BY <1>1, CutIs
  <2> QED
    BY <2>1 DEF Together
<1> QED
  BY <1>2, <1>3

\* What comes back when no end point takes a packet.
LEMMA NoEndPointIs ==
  ASSUME NEW m \in Packets, NEW next \in Nat \ {0}
  PROVE  /\ NoEndPoint(m) \in Seq(ToServer) /\ NoEndPoint(m) \in Seq(ToClient(next))
         /\ ~HasSyn(NoEndPoint(m)) /\ ~HasFin(NoEndPoint(m))
<1> DEFINE p == [Reset("RST+ACK") EXCEPT !.ack = 1]
           q == Reset("RST")
           new == NoEndPoint(m)
<1>1. p = [flags |-> "RST+ACK", prio |-> 0, seq |-> 0, len |-> 0, ack |-> 1, sack |-> <<>>]
  BY DEF Reset
<1>2. q = [flags |-> "RST", prio |-> 0, seq |-> 0, len |-> 0, ack |-> 0, sack |-> <<>>]
  BY DEF Reset
<1>3. new \in {<<>>, <<p>>, <<q>>}
  BY DEF NoEndPoint
<1> HIDE DEF p, q, new
<1>4. 0 \in 0 .. MSS /\ <<>> \in Seq(Nat \X Nat) /\ 1 <= next /\ 0 <= next
  BY MSSAssumption
<1>5. p \in Packets /\ p.flags = "RST+ACK" /\ p.len = 0 /\ p.ack = 1
  BY <1>1, <1>4 DEF Packets
<1>6. q \in Packets /\ q.flags = "RST" /\ q.len = 0 /\ q.ack = 0
  BY <1>2, <1>4 DEF Packets
<1>7. {p, q} \subseteq ToServer /\ {p, q} \subseteq ToClient(next)
  <2>1. p \in ToServer /\ q \in ToServer
    BY <1>5, <1>6 DEF ToServer
  <2>2. p \in ToClient(next)
    BY <1>4, <1>5 DEF ToClient
  <2>3. q \in ToClient(next)
    BY <1>4, <1>6 DEF ToClient
  <2> QED
    BY <2>1, <2>2, <2>3
<1>8. {p, q} \subseteq Synless /\ {p, q} \subseteq Finless
  BY <1>5, <1>6 DEF Synless, Finless
<1>9. ASSUME NEW A, {p, q} \subseteq A PROVE new \in Seq(A)
  <2>1. p \in A /\ q \in A
    BY <1>9
  <2>2. <<>> \in Seq(A) /\ <<p>> \in Seq(A) /\ <<q>> \in Seq(A)
    BY <2>1
  <2> QED
    BY <1>3, <2>2
<1> QED
  BY <1>7, <1>8, <1>9, SynlessHas DEF new
-----------------------------------------------------------------------------
\* Patience.

LEMMA PatientClient ==
  ASSUME NEW c, NEW s, NEW ts, NEW tc, Together(c, s, ts, tc), Patient(c, s, ts),
         NEW ack \in Nat, ack <= s.buffer.next, NEW r, Leads(c, r, ack),
         c.state = "CLOSED" => r.state = "CLOSED", r.asserted = c.asserted,
         NEW n, Keeps(r, n, {"cWnd", "ssThresh", "sent"})
  PROVE  Patient(n, s, ts \o r.sent)
<1> DEFINE new == r.sent
<1>1. n.state = r.state /\ n.head = r.head /\ n.retx = r.retx /\ n.asserted = r.asserted
  BY DEF Keeps, Fields
<1>2. Modest(c, r, ack)
  BY DEF Leads, Together, Client
<1>3. c.head \in Nat /\ r.head \in Nat /\ s.buffer.next \in Nat
  <2>1. Core(c) /\ Core(r) /\ Core(s)
    BY DEF Leads, Base, Together, Client, Server, Sound
  <2> QED
    BY <2>1, CoreTypes
<1>4. n.state # "CLOSED" => n.head <= s.buffer.next
  BY <1>1, <1>2, <1>3 DEF Modest, Patient, Larger
<1>5. s.buffer.next <= FlowSize => Virgin(n) /\ ~HasFin(ts \o new)
  <2> HAVE s.buffer.next <= FlowSize
  <2>1. Virgin(c) /\ ~HasFin(ts) /\ c.sent \in Seq(Finless)
    BY DEF Patient, Together, Client
  <2>2. Virgin(r) /\ r.sent \in Seq(Finless)
    BY <1>2, <2>1 DEF Modest
  <2>3. Virgin(n)
    BY <1>1, <2>2 DEF Virgin
  <2>4. new \in Seq(ToServer) /\ ~HasFin(new)
    <3>1. new \in Seq(SentBefore(r.buffer.next))
      BY DEF Leads, Base, Core
    <3> QED
      BY <2>2, <3>1, SentToServer, SynlessHas
  <2>5. ts \in Seq(ToServer)
    BY DEF Together
  <2> HIDE DEF new
  <2>6. ~HasFin(ts \o new)
    BY <2>1, <2>4, <2>5, JoinIs
  <2> QED
    BY <2>3, <2>6
<1> HIDE DEF new
<1>6. Patient(n, s, ts \o new)
  BY <1>1, <1>4, <1>5 DEF Patient
<1> QED
  BY <1>6 DEF new

LEMMA PatientServer ==
  ASSUME NEW c, NEW s, NEW ts, NEW tc, Together(c, s, ts, tc), Patient(c, s, ts),
         NEW r, Base(s, r), r.asserted = s.asserted,
         r.buffer.next <= FlowSize /\ s.buffer.fin = 0 /\ ~HasFin(ts) => r.buffer.fin = 0,
         r.state \in {"CLOSE_WAIT", "LAST_ACK"} =>
           s.state \in {"CLOSE_WAIT", "LAST_ACK"} \/ (s.buffer.next < r.buffer.next /\ HasFin(ts)),
         NEW n, Keeps(r, n, {"cWnd", "ssThresh", "sent"})
  PROVE  Patient(c, n, ts)
<1>1. n.state = r.state /\ n.buffer = r.buffer /\ n.asserted = r.asserted
  BY DEF Keeps, Fields
<1>2. Core(s) /\ Core(r) /\ Core(c)
  BY DEF Base, Together, Client, Server, Sound
<1>3. /\ s.buffer.next \in Nat /\ r.buffer.next \in Nat /\ s.buffer.next <= r.buffer.next
      /\ c.head \in Nat /\ FlowSize \in Nat
  BY <1>2, CoreTypes, SenderAssumption DEF Base
<1>4. c.state # "CLOSED" => c.head <= n.buffer.next
  BY <1>1, <1>3 DEF Patient
<1>5. n.buffer.next <= FlowSize => Virgin(c) /\ ~HasFin(ts) /\ n.buffer.fin = 0
  BY <1>1, <1>3 DEF Patient
<1>6. n.state \in {"CLOSE_WAIT", "LAST_ACK"} => n.buffer.next > FlowSize + 1
  <2>1. HasFin(ts) => s.buffer.next >= FlowSize + 1
    BY <1>3 DEF Patient
  <2> QED
    BY <1>1, <1>3, <2>1 DEF Patient
<1> QED
  BY <1>1, <1>4, <1>5, <1>6 DEF Patient

LEMMA PatientSame ==
  ASSUME NEW c, NEW s, NEW ts, Patient(c, s, ts), NEW n, n.state = c.state \/ n.state = "CLOSED",
         n.head = c.head, n.retx # "FIN+ACK" \/ n.retx = c.retx, n.asserted = c.asserted,
         NEW path, HasFin(path) => HasFin(ts)
  PROVE  Patient(n, s, path)
<1>1. Virgin(c) => Virgin(n)
  BY DEF Virgin
<1> QED
  BY <1>1 DEF Patient
-----------------------------------------------------------------------------
\* The actions.

\* A step of each of the two sockets, if the client is patient.
Turned ==
  program.patient =>
    /\ Moves(cli, cli')
    /\ Moves(srv, srv') \/ (srv.state = "CLOSED" /\ srv'.state = "SYN_RCVD")

LEMMA JointIs ==
  ASSUME Together(cli', srv', toS', toC'), program \in Programs, program' = program,
         running' \subseteq {"client", "server"}, listening' \in BOOLEAN,
         program.patient => Patient(cli', srv', toS')
  PROVE  Joint'
BY DEF Joint

LEMMA MovesSame == \A s, r : r.state = s.state => Moves(s, r)
BY DEF Moves

\* A handler at the server.
LEMMA ServerHandles ==
  ASSUME Joint, NEW i \in Deliverable(toS), srv.endPoint, toS' = RemoveAt(toS, i),
         ServerBecomes(DoForwardUp(srv, toS[i]), toC), UNCHANGED <<cli, listening, program, running, losses, counts>>
  PROVE  Joint' /\ Turned
<1> DEFINE m == toS[i]
           cut == RemoveAt(toS, i)
           r == DoForwardUp(srv, m)
           n == Settled([r EXCEPT !.sent = <<>>])
<1>1. srv' = n /\ toC' = toC \o r.sent /\ cli' = cli /\ toS' = cut /\ listening' = listening /\ program' = program
      /\ running' = running
  BY DEF ServerBecomes
<1>2. /\ Together(cli, srv, toS, toC) /\ toS \in Seq(ToServer) /\ i \in DOMAIN toS /\ Sound(srv) /\ Core(srv)
      /\ SynsFirst(toS)
  BY DEF Joint, Together, Server, Sound, Deliverable
<1>3. m \in ToServer /\ m \in Packets
  BY <1>2 DEF ToServer
<1> HIDE DEF m
<1>4. Does(srv, r, m)
  BY <1>2, <1>3, DoForwardUpDoes
<1> HIDE DEF r, n
<1>5. Together(cli, srv, cut, toC) /\ (Early(cli, cut) => Early(cli, toS))
  BY <1>2, TogetherCut
<1>6. HasFin(cut) => HasFin(toS)
  BY <1>2, CutIs
<1> HIDE DEF cut
<1>7. Base(srv, r) /\ Opening(r)
  BY <1>4 DEF Does, Leads
<1>8. Early(cli, cut) => Unopened(r)
  <2> HAVE Early(cli, cut)
  <2>1. Unopened(srv) /\ Early(cli, toS)
    BY <1>2, <1>5 DEF Together
  <2>2. m.flags = "SYN"
    BY <1>2, <2>1, SynsDelivered DEF Early, Together, OnlySyns, m
  <2> QED
    BY <1>4, <2>1, <2>2 DEF Does, Unopened
<1>9. Together(cli, n, cut, toC \o r.sent) /\ Keeps(r, n, {"cWnd", "ssThresh", "sent"})
  BY <1>5, <1>7, <1>8, ServerTurn DEF n
<1>10. n.state = r.state
  BY <1>9 DEF Keeps, Fields
<1>11. program.patient => Patient(cli, n, cut) /\ Moves(srv, n)
  <2> HAVE program.patient
  <2>1. Patient(cli, srv, toS)
    BY DEF Joint
  <2>2. srv.buffer.next \in Nat /\ FlowSize \in Nat \ {0}
    BY <1>2, CoreTypes, SenderAssumption
  <2>3. m.flags = "FIN+ACK" => HasFin(toS)
    BY <1>2 DEF HasFin, m
  <2>4. InTime(srv, m)
    <3>1. NoNews(srv, m)
      <4>1. ASSUME srv.buffer.fin # 0, m.len # 0 PROVE m.seq + m.len <= srv.buffer.next
        <5>1. m.seq \in Nat /\ m.len \in Nat
          BY <1>3, PacketTypes
        <5>2. m.seq + m.len <= FlowSize + 1
          BY <1>3, <4>1, <5>1 DEF ToServer
        <5> QED
          BY <2>1, <2>2, <4>1, <5>1, <5>2 DEF Patient
      <4> QED
        BY <4>1 DEF NoNews
    <3>2. srv.state = "SYN_RCVD" => m.flags # "FIN+ACK"
      <4>1. srv.state = "SYN_RCVD" => srv.buffer.next = 1
        BY <1>2 DEF Sound, Opening, Receiver!EmptyBuffer
      <4> QED
        BY <2>1, <2>2, <2>3, <4>1 DEF Patient
    <3> QED
      BY <3>1, <3>2 DEF InTime
  <2>5. /\ r.asserted = srv.asserted /\ Moves(srv, r)
        /\ r.state \in {"CLOSE_WAIT", "LAST_ACK"} =>
             srv.state \in {"CLOSE_WAIT", "LAST_ACK"} \/ (srv.buffer.next < r.buffer.next /\ HasFin(toS))
        /\ r.buffer.next <= FlowSize /\ srv.buffer.fin = 0 /\ ~HasFin(toS) => r.buffer.fin = 0
    BY <1>4, <2>3, <2>4 DEF Does
  <2>6. Patient(cli, n, toS)
    BY <1>2, <1>7, <1>9, <2>1, <2>5, PatientServer
  <2>7. Patient(cli, n, cut)
    BY <1>6, <2>6, PatientSame
  <2> QED
    BY <1>10, <2>5, <2>7 DEF Moves
<1>12. Joint'
  BY <1>1, <1>9, <1>11, JointIs DEF Joint
<1>13. Turned
  BY <1>1, <1>11, MovesSame DEF Turned
<1> QED
  BY <1>12, <1>13
-----------------------------------------------------------------------------
\* A new socket.

LEMMA SocketIs ==
  ASSUME NEW state
  PROVE  LET k == Socket(state)
         IN /\ DOMAIN k = Fields /\ k.state = state /\ k.cnCount = CnRetries /\ k.endPoint = TRUE
            /\ k.closeNotified = FALSE /\ k.shutdownSend = FALSE /\ k.told = {} /\ k.asserted = TRUE /\ k.sent = <<>>
            /\ k.scoreboard = EmptyBoard /\ k.head = 1 /\ k.tail = 1 /\ k.nextTx = 0 /\ k.highTx = 0
            /\ k.p2_block_bytes_sent = 0 /\ k.retx = Off /\ k.out = <<>>
            /\ k.recvCallback = FALSE /\ k.buffer = Receiver!EmptyBuffer /\ k.sackstack = <<>>
<1> DEFINE a == [cnCount |-> CnRetries, endPoint |-> TRUE, closeNotified |-> FALSE, shutdownSend |-> FALSE,
                 lastAckEvent |-> FALSE, told |-> {}, asserted |-> TRUE, sent |-> <<>>]
           b == [SynSent EXCEPT !.state = state]
           c == Receiver!SynRcvd
           d == Joined(b, c)
           k == Socket(state)
<1>1. /\ DOMAIN a = {"cnCount", "endPoint", "closeNotified", "shutdownSend", "lastAckEvent", "told", "asserted", "sent"}
      /\ a.cnCount = CnRetries /\ a.endPoint = TRUE /\ a.closeNotified = FALSE /\ a.shutdownSend = FALSE
      /\ a.told = {} /\ a.asserted = TRUE /\ a.sent = <<>>
  OBVIOUS
<1>2. /\ DOMAIN b = {"state", "rc3_p2", "scoreboard", "head", "tail", "nextTx", "highTx", "cWnd", "ssThresh", "recover",
                     "inFastRec", "dupAckCount", "bumpedSeq", "p2_block_max", "p2_block_bytes_sent", "last_block_seq",
                     "retx", "out"}
      /\ b.state = state /\ b.scoreboard = EmptyBoard /\ b.head = 1 /\ b.tail = 1 /\ b.nextTx = 0 /\ b.highTx = 0
      /\ b.p2_block_bytes_sent = 0 /\ b.retx = Off /\ b.out = <<>>
  BY DEF SynSent
<1>3. /\ DOMAIN c = {"state", "recvCallback", "buffer", "read", "sackstack", "out"}
      /\ c.recvCallback = FALSE /\ c.buffer = Receiver!EmptyBuffer /\ c.sackstack = <<>>
  BY DEF Receiver!SynRcvd
<1>4. k = Joined(a, d)
  BY DEF Socket
<1> HIDE DEF a, b, c
<1>5. /\ DOMAIN d = {"state", "rc3_p2", "scoreboard", "head", "tail", "nextTx", "highTx", "cWnd", "ssThresh", "recover",
                     "inFastRec", "dupAckCount", "bumpedSeq", "p2_block_max", "p2_block_bytes_sent", "last_block_seq",
                     "retx", "out", "recvCallback", "buffer", "read", "sackstack"}
      /\ \A x \in DOMAIN b : d[x] = b[x]
      /\ \A x \in DOMAIN c \ DOMAIN b : d[x] = c[x]
  <2>1. DOMAIN d = DOMAIN b \cup DOMAIN c
    BY DEF Joined
  <2>2. (\A x \in DOMAIN b : d[x] = b[x]) /\ (\A x \in DOMAIN c \ DOMAIN b : d[x] = c[x])
    BY DEF Joined
  <2> QED
    BY <1>2, <1>3, <2>1, <2>2
<1>6. /\ d.state = state /\ d.scoreboard = EmptyBoard /\ d.head = 1 /\ d.tail = 1 /\ d.nextTx = 0 /\ d.highTx = 0
      /\ d.p2_block_bytes_sent = 0 /\ d.retx = Off /\ d.out = <<>>
      /\ d.recvCallback = FALSE /\ d.buffer = Receiver!EmptyBuffer /\ d.sackstack = <<>>
  BY <1>2, <1>3, <1>5
<1> HIDE DEF d, k
<1>7. /\ DOMAIN k = DOMAIN a \cup DOMAIN d
      /\ (\A x \in DOMAIN a : k[x] = a[x]) /\ (\A x \in DOMAIN d \ DOMAIN a : k[x] = d[x])
  BY <1>4 DEF Joined
<1>8. DOMAIN k = Fields
  BY <1>1, <1>5, <1>7 DEF Fields
<1>9. /\ k.cnCount = CnRetries /\ k.endPoint = TRUE /\ k.closeNotified = FALSE /\ k.shutdownSend = FALSE
      /\ k.told = {} /\ k.asserted = TRUE /\ k.sent = <<>>
  BY <1>1, <1>7
<1>10. /\ k.state = state /\ k.scoreboard = EmptyBoard /\ k.head = 1 /\ k.tail = 1 /\ k.nextTx = 0 /\ k.highTx = 0
       /\ k.p2_block_bytes_sent = 0 /\ k.retx = Off /\ k.out = <<>>
       /\ k.recvCallback = FALSE /\ k.buffer = Receiver!EmptyBuffer /\ k.sackstack = <<>>
  BY <1>1, <1>5, <1>6, <1>7
<1> QED
  BY <1>8, <1>9, <1>10 DEF k

\* A new socket, perhaps with something to send, or without its end point.
LEMMA NewCore ==
  ASSUME NEW state \in States, NEW t, DOMAIN t = Fields, t.state = state, t.cnCount = CnRetries,
         t.endPoint \in BOOLEAN, t.closeNotified = FALSE, t.shutdownSend \in BOOLEAN, t.told = {}, t.asserted = TRUE,
         t.sent = <<>>, t.scoreboard = EmptyBoard, t.head = 1, t.tail \in {1, FlowSize + 1}, t.nextTx = 0, t.highTx = 0,
         t.retx = Off \/ (t.retx = "SYN" /\ t.endPoint /\ state = "SYN_SENT"),
         t.out = <<>>, t.recvCallback = FALSE, t.buffer = Receiver!EmptyBuffer, t.sackstack = <<>>
  PROVE  Core(t)
<1>1. EmptyBoard \in [known : SUBSET Int, acked : SUBSET Int, sacked : SUBSET Int]
  BY DEF EmptyBoard
<1>2. BufOK(t.buffer)
  <2>1. IsFiniteSet({})
    BY FS_EmptySet
  <2> QED
    BY <2>1 DEF BufOK, Receiver!EmptyBuffer
<1>3. Sender(t)
  <2>1. t.tail \in Nat /\ t.head <= t.tail /\ t.tail <= FlowSize + 1
    BY SenderAssumption
  <2>2. t.retx \in Events /\ <<>> \in Seq(Outs(t.state))
    BY DEF Events, Retried
  <2> QED
    BY <1>1, <2>1, <2>2 DEF Sender
<1>4. t.sent \in Seq(SentBefore(t.buffer.next)) /\ t.sackstack \in Seq(Nat \X Nat)
  OBVIOUS
<1>5. CnRetries \in 0 .. CnRetries
  BY CnRetriesAssumption
<1>6. (~t.endPoint \/ t.state \in {"CLOSED", "TIME_WAIT"} => t.retx = Off) /\ (t.retx = "SYN" => t.state = "SYN_SENT")
  BY DEF Off, States
<1> QED
  BY <1>2, <1>3, <1>4, <1>5, <1>6 DEF Core

\* Both sockets before anything has happened.
LEMMA NoSocketIs ==
  Server(NoSocket) /\ Unopened(NoSocket) /\ NoSocket.buffer.next = 1 /\ NoSocket.asserted /\ NoSocket.buffer.fin = 0
  /\ NoSocket.state = "CLOSED"
<1> DEFINE k == Socket("CLOSED")
           t == [k EXCEPT !.endPoint = FALSE]
<1>1. /\ DOMAIN k = Fields /\ k.state = "CLOSED" /\ k.cnCount = CnRetries /\ k.endPoint = TRUE
      /\ k.closeNotified = FALSE /\ k.shutdownSend = FALSE /\ k.told = {} /\ k.asserted = TRUE /\ k.sent = <<>>
      /\ k.scoreboard = EmptyBoard /\ k.head = 1 /\ k.tail = 1 /\ k.nextTx = 0 /\ k.highTx = 0
      /\ k.p2_block_bytes_sent = 0 /\ k.retx = Off /\ k.out = <<>>
      /\ k.recvCallback = FALSE /\ k.buffer = Receiver!EmptyBuffer /\ k.sackstack = <<>>
  BY SocketIs
<1> HIDE DEF k
<1>2. Keeps(k, t, {"endPoint"}) /\ t.endPoint = FALSE
  BY <1>1 DEF Keeps, Fields
<1> HIDE DEF t
<1>3. /\ DOMAIN t = Fields /\ t.state = "CLOSED" /\ t.cnCount = CnRetries
      /\ t.closeNotified = FALSE /\ t.shutdownSend = FALSE /\ t.told = {} /\ t.asserted = TRUE /\ t.sent = <<>>
      /\ t.scoreboard = EmptyBoard /\ t.head = 1 /\ t.tail = 1 /\ t.nextTx = 0 /\ t.highTx = 0
      /\ t.retx = Off /\ t.out = <<>>
      /\ t.recvCallback = FALSE /\ t.buffer = Receiver!EmptyBuffer /\ t.sackstack = <<>>
  BY <1>1, <1>2 DEF Keeps, Fields
<1>4. "CLOSED" \in States
  BY DEF States
<1>5. Core(t)
  BY <1>2, <1>3, <1>4, NewCore
<1>6. Server(t) /\ Unopened(t)
  BY <1>3, <1>5 DEF Server, Sound, Opening, Reader, Unopened
<1>7. t.buffer.next = 1 /\ t.buffer.fin = 0
  BY <1>3 DEF Receiver!EmptyBuffer
<1>8. NoSocket = t
  BY DEF NoSocket, t, k
<1> QED
  BY <1>3, <1>6, <1>7, <1>8

LEMMA InitJoint == Init => Joint
<1> SUFFICES ASSUME Init PROVE Joint
  OBVIOUS
<1> DEFINE k == Socket("SYN_SENT")
           t == [k EXCEPT !.tail = FlowSize + 1]
           s == [t EXCEPT !.retx = "SYN"]
           r == SendEmptyPacket([s EXCEPT !.retx = Off], "SYN")
           e == [r EXCEPT !.sent = <<>>]
           n == Settled(e)
<1>1. /\ DOMAIN k = Fields /\ k.state = "SYN_SENT" /\ k.cnCount = CnRetries /\ k.endPoint = TRUE
      /\ k.closeNotified = FALSE /\ k.shutdownSend = FALSE /\ k.told = {} /\ k.asserted = TRUE /\ k.sent = <<>>
      /\ k.scoreboard = EmptyBoard /\ k.head = 1 /\ k.tail = 1 /\ k.nextTx = 0 /\ k.highTx = 0
      /\ k.p2_block_bytes_sent = 0 /\ k.retx = Off /\ k.out = <<>>
      /\ k.recvCallback = FALSE /\ k.buffer = Receiver!EmptyBuffer /\ k.sackstack = <<>>
  BY SocketIs
<1> HIDE DEF k
<1>2. Keeps(k, t, {"tail"}) /\ t.tail = FlowSize + 1
  BY <1>1 DEF Keeps, Fields
<1>3. Keeps(t, s, {"retx"}) /\ s.retx = "SYN" /\ [s EXCEPT !.retx = Off] = t
  <2>1. DOMAIN t = Fields /\ t.retx = Off
    BY <1>1, <1>2 DEF Keeps, Fields
  <2>2. [s EXCEPT !.retx = Off] = t
    BY <1>1 DEF Fields
  <2> HIDE DEF t
  <2>3. Keeps(t, s, {"retx"}) /\ s.retx = "SYN"
    BY <2>1 DEF Keeps, Fields
  <2> QED
    BY <2>2, <2>3
<1>4. Connected = r
  BY <1>3 DEF Connected, k
<1> HIDE DEF t, s, r
<1>5. /\ DOMAIN s = Fields /\ s.state = "SYN_SENT" /\ s.cnCount = CnRetries /\ s.endPoint = TRUE
      /\ s.closeNotified = FALSE /\ s.shutdownSend = FALSE /\ s.told = {} /\ s.asserted = TRUE /\ s.sent = <<>>
      /\ s.scoreboard = EmptyBoard /\ s.head = 1 /\ s.tail = FlowSize + 1 /\ s.nextTx = 0 /\ s.highTx = 0
      /\ s.p2_block_bytes_sent = 0 /\ s.out = <<>>
      /\ s.recvCallback = FALSE /\ s.buffer = Receiver!EmptyBuffer /\ s.sackstack = <<>>
  BY <1>1, <1>2, <1>3 DEF Keeps, Fields
<1>6. Sound(s)
  <2>1. "SYN_SENT" \in States
    BY DEF States
  <2>2. Core(s)
    BY <1>3, <1>5, <2>1, NewCore
  <2> QED
    BY <1>3, <1>5, <2>2 DEF Sound, Opening
<1>7. Together(s, NoSocket, <<>>, <<>>)
  <2>1. Client(s)
    BY <1>5, <1>6, SenderAssumption DEF Client
  <2>2. SynsFirst(<<>>) /\ OnlySyns(<<>>)
    BY DEF SynsFirst, OnlySyns
  <2> QED
    BY <2>1, <2>2, NoSocketIs DEF Together
<1>8. PICK p \in SentBefore(s.buffer.next) :
        p.flags = "SYN" /\ r.sent = Append(s.sent, p) /\ Keeps(s, r, {"sent", "cnCount"}) /\ Wakes(s, r)
  <2>1. s.cnCount # 0
    BY <1>5, CnRetriesAssumption
  <2> QED
    BY <1>5, <1>6, <2>1, SynIs DEF r
<1>9. Sound(r) /\ DOMAIN r = Fields /\ r.head = 1 /\ r.tail = FlowSize + 1 /\ r.state = "SYN_SENT" /\ r.retx = "SYN"
      /\ r.asserted = TRUE
  BY <1>3, <1>5, <1>8 DEF Wakes, Sound, Keeps, Fields
<1>10. n = e
  <2>1. e.head = r.head /\ e.tail = r.tail
    BY <1>9 DEF Fields
  <2>2. Outstanding(e) > 0
    BY <1>9, <2>1, SenderAssumption DEF Outstanding
  <2> QED
    BY <2>2 DEF Settled
<1>11. /\ Together(n, NoSocket, <<>> \o r.sent, <<>>) /\ Keeps(r, n, {"cWnd", "ssThresh", "sent"})
       /\ HasFin(<<>> \o r.sent) => HasFin(<<>>)
  BY <1>5, <1>7, <1>8, <1>9, ClientSyn
<1>12. <<>> \o r.sent = r.sent
  <2>1. r.sent \in Seq(Packets)
    BY <1>9, CoreTypes DEF Sound
  <2> QED
    BY <2>1
<1> HIDE DEF n
<1>13. n.state = "SYN_SENT" /\ n.head = 1 /\ n.retx = "SYN" /\ n.asserted = TRUE
  BY <1>9, <1>11 DEF Keeps, Fields
<1>14. cli = n /\ srv = NoSocket /\ toS = r.sent /\ toC = <<>> /\ program \in Programs /\ listening = TRUE
       /\ running = {"client", "server"}
  BY <1>4, <1>10 DEF Init
<1>15. ~HasFin(<<>>)
  BY DEF HasFin
<1>16. Patient(cli, srv, toS)
  BY <1>11, <1>12, <1>13, <1>14, <1>15, NoSocketIs DEF Patient, Virgin
<1> QED
  BY <1>11, <1>12, <1>14, <1>16 DEF Joint

\* The socket that the listening one forks, ready to answer the SYN.
LEMMA ForkIs ==
  LET t == [Socket("SYN_RCVD") EXCEPT !.rc3_p2 = FALSE, !.shutdownSend = program.sink]
  IN program \in Programs =>
       Server(t) /\ Unopened(t) /\ t.buffer.next = 1 /\ t.buffer.fin = 0 /\ t.asserted /\ t.state = "SYN_RCVD"
<1> SUFFICES ASSUME program \in Programs
             PROVE  LET t == [Socket("SYN_RCVD") EXCEPT !.rc3_p2 = FALSE, !.shutdownSend = program.sink]
                    IN Server(t) /\ Unopened(t) /\ t.buffer.next = 1 /\ t.buffer.fin = 0 /\ t.asserted
                       /\ t.state = "SYN_RCVD"
  OBVIOUS
<1> DEFINE k == Socket("SYN_RCVD")
           t == [k EXCEPT !.rc3_p2 = FALSE, !.shutdownSend = program.sink]
<1>1. /\ DOMAIN k = Fields /\ k.state = "SYN_RCVD" /\ k.cnCount = CnRetries /\ k.endPoint = TRUE
      /\ k.closeNotified = FALSE /\ k.told = {} /\ k.asserted = TRUE /\ k.sent = <<>>
      /\ k.scoreboard = EmptyBoard /\ k.head = 1 /\ k.tail = 1 /\ k.nextTx = 0 /\ k.highTx = 0
      /\ k.retx = Off /\ k.out = <<>>
      /\ k.recvCallback = FALSE /\ k.buffer = Receiver!EmptyBuffer /\ k.sackstack = <<>>
  BY SocketIs
<1> HIDE DEF k
<1>2. Keeps(k, t, {"rc3_p2", "shutdownSend"}) /\ t.shutdownSend = program.sink
  BY <1>1 DEF Keeps, Fields
<1>3. program.sink \in BOOLEAN
  BY ConnectionAssumption
<1> HIDE DEF t
<1>4. /\ DOMAIN t = Fields /\ t.state = "SYN_RCVD" /\ t.cnCount = CnRetries /\ t.endPoint = TRUE
      /\ t.closeNotified = FALSE /\ t.shutdownSend \in BOOLEAN /\ t.told = {} /\ t.asserted = TRUE /\ t.sent = <<>>
      /\ t.scoreboard = EmptyBoard /\ t.head = 1 /\ t.tail = 1 /\ t.nextTx = 0 /\ t.highTx = 0
      /\ t.retx = Off /\ t.out = <<>>
      /\ t.recvCallback = FALSE /\ t.buffer = Receiver!EmptyBuffer /\ t.sackstack = <<>>
  BY <1>1, <1>2, <1>3 DEF Keeps, Fields
<1>5. "SYN_RCVD" \in States
  BY DEF States
<1>6. Core(t)
  BY <1>4, <1>5, NewCore
<1>7. Server(t) /\ Unopened(t)
  BY <1>4, <1>6 DEF Server, Sound, Opening, Reader, Unopened
<1>8. t.buffer.next = 1 /\ t.buffer.fin = 0
  BY <1>4 DEF Receiver!EmptyBuffer
<1> QED
  BY <1>4, <1>7, <1>8 DEF t, k

\* Nothing but the end point and the timer is touched when a SYN+ACK is sent.
LEMMA SynAckKeeps ==
  ASSUME NEW s, Core(s), s.state = "SYN_RCVD", Opening(s)
  PROVE  LET r == SendEmptyPacket(s, "SYN+ACK")
         IN /\ Leads(s, r, 0) /\ Opening(r) /\ r.state \in {"SYN_RCVD", "CLOSED"} /\ r.buffer = s.buffer
            /\ r.asserted = s.asserted /\ ("created" \in r.told => "created" \in s.told)
<1> DEFINE r == SendEmptyPacket(s, "SYN+ACK")
<1>1. 0 \in Nat /\ s.state \notin {"CLOSED", "TIME_WAIT"}
  OBVIOUS
<1>2. /\ Leads(s, r, 0)
      /\ \/ r.state = "CLOSED" /\ Keeps(s, r, Released)
         \/ Keeps(s, r, {"sent", "retx", "cnCount"})
      /\ r.retx \in {s.retx, Off, "SYN+ACK"} /\ ("created" \in r.told => "created" \in s.told)
  BY <1>1, SynAckIs
<1> HIDE DEF r
<1>3. r.state \in {"SYN_RCVD", "CLOSED"} /\ r.buffer = s.buffer /\ r.asserted = s.asserted
      /\ r.head = s.head /\ r.tail = s.tail /\ r.nextTx = s.nextTx
  BY <1>2 DEF Keeps, Fields, Released
<1>4. Opening(r)
  BY <1>2, <1>3 DEF Opening
<1> QED
  BY <1>2, <1>3, <1>4 DEF r

\* A SYN for the listening socket.
LEMMA ServerForks ==
  ASSUME Joint, NEW i \in Deliverable(toS), toS[i].flags = "SYN", toS' = RemoveAt(toS, i),
         ServerBecomes(Fork, toC), UNCHANGED <<cli, listening, program, running, losses, counts>>
  PROVE  Joint' /\ Turned
<1> DEFINE cut == RemoveAt(toS, i)
           t == [Socket("SYN_RCVD") EXCEPT !.rc3_p2 = FALSE, !.shutdownSend = program.sink]
           r == SendEmptyPacket(t, "SYN+ACK")
           n == Settled([r EXCEPT !.sent = <<>>])
<1>1. srv' = n /\ toC' = toC \o r.sent /\ cli' = cli /\ toS' = cut /\ listening' = listening /\ program' = program
      /\ running' = running
  BY DEF ServerBecomes, Fork
<1>2. /\ Together(cli, srv, toS, toC) /\ toS \in Seq(ToServer) /\ i \in DOMAIN toS
      /\ toC \in Seq(ToClient(srv.buffer.next)) /\ program \in Programs
  BY DEF Joint, Together, Deliverable
<1>3. Unopened(srv)
  BY <1>2 DEF Together, Early, HasSyn
<1>4. Server(t) /\ Unopened(t) /\ t.buffer.next = 1 /\ t.buffer.fin = 0 /\ t.asserted /\ t.state = "SYN_RCVD"
  BY <1>2, ForkIs
<1> HIDE DEF t
<1>5. Together(cli, t, toS, toC)
  <2>1. srv.buffer.next = t.buffer.next
    BY <1>3, <1>4 DEF Unopened
  <2> QED
    BY <1>2, <1>4, <2>1 DEF Together
<1>6. Together(cli, t, cut, toC) /\ (HasFin(cut) => HasFin(toS))
  BY <1>2, <1>5, TogetherCut, CutIs
<1> HIDE DEF cut
<1>7. Core(t) /\ Opening(t)
  BY <1>4 DEF Server, Sound
<1>8. /\ Leads(t, r, 0) /\ Opening(r) /\ r.state \in {"SYN_RCVD", "CLOSED"} /\ r.buffer = t.buffer
      /\ r.asserted = t.asserted /\ ("created" \in r.told => "created" \in t.told)
  BY <1>4, <1>7, SynAckKeeps
<1> HIDE DEF r, n
<1>9. Base(t, r) /\ Unopened(r)
  BY <1>4, <1>8 DEF Leads, Unopened
<1>10. Together(cli, n, cut, toC \o r.sent) /\ Keeps(r, n, {"cWnd", "ssThresh", "sent"})
  BY <1>6, <1>8, <1>9, ServerTurn DEF n
<1>11. program.patient => Patient(cli, n, cut)
  <2> HAVE program.patient
  <2>1. Patient(cli, srv, toS) /\ srv.buffer.next = 1
    BY <1>3 DEF Joint, Unopened, Receiver!EmptyBuffer
  <2>2. Patient(cli, t, toS)
    BY <1>4, <2>1 DEF Patient
  <2>3. Patient(cli, n, toS)
    BY <1>4, <1>5, <1>8, <1>9, <1>10, <2>2, PatientServer
  <2> QED
    BY <1>6, <2>3, PatientSame
<1>12. Joint'
  BY <1>1, <1>10, <1>11, JointIs DEF Joint
<1>13. Turned
  <2>1. n.state \in {"SYN_RCVD", "CLOSED"} /\ srv.state \in {"SYN_RCVD", "CLOSED"}
    BY <1>3, <1>8, <1>10 DEF Keeps, Fields, Unopened
  <2>2. Moves(srv, srv') \/ (srv.state = "CLOSED" /\ srv'.state = "SYN_RCVD")
    BY <1>1, <2>1 DEF Moves
  <2> QED
    BY <1>1, <2>2, MovesSame DEF Turned
<1> QED
  BY <1>12, <1>13

\* Without an end point the packet is dropped or answered with a reset.
LEMMA ServerRefuses ==
  ASSUME Joint, NEW i \in Deliverable(toS), toS' = RemoveAt(toS, i), srv' = srv,
         toC' \in {toC, toC \o NoEndPoint(toS[i])}, UNCHANGED <<cli, listening, program, running, losses, counts>>
  PROVE  Joint' /\ Turned
<1> DEFINE cut == RemoveAt(toS, i)
           new == NoEndPoint(toS[i])
<1>1. /\ Together(cli, srv, toS, toC) /\ toS \in Seq(ToServer) /\ i \in DOMAIN toS
      /\ toC \in Seq(ToClient(srv.buffer.next)) /\ Core(srv)
  BY DEF Joint, Together, Server, Sound, Deliverable
<1>2. Together(cli, srv, cut, toC) /\ (HasFin(cut) => HasFin(toS))
  BY <1>1, TogetherCut, CutIs
<1> HIDE DEF cut
<1>3. new \in Seq(ToClient(srv.buffer.next))
  <2>1. toS[i] \in Packets
    BY <1>1 DEF ToServer
  <2>2. srv.buffer.next \in Nat \ {0}
    BY <1>1, CoreTypes
  <2> QED
    BY <2>1, <2>2, NoEndPointIs
<1> HIDE DEF new
<1>4. toC \o new \in Seq(ToClient(srv.buffer.next))
  BY <1>1, <1>3
<1>5. Together(cli, srv, cut, toC')
  BY <1>2, <1>4 DEF Together, new
<1>6. program.patient => Patient(cli, srv, cut)
  BY <1>2, PatientSame DEF Joint
<1>7. toS' = cut
  BY DEF cut
<1>8. Joint'
  BY <1>5, <1>6, <1>7, JointIs DEF Joint
<1> QED
  BY <1>8, MovesSame DEF Turned

LEMMA ArrivesAtServerJoint == Joint /\ ArrivesAtServer => Joint' /\ Turned
<1> SUFFICES ASSUME Joint, ArrivesAtServer PROVE Joint' /\ Turned
  OBVIOUS
<1>1. PICK i \in Deliverable(toS) :
        /\ toS' = RemoveAt(toS, i)
        /\ CASE srv.endPoint -> ServerBecomes(DoForwardUp(srv, toS[i]), toC)
             [] ~srv.endPoint /\ listening ->
                  IF toS[i].flags = "SYN" THEN ServerBecomes(Fork, toC) ELSE UNCHANGED <<srv, toC>>
             [] OTHER -> toC' = toC \o NoEndPoint(toS[i]) /\ UNCHANGED srv
        /\ UNCHANGED <<cli, listening, program, running, losses, counts>>
  BY DEF ArrivesAtServer
<1>2. \/ srv.endPoint /\ ServerBecomes(DoForwardUp(srv, toS[i]), toC)
      \/ toS[i].flags = "SYN" /\ ServerBecomes(Fork, toC)
      \/ srv' = srv /\ toC' \in {toC, toC \o NoEndPoint(toS[i])}
  BY <1>1
<1>3. CASE srv.endPoint /\ ServerBecomes(DoForwardUp(srv, toS[i]), toC)
  BY <1>1, <1>3, ServerHandles
<1>4. CASE toS[i].flags = "SYN" /\ ServerBecomes(Fork, toC)
  BY <1>1, <1>4, ServerForks
<1>5. CASE srv' = srv /\ toC' \in {toC, toC \o NoEndPoint(toS[i])}
  BY <1>1, <1>5, ServerRefuses
<1> QED
  BY <1>2, <1>3, <1>4, <1>5

\* A handler at the client.
LEMMA ClientHandles ==
  ASSUME Joint, NEW i \in Deliverable(toC), cli.endPoint, toC' = RemoveAt(toC, i),
         ClientBecomes(DoForwardUp(cli, toC[i]), toS), UNCHANGED <<srv, listening, program, running, losses, counts>>
  PROVE  Joint' /\ Turned
<1> DEFINE m == toC[i]
           cut == RemoveAt(toC, i)
           r == DoForwardUp(cli, m)
           n == Settled([r EXCEPT !.sent = <<>>])
<1>1. cli' = n /\ toS' = toS \o r.sent /\ srv' = srv /\ toC' = cut /\ listening' = listening /\ program' = program
      /\ running' = running
  BY DEF ClientBecomes
<1>2. /\ Together(cli, srv, toS, toC) /\ toC \in Seq(ToClient(srv.buffer.next)) /\ i \in DOMAIN toC
      /\ Sound(cli) /\ Core(cli) /\ cli.sent = <<>> /\ cli.state # "SYN_RCVD"
  BY DEF Joint, Together, Client, Sound, Deliverable
<1>3. m \in ToClient(srv.buffer.next) /\ m \in Packets /\ m.len = 0 /\ m.ack <= srv.buffer.next
  <2>1. m \in ToClient(srv.buffer.next)
    BY <1>2
  <2> HIDE DEF m
  <2> QED
    BY <2>1 DEF ToClient
<1> HIDE DEF m
<1>4. Does(cli, r, m)
  BY <1>2, <1>3, DoForwardUpDoes
<1> HIDE DEF r, n
<1>5. Together(cli, srv, toS, cut)
  BY <1>2, TogetherCut
<1> HIDE DEF cut
<1>6. Leads(cli, r, m.ack) /\ Base(cli, r) /\ Opening(r) /\ (r.state = "SYN_SENT" => r.sent = <<>>)
  BY <1>2, <1>4 DEF Does, Leads
<1>7. Together(n, srv, toS \o r.sent, cut) /\ Keeps(r, n, {"cWnd", "ssThresh", "sent"})
  BY <1>5, <1>6, ClientTurn DEF n
<1>8. n.state = r.state
  BY <1>7 DEF Keeps, Fields
<1>9. InTime(cli, m)
  BY <1>2, <1>3 DEF InTime, NoNews
<1>10. r.asserted = cli.asserted /\ Moves(cli, r)
  BY <1>4, <1>9 DEF Does
<1>11. program.patient => Patient(n, srv, toS \o r.sent)
  <2> HAVE program.patient
  <2>1. Patient(cli, srv, toS)
    BY DEF Joint
  <2>2. m.ack \in Nat
    BY <1>3, PacketTypes
  <2>3. cli.state = "CLOSED" => r.state = "CLOSED"
    BY <1>10 DEF Moves, Diagram
  <2> QED
    BY <1>3, <1>5, <1>6, <1>7, <1>10, <2>1, <2>2, <2>3, PatientClient
<1>12. Joint'
  BY <1>1, <1>7, <1>11, JointIs DEF Joint
<1>13. Turned
  <2>1. Moves(cli, n)
    BY <1>8, <1>10 DEF Moves
  <2> QED
    BY <1>1, <2>1, MovesSame DEF Turned
<1> QED
  BY <1>12, <1>13

LEMMA ClientRefuses ==
  ASSUME Joint, NEW i \in Deliverable(toC), ~cli.endPoint, toC' = RemoveAt(toC, i), cli' = cli,
         toS' = toS \o NoEndPoint(toC[i]), UNCHANGED <<srv, listening, program, running, losses, counts>>
  PROVE  Joint' /\ Turned
<1> DEFINE cut == RemoveAt(toC, i)
           new == NoEndPoint(toC[i])
<1>1. /\ Together(cli, srv, toS, toC) /\ toS \in Seq(ToServer) /\ i \in DOMAIN toC /\ SynsFirst(toS)
      /\ toC \in Seq(ToClient(srv.buffer.next)) /\ Core(srv) /\ cli.state # "SYN_SENT"
  BY DEF Joint, Together, Client, Server, Sound, Opening, Deliverable
<1>2. Together(cli, srv, toS, cut)
  BY <1>1, TogetherCut
<1> HIDE DEF cut
<1>3. new \in Seq(ToServer) /\ ~HasSyn(new) /\ ~HasFin(new)
  <2>1. toC[i] \in Packets
    <3>1. toC[i] \in ToClient(srv.buffer.next)
      BY <1>1
    <3> QED
      BY <3>1 DEF ToClient
  <2>2. srv.buffer.next \in Nat \ {0}
    BY <1>1, CoreTypes
  <2> QED
    BY <2>1, <2>2, NoEndPointIs
<1> HIDE DEF new
<1>4. /\ toS \o new \in Seq(ToServer) /\ SynsFirst(toS \o new) /\ (HasSyn(toS \o new) => HasSyn(toS))
      /\ (HasFin(toS \o new) => HasFin(toS))
  BY <1>1, <1>3, JoinIs
<1>5. toS' = toS \o new /\ toC' = cut
  BY DEF cut, new
<1>6. Together(cli, srv, toS', toC')
  BY <1>1, <1>2, <1>4, <1>5 DEF Together, Early
<1>7. program.patient => Patient(cli, srv, toS')
  BY <1>4, <1>5, PatientSame DEF Joint
<1>8. Joint'
  BY <1>6, <1>7, JointIs DEF Joint
<1> QED
  BY <1>8, MovesSame DEF Turned

LEMMA ArrivesAtClientJoint == Joint /\ ArrivesAtClient => Joint' /\ Turned
<1> SUFFICES ASSUME Joint, ArrivesAtClient PROVE Joint' /\ Turned
  OBVIOUS
<1>1. PICK i \in Deliverable(toC) :
        /\ toC' = RemoveAt(toC, i)
        /\ IF cli.endPoint THEN ClientBecomes(DoForwardUp(cli, toC[i]), toS)
           ELSE toS' = toS \o NoEndPoint(toC[i]) /\ UNCHANGED cli
        /\ UNCHANGED <<srv, listening, program, running, losses, counts>>
  BY DEF ArrivesAtClient
<1>2. CASE cli.endPoint
  BY <1>1, <1>2, ClientHandles
<1>3. CASE ~cli.endPoint
  BY <1>1, <1>3, ClientRefuses
<1> QED
  BY <1>2, <1>3

LEMMA LosePacketJoint == Joint /\ LosePacket => Joint' /\ Turned
<1> SUFFICES ASSUME Joint, LosePacket PROVE Joint' /\ Turned
  OBVIOUS
<1>1. Together(cli, srv, toS, toC) /\ (program.patient => Patient(cli, srv, toS))
  BY DEF Joint
<1>2. /\ cli' = cli /\ srv' = srv /\ listening' = listening /\ program' = program /\ running' = running
      /\ \/ \E i \in DOMAIN toS : toS' = RemoveAt(toS, i) /\ toC' = toC
         \/ \E i \in DOMAIN toC : toC' = RemoveAt(toC, i) /\ toS' = toS
  BY DEF LosePacket
<1>3. Together(cli, srv, toS', toC') /\ (program.patient => Patient(cli, srv, toS'))
  BY <1>1, <1>2, TogetherCut
<1>4. Joint'
  BY <1>2, <1>3, JointIs DEF Joint
<1> QED
  BY <1>2, <1>4, MovesSame DEF Turned

LEMMA ClientTimeoutJoint == Joint /\ ClientTimeout => Joint' /\ Turned
<1> SUFFICES ASSUME Joint, ClientTimeout PROVE Joint' /\ Turned
  OBVIOUS
<1> DEFINE r == Expired(cli)
           n == Settled([r EXCEPT !.sent = <<>>])
<1>1. /\ cli' = n /\ toS' = toS \o r.sent /\ srv' = srv /\ toC' = toC /\ listening' = listening /\ program' = program
      /\ running' = running /\ cli.retx # Off
  BY DEF ClientTimeout, ClientBecomes
<1>2. Together(cli, srv, toS, toC) /\ Sound(cli) /\ cli.sent = <<>>
  BY DEF Joint, Together, Client
<1>3. /\ Wakes(cli, r)
      /\ \/ Leads(cli, r, 0) /\ r.state # "SYN_SENT"
         \/ /\ cli.state = "SYN_SENT" /\ Keeps(cli, r, {"sent", "cnCount"})
            /\ \E p \in SentBefore(cli.buffer.next) : p.flags = "SYN" /\ r.sent = Append(cli.sent, p)
  BY <1>1, <1>2, ExpiredIs
<1> HIDE DEF r, n
<1>4. /\ Together(n, srv, toS \o r.sent, toC) /\ Keeps(r, n, {"cWnd", "ssThresh", "sent"})
      /\ program.patient => Patient(n, srv, toS \o r.sent)
  <2>1. CASE Leads(cli, r, 0) /\ r.state # "SYN_SENT"
    <3>1. Base(cli, r) /\ Opening(r) /\ r.asserted = cli.asserted /\ (cli.state = "CLOSED" => r.state = "CLOSED")
      BY <1>3, <2>1 DEF Leads, Wakes
    <3>2. Together(n, srv, toS \o r.sent, toC) /\ Keeps(r, n, {"cWnd", "ssThresh", "sent"})
      BY <1>2, <2>1, <3>1, ClientTurn DEF n
    <3>3. ASSUME program.patient PROVE Patient(n, srv, toS \o r.sent)
      <4>1. Patient(cli, srv, toS) /\ 0 \in Nat /\ 0 <= srv.buffer.next
        BY <1>2, <3>3, CoreTypes DEF Joint, Together, Server, Sound
      <4> QED
        BY <1>2, <2>1, <3>1, <3>2, <4>1, PatientClient
    <3> QED
      BY <3>2, <3>3
  <2>2. CASE /\ cli.state = "SYN_SENT" /\ Keeps(cli, r, {"sent", "cnCount"})
             /\ \E p \in SentBefore(cli.buffer.next) : p.flags = "SYN" /\ r.sent = Append(cli.sent, p)
    <3>1. PICK p \in SentBefore(cli.buffer.next) : p.flags = "SYN" /\ r.sent = Append(cli.sent, p)
      BY <2>2
    <3>2. Sound(r)
      BY <1>3 DEF Wakes, Sound
    <3>3. /\ Together(n, srv, toS \o r.sent, toC) /\ Keeps(r, n, {"cWnd", "ssThresh", "sent"})
          /\ HasFin(toS \o r.sent) => HasFin(toS)
      BY <1>2, <2>2, <3>1, <3>2, ClientSyn DEF n
    <3>4. n.state = cli.state /\ n.head = cli.head /\ n.retx = cli.retx /\ n.asserted = cli.asserted
      BY <2>2, <3>3 DEF Keeps, Fields
    <3>5. program.patient => Patient(n, srv, toS \o r.sent)
      BY <3>3, <3>4, PatientSame DEF Joint
    <3> QED
      BY <3>3, <3>5
  <2> QED
    BY <1>3, <2>1, <2>2
<1>5. Joint'
  BY <1>1, <1>4, JointIs DEF Joint
<1>6. Moves(cli, n)
  BY <1>3, <1>4 DEF Wakes, Keeps, Fields, Moves
<1> QED
  BY <1>1, <1>5, <1>6, MovesSame DEF Turned

\* A timer at the server.
LEMMA ServerWakes ==
  ASSUME Joint, NEW r, Wakes(srv, r), Leads(srv, r, 0), ServerBecomes(r, toC),
         UNCHANGED <<cli, listening, program, running, toS>>
  PROVE  Joint' /\ Turned
<1> DEFINE n == Settled([r EXCEPT !.sent = <<>>])
<1>1. srv' = n /\ toC' = toC \o r.sent
  BY DEF ServerBecomes
<1>2. Together(cli, srv, toS, toC) /\ Base(srv, r) /\ Opening(r)
  BY DEF Joint, Leads, Wakes
<1>3. Early(cli, toS) => Unopened(r)
  BY <1>2 DEF Together, Unopened, Wakes
<1>4. Together(cli, n, toS, toC \o r.sent) /\ Keeps(r, n, {"cWnd", "ssThresh", "sent"})
  BY <1>2, <1>3, ServerTurn
<1> HIDE DEF n
<1>5. program.patient => Patient(cli, n, toS)
  <2> HAVE program.patient
  <2>1. Patient(cli, srv, toS)
    BY DEF Joint
  <2>2. /\ r.asserted = srv.asserted /\ r.buffer = srv.buffer
        /\ r.state \in {"CLOSE_WAIT", "LAST_ACK"} => srv.state \in {"CLOSE_WAIT", "LAST_ACK"}
    BY DEF Wakes
  <2> QED
    BY <1>2, <1>4, <2>1, <2>2, PatientServer
<1>6. Joint'
  BY <1>1, <1>4, <1>5, JointIs DEF Joint
<1>7. Moves(srv, n)
  BY <1>4 DEF Wakes, Keeps, Fields, Moves
<1> QED
  BY <1>1, <1>6, <1>7, MovesSame DEF Turned

LEMMA ServerTimeoutJoint == Joint /\ ServerTimeout => Joint' /\ Turned
<1> SUFFICES ASSUME Joint, ServerTimeout PROVE Joint' /\ Turned
  OBVIOUS
<1>1. /\ \/ srv.retx # Off /\ ServerBecomes(Expired(srv), toC)
         \/ ServerBecomes(LastAckTimeout(srv), toC)
      /\ UNCHANGED <<cli, listening, program, running, toS>>
  BY DEF ServerTimeout
<1>2. Sound(srv) /\ srv.state # "SYN_SENT"
  BY DEF Joint, Together, Server
<1>3. CASE srv.retx # Off /\ ServerBecomes(Expired(srv), toC)
  <2>1. Wakes(srv, Expired(srv)) /\ Leads(srv, Expired(srv), 0)
    BY <1>2, <1>3, ExpiredIs
  <2> QED
    BY <1>1, <1>3, <2>1, ServerWakes
<1>4. CASE ServerBecomes(LastAckTimeout(srv), toC)
  <2>1. Wakes(srv, LastAckTimeout(srv)) /\ Leads(srv, LastAckTimeout(srv), 0)
    BY <1>2, LastAckTimeoutIs
  <2> QED
    BY <1>1, <1>4, <2>1, ServerWakes
<1> QED
  BY <1>1, <1>3, <1>4

LEMMA TimeWaitEndsJoint == Joint /\ TimeWaitEnds => Joint' /\ Turned
<1> SUFFICES ASSUME Joint, TimeWaitEnds PROVE Joint' /\ Turned
  OBVIOUS
<1>1. /\ \/ cli.state = "TIME_WAIT" /\ cli' = CloseAndNotify(cli) /\ srv' = srv
         \/ srv.state = "TIME_WAIT" /\ srv' = CloseAndNotify(srv) /\ cli' = cli
      /\ UNCHANGED <<listening, program, running, toS, toC>>
  BY DEF TimeWaitEnds
<1>2. Together(cli, srv, toS, toC) /\ Client(cli) /\ Server(srv) /\ Core(cli) /\ Core(srv) /\ 0 \in Nat
  BY DEF Joint, Together, Client, Server, Sound
<1>3. CASE cli.state = "TIME_WAIT" /\ cli' = CloseAndNotify(cli) /\ srv' = srv
  <2> DEFINE r == CloseAndNotify(cli)
  <2>1. Keeps(cli, r, Released) /\ Leads(cli, r, 0) /\ r.state = "CLOSED" /\ r.retx = Off
    BY <1>2, CloseAndNotifyIs
  <2> HIDE DEF r
  <2>2. r.sent = cli.sent /\ r.shutdownSend = cli.shutdownSend /\ r.tail = cli.tail /\ r.head = cli.head
        /\ r.asserted = cli.asserted
    BY <2>1 DEF Keeps, Fields, Released
  <2>3. Client(r)
    BY <1>2, <2>1, <2>2 DEF Client, Sound, Leads, Base, Opening
  <2>4. Together(r, srv, toS, toC)
    BY <1>2, <2>1, <2>3 DEF Together, Early
  <2>5. program.patient => Patient(r, srv, toS)
    <3>1. r.retx # "FIN+ACK"
      BY <2>1 DEF Off
    <3> QED
      BY <2>1, <2>2, <3>1, PatientSame DEF Joint
  <2>6. cli' = r
    BY <1>3 DEF r
  <2>7. Joint'
    BY <1>1, <1>3, <2>4, <2>5, <2>6, JointIs DEF Joint
  <2> QED
    BY <1>3, <2>1, <2>6, <2>7, MovesSame DEF Turned, Moves
<1>4. CASE srv.state = "TIME_WAIT" /\ srv' = CloseAndNotify(srv) /\ cli' = cli
  <2> DEFINE r == CloseAndNotify(srv)
  <2>1. Keeps(srv, r, Released) /\ Leads(srv, r, 0) /\ r.state = "CLOSED" /\ r.retx = Off
    BY <1>2, CloseAndNotifyIs
  <2> HIDE DEF r
  <2>2. r.sent = srv.sent /\ r.buffer = srv.buffer /\ r.asserted = srv.asserted
    BY <2>1 DEF Keeps, Fields, Released
  <2>3. Server(r) /\ Base(srv, r)
    BY <1>2, <2>1, <2>2 DEF Server, Sound, Leads, Base, Opening
  <2>4. ~Early(cli, toS)
    BY <1>2, <1>4 DEF Together, Unopened
  <2>5. Together(cli, r, toS, toC)
    BY <1>2, <2>2, <2>3, <2>4 DEF Together
  <2>6. program.patient => Patient(cli, r, toS)
    <3>1. Keeps(r, r, {"cWnd", "ssThresh", "sent"})
      BY <2>1 DEF Keeps
    <3> QED
      BY <1>2, <2>1, <2>2, <2>3, <3>1, PatientServer DEF Joint
  <2>7. srv' = r
    BY <1>4 DEF r
  <2>8. Joint'
    BY <1>1, <1>4, <2>5, <2>6, <2>7, JointIs DEF Joint
  <2> QED
    BY <1>4, <2>1, <2>7, <2>8, MovesSame DEF Turned, Moves
<1> QED
  BY <1>1, <1>3, <1>4

\* Where Close leads from the states of an open socket.
LEMMA AfterCloseIs ==
  ASSUME NEW state \in States
  PROVE  /\ AfterClose(state) # "SYN_SENT" /\ (AfterClose(state) = "SYN_RCVD" => state = "SYN_RCVD")
         /\ state = "CLOSED" => AfterClose(state) = "CLOSED"
         /\ AfterClose(state) \in {state, "CLOSED"} \/ <<state, AfterClose(state)>> \in Diagram
         /\ AfterClose(state) \in {"CLOSE_WAIT", "LAST_ACK"} => state \in {"CLOSE_WAIT", "LAST_ACK"}
<1>1. \/ state = "ESTABLISHED" /\ AfterClose(state) = "FIN_WAIT_1"
      \/ state = "CLOSE_WAIT" /\ AfterClose(state) = "LAST_ACK"
      \/ state \in {"SYN_SENT", "CLOSING", "LAST_ACK"} /\ AfterClose(state) = "CLOSED"
      \/ state \notin {"SYN_SENT", "CLOSING", "LAST_ACK"} /\ AfterClose(state) = state
  BY DEF AfterClose
<1>2. <<"ESTABLISHED", "FIN_WAIT_1">> \in Diagram /\ <<"CLOSE_WAIT", "LAST_ACK">> \in Diagram
  BY DEF Diagram
<1> QED
  BY <1>1, <1>2

LEMMA ClientStopsJoint == Joint /\ ClientStops => Joint' /\ Turned
<1> SUFFICES ASSUME Joint, ClientStops PROVE Joint' /\ Turned
  OBVIOUS
<1> DEFINE r == Close(cli)
           n == Settled([r EXCEPT !.sent = <<>>])
<1>1. /\ cli' = n /\ toS' = toS \o r.sent /\ srv' = srv /\ toC' = toC /\ listening' = listening /\ program' = program
      /\ running' = running \ {"client"}
      /\ program.patient => Outstanding(cli) = 0 \/ cli.state = "CLOSED"
  BY DEF ClientStops, ClientBecomes
<1>2. /\ Together(cli, srv, toS, toC) /\ Sound(cli) /\ Core(cli) /\ Core(srv) /\ cli.sent = <<>>
      /\ cli.state # "SYN_RCVD" /\ FlowSize + 1 <= cli.tail
  BY DEF Joint, Together, Client, Server, Sound
<1>3. /\ Keeps(cli, r, Closed \cup {"head", "tail"}) /\ Base(cli, r) /\ r.state = AfterClose(cli.state)
      /\ cli.head = cli.tail => r.head = cli.head
      /\ cli.state = "CLOSED" /\ cli.sent \in Seq(Finless) => r.sent \in Seq(Finless)
  BY <1>2, CloseIs
<1> HIDE DEF r, n
<1>4. cli.state \in States
  BY <1>2, CoreTypes
<1>5. Opening(r) /\ r.state # "SYN_SENT"
  BY <1>2, <1>3, <1>4, AfterCloseIs DEF Opening
<1>6. Together(n, srv, toS \o r.sent, toC) /\ Keeps(r, n, {"cWnd", "ssThresh", "sent"})
  BY <1>2, <1>3, <1>5, ClientTurn DEF n
<1>7. n.state = r.state /\ n.head = r.head /\ n.retx = r.retx /\ n.asserted = cli.asserted
  <2>1. n.state = r.state /\ n.head = r.head /\ n.retx = r.retx /\ n.asserted = r.asserted
    BY <1>6 DEF Keeps, Fields
  <2>2. r.asserted = cli.asserted
    BY <1>3 DEF Keeps, Fields, Closed
  <2> QED
    BY <2>1, <2>2
<1>8. ASSUME program.patient PROVE Patient(n, srv, toS \o r.sent)
  <2>1. Patient(cli, srv, toS)
    BY <1>8 DEF Joint
  <2>2. CASE cli.state = "CLOSED"
    <3>1. n.state = "CLOSED" /\ n.retx # "FIN+ACK"
      <4>1. r.state = "CLOSED"
        BY <1>3, <1>4, <2>2, AfterCloseIs
      <4>2. r.retx = Off
        BY <1>3, <4>1 DEF Base, Core
      <4> QED
        BY <1>7, <4>1, <4>2 DEF Off
    <3>2. HasFin(toS \o r.sent) => HasFin(toS)
      <4>1. toS \in Seq(ToServer)
        BY <1>2 DEF Together
      <4>2. cli.sent \in Seq(Finless)
        BY <1>2
      <4>3. r.sent \in Seq(Finless)
        BY <1>3, <2>2, <4>2
      <4>4. r.sent \in Seq(ToServer) /\ ~HasFin(r.sent)
        <5>1. r.sent \in Seq(SentBefore(r.buffer.next))
          BY <1>3 DEF Base, Core
        <5> QED
          BY <4>3, <5>1, SentToServer, SynlessHas
      <4> QED
        BY <4>1, <4>4, JoinIs
    <3>3. Virgin(n)
      BY <3>1 DEF Virgin
    <3> QED
      BY <1>7, <2>1, <3>1, <3>2, <3>3 DEF Patient
  <2>3. CASE cli.state # "CLOSED"
    <3>1. cli.head \in Nat /\ cli.tail \in Nat /\ FlowSize \in Nat /\ srv.buffer.next \in Nat
      BY <1>2, CoreTypes, SenderAssumption
    <3>2. cli.head = cli.tail
      BY <1>1, <1>8, <2>3, <3>1 DEF Outstanding
    <3>3. srv.buffer.next > FlowSize
      BY <1>2, <2>1, <2>3, <3>1, <3>2 DEF Patient
    <3>4. n.head = cli.head
      BY <1>3, <1>7, <3>2
    <3> QED
      BY <1>7, <2>1, <2>3, <3>1, <3>3, <3>4 DEF Patient
  <2> QED
    BY <2>2, <2>3
<1>9. running' \subseteq {"client", "server"}
  BY <1>1 DEF Joint
<1>10. Joint'
  BY <1>1, <1>6, <1>8, <1>9, JointIs DEF Joint
<1>11. Moves(cli, n)
  BY <1>3, <1>4, <1>7, AfterCloseIs DEF Moves
<1> QED
  BY <1>1, <1>10, <1>11, MovesSame DEF Turned

LEMMA StopServerJoint == Joint /\ StopServer => Joint' /\ Turned
<1> SUFFICES ASSUME Joint, StopServer PROVE Joint' /\ Turned
  OBVIOUS
<1>1. /\ cli' = cli /\ toS' = toS /\ listening' = FALSE /\ program' = program /\ running' = running \ {"server"}
      /\ IF "created" \in srv.told THEN ServerBecomes(Close(srv), toC) ELSE UNCHANGED <<srv, toC>>
  BY DEF StopServer
<1>2. running' \subseteq {"client", "server"} /\ listening' \in BOOLEAN
  BY <1>1 DEF Joint
<1>3. CASE "created" \notin srv.told
  <2>1. srv' = srv /\ toC' = toC
    BY <1>1, <1>3
  <2>2. Joint'
    BY <1>1, <1>2, <2>1, JointIs DEF Joint
  <2> QED
    BY <1>1, <2>1, <2>2, MovesSame DEF Turned
<1>4. CASE "created" \in srv.told
  <2> DEFINE r == Close(srv)
             n == Settled([r EXCEPT !.sent = <<>>])
  <2>1. srv' = n /\ toC' = toC \o r.sent
    BY <1>1, <1>4 DEF ServerBecomes
  <2>2. Together(cli, srv, toS, toC) /\ Core(srv) /\ srv.state # "SYN_RCVD" /\ ~Early(cli, toS)
    BY <1>4 DEF Joint, Together, Server, Sound, Opening, Unopened
  <2>3. Keeps(srv, r, Closed \cup {"head", "tail"}) /\ Base(srv, r) /\ r.state = AfterClose(srv.state)
    BY <2>2, CloseIs
  <2> HIDE DEF r, n
  <2>4. srv.state \in States
    BY <2>2, CoreTypes
  <2>5. Opening(r)
    BY <2>2, <2>3, <2>4, AfterCloseIs DEF Opening
  <2>6. Together(cli, n, toS, toC \o r.sent) /\ Keeps(r, n, {"cWnd", "ssThresh", "sent"})
    BY <2>2, <2>3, <2>5, ServerTurn DEF n
  <2>7. n.state = r.state
    BY <2>6 DEF Keeps, Fields
  <2>8. program.patient => Patient(cli, n, toS)
    <3> HAVE program.patient
    <3>1. Patient(cli, srv, toS)
      BY DEF Joint
    <3>2. r.asserted = srv.asserted /\ r.buffer = srv.buffer
      BY <2>3 DEF Keeps, Fields, Closed
    <3>3. r.state \in {"CLOSE_WAIT", "LAST_ACK"} => srv.state \in {"CLOSE_WAIT", "LAST_ACK"}
      BY <2>3, <2>4, AfterCloseIs
    <3> QED
      BY <2>2, <2>3, <2>6, <3>1, <3>2, <3>3, PatientServer
  <2>9. Joint'
    BY <1>1, <1>2, <2>1, <2>6, <2>8, JointIs DEF Joint
  <2>10. Moves(srv, n)
    BY <2>3, <2>4, <2>7, AfterCloseIs DEF Moves
  <2> QED
    BY <1>1, <2>1, <2>9, <2>10, MovesSame DEF Turned
<1> QED
  BY <1>3, <1>4
-----------------------------------------------------------------------------
\* The connection.

LEMMA StepJoint == Joint /\ [Next]_vars => Joint' /\ Turned
<1> SUFFICES ASSUME Joint, [Next]_vars PROVE Joint' /\ Turned
  OBVIOUS
<1>1. CASE UNCHANGED vars
  <2>1. Together(cli', srv', toS', toC') /\ (program.patient => Patient(cli', srv', toS'))
    BY <1>1 DEF Joint, vars
  <2>2. Joint'
    BY <1>1, <2>1, JointIs DEF Joint, vars
  <2> QED
    BY <1>1, <2>2, MovesSame DEF Turned, vars
<1> QED
  BY <1>1, ArrivesAtServerJoint, ArrivesAtClientJoint, ClientTimeoutJoint, ServerTimeoutJoint, TimeWaitEndsJoint,
     ClientStopsJoint, StopServerJoint, LosePacketJoint DEF Next

\* The inductive invariant: each socket is one that the handlers can have left,
\* on the paths is only what the two can have sent, a SYN only while the server
\* is not open, and with a patient client the FIN comes after all the data.
THEOREM ConnectionIsJoint == Spec => []Joint
<1>1. Joint /\ [Next]_vars => Joint'
  BY StepJoint
<1> QED
  BY <1>1, InitJoint, PTL DEF Spec

\* States, notices, counters, timers and packets have their types.
THEOREM ConnectionTypes == Spec => []TypeOK
<1>1. Joint => TypeOK
  <2> SUFFICES ASSUME Joint PROVE TypeOK
    OBVIOUS
  <2>1. /\ Core(cli) /\ Core(srv) /\ toS \in Seq(ToServer) /\ toC \in Seq(ToClient(srv.buffer.next))
        /\ running \subseteq {"client", "server"} /\ listening \in BOOLEAN
    BY DEF Joint, Together, Client, Server, Sound
  <2>2. ASSUME NEW s, Core(s)
        PROVE  /\ s.state \in States /\ s.told \subseteq Notices /\ s.cnCount \in 0 .. CnRetries
               /\ s.retx \in {Off, "ReTxTimeout"} \cup Retried
    BY <2>2, CoreTypes DEF Core, Events
  <2>3. ToServer \subseteq Packets /\ ToClient(srv.buffer.next) \subseteq Packets
    BY DEF ToServer, ToClient
  <2>4. toS \in Seq(Packets) /\ toC \in Seq(Packets)
    BY <2>1, <2>3
  <2>5. {cli.state, srv.state} \subseteq States /\ {cli.cnCount, srv.cnCount} \subseteq 0 .. CnRetries
    BY <2>1, <2>2
  <2>6. {cli.retx, srv.retx} \subseteq {Off, "ReTxTimeout"} \cup Retried
    BY <2>1, <2>2
  <2>7. cli.told \cup srv.told \subseteq Notices
    BY <2>1, <2>2
  <2> QED
    BY <2>1, <2>4, <2>5, <2>6, <2>7 DEF TypeOK
<1> QED
  BY <1>1, ConnectionIsJoint, PTL

\* However SYN, SYN+ACK and their retransmissions cross, the server is open only
\* if the client has heard of it.
THEOREM ServerOpensLast == Spec => []NoHalfOpen
<1>1. Joint => NoHalfOpen
  BY DEF Joint, Together, Early, Unopened, NoHalfOpen
<1> QED
  BY <1>1, ConnectionIsJoint, PTL

\* No handler leaves the retransmission timer on in a socket that has no end
\* point, is closed or is in TIME_WAIT.
THEOREM ReleasedIsQuiet == Spec => []Quiet
<1>1. Joint => Quiet
  <2> SUFFICES ASSUME Joint, NEW s \in {cli, srv}, ~s.endPoint \/ s.state \in {"CLOSED", "TIME_WAIT"}
               PROVE  s.retx = Off
    BY DEF Quiet
  <2>1. Core(s)
    BY DEF Joint, Together, Client, Server, Sound
  <2> QED
    BY <2>1 DEF Core
<1> QED
  BY <1>1, ConnectionIsJoint, PTL

\* With a patient client both sockets follow the state diagram, whatever is
\* lost, overtaken or sent again.
THEOREM SocketsFollowDiagram == Spec => FollowsDiagram
<1>1. Turned =>
        (program.patient =>
           /\ \/ cli'.state \in {cli.state, "CLOSED"}
              \/ <<cli.state, cli'.state>> \in Diagram
           /\ \/ srv'.state \in {srv.state, "CLOSED"}
              \/ <<srv.state, srv'.state>> \in Diagram
              \/ srv.state = "CLOSED" /\ srv'.state = "SYN_RCVD")
  BY DEF Turned, Moves
<1>2. Joint /\ [Next]_vars =>
        [program.patient =>
           /\ \/ cli'.state \in {cli.state, "CLOSED"}
              \/ <<cli.state, cli'.state>> \in Diagram
           /\ \/ srv'.state \in {srv.state, "CLOSED"}
              \/ <<srv.state, srv'.state>> \in Diagram
              \/ srv.state = "CLOSED" /\ srv'.state = "SYN_RCVD"]_vars
  BY <1>1, StepJoint
<1> QED
  BY <1>2, ConnectionIsJoint, PTL DEF Spec, FollowsDiagram

\* What a client loses that stops while data is outstanding, see AllBeforeClose
\* and PeerClosesOnce, a client that waits for the acknowledgements does not:
\* the server takes the connection for closed with all the data, and once.
THEOREM PatientLosesNothing == Spec => [](program.patient => AllBeforeClose /\ PeerClosesOnce)
<1>1. Joint => (program.patient => AllBeforeClose /\ PeerClosesOnce)
  BY DEF Joint, Patient, AllBeforeClose, PeerClosesOnce
<1> QED
  BY <1>1, ConnectionIsJoint, PTL
===============================================================================
