------------------------------ MODULE RC3Sender ------------------------------
(***************************************************************************)
(* The sending half of ns3::TcpRC3Sack (tcp-rc3-sack.cc and what it calls  *)
(* of TcpSocketBase): every handler is an operator that maps the state s   *)
(* of the socket to its next state, with the segments it hands to the IP   *)
(* layer appended to s.out.                                                *)
(*                                                                         *)
(* As the driver configures it: LimitedWindow and LimitedTransmit off, no  *)
(* Nagle, receive window never a limit.  Sequence numbers do not wrap; the *)
(* windows are uint32_t, whose range is WordSize.                          *)
(***************************************************************************)
EXTENDS ScoreBoard, Ranking, Sequences, SequencesExt

CONSTANTS FlowSize,      \* m_flowsize, the bytes of the flow
          InitialCwnd,   \* m_initialCWnd, in segments
          InitialSsThresh,
          RetxThresh,    \* m_retxThresh, duplicate ACKs before a retransmission
          UseP2,         \* rc3_p2: send at low priority too
          RC3Once,       \* m_rc3Once: only when the connection opens
          FlushOut,      \* m_flushOut
          FirstLevel,    \* 10 * m_prioritySlots, the segments of level 1
          WordSize       \* 2^32, cut down to what TLC can count to

ASSUME SenderAssumption ==
  /\ FlowSize \in Nat \ {0} /\ InitialCwnd \in Nat \ {0} /\ RetxThresh \in Nat \ {0}
  /\ FirstLevel \in Nat \ {0} /\ WordSize \in Nat \ {0}
  /\ InitialSsThresh \in 0 .. WordSize - 1
  /\ {UseP2, RC3Once, FlushOut} \subseteq BOOLEAN

Larger(a, b)  == IF a >= b THEN a ELSE b
Smaller(a, b) == IF a <= b THEN a ELSE b

\* A segment on its way to the receiver.  Priority 0 carries the ACK flag;
\* a low-priority segment has no flags at all.
Segment(prio, seq, len) ==
  [flags |-> IF prio = 0 THEN "ACK" ELSE "", prio |-> prio, seq |-> seq, len |-> len]

\* m_retxEvent: not pending, pending with ReTxTimeout, or pending with
\* SendEmptyPacket of some flags.
Off == "off"
Schedule(event, what) == IF event = Off THEN what ELSE event

SynSent ==
  [state |-> "SYN_SENT", rc3_p2 |-> UseP2, scoreboard |-> EmptyBoard,
   head |-> 1, tail |-> 1, nextTx |-> 0, highTx |-> 0,
   cWnd |-> InitialCwnd * MSS, ssThresh |-> InitialSsThresh,
   recover |-> 0, inFastRec |-> FALSE, dupAckCount |-> 0, bumpedSeq |-> 0,
   p2_block_max |-> 0, p2_block_bytes_sent |-> 0, last_block_seq |-> 0,
   retx |-> Off, out |-> <<>>]

Outstanding(s)   == s.tail - s.head          \* m_txBuffer.Size ()
Length(s, seq)   == Smaller(MSS, s.tail - seq)
BytesInFlight(s) == (s.highTx - s.head) % WordSize
HalfFlight(s)    == Larger(2 * MSS, BytesInFlight(s) \div 2)

\* AvailableWindow when m_nextTxSequence is next.
AvailableWindow(s, next) ==
  LET unack == (next - s.head) % WordSize IN IF s.cWnd < unack THEN 0 ELSE s.cWnd - unack

\* Mutant: m_retxEvent is never scheduled when data goes out.
SendDataPacketsNoTimer(s, seqs) ==
  LET ends == {t + Length(s, t) : t \in Range(seqs)}
  IN [s EXCEPT !.highTx = Max(ends \cup {@}),
               !.out    = @ \o [i \in DOMAIN seqs |-> Segment(0, seqs[i], Length(s, seqs[i]))]]

SendDataPackets(s, seqs) ==
  LET ends == {t + Length(s, t) : t \in Range(seqs)}
  IN [s EXCEPT !.highTx = Max(ends \cup {@}),
               !.retx   = Schedule(@, "ReTxTimeout"),
               !.out    = @ \o [i \in DOMAIN seqs |-> Segment(0, seqs[i], Length(s, seqs[i]))]]

\* Unmarked segments are sent in order for as long as the window takes them.
\* The first is charged from m_nextTxSequence, the later ones from themselves.
Fits(s, seq, room) == room > 0 /\ (room >= MSS \/ s.tail - seq <= room)

WindowTakes(s, open) ==
  {t \in open : \A u \in {v \in open : v <= t} :
                  Fits(s, u, AvailableWindow(s, IF u = Min(open) THEN s.nextTx ELSE u))}

\* Mutant: the answer 0, "there is none", is taken for a sequence number.
AdvanceAnyway(s, next) == [s EXCEPT !.nextTx = next]

Advance(s, next) == [s EXCEPT !.nextTx = IF next > 0 THEN next ELSE @]

SendSegments(s, seqs) ==
  IF seqs = <<>> THEN s
  ELSE LET after == Last(seqs) + Length(s, Last(seqs))
       IN Advance([SendDataPackets(s, seqs) EXCEPT !.nextTx = after], GetNextAggSegment(s.scoreboard, after))

\* Mutant: the end of the buffer is not looked at.
SendPendingDataBeyond(s) == SendSegments(s, Ascending(WindowTakes(s, Unmarked(s.scoreboard, s.nextTx))))

SendPendingData(s) ==
  SendSegments(s, Ascending(WindowTakes(s, {t \in Unmarked(s.scoreboard, s.nextTx) : t < s.tail})))

\* The priority of the segment that is the n-th from the end of the buffer:
\* each level holds ten times as many as the one before.
Level(n) == 1 + Cardinality({p \in 1 .. n : n > FirstLevel * ((10^p - 1) \div 9)})

\* Mutant: the loop does not stop at the block that was sent before.
StartRLPLoopAgain(s) ==
  LET n       == Outstanding(s) \div MSS
      seq(k)  == s.tail - s.p2_block_bytes_sent - k * MSS
      m       == Cardinality({k \in 1 .. n : \A j \in 1 .. k : seq(j) + MSS > s.nextTx})
      low     == [k \in 1 .. m |-> Segment(Level((s.tail - seq(k)) \div MSS), seq(k), MSS)]
  IN IF s.state /= "ESTABLISHED" \/ ~s.rc3_p2 \/ n = 0 THEN s
     ELSE [s EXCEPT !.p2_block_max        = s.tail,
                    !.p2_block_bytes_sent = IF m < n THEN 0 ELSE @ + n * MSS,
                    !.last_block_seq      = IF m < n THEN s.tail ELSE @,
                    !.out                 = @ \o low]

\* Mutant: p2_block_bytes_sent is not reset.
StartRLPLoopKeeps(s) ==
  LET n       == Outstanding(s) \div MSS
      seq(k)  == s.tail - s.p2_block_bytes_sent - k * MSS
      goes(k) == seq(k) + MSS > s.nextTx /\ seq(k) >= s.last_block_seq
      m       == Cardinality({k \in 1 .. n : \A j \in 1 .. k : goes(j)})
      low     == [k \in 1 .. m |-> Segment(Level((s.tail - seq(k)) \div MSS), seq(k), MSS)]
  IN IF s.state /= "ESTABLISHED" \/ ~s.rc3_p2 \/ n = 0 THEN s
     ELSE [s EXCEPT !.p2_block_max        = s.tail,
                    !.p2_block_bytes_sent = @ + m * MSS,
                    !.last_block_seq      = IF m < n THEN s.tail ELSE @,
                    !.out                 = @ \o low]

\* The low-priority copies go out from the end of the buffer backwards until
\* they meet m_nextTxSequence or the block that was sent before.
StartRLPLoop(s) ==
  LET n       == Outstanding(s) \div MSS
      seq(k)  == s.tail - s.p2_block_bytes_sent - k * MSS
      goes(k) == seq(k) + MSS > s.nextTx /\ seq(k) >= s.last_block_seq
      m       == Cardinality({k \in 1 .. n : \A j \in 1 .. k : goes(j)})
      low     == [k \in 1 .. m |-> Segment(Level((s.tail - seq(k)) \div MSS), seq(k), MSS)]
  IN IF s.state /= "ESTABLISHED" \/ ~s.rc3_p2 \/ n = 0 THEN s
     ELSE [s EXCEPT !.p2_block_max        = s.tail,
                    !.p2_block_bytes_sent = IF m < n THEN 0 ELSE @ + n * MSS,
                    !.last_block_seq      = IF m < n THEN s.tail ELSE @,
                    !.out                 = @ \o low]

Send(s, size) ==
  LET stored == [s EXCEPT !.tail = @ + size]
      sent   == SendPendingData(stored)
  IN IF s.state = "SYN_SENT" THEN stored
     ELSE IF RC3Once THEN sent ELSE StartRLPLoop(sent)

\* The SYN+ACK arrives.
ProcessSynSent(s) ==
  LET open == [s EXCEPT !.state      = "ESTABLISHED",
                        !.scoreboard = CreateScoreBoard(@, FlowSize),
                        !.nextTx     = @ + 1,
                        !.highTx     = s.nextTx + 1,
                        !.head       = s.nextTx + 1,
                        !.out        = @ \o <<Segment(0, s.nextTx + 1, 0)>>]
  IN StartRLPLoop(SendPendingData(open))

\* Nothing but a FIN can be lost when the buffer is empty.
Finishing == {"FIN_WAIT_1", "CLOSING"}

ResendFin(s) ==
  [s EXCEPT !.retx = Schedule(@, "FIN+ACK"),
            !.out  = Append(@, [Segment(0, s.nextTx, 0) EXCEPT !.flags = "FIN+ACK"])]

DoRetransmit(s) ==
  IF Outstanding(s) = 0 THEN IF s.state \in Finishing THEN ResendFin(s) ELSE s
  ELSE [SendDataPackets(s, <<s.head>>) EXCEPT !.nextTx = Larger(@, s.head + Length(s, s.head))]

\* TcpTxBuffer::DiscardUpTo.  The acknowledgement of a FIN is beyond the tail.
DiscardUpTo(s, ack) == [s EXCEPT !.head = Larger(@, ack), !.tail = Larger(@, ack)]

\* TcpSocketBase::NewAck: free what is acknowledged, restart the timer.
BaseNewAck(s, ack) ==
  LET freed == [DiscardUpTo(s, ack) EXCEPT !.nextTx = Larger(@, ack)]
      owed  == Outstanding(freed) > 0 \/ s.state \in Finishing
  IN SendPendingData([freed EXCEPT !.retx = IF owed THEN "ReTxTimeout" ELSE Off])

\* TcpRC3Sack::NewAck on top of it: the congestion window.
Grown(s) ==
  [s EXCEPT !.cWnd = IF @ < s.ssThresh THEN (@ + MSS) % WordSize
                     ELSE (@ + Larger(1, (MSS * MSS) \div @)) % WordSize]

\* Mutant: a full ACK restores the window but forgets m_inFastRec.
RecoveredStays(s) ==
  IF s.inFastRec
  THEN [s EXCEPT !.cWnd = Smaller(s.ssThresh, (BytesInFlight(s) + MSS) % WordSize)]
  ELSE s

Recovered(s) ==
  IF s.inFastRec
  THEN [s EXCEPT !.cWnd = Smaller(s.ssThresh, (BytesInFlight(s) + MSS) % WordSize), !.inFastRec = FALSE]
  ELSE s

NewAck(s, ack) ==
  IF s.inFastRec /\ ack < s.recover
  THEN DoRetransmit(BaseNewAck([s EXCEPT !.cWnd = (@ - (ack - s.head) + MSS) % WordSize], ack))
  ELSE BaseNewAck(Grown(Recovered(s)), ack)

DupAck(s0) ==
  LET s == [s0 EXCEPT !.dupAckCount = @ + 1]
  IN IF s.dupAckCount = RetxThresh /\ ~s.inFastRec
     THEN DoRetransmit([s EXCEPT !.ssThresh  = HalfFlight(s),
                                 !.cWnd      = HalfFlight(s) + 3 * MSS,
                                 !.recover   = s.highTx,
                                 !.inFastRec = TRUE])
     ELSE IF s.inFastRec THEN SendPendingData([s EXCEPT !.cWnd = (@ + MSS) % WordSize])
     ELSE s

Bumped(s, ack) ==
  [s EXCEPT !.bumpedSeq = ack, !.nextTx = ack, !.highTx = Larger(@, ack)]

\* Mutant: any ACK flushes the device, not only one of the whole block.
FlushesOnAnyAck(s, m) ==
  FlushOut /\ s.rc3_p2 /\ m.prio = 0 /\ m.ack /= s.bumpedSeq

\* The low-priority segments that are still queued at the device go.
Flushes(s, m) ==
  FlushOut /\ s.rc3_p2 /\ m.prio = 0 /\ m.ack >= s.p2_block_max /\ m.ack /= s.bumpedSeq

\* Case 2 of ReceivedAck, an acknowledgement of what is acknowledged already.
AckBeyondNext(s, ack) == IF ack > s.nextTx /\ s.nextTx /= 0 THEN NewAck(Bumped(s, ack), ack) ELSE s

SameAck(s, ack) ==
  IF s.rc3_p2 /\ ack = s.bumpedSeq
  THEN NewAck([s EXCEPT !.highTx = Larger(@, s.nextTx)], ack)
  ELSE AckBeyondNext(IF ack < s.nextTx THEN DupAck(s) ELSE s, ack)

ReceivedAck(s0, m) ==
  LET s == [s0 EXCEPT !.scoreboard = UpdateScoreBoard(@, m.ack, m.sack)]
  IN IF m.prio > 0 \/ m.ack < s.head THEN s
     ELSE IF m.ack = s.head THEN SameAck(s, m.ack)
     ELSE IF s.nextTx = 0 THEN s
     ELSE [NewAck(IF m.ack > s.nextTx THEN Bumped(s, m.ack) ELSE s, m.ack) EXCEPT !.dupAckCount = 0]

\* Mutant: a timeout halves the window, as a fast retransmission does.
ReTxTimeoutHalves(s0) ==
  LET s == [s0 EXCEPT !.retx = Off]
  IN IF s.state = "ESTABLISHED" /\ s.head >= s.highTx THEN s
     ELSE DoRetransmit([s EXCEPT !.inFastRec  = FALSE,
                                 !.scoreboard = ClearScoreBoard(@),
                                 !.ssThresh   = HalfFlight(s),
                                 !.cWnd       = @ \div 2,
                                 !.nextTx     = s.head])

\* The timer expires: ReTxTimeout and, when something is in flight, Retransmit.
ReTxTimeout(s0) ==
  LET s == [s0 EXCEPT !.retx = Off]
  IN IF s.state = "ESTABLISHED" /\ s.head >= s.highTx THEN s
     ELSE DoRetransmit([s EXCEPT !.inFastRec  = FALSE,
                                 !.scoreboard = ClearScoreBoard(@),
                                 !.ssThresh   = HalfFlight(s),
                                 !.cWnd       = MSS,
                                 !.nextTx     = s.head])
=============================================================================
