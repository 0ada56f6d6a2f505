------------------------------- MODULE RC3Flow -------------------------------
(***************************************************************************)
(* One RC3 flow: a sender, a receiver and the paths between them.  Any     *)
(* segment may be lost, MaxLosses of them in a behaviour.                  *)
(***************************************************************************)
EXTENDS RC3Sender, Path

CONSTANTS Writes,          \* the sizes the application passes to Send, in order
          MaxLosses,       \* bound on lost segments and ACKs
          MaxEarlyTimeouts \* bound on timeouts while something is on a path

ASSUME WritesAssumption == Writes \in Seq(Nat \ {0})

\* The application writes whole segments, as the driver's flow sizes make it.
Segmented == \A i \in DOMAIN Writes : Writes[i] % MSS = 0

\* What the application writes adds up to no more than the flow.
WritesFit ==
  \E total \in [0 .. Len(Writes) -> 0 .. FlowSize] :
    total[0] = 0 /\ \A i \in DOMAIN Writes : total[i] = total[i - 1] + Writes[i]

\* The word that counts the window holds the flow and the window to start with.
WordLarge == FlowSize + 6 * MSS < WordSize /\ InitialCwnd * MSS < WordSize

Receiver == INSTANCE RC3Receiver

VARIABLES snd, rcv,        \* the two sockets
          toR, toS,        \* the paths to the receiver and back
          toWrite,         \* what the application has still to send
          losses, early,   \* how many so far
          lowSent          \* history: the low-priority segments ever sent, in order

vars == <<snd, rcv, toR, toS, toWrite, losses, early, lowSent>>

\* The receiver has answered the SYN, and that answer is not lost here.
SynAck == [prio |-> 0, ack |-> 1, sack |-> <<>>]

Init ==
  /\ snd = SynSent
  /\ rcv = Receiver!SynRcvd
  /\ toR = <<>> /\ toS = <<SynAck>>
  /\ toWrite = Writes
  /\ losses = 0 /\ early = 0
  /\ lowSent = <<>>

LowPriority(segments) == Chosen(segments, {i \in DOMAIN segments : segments[i].prio > 0})

\* The sender becomes s; what it sent joins the path after the segments in rest.
SenderBecomes(s, rest) ==
  /\ snd' = [s EXCEPT !.out = <<>>]
  /\ toR' = rest \o s.out
  /\ lowSent' = lowSent \o LowPriority(s.out)

AppSend ==
  /\ toWrite /= <<>>
  /\ toWrite' = Tail(toWrite)
  /\ SenderBecomes(Send(snd, Head(toWrite)), toR)
  /\ UNCHANGED <<rcv, toS, losses, early>>

SynAckArrives ==
  /\ snd.state = "SYN_SENT"
  /\ toS = <<SynAck>> /\ toS' = <<>>
  /\ SenderBecomes(ProcessSynSent(snd), toR)
  /\ UNCHANGED <<rcv, toWrite, losses, early>>

SegmentArrives ==
  \E i \in Deliverable(toR) :
    LET r == Receiver!DoForwardUp(rcv, toR[i])
    IN /\ rcv' = [r EXCEPT !.out = <<>>]
       /\ toR' = RemoveAt(toR, i)
       /\ toS' = toS \o r.out
       /\ UNCHANGED <<snd, toWrite, losses, early, lowSent>>

AckArrives ==
  /\ snd.state /= "SYN_SENT"
  /\ \E i \in Deliverable(toS) :
       /\ toS' = RemoveAt(toS, i)
       /\ IF Flushes(snd, toS[i])
          THEN \E F \in Flushable(toR) : SenderBecomes(ReceivedAck(snd, toS[i]), Keep(toR, F))
          ELSE SenderBecomes(ReceivedAck(snd, toS[i]), toR)
  /\ UNCHANGED <<rcv, toWrite, losses, early>>

Timeout ==
  /\ snd.retx /= Off
  /\ IF toR = <<>> /\ toS = <<>> THEN UNCHANGED early
     ELSE early < MaxEarlyTimeouts /\ early' = early + 1
  /\ SenderBecomes(ReTxTimeout(snd), toR)
  /\ UNCHANGED <<rcv, toS, toWrite, losses>>

LoseSegment ==
  /\ losses < MaxLosses
  /\ losses' = losses + 1
  /\ \E i \in DOMAIN toR : toR' = RemoveAt(toR, i)
  /\ UNCHANGED <<snd, rcv, toS, toWrite, early, lowSent>>

LoseAck ==
  /\ snd.state /= "SYN_SENT"
  /\ losses < MaxLosses
  /\ losses' = losses + 1
  /\ \E i \in DOMAIN toS : toS' = RemoveAt(toS, i)
  /\ UNCHANGED <<snd, rcv, toR, toWrite, early, lowSent>>

Next ==
  \/ AppSend
  \/ SynAckArrives
  \/ SegmentArrives
  \/ AckArrives
  \/ Timeout
  \/ LoseSegment
  \/ LoseAck

Spec == Init /\ [][Next]_vars

\* The application keeps its promise to write, the simulator runs every event
\* that is scheduled, and a path that holds something passes on what is next
\* on it.  A timeout is not owed while something is on a path.  What an arrival
\* does to the sockets follows from Next: the paths' fairness need not say it
\* (LoseSegment and LoseAck take a segment off a path too; there are MaxLosses).
Idle == toR = <<>> /\ toS = <<>>

Fairness ==
  /\ WF_toWrite(toWrite /= <<>> /\ toWrite' = Tail(toWrite))
  /\ WF_toR(\E i \in Deliverable(toR) : toR' = RemoveAt(toR, i))
  /\ WF_toS(\E i \in Deliverable(toS) : toS' = RemoveAt(toS, i))
  /\ WF_vars(Idle /\ Timeout)

FairSpec == Spec /\ Fairness
-----------------------------------------------------------------------------
Segments == [flags : {"ACK", ""}, prio : Nat, seq : Nat, len : 0 .. MSS]
Blocks   == Seq(Nat \X Nat)

TypeOK ==
  /\ snd.state \in {"SYN_SENT", "ESTABLISHED"}
  /\ snd.scoreboard \in Board
  /\ {snd.cWnd, snd.ssThresh} \subseteq 0 .. WordSize - 1
  /\ 1 <= snd.head /\ snd.head <= snd.tail /\ snd.tail <= FlowSize + 1
  /\ {snd.nextTx, snd.highTx, snd.recover, snd.bumpedSeq, snd.p2_block_max} \subseteq 0 .. FlowSize + 1
  /\ snd.inFastRec \in BOOLEAN
  /\ snd.retx \in {Off, "ReTxTimeout"}
  /\ rcv.state \in {"SYN_RCVD", "ESTABLISHED"}
  /\ 1 <= rcv.read /\ rcv.read <= rcv.buffer.next /\ rcv.buffer.next <= FlowSize + 1
  /\ rcv.sackstack \in Blocks
  /\ toR \in Seq(Segments)
  /\ \A i \in DOMAIN toS : toS[i].ack \in 1 .. FlowSize + 1 /\ toS[i].sack \in Blocks

Arrived == Receiver!Arrived(rcv.buffer)
Bytes(from, to) == {b \in from .. to - 1 : b < snd.tail}

\* Everything that the sender has been told, or is about to be told, is true:
\* a block on the receiver's SACK stack or in an ACK on its way, and every
\* segment that the scoreboard marks, has arrived in full.  UpdateScoreBoard
\* marks without looking at the transmit buffer and SendPendingData never
\* sends a marked segment again, so a false mark would lose data.
SackTruthful ==
  /\ \A e \in Range(rcv.sackstack) \cup UNION {Range(toS[i].sack) : i \in DOMAIN toS} :
       Bytes(e[1], e[2]) \subseteq Arrived
  /\ \A t \in snd.scoreboard.acked \cup snd.scoreboard.sacked : Bytes(t, t + MSS) \subseteq Arrived

\* An ACK on which ReceivedAck would flush the device queue (it covers
\* p2_block_max) finds there only low-priority segments that the receiver
\* already has, whatever was written since the ACK was sent.
FlushIsHarmless ==
  \A i \in DOMAIN toS : Flushes(snd, toS[i]) =>
    \A j \in DOMAIN toR : toR[j].prio > 0 => toR[j].seq + toR[j].len <= rcv.buffer.next

\* The retransmission timer runs for as long as data is outstanding, or
\* there is nothing left that could wake the sender up.
NeverStuck ==
  snd.state = "ESTABLISHED" /\ toR = <<>> /\ toS = <<>> /\ snd.head < snd.tail => snd.retx /= Off

\* Outside fast recovery the congestion window always takes a segment: it is
\* deflated by partial ACKs and restored on the way out of recovery, it starts
\* again after a timeout, and it is a uint32_t.
WindowOpen == ~snd.inFastRec => snd.cWnd \in MSS .. WordSize - 1

\* Not a property of the code, which lets the window grow with every ACK: what
\* is left of the word takes one more segment.
WindowFits == ~snd.inFastRec => snd.cWnd + MSS < WordSize

\* When nothing is outstanding and the window is open, nothing is left to send:
\* SendPendingData is to "send as much as the window allows".
WindowUsed ==
  snd.state = "ESTABLISHED" /\ snd.head >= snd.highTx /\ snd.cWnd >= MSS => snd.head = snd.tail

\* Fast recovery always has data to wait for: an ACK that leaves it is owed.
RecoveryEnds == snd.inFastRec => snd.head < snd.recover /\ snd.recover <= snd.highTx

\* m_nextTxSequence is never behind the first unacknowledged byte, though ACKs
\* of low-priority data, a timeout and a bump all move it.  m_highTxMark is only
\* when nothing is outstanding: m_nextTxSequence skips what was acknowledged
\* selectively, and BytesInFlight would wrap below zero then.
NextTxInBuffer ==
  snd.state = "ESTABLISHED" =>
    snd.head <= snd.nextTx /\ (snd.head <= snd.highTx \/ snd.head = snd.tail)

\* Every low-priority segment carries whole bytes of the transmit buffer, and
\* no byte goes out at low priority twice, in whatever step and however soon
\* after the first: StartRLPLoop is entered again at every write and stops at
\* the block it sent before.
Apart(m, n) == m.seq + m.len <= n.seq \/ n.seq + n.len <= m.seq

SendsAnew ==
  \A j \in Len(lowSent) + 1 .. Len(lowSent') :
    /\ snd'.head <= lowSent'[j].seq /\ lowSent'[j].seq + lowSent'[j].len <= snd'.tail
    /\ \A i \in 1 .. j - 1 : Apart(lowSent'[i], lowSent'[j])

LowPriorityOnce == [][SendsAnew]_vars

\* SendLowPriorityPacket moves last_block_seq to the end of the buffer when it
\* finds that "priority 0 took care of all data" or "all data already sent":
\* whatever is below has then gone out, at one priority or the other.
SentBelowBlock ==
  \A b \in 1 .. snd.last_block_seq - 1 : b < snd.highTx \/ \E m \in Range(lowSent) : m.seq <= b /\ b < m.seq + m.len

\* The flow is a reliable byte stream.
Stream == INSTANCE ReliableStream
            WITH Total    <- FlowSize,
                 written  <- snd.tail - 1,
                 received <- rcv.buffer.next - 1,
                 read     <- rcv.read - 1,
                 acked    <- snd.head - 1

ImplementsStream == Stream!Spec

\* Once the application has written, the application at the other end is given
\* everything and the sender learns of it, whatever was lost.
AllDelivered == <>[](rcv.read = FlowSize + 1 /\ snd.head = FlowSize + 1)
=============================================================================
