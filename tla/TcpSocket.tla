------------------------------ MODULE TcpSocket ------------------------------
(***************************************************************************)
(* The connection state machine of TcpSocketBase with what TcpRC3Sack      *)
(* overrides of it, for a client that writes as it connects and a server   *)
(* that only reads.                                                        *)
(*                                                                         *)
(* A socket is one record: the fields of RC3Sender and of RC3Receiver,     *)
(* which both share state and out, and those below.  A handler maps the    *)
(* socket to its next state and appends whole packets to its sent.         *)
(*                                                                         *)
(* Only the client sends SYN and data, and the class never sends data and  *)
(* FIN in one packet: what a handler does with other packets is left out.  *)
(***************************************************************************)
EXTENDS RC3Sender

CONSTANT CnRetries        \* m_cnRetries, how often a SYN or a SYN+ACK is sent

ASSUME CnRetriesAssumption == CnRetries \in Nat \ {0}

Receiver == INSTANCE RC3Receiver

\* What the application is told through its callbacks.
Notices == {"succeeded", "created", "normalClose", "errorClose"}

\* The fields of f, and those of g that f has not.
Joined(f, g) == [x \in DOMAIN f \cup DOMAIN g |-> IF x \in DOMAIN f THEN f[x] ELSE g[x]]

Socket(state) ==
  Joined([cnCount |-> CnRetries, endPoint |-> TRUE, closeNotified |-> FALSE, shutdownSend |-> FALSE,
          lastAckEvent |-> FALSE, told |-> {}, asserted |-> TRUE, sent |-> <<>>],
         Joined([SynSent EXCEPT !.state = state], Receiver!SynRcvd))

Told(s, notice) == [s EXCEPT !.told = @ \cup {notice}]
-----------------------------------------------------------------------------
\* What the sending and the receiving half put in out, as packets.
Packet(s, flags, prio, seq, len, sack) ==
  [flags |-> flags, prio |-> prio, seq |-> seq, len |-> len, ack |-> s.buffer.next, sack |-> sack]

\* In these states an empty packet without FIN goes beyond the FIN that was sent.
SeqOfEmpty(s) == IF s.state \in {"FIN_WAIT_1", "LAST_ACK", "CLOSING"} THEN s.nextTx + 1 ELSE s.nextTx

SentBySender(s) ==
  [s EXCEPT !.out  = <<>>,
            !.sent = @ \o [i \in DOMAIN s.out |->
                             Packet(s, s.out[i].flags, s.out[i].prio, s.out[i].seq, s.out[i].len, <<>>)]]

SentByReceiver(s) ==
  [s EXCEPT !.out  = <<>>,
            !.sent = @ \o [i \in DOMAIN s.out |->
                             Packet(s, "ACK", s.out[i].prio, SeqOfEmpty(s), 0, s.out[i].sack)]]
-----------------------------------------------------------------------------
CancelAllTimers(s) == [s EXCEPT !.retx = Off, !.lastAckEvent = FALSE]

DeallocateEndPoint(s) == IF s.endPoint THEN CancelAllTimers([s EXCEPT !.endPoint = FALSE]) ELSE s

CloseAndNotify(s) ==
  LET notified == IF s.closeNotified THEN s ELSE Told([s EXCEPT !.closeNotified = TRUE], "normalClose")
      freed    == IF s.state = "TIME_WAIT" THEN notified ELSE DeallocateEndPoint(notified)
  IN [CancelAllTimers(freed) EXCEPT !.state = "CLOSED"]

Retried == {"SYN", "SYN+ACK", "FIN+ACK"}

\* Mutant: a SYN is sent again without a limit.
SendEmptyPacketForever(s, flags) ==
  LET seq  == IF flags = "FIN+ACK" THEN s.nextTx ELSE SeqOfEmpty(s)
      sent == [s EXCEPT !.sent = Append(@, Packet(s, flags, 0, seq, 0, <<>>)),
                        !.retx = IF flags \in Retried THEN Schedule(@, flags) ELSE @]
  IN IF ~s.endPoint THEN s
     ELSE IF flags = "FIN+ACK" \/ flags \notin Retried THEN sent
     ELSE [sent EXCEPT !.cnCount = @ - 1]

\* Mutant: a SYN+ACK is sent once.
SendEmptyPacketOnce(s, flags) ==
  LET syn  == flags \in {"SYN", "SYN+ACK"}
      seq  == IF flags = "FIN+ACK" THEN s.nextTx ELSE SeqOfEmpty(s)
      sent == [s EXCEPT !.sent = Append(@, Packet(s, flags, 0, seq, 0, <<>>)),
                        !.retx = IF flags \in {"SYN", "FIN+ACK"} THEN Schedule(@, flags) ELSE @]
  IN IF ~s.endPoint THEN s
     ELSE IF ~syn THEN sent
     ELSE IF s.cnCount = 0 THEN CloseAndNotify(s)
     ELSE [sent EXCEPT !.cnCount = @ - 1]

\* A FIN always carries ACK.  A SYN is sent CnRetries times and then given up;
\* SYN and FIN are sent again until m_retxEvent is cancelled.
SendEmptyPacket(s, flags) ==
  LET syn  == flags \in {"SYN", "SYN+ACK"}
      seq  == IF flags = "FIN+ACK" THEN s.nextTx ELSE SeqOfEmpty(s)
      sent == [s EXCEPT !.sent = Append(@, Packet(s, flags, 0, seq, 0, <<>>)),
                        !.retx = IF flags \in Retried THEN Schedule(@, flags) ELSE @]
  IN IF ~s.endPoint THEN s
     ELSE IF ~syn THEN sent
     ELSE IF s.cnCount = 0 THEN CloseAndNotify(s)
     ELSE [sent EXCEPT !.cnCount = @ - 1]

SendRST(s) == DeallocateEndPoint(Told(SendEmptyPacket(s, "RST"), "errorClose"))

Abort(s, m) == CloseAndNotify(IF m.flags = "RST" THEN s ELSE SendRST(s))

\* Mutant: the timers go on.
TimeWaitOnly(s) == [s EXCEPT !.state = "TIME_WAIT"]

TimeWait(s) == [CancelAllTimers(s) EXCEPT !.state = "TIME_WAIT"]

\* Mutant: the second to close takes itself for the first.
DoCloseAsFirst(s) ==
  CASE s.state \in {"SYN_RCVD", "ESTABLISHED", "CLOSE_WAIT"} ->
         [SendEmptyPacket(s, "FIN+ACK") EXCEPT !.state = "FIN_WAIT_1"]
    [] s.state \in {"SYN_SENT", "CLOSING"} -> CloseAndNotify(SendRST(s))
    [] s.state = "LAST_ACK" -> CloseAndNotify(s)
    [] OTHER -> s

DoClose(s) ==
  CASE s.state \in {"SYN_RCVD", "ESTABLISHED"} ->
         [SendEmptyPacket(s, "FIN+ACK") EXCEPT !.state = "FIN_WAIT_1"]
    [] s.state = "CLOSE_WAIT" -> [SendEmptyPacket(s, "FIN+ACK") EXCEPT !.state = "LAST_ACK"]
    [] s.state \in {"SYN_SENT", "CLOSING"} -> CloseAndNotify(SendRST(s))
    [] s.state = "LAST_ACK" -> CloseAndNotify(s)
    [] OTHER -> s

\* TcpRC3Sack::Close.  Data that was never sent, or is to be sent again, goes
\* with all that is outstanding.
Close(s) ==
  LET reset == IF s.buffer.frags /= {} THEN SendRST(s) ELSE s
  IN DoClose(IF s.tail > s.nextTx THEN DiscardUpTo(reset, s.tail) ELSE reset)
-----------------------------------------------------------------------------
\* Mutant: the timers of the FIN just sent are cancelled.
DoPeerCloseNoTimer(s) ==
  LET notified == [IF s.closeNotified THEN s ELSE Told(s, "normalClose") EXCEPT
                     !.state = "CLOSE_WAIT", !.closeNotified = TRUE]
  IN IF s.shutdownSend THEN CancelAllTimers(Close(notified)) ELSE SendEmptyPacket(notified, "ACK")

\* NS_ASSERT stops a debug build here; asserted remembers that it would.
DoPeerClose(s) ==
  LET notified == [IF s.closeNotified THEN s ELSE Told(s, "normalClose") EXCEPT
                     !.asserted      = @ /\ s.state \in {"ESTABLISHED", "SYN_RCVD"},
                     !.state         = "CLOSE_WAIT",
                     !.closeNotified = TRUE]
      done     == IF s.shutdownSend THEN Close(notified) ELSE SendEmptyPacket(notified, "ACK")
  IN [done EXCEPT !.lastAckEvent = @ \/ done.state = "LAST_ACK"]

\* A FIN that is out of range is ignored: no answer.
PeerClose(s, m) ==
  LET known == [s EXCEPT !.buffer = Receiver!SetFinSequence(@, m.seq)]
  IN IF m.seq < s.buffer.next \/ (s.buffer.fin /= 0 /\ m.seq > s.buffer.fin) THEN s
     ELSE IF ~Receiver!Finished(known.buffer) THEN known
     ELSE IF s.state = "FIN_WAIT_1" THEN [known EXCEPT !.state = "CLOSING"]
     ELSE DoPeerClose(known)

\* Data that fills the last gap before a FIN received earlier closes too.
ClosedByData(s, next) == IF s.buffer.next > next /\ Receiver!Finished(s.buffer) THEN DoPeerClose(s) ELSE s

ReceivedData(s, m) == ClosedByData(SentByReceiver(Receiver!ReceivedData(s, m)), s.buffer.next)

\* ReceivedAck as a whole: RC3Sender's, then the data that came along, unless
\* the segment has low priority.
WithItsData(s, m) == IF m.len > 0 /\ m.prio = 0 THEN ReceivedData(s, m) ELSE s

ReceivedAckAndData(s, m) == WithItsData(SentBySender(ReceivedAck(s, m)), m)
-----------------------------------------------------------------------------
\* SYN_SENT.  The scoreboard is made anew whatever arrives.
ProcessSynSentOf(s, m) ==
  LET fresh == [s EXCEPT !.scoreboard = CreateScoreBoard(@, FlowSize)]
      open  == SentBySender(ProcessSynSent([s EXCEPT !.retx = Off]))
  IN CASE m.flags = "ACK" -> fresh
       [] m.flags = "SYN+ACK" /\ m.ack = s.nextTx + 1 -> Told(open, "succeeded")
       [] OTHER -> Abort(fresh, m)

\* SYN_RCVD.  Bare data completes the handshake as well as its ACK does.
ProcessSynRcvd(s, m) ==
  LET open == [s EXCEPT !.retx = Off, !.nextTx = @ + 1, !.highTx = s.nextTx + 1, !.head = s.nextTx + 1]
      established == ReceivedAckAndData([open EXCEPT !.state = "ESTABLISHED"], m)
  IN CASE m.flags = "" \/ (m.flags = "ACK" /\ m.ack = s.nextTx + 1) ->
            Told([established EXCEPT !.recvCallback = TRUE], "created")
       [] m.flags = "SYN" -> SendEmptyPacket(s, "SYN+ACK")
       [] m.flags = "FIN+ACK" -> IF m.seq = s.buffer.next THEN PeerClose(open, m) ELSE s
       [] OTHER -> Abort(s, m)

ProcessEstablished(s, m) ==
  CASE m.flags = "ACK" -> ReceivedAckAndData(s, m)
    [] m.flags \in {"SYN", "SYN+ACK"} -> s
    [] m.flags = "FIN+ACK" -> PeerClose(s, m)
    [] m.flags = "" -> ReceivedData(s, m)
    [] OTHER -> Abort(s, m)

\* FIN_WAIT_1, FIN_WAIT_2 and CLOSE_WAIT.
CoversFin(s, m) == Outstanding(s) = 0 /\ m.ack = s.highTx + 1

AckFin(s) == IF s.recvCallback THEN Receiver!ReadAll(SendEmptyPacket(s, "ACK")) ELSE SendEmptyPacket(s, "ACK")

InSequenceFin(s, m) ==
  IF ~(s.state \in {"FIN_WAIT_1", "FIN_WAIT_2"} /\ Receiver!Finished(s.buffer)) THEN s
  ELSE AckFin(IF s.state = "FIN_WAIT_1" /\ ~CoversFin(s, m) THEN [s EXCEPT !.state = "CLOSING"] ELSE TimeWait(s))

\* What ReceivedAck is followed by: FIN_WAIT_2 after an ACK, the FIN's number after a FIN.
AckOrFin(s, m) ==
  CASE m.flags = "FIN+ACK" -> [s EXCEPT !.buffer = Receiver!SetFinSequence(@, m.seq)]
    [] m.flags = "ACK" /\ s.state = "FIN_WAIT_1" /\ CoversFin(s, m) -> [s EXCEPT !.state = "FIN_WAIT_2"]
    [] OTHER -> s

ProcessWait(s, m) ==
  CASE m.flags \in {"SYN", "SYN+ACK"} -> s
    [] m.flags = "" -> InSequenceFin(ReceivedData(s, m), m)
    [] m.flags \in {"ACK", "FIN+ACK"} -> InSequenceFin(AckOrFin(ReceivedAckAndData(s, m), m), m)
    [] OTHER -> Abort(s, m)

ProcessClosing(s, m) ==
  CASE m.flags = "ACK" -> IF m.seq = s.buffer.next THEN TimeWait(s) ELSE s
    [] m.flags = "FIN+ACK" -> CloseAndNotify(SendEmptyPacket(s, "ACK"))
    [] OTHER -> Abort(s, m)

\* Mutant: only an ACK or a FIN ends the wait, a reset does not.
ProcessLastAckDeaf(s, m) ==
  CASE m.flags = "" -> ReceivedData(s, m)
    [] m.flags = "ACK" /\ m.seq = s.buffer.next -> CloseAndNotify(s)
    [] m.flags = "FIN+ACK" -> CloseAndNotify(s)
    [] OTHER -> s

ProcessLastAck(s, m) ==
  CASE m.flags = "" -> ReceivedData(s, m)
    [] m.flags = "ACK" -> IF m.seq = s.buffer.next THEN CloseAndNotify(s) ELSE s
    [] m.flags = "FIN+ACK" -> CloseAndNotify(s)
    [] OTHER -> Abort(s, m)

\* DoForwardUp.
OutOfRange(s, m) ==
  CASE s.state \in {"SYN_SENT", "SYN_RCVD"} -> FALSE
    [] s.state \in {"LAST_ACK", "CLOSING", "CLOSE_WAIT"} -> m.seq /= s.buffer.next
    [] OTHER -> m.seq + m.len < s.buffer.next \/ (s.buffer.fin /= 0 /\ s.buffer.fin <= m.seq)

Reset(flags) == [flags |-> flags, prio |-> 0, seq |-> 0, len |-> 0, ack |-> 0, sack |-> <<>>]

\* The handler of the state the socket is in.
Process(s, m) ==
  CASE s.state = "CLOSED" -> IF m.flags = "RST" THEN s ELSE [s EXCEPT !.sent = Append(@, Reset("RST"))]
    [] s.state = "SYN_SENT"    -> ProcessSynSentOf(s, m)
    [] s.state = "SYN_RCVD"    -> ProcessSynRcvd(s, m)
    [] s.state = "ESTABLISHED" -> ProcessEstablished(s, m)
    [] s.state \in {"FIN_WAIT_1", "FIN_WAIT_2", "CLOSE_WAIT"} -> ProcessWait(s, m)
    [] s.state = "CLOSING"     -> ProcessClosing(s, m)
    [] s.state = "LAST_ACK"    -> ProcessLastAck(s, m)
    [] OTHER -> s

DoForwardUp(s, m) ==
  IF m.len > 0 /\ OutOfRange(s, m)
    THEN IF s.state = "ESTABLISHED" THEN SendEmptyPacket(s, "ACK") ELSE s
    ELSE Process(s, m)
=============================================================================
