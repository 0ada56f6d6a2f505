----------------------------- MODULE RC3Receiver -----------------------------
(***************************************************************************)
(* The receiving half of ns3::TcpRC3Sack, forked by the listening socket:  *)
(* reassembly, the stack of blocks for the SACK option, and the ACK that   *)
(* every data segment is answered with (DelAckCount is 1).  An operator    *)
(* maps the state r to its next state, with the ACKs sent in r.out.        *)
(***************************************************************************)
EXTENDS TcpRxBuffer, Ranking, Sequences, SequencesExt

CONSTANT MSS     \* m_segmentSize

\* read is the next byte that the application will be given, recvCallback
\* whether it has asked to be told of data.
SynRcvd ==
  [state |-> "SYN_RCVD", recvCallback |-> FALSE, buffer |-> EmptyBuffer, read |-> 1,
   sackstack |-> <<>>, out |-> <<>>]

\* The fragments that a walk in steps of MSS finds on either side of seq.
Steps(a, b) == {t \in a .. b : (t - a) % MSS = 0}

LeftEdge(keys, seq) ==
  Min({l \in keys \cup {seq} : l <= seq /\ (seq - l) % MSS = 0 /\ Steps(l, seq - 1) \subseteq keys})

\* Mutant: the walk to the right does not stop at a gap.
RightEdgeJumps(keys, seq) == Max({k + MSS : k \in keys \cup {seq}})

RightEdge(keys, seq) ==
  Max({r \in {k + MSS : k \in keys \cup {seq}} :
         r > seq /\ (r - seq) % MSS = 0 /\ Steps(seq + MSS, r - 1) \subseteq keys})

FillSackStack(r, seq) ==
  LET left  == LeftEdge(Starts(r.buffer.frags), seq)
      right == RightEdge(Starts(r.buffer.frags), seq)
      older == {i \in DOMAIN r.sackstack : ~(r.sackstack[i][1] >= left /\ r.sackstack[i][2] <= right)}
      kept  == Chosen(r.sackstack, older)
  IN [r EXCEPT !.sackstack = IF left > 1 THEN <<<<left, right>>>> \o kept ELSE kept]

\* Mutant: the highest byte received is acknowledged, not the next expected.
AcksHighest(r, prio, withSack) ==
  [r EXCEPT !.out = Append(@, [prio |-> prio, ack |-> Max({f[2] : f \in r.buffer.frags} \cup {r.buffer.next}),
                               sack |-> IF withSack THEN SubSeq(r.sackstack, 1, Min({3, Len(r.sackstack)}))
                                        ELSE <<>>])]

SendEmptyPacket(r, prio, withSack) ==
  [r EXCEPT !.out = Append(@, [prio |-> prio, ack |-> r.buffer.next,
                               sack |-> IF withSack THEN SubSeq(r.sackstack, 1, Min({3, Len(r.sackstack)}))
                                        ELSE <<>>])]

\* A gap is left, or one was filled: something beyond the bytes of m counts.
GapSeen(before, after, m) ==
  \/ \E f \in after.frags : f[1] > after.next
  \/ after.next > before.next + m.len

\* The application is notified, and takes all it can get, when the data in
\* order has grown and it has set its callback.  It does so when it is told of
\* the new connection, after the segment that completed it was dealt with.
ReadAll(r) ==
  [r EXCEPT !.buffer = ExtractAll(@),
            !.read   = Max({f[2] : f \in {g \in r.buffer.frags : g[1] < r.buffer.next}} \cup {@})]

NotifyDataRecv(before, r) ==
  IF r.buffer.next > before.buffer.next /\ r.recvCallback THEN ReadAll(r) ELSE r

ReceivedData(r, m) ==
  LET added  == [r EXCEPT !.buffer = Add(@, m.seq, m.seq + m.len)]
      sacked == SendEmptyPacket(FillSackStack(added, m.seq), m.prio, TRUE)
      plain  == SendEmptyPacket(added, 0, FALSE)
      stored == Stores(r.buffer, m.seq, m.seq + m.len)
      acked  == IF m.prio > 0 \/ (stored /\ GapSeen(r.buffer, added.buffer, m)) THEN sacked ELSE plain
  IN NotifyDataRecv(r, acked)

OutOfRange(r, m) == m.seq + m.len < r.buffer.next

\* NotifyNewConnectionCreated: the application sets its callback.
Accepted(r) == [r EXCEPT !.state = "ESTABLISHED", !.recvCallback = TRUE]

\* DoForwardUp.  The segment that completes the handshake loses its data if
\* it has low priority: ReceivedAck returns before it looks at the data.
DoForwardUp(r, m) ==
  IF m.len = 0 \/ (r.state = "SYN_RCVD" /\ m.prio > 0) THEN Accepted(r)
  ELSE IF r.state = "ESTABLISHED" /\ OutOfRange(r, m) THEN SendEmptyPacket(r, 0, FALSE)
  ELSE Accepted(ReceivedData(r, m))
=============================================================================
