---------------------------- MODULE TcpConnection ----------------------------
(***************************************************************************)
(* A connection from the SYN to the end: a client, a listening server with *)
(* the socket it forks, and the two paths between them, on which any       *)
(* packet may be lost.  The applications stop when they like, once each.   *)
(*                                                                         *)
(* The server side is one variable: the socket forked last.  One forked    *)
(* earlier has no end point by then, so nothing reaches it or leaves it.   *)
(***************************************************************************)
EXTENDS TcpSocket, Path

CONSTANTS Programs,         \* what the two applications may be like, see program
          MaxLosses,        \* bound on lost packets
          MaxEarlyTimeouts, \* bound on timeouts while something is on a path
          MaxOvertakes      \* bound on timeouts of one socket while the other waits for its own

ASSUME ConnectionAssumption ==
  /\ {MaxLosses, MaxEarlyTimeouts, MaxOvertakes} \subseteq Nat
  /\ Programs \subseteq [sink : BOOLEAN, patient : BOOLEAN, stops : {"never", "closed", "any"}]
  /\ ~FlushOut              \* the flush is RC3Flow's subject

VARIABLES cli, srv,         \* the client's socket and the one the server forked
          listening,        \* whether the listening socket has its end point
          program,          \* the server calls ShutdownSend, as PacketSink does; the client stops only
                            \* when all is acknowledged; when the server stops: never, once the peer
                            \* closed, any time
          running,          \* the applications that have not stopped
          toS, toC,         \* the paths to the server and to the client
          losses, early,    \* how many so far
          overtaken         \* by socket, how often the other's timers overtook its timers

counts == <<early, overtaken>>
vars == <<cli, srv, listening, program, running, toS, toC, losses, counts>>

\* StartApplication connects and writes the flow.
Connected == SendEmptyPacket([Socket("SYN_SENT") EXCEPT !.tail = FlowSize + 1], "SYN")
NoSocket  == [Socket("CLOSED") EXCEPT !.endPoint = FALSE]

Init ==
  /\ cli = [Connected EXCEPT !.sent = <<>>]
  /\ toS = Connected.sent /\ toC = <<>>
  /\ srv = NoSocket /\ listening = TRUE
  /\ program \in Programs /\ running = {"client", "server"}
  /\ losses = 0 /\ early = 0 /\ overtaken = [client |-> 0, server |-> 0]

\* With nothing outstanding and nothing more to write the windows are not read
\* again, but every ACK that ReceivedAck takes for a new one opens them: the
\* value no longer matters, and is one that does not change.
Settled(s) == IF Outstanding(s) > 0 THEN s ELSE [s EXCEPT !.cWnd = MSS, !.ssThresh = MSS]

\* A socket takes its next state and what it sent joins the path after rest.
ClientBecomes(s, rest) == cli' = Settled([s EXCEPT !.sent = <<>>]) /\ toS' = rest \o s.sent
ServerBecomes(s, rest) == srv' = Settled([s EXCEPT !.sent = <<>>]) /\ toC' = rest \o s.sent

\* Mutant: the fork takes the connection for open.
ForkOpen ==
  SendEmptyPacket([Socket("ESTABLISHED") EXCEPT !.rc3_p2 = FALSE, !.shutdownSend = program.sink], "SYN+ACK")

\* CompleteFork, which the SYN schedules for the same instant.
Fork ==
  SendEmptyPacket([Socket("SYN_RCVD") EXCEPT !.rc3_p2 = FALSE, !.shutdownSend = program.sink], "SYN+ACK")

\* TcpL4Protocol answers what no end point takes.
NoEndPoint(m) ==
  CASE m.flags \in {"RST", "RST+ACK"} -> <<>>
    [] m.flags \in {"", "SYN"} -> <<[Reset("RST+ACK") EXCEPT !.ack = 1]>>
    [] OTHER -> <<Reset("RST")>>

ArrivesAtServer ==
  \E i \in Deliverable(toS) :
    /\ toS' = RemoveAt(toS, i)
    /\ CASE srv.endPoint -> ServerBecomes(DoForwardUp(srv, toS[i]), toC)
         [] ~srv.endPoint /\ listening ->
              IF toS[i].flags = "SYN" THEN ServerBecomes(Fork, toC) ELSE UNCHANGED <<srv, toC>>
         [] OTHER -> toC' = toC \o NoEndPoint(toS[i]) /\ UNCHANGED srv
    /\ UNCHANGED <<cli, listening, program, running, losses, counts>>

ArrivesAtClient ==
  \E i \in Deliverable(toC) :
    /\ toC' = RemoveAt(toC, i)
    /\ IF cli.endPoint THEN ClientBecomes(DoForwardUp(cli, toC[i]), toS)
       ELSE toS' = toS \o NoEndPoint(toC[i]) /\ UNCHANGED cli
    /\ UNCHANGED <<srv, listening, program, running, losses, counts>>

\* The retransmission timer.
Expired(s) ==
  IF s.retx = "ReTxTimeout" THEN SentBySender(ReTxTimeout(s))
  ELSE SendEmptyPacket([s EXCEPT !.retx = Off], s.retx)

LastAckTimeout(s) ==
  LET closed == [IF s.state = "LAST_ACK" THEN CloseAndNotify(s) ELSE s EXCEPT !.lastAckEvent = FALSE]
  IN [closed EXCEPT !.closeNotified = TRUE]

Idle == toS = <<>> /\ toC = <<>>
Pending(s) == s.retx /= Off \/ s.lastAckEvent

\* The timers' intervals differ by a bounded factor.
Bounded(other, s) ==
  /\ IF Idle THEN UNCHANGED early ELSE early < MaxEarlyTimeouts /\ early' = early + 1
  /\ Pending(s) => overtaken[other] < MaxOvertakes
  /\ overtaken' = [n \in DOMAIN overtaken |-> IF n = other /\ Pending(s) THEN overtaken[n] + 1 ELSE 0]

ClientTimeout ==
  /\ cli.retx /= Off
  /\ Bounded("server", srv)
  /\ ClientBecomes(Expired(cli), toS)
  /\ UNCHANGED <<srv, listening, program, running, toC, losses>>

ServerTimeout ==
  /\ \/ srv.retx /= Off /\ ServerBecomes(Expired(srv), toC)
     \/ srv.lastAckEvent /\ ServerBecomes(LastAckTimeout(srv), toC)
  /\ Bounded("client", cli)
  /\ UNCHANGED <<cli, listening, program, running, toS, losses>>

\* Twice the lifetime of a segment later, nothing sent before is on a path. A
\* FIN that the peer repeats meanwhile is ignored, and does not start the timer
\* again: the fairness below is strong.
TimeWaitEnds ==
  /\ Idle
  /\ \/ cli.state = "TIME_WAIT" /\ cli' = CloseAndNotify(cli) /\ UNCHANGED srv
     \/ srv.state = "TIME_WAIT" /\ srv' = CloseAndNotify(srv) /\ UNCHANGED cli
  /\ UNCHANGED <<listening, program, running, toS, toC, losses, counts>>

ClientStops ==
  /\ "client" \in running
  /\ program.patient => Outstanding(cli) = 0 \/ cli.state = "CLOSED"
  /\ running' = running \ {"client"}
  /\ ClientBecomes(Close(cli), toS)
  /\ UNCHANGED <<srv, listening, program, toC, losses, counts>>

ServerMayStop ==
  /\ "server" \in running
  /\ \/ program.stops = "any"
     \/ program.stops = "closed" /\ srv.state = "CLOSE_WAIT"

\* The socket that it was given is closed, then the listening one.
StopServer ==
  /\ ServerMayStop
  /\ running' = running \ {"server"}
  /\ listening' = FALSE
  /\ IF "created" \in srv.told THEN ServerBecomes(Close(srv), toC) ELSE UNCHANGED <<srv, toC>>
  /\ UNCHANGED <<cli, program, toS, losses, counts>>

LosePacket ==
  /\ losses < MaxLosses
  /\ losses' = losses + 1
  /\ \/ \E i \in DOMAIN toS : toS' = RemoveAt(toS, i) /\ UNCHANGED toC
     \/ \E i \in DOMAIN toC : toC' = RemoveAt(toC, i) /\ UNCHANGED toS
  /\ UNCHANGED <<cli, srv, listening, program, running, counts>>

Next ==
  \/ ArrivesAtServer
  \/ ArrivesAtClient
  \/ ClientTimeout
  \/ ServerTimeout
  \/ TimeWaitEnds
  \/ ClientStops
  \/ StopServer
  \/ LosePacket

Spec == Init /\ [][Next]_vars

Fairness ==
  /\ WF_toS(\E i \in Deliverable(toS) : toS' = RemoveAt(toS, i))
  /\ WF_toC(\E i \in Deliverable(toC) : toC' = RemoveAt(toC, i))
  /\ WF_vars(Idle /\ ClientTimeout)
  /\ WF_vars(Idle /\ ServerTimeout)
  /\ SF_vars(TimeWaitEnds)
  /\ WF_running("client" \in running /\ (program.patient => Outstanding(cli) = 0 \/ cli.state = "CLOSED")
                 /\ running' = running \ {"client"})
  /\ WF_running(ServerMayStop /\ running' = running \ {"server"})

FairSpec == Spec /\ Fairness
-----------------------------------------------------------------------------
States == {"CLOSED", "SYN_SENT", "SYN_RCVD", "ESTABLISHED", "CLOSE_WAIT", "LAST_ACK",
           "FIN_WAIT_1", "FIN_WAIT_2", "CLOSING", "TIME_WAIT"}
Packets == [flags : {"ACK", "", "SYN", "SYN+ACK", "FIN+ACK", "RST", "RST+ACK"}, prio : Nat, seq : Nat,
            len : 0 .. MSS, ack : Nat, sack : Seq(Nat \X Nat)]

TypeOK ==
  /\ {cli.state, srv.state} \subseteq States
  /\ cli.told \cup srv.told \subseteq Notices
  /\ {cli.cnCount, srv.cnCount} \subseteq 0 .. CnRetries
  /\ {cli.retx, srv.retx} \subseteq {Off, "ReTxTimeout"} \cup Retried
  /\ running \subseteq {"client", "server"} /\ listening \in BOOLEAN
  /\ toS \in Seq(Packets) /\ toC \in Seq(Packets)

\* The server never takes a connection for open that the client has not heard
\* of, however SYN, SYN+ACK and their retransmissions cross.
NoHalfOpen == srv.state \in States \ {"CLOSED", "SYN_RCVD"} => cli.state /= "SYN_SENT"

\* A socket without an end point, or closed, or in TIME_WAIT, is not woken to
\* retransmit: SendEmptyPacket, NewAck and SendDataPacket all start the timer,
\* several paths release the end point and none of them tests the other.
Quiet ==
  \A s \in {cli, srv} : ~s.endPoint \/ s.state \in {"CLOSED", "TIME_WAIT"} => s.retx = Off

\* A socket that waits for an answer has a timer to ask again, whichever timer
\* ran when it sent what it waits for.
Waits(s) ==
  \/ s.state \in {"SYN_SENT", "SYN_RCVD", "FIN_WAIT_1", "CLOSING", "LAST_ACK"}
  \/ s.state \in {"ESTABLISHED", "CLOSE_WAIT"} /\ s.head < s.tail

Awake == program.patient => \A s \in {cli, srv} : s.endPoint /\ Waits(s) => Pending(s)

\* The server takes the connection for closed by the peer only when it has all
\* the client wrote: "App close with pending data must wait until all data
\* transmitted" (TcpRC3Sack::Close).
AllBeforeClose == srv.state \in {"CLOSE_WAIT", "LAST_ACK"} => srv.buffer.next > FlowSize + 1

\* DoPeerClose asserts that it is called in ESTABLISHED or SYN_RCVD.
PeerClosesOnce == cli.asserted /\ srv.asserted

\* The state diagram of RFC 793, to which the handlers' comments refer; from
\* every state a reset or a last retry leads to CLOSED.
Diagram ==
  {<<"SYN_SENT", "ESTABLISHED">>, <<"SYN_RCVD", "ESTABLISHED">>, <<"SYN_RCVD", "CLOSE_WAIT">>,
   <<"ESTABLISHED", "FIN_WAIT_1">>, <<"ESTABLISHED", "CLOSE_WAIT">>, <<"CLOSE_WAIT", "LAST_ACK">>,
   <<"ESTABLISHED", "LAST_ACK">>,   \* by way of CLOSE_WAIT, when the server has called ShutdownSend
   <<"FIN_WAIT_1", "FIN_WAIT_2">>, <<"FIN_WAIT_1", "CLOSING">>, <<"FIN_WAIT_1", "TIME_WAIT">>,
   <<"FIN_WAIT_2", "TIME_WAIT">>, <<"CLOSING", "TIME_WAIT">>}

FollowsDiagram ==
  [][program.patient =>
     /\ \/ cli'.state \in {cli.state, "CLOSED"}
        \/ <<cli.state, cli'.state>> \in Diagram
     /\ \/ srv'.state \in {srv.state, "CLOSED"}
        \/ <<srv.state, srv'.state>> \in Diagram
        \/ srv.state = "CLOSED" /\ srv'.state = "SYN_RCVD"]_vars

\* Connecting ends, one way or the other, at both ends.
HandshakeEnds == <>[](cli.state /= "SYN_SENT" /\ srv.state /= "SYN_RCVD")

\* A server that was told of the connection only after it had stopped: nobody
\* closes its socket.
Orphan == "server" \notin running /\ srv.state = "CLOSE_WAIT"

\* Once both applications have stopped, each end point is released for good.
\* Two cases are left out: a socket that went through TIME_WAIT ends CLOSED but
\* keeps its end point, since CloseAndNotify skips DeallocateEndPoint there; and
\* a client whose server is an orphan waits for a FIN that nobody sends.
BothEnd ==
  program.patient /\ program.stops /= "never" =>
    \/ <>[]Orphan
    \/ /\ <>[](~cli.endPoint) \/ (<>(cli.state = "TIME_WAIT") /\ <>[](cli.state = "CLOSED"))
       /\ <>[](~srv.endPoint) \/ (<>(srv.state = "TIME_WAIT") /\ <>[](srv.state = "CLOSED"))

\* With ShutdownSend the server's end point is released though it never closes.
ServerEnds == program.sink => <>[](~srv.endPoint)
=============================================================================
