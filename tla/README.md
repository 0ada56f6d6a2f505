# Verification of RC3 in ns-3

RC3 ("recursively cautious congestion control") sends a flow twice: at high
priority from its first byte upwards, as TCP does, and at low priority from its
last byte backwards, until the two meet. Routers serve priorities strictly, so
the low-priority copies use only what is left over. This directory specifies
and verifies the authors' implementation of it, an extension of ns-3.16, and
two concurrent programs that come with the simulator, in TLA+: model-checked
with TLC and, in part, proved with TLAPS.

Paths below are under `src/ns-3.16/`; `im/` is `src/internet/model/`,
`nu/` is `src/network/utils/`, `core.py` is `src/visualizer/visualizer/core.py`.

## 1. The system

| Part | State | Operations | Speaks to |
|---|---|---|---|
| Priority queue, `nu/priority-queue.cc` behind `nu/queue.cc` | five deques, bytes per deque, two pairs of totals (one in each class) | Enqueue (evicts from lower classes), Dequeue, Peek, FlushOutFlowPackets | device (Enqueue, Dequeue), sender socket (flush) |
| Drop-tail queue, `nu/drop-tail-queue.cc` | one FIFO and its size | Enqueue, Dequeue, Peek | device |
| Device and channel, `src/point-to-point/model/` | transmitter READY or BUSY, current packet, packets on the wire | Send, TransmitStart, TransmitComplete, Receive | queue, IP layer, event scheduler |
| Sending socket, `im/tcp-rc3-sack.cc` on `im/tcp-socket-base.cc` | send buffer, next and highest sequence, cwnd, ssthresh, recovery, bump, low-priority block, timer | Send, ProcessSynSent, ReceivedAck, SendPendingData, StartRLPLoop, ReTxTimeout, Close | application, scoreboard, IP layer, device queue |
| Scoreboard, `im/scoreboard.cc` | map from segment starts to acked and sacked | Create, Clear, Update, GetNextAggSegment | sending socket |
| Receiving socket, `im/tcp-rc3-sack.cc` | reassembly buffer, stack of SACK blocks, connection state | DoForwardUp, ProcessSynRcvd, ReceivedData, SendEmptyPacket | application (receive callback), IP layer |
| Connection, `im/tcp-socket-base.cc`, `im/tcp-l4-protocol.cc` | state, end point, retry counter, retransmission and LAST_ACK timers, what the application was told | CompleteFork, the Process functions, DoClose, PeerClose, CloseAndNotify, SendRST, TimeWait, LastAckTimeout | the peer's, through demultiplexing |
| Buffers, `im/tcp-rx-buffer.cc`, `im/tcp-tx-buffer.cc` | fragments, next in order; packets, first byte | Add, Extract; Add, CopyFromSequence, DiscardUpTo | sockets |
| Driver, `scratch/wan-internet2-sack.cc` | one sender and one receiver application per flow | start: connect, write the flow; read; stop: close | sockets |
| Event scheduler, `src/core/model/` | ordered events | runs one event at a time to its end | everything |
| Test runner, `test.py` | two queues of jobs, a flag for interrupts, the results | dispatch, the worker threads, collection, SIGINT | the test programs, valgrind |
| Visualizer, `core.py` | simulation lock, go and quit, timer, playing | SimulationThread.run, the view's callbacks | simulator, GTK's main loop |

In the simulator one event runs to completion before the next: a handler is
atomic, and what interleaves is the order of events. An event calls down
synchronously (a socket that sends reaches the device queue within the same
event) and up synchronously (a segment that arrives reaches the application's
callback). Packets cross links with a delay, so anything may happen between two
of them. The test runner and the visualizer have real threads.

What is hard, and therefore what the properties are for:

* **Two copies of everything.** Segments of a flow arrive at several
  priorities in an order that depends on other traffic; each is acknowledged
  at its own priority, and low-priority ACKs carry only SACK information that
  counts. Sender state is moved forward past data it never sent at high
  priority (the "bump").
* **Two grids.** High-priority segments and the scoreboard count whole
  segments from byte 1, low-priority segments from the end of the buffer.
* **Lazy state.** `p2_block_max`, `p2_block_bytes_sent`, `m_bumpedSeq` and
  `m_dupAckCount` are updated on some paths and read on others.
* **A queue that admits by evicting**, with its bookkeeping in two classes and
  six functions, and whose evictions are not undone when the arrival is refused
  after all.
* **One timer for everything.** SYN, FIN and data share `m_retxEvent`; each
  path that starts, cancels or skips it was written for one of them.
* **Ends that close in any order**, with FINs ahead of data, retransmissions
  that cross, and resets from the layer below.
* **A signal in the middle of a job**, a worker that dies, exit codes with two
  meanings (`False == 0`, valgrind's 2).
* **A main loop that runs inside a callback** while another thread has the lock.

`PROJECT.json` lists these as hazards, each at its line, with the properties
that cover it or the reason why none does.

What makes each part correct:

* queue: counters that tell what is stored; the limit; low classes cost the
  classes above them nothing, in the buffer and on the wire;
* scoreboard and receiver: what the sender is told is true;
* sender: recovery ends, sequence variables stay ordered, the timer runs when
  it is needed, low-priority data is sent once, a flush loses nothing needed;
* the flow: a reliable byte stream, delivered in the end;
* the connection: no half-open server, no timer on a dead socket, a timer
  wherever an answer is awaited, both end points released in the end, but for
  that of a socket that went through TIME_WAIT (section 3);
* test runner: every job collected once, an honest exit code, an end;
* visualizer: one holder of the lock, a simulation that goes on while it plays,
  and an end.

## 2. Modules

```
Ranking            members of a finite set in order, chosen members of a sequence
DropTailQueue      abstract: a FIFO that refuses when full
PriorityQueue      the RC3 queue; TopClass == INSTANCE DropTailQueue
PriorityQueueIsolation   classes 0..Watched are a PriorityQueue by themselves
FifoLink           abstract: what is accepted arrives, once and in order
PointToPointLink   device, queue (INSTANCE PriorityQueue) and channel in time; Link == INSTANCE FifoLink
ScoreBoard         operators on a board
TcpRxBuffer        operators on a reassembly buffer
RC3Sender          handlers of the sending half     (EXTENDS ScoreBoard)
RC3Receiver        handlers of the receiving half   (EXTENDS TcpRxBuffer)
Path               what arrives next on a path, and what a flush removes
ReliableStream     abstract: what a connection promises
RC3Flow            sender, receiver and two paths; Stream == INSTANCE ReliableStream
TcpSocket          the connection state machine of one socket (EXTENDS RC3Sender, INSTANCE RC3Receiver)
TcpConnection      client, server and two paths, from SYN to release
TestRunner         test.py's main thread, workers and interrupt
Visualizer         core.py's simulation thread and view
MC*                values for the model checker
*_proofs           theorems
```

### The queue

`PriorityQueue.tla` has one variable for each field that a decision reads.
`m_packets` is the five deques; a *slot* `<<i, k>>` is the k-th place of class
`i`. Eviction and flush both take a set of slots out (`Without`), and all
counters are corrected by `Account`. Bytes are counted as the cardinality of a
set of cells, one per byte, which keeps the module free of recursion and makes
the counting arguments provable.

| Action | Code |
|---|---|
| `EnqueueAccepted(p)`, `EnqueueRefused(p)` | `Queue::Enqueue` with `PriorityQueue::DoEnqueue` and its calls of `DropPacket` |
| `Dequeue(i)` | `Queue::Dequeue` with `DoDequeue`, class `i` being the first that is not empty |
| `FlushOutFlowPackets(f)` | the function of that name |

`Evicted(p)` describes the loop of `DropPacket` calls at once: a slot of a
lower class is emptied exactly when the packet still does not fit without all
that is emptied before that slot. `returned` records the answer of the last
call about a class up to `Watched`; it is what the refinements compare.
Background drop is a random choice in the code and a nondeterministic one here.

### The link

`PointToPointLink.tla` puts the device round the queue, of which it uses the
operators (eviction, refusal, flush), and the channel behind it, in discrete
time: a tick is what one unit of size takes. `Send` is `SendAccepted` and
`SendRefused`; `TransmitStart`, `TransmitComplete` and `Receive` have the
code's names. The counters of the queue are what is stored, which
`CountersAlwaysAgree` proves of it. `alone` follows a link that carries class 0
only; it is compared with, never read.

### The flow

`RC3Flow.tla` has the two sockets as records (`snd`, `rcv`, whose fields carry
the names of the members, shortened where the m_ prefix and the word Sequence
add nothing), and a path in each direction. Every handler is an operator from a
socket to a socket that appends what it sends to the field `out`, in the order
of the code, and an action applies it whole: `AckArrives` is `ReceivedAck` with
everything it calls, down to the segments sent.

| Action | Code |
|---|---|
| `AppSend` | `Sender::SendPacket` and `TcpRC3Sack::Send` |
| `SynAckArrives` | the SYN+ACK case of `ProcessSynSent`, which opens the connection, sends and starts the low-priority loop |
| `SegmentArrives` | `DoForwardUp` of the receiver, `ProcessSynRcvd` or `ProcessEstablished`, `ReceivedData`, the ACK, the application reading |
| `AckArrives` | `ProcessEstablished`, `ReceivedAck`, and the flush of the device queue when it asks for it |
| `Timeout` | `TcpSocketBase::ReTxTimeout`, `TcpRC3Sack::Retransmit`, `DoRetransmit` |
| `LoseSegment`, `LoseAck` | a queue on the way drops it |

A path is a sequence in order of sending. Queues serve priorities strictly and
are FIFO within one, so what arrives next is the first of some priority with
nothing of the same or a higher priority ahead of it (`Deliverable`), which
lets high priority overtake low and nothing else. `TopArrivesInOrder` of
`PointToPointLink` is the check that one link does behave so for class 0. A
flush reaches the low-priority segments still in the sender's own queue: how
many have left it is not known to the path, so every suffix that service order
allows is tried (`Flushable`).

What `SendPendingData` sends in its `while` is the longest run of unmarked
segments that fit, and what `StartRLPLoop` sends is the run of segments down
from the end of the buffer before the first that is declined.

The receiver has two ideas of delivery: `buffer.next` is what arrived in
order, `read` what the application was given. They differ because the receive
callback of a forked socket is set only when the application accepts the
connection, after the segment that completed the handshake was dealt with.

### The connection

`TcpSocket.tla` adds to a socket what outlives a flow: the end point, the retry
counter `cnCount`, the LAST_ACK timer, what the application was told, and the
handlers of every state. The field `retx` says what the retransmission timer
will do when it expires, since `SendEmptyPacket` schedules itself for SYN,
SYN+ACK and FIN on the event that data uses for `ReTxTimeout`. `asserted` is
whether the assertion of `DoPeerClose` has held so far.

`TcpConnection.tla` composes a client and a server. The server's socket is
forked by a SYN that finds the listening end point; a packet that finds no end
point is answered by `NoEndPoint`, which is `TcpL4Protocol::Receive`.

| Action | Code |
|---|---|
| `ArrivesAtServer`, `ArrivesAtClient` | `TcpL4Protocol::Receive`, then `CompleteFork` or `DoForwardUp` of the socket |
| `ClientTimeout`, `ServerTimeout` | the event in `m_retxEvent`, whichever function it is; `LastAckTimeout` |
| `TimeWaitEnds` | `CloseAndNotify`, scheduled by `TimeWait` |
| `ClientStops`, `StopServer` | `StopApplication` of the driver's applications |
| `LosePacket` | a queue on the way drops it |

When nothing is outstanding, congestion window and threshold are set to one
segment (`Settled`): what they have grown to decides nothing about opening and
closing, and the states that differ only in them are many.

`program` is chosen at the start: whether the server has called `ShutdownSend`
(as `PacketSink` does), whether the client waits for its data to be
acknowledged before it closes, and when the server closes.

### The test runner

`TestRunner.tla` is `run_tests` and `worker_thread.run` of `test.py`. A step of
a thread is what it does between two uses of what the threads share.

| Action | Code |
|---|---|
| `DispatchJob`, `DispatchBreak` | the main thread puts jobs, then one break per worker |
| `Get`, `Interrupted`, `Skip`, `Launch`, `Finish` | a worker takes a job, finds `thread_exit` set or the job to be skipped, or runs it and puts it back |
| `LaunchFails`, `FileMissing` | `Popen` raises in a worker; a file to be copied is missing in the main thread |
| `Collect`, `Return` | the main thread counts a job and writes its entry; it joins the workers and computes the exit code |
| `SigintHook` | the handler, which Python runs in the main thread between two of its instructions, not while it waits in `get` or `join` |

### The visualizer

`Visualizer.tla` is the `SimulationThread` and the view. `view` is the stack of
the view's callbacks that have not returned, because `update_view_timeout` runs
the main loop itself while it cannot take the lock.

| Action | Code |
|---|---|
| `SimWhile`, `SimWait`, `SimClear`, `SimAcquire`, `SimRun`, `SimRelease` | `SimulationThread.run`, one step for each use of `go`, `quit` and the lock |
| `Tick`, `TryLock`, `NothingPending`, `UpdateView` | `update_view_timeout` and its inner main loop |
| `PlayToggled`, `SpeedChanged`, `Quit`, `QuitGo`, `QuitJoined` | the callbacks of those names |
| `UpdateModelStarts`, `UpdateModel`, `LookUpStarts`, `LookUp` | callbacks that wait for the lock |
| `Runcode`, `SelectNode`, `RuncodeReturns` | code typed into the shell, run with the lock held |

What a callback does while it holds the lock is one step with the acquisition:
the other thread, the only other one, could do nothing then but wait for the
lock or reach it. What `update_view_timeout` does after the release touches
only the view's own state and then sets `go`, so it is in the same step too.

## 3. Properties and runs

Each run answers one question. Distinct states in parentheses.

| Run | Question and properties |
|---|---|
| `queue_bytes` (25165) | five classes, a priority beyond them, bytes mode, limit 5, sizes 1 and 2, two flows: several evictions per arrival, arrivals refused after evicting. `CountersAgree`, `WithinLimit`, `TopClassIsDropTail` |
| `queue_levels` (6003) | packets mode, three packets, background drop after evictions: `TypeOK`, `WithinLimit`, and `UpperClassesAlone`: classes 0 and 1 implement a queue of two classes |
| `flow` (776871) | five segments in writes of three and two, two losses, an early timeout: `TypeOK`, `RecoveryEnds`, `NextTxInBuffer`, `SackTruthful`, `FlushIsHarmless`, `NeverStuck`, `SentBelowBlock`, `WindowOpen`, `LowPriorityOnce`, `ImplementsStream`, and `AllDelivered` under `FairSpec` |
| `conn_orders` (400014) | SYN to release, two losses, an early timeout, four programs: `TypeOK`, `NoHalfOpen`, `Quiet`, `Awake`, `FollowsDiagram` |
| `conn_ends` (38307) | two losses, under `FairSpec`: `HandshakeEnds`, `BothEnd`, `ServerEnds` |
| `link` (24588) | three classes, bytes, background drop: `TypeOK`, `WorkConserving`, `LateByOnePacket`, and `TopArrivesInOrder`, a refinement with liveness |
| `tests` (17409) | two workers; a suite, an example and a skipped example under valgrind; an interrupt and a fault anywhere: `TypeOK`, `NoneLost`, `BreaksComeLast`, `ExitCodeHonest`, `FailuresReported`, `InterruptCutsOff`, `RunTestsEnds` |
| `view` (309315) | `update_view_timeout` inside itself, the shell: `TypeOK`, `TimerRuns`, `KeepsSimulating`, `QuitEnds` |
| `flow_offgrid` | `WindowUsed` is violated |
| `conn_pending` | `AllBeforeClose` is violated |
| `conn_assert` | `PeerClosesOnce` is violated |
| `view_shell` | `ShellReleases` is violated |

Every property of a passing run has a mutant in `PROJECT.json`: a plausible
slip in the code under which that run fails.

`TopClassIsDropTail` and `UpperClassesAlone` state RC3's central claim, that low
priority costs nothing to the classes above it, as refinements: the same packets
are accepted, refused and sent, in the same order, as by a queue that the lower
classes never enter. Random background drop is blind to classes; a drop-tail
queue has none, so the first is checked without it. `LateByOnePacket` is the
same claim for time: a transmission is not interrupted, so class 0 may be late
by what is left of one packet, and never by more.

`LowPriorityOnce` compares every segment that a step sends at low priority with
every one sent at low priority before it, in earlier steps or in the same one,
wherever those are by now: `lowSent` is the sequence of all of them, in the
order in which they were sent, so that a repeat makes it longer too.

`BothEnd` says of every patient program whose server stops that each end point
is released for good, with two exceptions. A socket that went through TIME_WAIT
keeps its end point (below, "Seen while modelling"). And an application that stops after the
handshake of its socket began, but before it is told of it, never closes that
socket, as nobody does after it: the socket (`Orphan`) rests in CLOSE_WAIT, and
the client waits for a FIN that nobody sends.

`ImplementsStream` is the refinement of `ReliableStream`: written, received in
order, read and acknowledged never overtake each other, whatever is lost,
repeated, overtaken or flushed.

`NextTxInBuffer` asks only that `m_nextTxSequence` is never behind the buffer.
Of `m_highTxMark` that is not true: `m_nextTxSequence` skips what was
acknowledged selectively, so when the last segments arrive at low priority the
cumulative ACK passes `m_highTxMark`, and `BytesInFlight`, an unsigned
difference, would be close to 2^32. The property says that this happens only
when nothing is outstanding; then a timeout returns before it reads
`BytesInFlight`, and no duplicate ACK is counted, so the value is not used.

`WindowOpen` says that outside fast recovery the congestion window takes a
segment and is below 2^32; theorems of section 4 assume it. It does not go
without saying: nothing bounds how far duplicate ACKs inflate the window in one
recovery, and a partial ACK takes off what it acknowledges without a test
(`im/tcp-rc3-sack.cc:233`), so that inside recovery the unsigned window may
wrap. `WindowStaysOpen` shows that nothing of this is left once recovery ends.
What the code does not exclude is growth past the top of the word, since each
new ACK adds to the window: that much (`WindowFits`: outside recovery one more
segment fits in the word) is a hypothesis of that theorem. It takes a window of
2^32 - MSS bytes to leave it; the instance of the run `flow` stays far below.

### What the violated runs show

1. **Off the grid** (`flow_offgrid`). Sizes that are not a multiple of the
   segment size put low-priority segments off the scoreboard's grid. When such
   a segment closes the gap, the cumulative ACK is off the grid too,
   `GetNextAggSegment` (`im/scoreboard.cc:190`) finds no node and returns 0,
   and nothing more is sent. `ReTxTimeout` returns early because head has
   caught up with `m_highTxMark`. The flow stops for good, though
   `SendPendingData` is to "Send as much as the window allows"
   (`im/tcp-rc3-sack.h:87`). A TODO at `im/tcp-rc3-sack.cc:687` names the
   assumption. The workload that comes with the repository has only whole
   segments.
2. **Close with data pending** (`conn_pending`). `Close`
   (`im/tcp-rc3-sack.cc:412`) discards all that is outstanding and goes on to
   `DoClose`; the peer takes the stream for complete without it. The comment
   above it says "App close with pending data must wait until all data
   transmitted".
3. **An assertion** (`conn_assert`). `ReceivedData` calls `DoPeerClose` whenever
   data fills the gap before a FIN, also in FIN_WAIT_1 and FIN_WAIT_2, where
   the assertion at `im/tcp-socket-base.cc:1457` does not hold.
4. **A lock that waits for itself** (`view_shell`). Shell code runs with the
   simulation lock held; `select_node` takes it again (`core.py:1283`), and it
   is not re-entrant.

### Seen while modelling, without a run of their own

* With one byte in the last segment, `CreateScoreBoard` (`im/scoreboard.cc:61`)
  makes no node for it: it is never sent. The same stall as in 1.
* If the ACK that ends the handshake is lost, the first data segment ends it,
  and `ProcessSynRcvd` (`im/tcp-rc3-sack.cc:605`) handles its data before the
  application sets its callback. In a flow of one segment nothing announces
  the data afterwards. In a longer flow the next segment in order does, which
  `AllDelivered` relies on.
* With writes that are not whole segments the low-priority loop may end by its
  count, which leaves `p2_block_bytes_sent` set (`im/tcp-rc3-sack.cc:1342`):
  the next block starts too low, and bytes may go out twice at low priority.
  `SentBelowBlock` and `LowPriorityOnce` hold for writes of whole segments.
* A FIN sent in LAST_ACK may have no retransmission timer
  (`im/tcp-rc3-sack.cc:1199`); the LAST_ACK timer releases the end point.
* The ACK of a FIN may leave the client in FIN_WAIT_1, because `ReceivedAck`
  has moved `m_highTxMark` before `ProcessWait` compares it
  (`im/tcp-socket-base.cc:1293`); the FIN is then sent again.
* When both ends close and their FINs cross, both sockets go through CLOSING to
  TIME_WAIT, whose timer calls `CloseAndNotify`; this skips
  `DeallocateEndPoint` in TIME_WAIT (`im/tcp-socket-base.cc:739`) and then sets
  CLOSED. Nothing frees the end point afterwards: both stay allocated, and a
  packet that still comes is answered with a reset by the closed socket. The
  header says of `CloseAndNotify` "To CLOSED state, notify upper layer, and
  deallocate end point" (`im/tcp-socket-base.h:155`). Without its exception for
  TIME_WAIT `BothEnd` fails in `conn_ends`.
* A connection attempt that fails, and a reset, are both reported as a normal
  close (`im/tcp-socket-base.cc:2247`, `:1052`).
* A suite that passes but fails valgrind gets no VALGR entry in the results
  file (`test.py:1684`); a `Popen` that raises ends its worker (`test.py:741`).
* A speed change inside a waiting `update_view_timeout` leaves a second timer
  that nothing stops (`core.py:1088`); the samples of a period may be replaced
  before they are announced (`core.py:1092`).

### Bounds and why they are enough

* Queue: the five classes of the code and one priority beyond them. Three
  packets, or five bytes with sizes 1 and 2, let an arrival evict from two
  classes, evict all that is lower and still be refused, and flush from the
  middle of a class. The theorems remove the bounds.
* Flow: segments of two bytes, so that an edge can lie inside one. Five
  segments are one more than it takes for fast retransmit with a threshold
  of two duplicates (`RetxThresh`, three in the code), a partial ACK and data
  beyond recovery. The writes are of three and two segments: with two and three
  the case described under `NextTxInBuffer` does not happen. `MaxLosses` is
  two: one to enter recovery and one to lose the retransmission.
  `MaxEarlyTimeouts` is one timeout while something is still on a path; a
  timeout with empty paths is never bounded. The state space does contain a
  partial ACK, a further duplicate in recovery, a full ACK with data left to
  send, a bump, a flush that finds segments and two levels of low priority.
  `FirstLevel`, 10 * m_prioritySlots in the code, is one, so that several
  priority levels occur in a flow of a few segments. `WordSize` is 2^16 in
  place of 2^32: the windows stay far below it, and a negative difference
  still shows as a huge window.
* Connection: two segments, so that one can be lost ahead of a FIN. `CnRetries`
  is two, six in the code: one retransmission, then the last. `MaxOvertakes` is
  how often the timer of one socket may expire while the other waits for its
  own: the intervals differ by a bounded factor.
* Link: packets of one and three ticks, a limit of two large ones, two packets
  on the wire (`MaxOnWire`), three classes, so that there is a middle one.
* Test runner: two workers and three jobs, so that two jobs run at once and one
  waits; one fault (`MaxFaults`).
* Visualizer: two calls of `update_view_timeout` inside one another
  (`MaxNesting`); the user starts a timer when at most one waits (`MaxTimers`).
* Deadlock is checked where the system never stops: the queue and the link. The
  flow, the connection, the test runner and the visualizer end. `NeverStuck`,
  `AllDelivered`, `BothEnd`, `RunTestsEnds` and `QuitEnds` state where they may.

### Fairness

* Flow: the application writes, what is on a path and not lost arrives, and a
  timer, once scheduled, expires when nothing is on a path. The event scheduler
  runs every scheduled event, so each is owed. A loss or an early timeout is
  never owed; their number is bounded.
* Connection: the same for both paths and both timers, and the applications
  stop if their program says so. The bounds matter here: when the server has
  used up its retries its socket is gone, the listening socket ignores all but
  a SYN, and a client that took the connection for open sends again and again
  with no limit. It takes three losses, or two and an early timeout, with
  `CnRetries` two; `conn_ends` has two losses and no early timeout, which is
  what the retries of the code are made for. The timer of TIME_WAIT runs for
  twice the lifetime of a segment and no packet starts it again
  (`im/tcp-socket-base.cc:874`), while the peer may repeat its FIN meanwhile;
  in the model it expires when no packet is on a path, so `TimeWaitEnds` is
  strongly fair: it happens although the paths are busy again and again.
* Link: a scheduled event happens, and time goes on.
* Test runner: each thread is scheduled and each command ends. An interrupt and
  a fault are never owed.
* Visualizer: both threads are scheduled and shell code ends. Strong fairness
  for `SimAcquire` (the lock is free again and again, and a waiting thread gets
  it sometime), for `Tick` (a user who keeps clicking leaves the main loop time
  for the timeouts) and for `NothingPending` (the inner main loop runs out of
  events again and again). `KeepsSimulating` excludes the case of `view_shell`.

## 4. Proofs

**The queue.** `PriorityQueue_proofs.tla` proves, for all values of the
constants that satisfy the ASSUMEs of `PriorityQueue.tla` (at least one class,
positive sizes, a finite set of sizes, natural limits), that `CountersAgree`,
`TypeOK` and `WithinLimit` are invariants.

`TypeOK` is not inductive: that no counter goes below zero depends on what it
counts. The inductive invariant is

    Inv == m_packets \in [Classes -> Seq(Packets)] /\ CountersAgree

and the work is in one fact about data: after `Remove(q, R)` the slots of the
result are as many, class by class and byte by byte, as the slots of `q`
outside `R`, although they are numbered anew. `RemoveMoves`, `TailMoves` and
`AppendMoves` give the bijection for eviction and flush, for Dequeue and for an
accepted packet; `MovedCounts` says what a bijection of slots that keeps sizes
does to the cells; `AccountTaken` and `AccountReplaced` turn it into the counters.
The bijection of a class is `NthOf`, whose laws (`Ranking_proofs.tla`: the
rank is monotone, injective and onto 1..Cardinality) rest on the library's
theorems about finite sets. `AlwaysWithinLimit` needs, beyond `Inv`, that one
eviction happens whenever a full queue in packets mode lets a packet in.

The same module proves the refinement, without background drop:
`TopAlwaysDropTail == Spec => TopClassIsDropTail`. Evictions and flushes leave
class 0 as it is (`TopUntouched`), and a packet of class 0 is refused exactly
when class 0 alone fills the queue (`RefusesIsFull`): in packets mode because
nothing else is left, in bytes mode because all else was evicted first
(`AllEvicted`: of what was not evicted, some slot would have been next, and it
was spared because the packet fits without it). With `Inv` and `WithinLimit`
each step of the queue is then a step of the drop-tail queue or none
(`TopStep`).

`UpperClasses_proofs.tla` proves the like for the classes down to any but the
last, which evict among themselves, and with background drops too:
`UpperAlwaysAlone == Spec => UpperClassesAlone`, assuming `Watched < NumClasses
- 1` (a tag beyond the last class is stored in the last class, so the last
class is not that of its priority). `Cut(q)` is the queue with nothing behind
class `Watched`; taking out, appending and sending commute with it, so that the
lemmas above count the watched classes as well. `UpperEvicts`: a slot of a
watched class is reached when everything behind these classes is gone, thus
with the same bytes left in both queues; in packets mode the watched classes
can only be full when nothing is behind them (`FullIsAllUpper`, from
`WithinLimit`). `UpperRefuses`: if something behind the watched classes was
spared, the packet fits in both (`FitsBefore`); otherwise the remaining bytes
are the same.

**The link.** `LinkConservesWork == Spec => []WorkConserving`; inductive as it
stands, since what is taken out of an empty queue leaves it empty. `TypeOK` is
proved from `LinkTypes`, which says in addition that every sub-queue is a
sequence of packets, that the transmitter has a current packet exactly when it
is BUSY and how much of it remains. `TopIsHardlyDelayed == Spec =>
[]LateByOnePacket` then compares the backlog of class 0 with that of a link of
its own: what is accepted adds the same to both (`BytesAppended`), what is
evicted or flushed is of another class, starting a packet of class 0 moves it
from the queue to the transmitter (`LateAtStart`), and a tick serves both or
else transmits one more unit of the lower packet (`LateAfterTick`). Work
conservation is needed where the device is idle.

**The test runner.** `WorkersLeaveNothing == Spec => []BreaksComeLast`, for any
number of workers and jobs, interrupts and faults. The invariant adds that jobs
precede breaks on the queue and that no worker has ended before the first break
was put.

The other four invariants follow from `AllKept == Place /\ Outcome /\ Kept`.
`Place`: a job is in one place, on one of the queues or in the hands of one
worker, and a worker holds a job exactly while it is busy with it. `Outcome`:
exit code and file of a job say the same as far as the exit code can, and
nothing is known of a job that has not come back. `Kept`: the counts of the main
thread are the numbers of jobs that it gathered, by status, and the exit code
was computed from them. `RunnerLosesNothing` follows from `Place` and the
first count, `ExitCodeIsHonest` and `FailuresAlwaysReported` from all three.
`InterruptAlwaysCutsOff` is an action property; the invariant behind it is that,
with `thread_exit` set, a job that has not been launched is not running.

**The flow.** `RC3Flow_proofs.tla` proves, for every segment size, every
sequence of writes, every window, threshold and number of losses and
timeouts, under the hypotheses named:

| Theorem | Property | Hypotheses |
|---|---|---|
| `MarksAreTruthful` | `SackTruthful` | `Segmented` |
| `FlushNeverHarms` | `FlushIsHarmless` | `Segmented` |
| `RecoveryHasAnEnd` | `RecoveryEnds` | `Segmented` |
| `FlowIsAStream` | `ImplementsStream`, the refinement | `Segmented`, `WritesFit` |
| `SenderIsNeverStuck` | `NeverStuck` | `Segmented`, `WritesFit`, `MSS > 1`, `[]WindowOpen` |
| `NextTxStaysInBuffer` | `NextTxInBuffer` | `Segmented`, `WritesFit`, `MSS > 1`, `[]WindowOpen` |
| `LowPriorityIsOnce` | `LowPriorityOnce` | `Segmented`, `WritesFit`, `MSS > 1`, `[]WindowOpen` |
| `BlockIsSent` | `SentBelowBlock` | `Segmented`, `WritesFit`, `MSS > 1`, `[]WindowOpen` |
| `WindowStaysOpen` | `WindowOpen` | `Segmented`, `WritesFit`, `WordLarge`, `[]WindowFits` |
| `FlowTypes` | `TypeOK` | `Segmented`, `WritesFit`, `WordLarge`, `[]WindowOpen` |

`Segmented` says that each write is of whole segments, as the flows of the
repository's workload are; `flow_offgrid` shows what becomes of the others.
`WritesFit` says that the writes add up to no more than `FlowSize`, which is
what `FlowSize` means: the scoreboard is created for that many bytes. A segment
of one byte at the end of the flow has no node (section 3), hence `MSS > 1`.
`WordLarge` says that the word that counts the window holds the flow, six
segments more, and the window to start with: flows are below 2^31 bytes, the word
is 2^32. `WindowOpen` and `WindowFits` are discussed in section 3; by
`WindowStaysOpen` the second may stand for the first where `WordLarge` holds.
`MCRC3Flow.tla` has TLC evaluate that the hypotheses on the constants hold of the
instance, and the run `flow` checks `WindowOpen`.

A handler is a function from a socket to a socket, so it is reasoned about
without the rest of the flow. `Shape` and `Open` say what a socket of the
sender is like between two handlers: everything is on the grid of segments, the
scoreboard marks only what has been written, what was sent ends below
`m_highTxMark` (at high priority) or below `p2_block_max` (at low priority),
recovery has a goal that has been sent, and between `m_highTxMark` and
`m_nextTxSequence` all is marked. `RcvShape` is the like for the receiver. For
each handler there is a lemma that its result is of that shape again and what it
changes at most (`Keeps`): `SendPendingDataIs`, `NewAckIs`, `SameAckIs`,
`DupAckIs`, `ReceivedAckIs`, `DoRetransmitIs`, `ReTxTimeoutIs`, `StartRLPLoopIs`,
`SendIs`, `ProcessSynSentIs`, `DoForwardUpIs`. They rest on lemmas about the
scoreboard (`NextAggIs`: a walk passes over marked segments only), the reassembly
buffer (what is held and what arrives next) and the SACK stack.

`FlowInv` adds what relates the sockets and the paths:

* `Agree`: what arrived was written, what is marked arrived, and what the sender
  freed the receiver has in order;
* `Acking`: every ACK on its way is true, and so are its blocks; ACKs never
  decrease, and (`Fresh`) no ACK at high priority acknowledges up to a segment
  that is marked, or that a block of an earlier ACK will mark.

The last part is the heart of it: if the head of the buffer could be a marked
segment, the sender would never send that segment again. It needs that
an ACK is overtaken by ACKs of a higher priority only, and that one of low
priority does not move the head. `FlowStep` proves that each action preserves
`FlowInv`; the first three theorems follow. The refinement needs how much was
written (`Counts`) besides: each action is a step of `ReliableStream` or none
(`StreamStep`).

`NeverStuck` and `NextTxInBuffer` need that the window is used. `Busy` adds to the
invariant that the scoreboard has a node for every segment (`Mapped`) and that
something is in flight or nothing is left (`InUse`): `PendingUsed` shows that
`SendPendingData`, called with an open window and an unmarked head, leaves it so.
The timer follows (`Timed`: it runs while head is below `m_highTxMark`).

The window: `Tuned` says that `m_cWnd` and `m_ssThresh` are in the word, that
`m_recover` and `m_bumpedSeq` do not pass the buffer, and that in recovery
`m_ssThresh` is at least two segments, which is what the window returns to. With
the type of the timer this is inductive while the window is open (`Clocked`), and
it makes `TypeOK`. `Paced` is the statement of each handler: from a window that
is open, with room for one segment (`Room`), it leaves the window open, though a
partial ACK may have wrapped it on the way; `RangeStep` says so of each action.

The low-priority loop: `LoopIs` says that from an empty block the loop either
does nothing or sends whole segments in a row down from the end of the buffer,
none below `last_block_seq`, until it meets `m_nextTxSequence` or the last block,
and then starts a new block at the end of the buffer. `Noted` says what this
leaves behind (`Below`): between handlers the block is empty, each segment ever
sent at low priority is on the grid and ends at or before `last_block_seq`, and
each byte below `last_block_seq`, or that has arrived, is below `m_highTxMark`
or in such a segment. The loop starts at or above `last_block_seq`, hence
nothing is sent a second time, and the gap that it leaves is below
`m_nextTxSequence`. Between `m_highTxMark` and `m_nextTxSequence` all is
marked, what is marked has arrived (`Agree`), and what arrived was sent: for
this the two conjuncts of `Below` need each other. A step of the sender is
described by the same handlers as before (`WritingStep`, `WaitingStep`: it
leaves the block alone or runs the loop once), and `NotedStep` adds the
segments that are on the path.

**The connection.** `TcpConnection_proofs.tla` assumes nothing but the named
ASSUMEs on the constants: any flow of any segment size (whole segments or not),
any number of retries, losses and early timeouts, every program.

| Theorem | Property |
|---|---|
| `ConnectionIsJoint` | `Joint`, the inductive invariant |
| `ConnectionTypes` | `TypeOK` |
| `ServerOpensLast` | `NoHalfOpen` |
| `ReleasedIsQuiet` | `Quiet` |
| `SocketsFollowDiagram` | `FollowsDiagram` |
| `PatientLosesNothing` | `AllBeforeClose` and `PeerClosesOnce`, when `program.patient` |

The last is the other half of the runs `conn_pending` and `conn_assert`: what
they find needs a client that closes while data is outstanding.

`Core(s)` is what holds of a socket whatever has happened to it, `Opening(s)` what
else holds while it is in SYN_SENT or SYN_RCVD. Each operator of `RC3Sender`,
`RC3Receiver` and `TcpSocket` has a lemma that relates the socket it is given to
the one it makes: `Base` (it is a `Core` again, the buffers only advance),
`Leads` (and, if the application has not closed, it sends no FIN and frees no
more than is acknowledged), `Does` (and what depends on the packet: only a SYN
finds a socket in SYN_RCVD as it was, only a FIN brings CLOSE_WAIT, and a packet
that comes in time moves the socket along the diagram). `Together` relates
the two sockets and the paths. `NoHalfOpen` needs the converse of what it says:
while a SYN is on its way or owed (`Early`), the server is as good as new
(`Unopened`). That in turn needs that SYNs are at the front of the path
(`SynsFirst`) and that nothing overtakes them: a SYN has the highest
priority (`SynsDelivered`). A reset from the demultiplexing layer may close the
client at any point, so `Early` speaks of the path and not only of the client.

`FollowsDiagram` and the last theorem need more of the data: with a patient
client (`Patient`) what the client has freed the server has in order, there is no FIN on
the path before the server has all the data, and the server is in CLOSE_WAIT or
LAST_ACK only when the FIN has come after it all. Hence no late gap can make
`ReceivedData` call `DoPeerClose` in a state that its assertion excludes.
`StepJoint` proves for each action `Joint'` and that both sockets moved along
the diagram (`Turned`).

**The visualizer.** For any nesting of callbacks, `PlayingHasTimer == Spec =>
[]TimerRuns` (each step that takes the known timer away stops playing or quits
in that step) and `LockIsHeldOnce == Spec => []TypeOK`: the lock is held by the
simulation thread exactly from its acquisition to its release, else by shell
code exactly while it runs, else by nobody; and callbacks nest no deeper than
the stack of `view` allows, which needs its shape: only `update_view_timeout`
is interrupted.

Only model-checked: `Awake` of the connection, which, like
`SenderIsNeverStuck`, would need a bound of the window and a node for each
segment (it does not hold for a flow whose last segment is one byte, section
3); and the refinement `TopArrivesInOrder`, which promises arrival: as all
liveness (`AllDelivered`, `HandshakeEnds`, `BothEnd`, `ServerEnds`,
`RunTestsEnds`, `KeepsSimulating`, `QuitEnds`) it is out of the prover's reach.
Induction over
data was not needed: the sums of `WritesFit` are given as a function, and bytes
are counted as cardinalities.

## 5. Not modelled, and assumed

* About 99 % of the Python lines of the repository are generated declarations
  for the bindings (`bindings/modulegen__*.py`): no state and no control flow.
  The simulator itself is C++. Of the Python written by hand, the concurrent
  part of `test.py` and of the visualizer is modelled; the options, discovery
  of suites and translation of results in `test.py`, and the drawing, windows
  and geometry of the visualizer, are sequential and have no state of interest.
* The driver's configuration: `LimitedWindow` off, limited transmit off,
  no Nagle, `DelAckCount` 1, send and receive buffers of 2048000000 bytes that
  are never full, hence no zero window and no persist timer; multiple
  priorities on. Data flows in one direction.
* In `RC3Flow` SYN and SYN+ACK arrive, and the loss of the ACK that follows is
  modelled; `TcpConnection` has the rest of the connection, with RC3's
  low-priority loop at the opening only (`RC3Once`) and without the flush. No
  passing run has a flow that is not whole segments, for the reason that
  `flow_offgrid` shows.
* No simultaneous open and no data from the server; the IPv6 twins are the same
  code.
* Sequence numbers do not wrap (a flow is below 2^31 bytes).
* `Level` counts the levels that end before segment n, level p ending with
  segment FirstLevel * (1 + 10 + ... + 10^(p-1)), which is what `ceil(log10(...))` computes without the rounding of floats.
* When the timer expires is left open; the RTT estimator is not modelled.
* `m_highReTx` is written and never read by code that runs. Statistics
  (m_nTotalReceived, m_nTotalDropped, counts) and logs decide nothing.
* `IsLost`, `SetPipe` and `GetNextSegment` of the scoreboard are never called.
* TcpRCP, the stock transports, the other ns-3 modules: see the components in
  `PROJECT.json`.

## 6. Plan

1. `Awake` of the connection under the hypotheses of `SenderIsNeverStuck`.
2. Reassembly with the size limit and partial extraction, against a reference
   definition; the list of packets behind CopyFromSequence and DiscardUpTo.
3. Pure algorithms: priority levels with the code's rounding, SequenceNumber32
   arithmetic with wrap, the history of the RTT estimator.
4. The deflation at a partial ACK (`im/tcp-rc3-sack.cc:233`): it takes fourteen
   segments and four losses in one window to wrap; receiver window and delayed
   ACKs as options.
5. TcpRCP.
