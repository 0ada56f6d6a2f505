-------------------------- MODULE TestRunner_proofs --------------------------
(***************************************************************************)
(* What TestRunner promises, for any number of workers and any jobs,       *)
(* interrupted or not: a worker that ends leaves nothing behind on the     *)
(* queue, no job is lost or run twice, the exit code and the results file  *)
(* say what the commands came to, and no job is launched any more once an  *)
(* interrupt has been noticed.                                             *)
(*                                                                         *)
(* The invariant AllKept has three layers: where every job is (Place),     *)
(* what is known of it there (Outcome), and the main thread's books on     *)
(* those it has gathered (Kept).                                           *)
(***************************************************************************)
EXTENDS TestRunner, FiniteSetTheorems, TLAPS

\* The queue holds jobs first and breaks behind them.
JobsFirst(q) == \A i, k \in DOMAIN q : i < k /\ q[i] = Break => q[k] = Break

NoJobs(q) == \A i \in DOMAIN q : q[i] = Break

Typed == input_queue \in Seq(Numbers \cup {Break}) /\ dispatched \in Nat

\* Before the first break is put there is none on the queue and no worker has
\* ended.
NoBreakYet ==
  main = "dispatching" /\ dispatched <= Len(Jobs) =>
    /\ \A i \in DOMAIN input_queue : input_queue[i] # Break
    /\ \A w \in Workers : at[w] # "ended"

EndedLast == \A w \in Workers : at[w] = "ended" => NoJobs(input_queue)

Inv == Typed /\ JobsFirst(input_queue) /\ NoBreakYet /\ EndedLast

\* The numbers of jobs are not that of a break.
LEMMA NumbersOfJobs == Len(Jobs) \in Nat /\ Numbers = 1 .. Len(Jobs) /\ Break \notin Numbers
BY TestRunnerAssumption DEF Numbers, Break

\* What is put behind the queue is its last element.
LEMMA Appended ==
  ASSUME NEW S, NEW q \in Seq(S), NEW e \in S
  PROVE  /\ Append(q, e) \in Seq(S)
         /\ DOMAIN Append(q, e) = 1 .. Len(q) + 1 /\ DOMAIN q = 1 .. Len(q) /\ Len(q) \in Nat
         /\ \A i \in DOMAIN q : Append(q, e)[i] = q[i]
         /\ Append(q, e)[Len(q) + 1] = e
OBVIOUS

\* What is left behind the first element keeps its order.
LEMMA TakenFirst ==
  ASSUME NEW S, NEW q \in Seq(S), q # <<>>
  PROVE  /\ Tail(q) \in Seq(S) /\ Head(q) = q[1] /\ 1 \in DOMAIN q
         /\ \A i \in DOMAIN Tail(q) : i \in Nat /\ i + 1 \in DOMAIN q /\ i + 1 > 1 /\ Tail(q)[i] = q[i + 1]
OBVIOUS

\* run_tests: a worker ends only when no job is left for another one, so that
\* each job on the queue is taken before the last worker goes.
THEOREM WorkersLeaveNothing == Spec => []BreaksComeLast
<1> DEFINE Q == Numbers \cup {Break}
<1>1. Init => Inv
  <2> SUFFICES ASSUME Init PROVE Inv
    OBVIOUS
  <2>1. input_queue = <<>> /\ dispatched = 0 /\ \A w \in Workers : at[w] = "get"
    BY DEF Init
  <2>2. Typed /\ EndedLast
    BY <2>1 DEF Typed, EndedLast
  <2>3. JobsFirst(input_queue) /\ NoBreakYet
    BY <2>1 DEF JobsFirst, NoBreakYet
  <2> QED
    BY <2>2, <2>3 DEF Inv
<1>2. Inv /\ [Next]_vars => Inv'
  <2> SUFFICES ASSUME Inv, [Next]_vars PROVE Inv'
    OBVIOUS
  <2> USE DEF Inv
  <2>1. CASE DispatchJob
    <3> DEFINE e == dispatched + 1
    <3>1. /\ dispatched < Len(Jobs) /\ main = "dispatching" /\ main' = main /\ at' = at
          /\ input_queue' = Append(input_queue, e) /\ dispatched' = e
      BY <2>1 DEF DispatchJob
    <3>2. e \in Numbers /\ e \in Q /\ e # Break /\ e \in Nat /\ input_queue \in Seq(Q)
      BY <3>1, NumbersOfJobs DEF Typed
    <3> HIDE DEF e, Q
    <3>3. /\ input_queue' \in Seq(Q)
          /\ DOMAIN input_queue' = 1 .. Len(input_queue) + 1
          /\ DOMAIN input_queue = 1 .. Len(input_queue) /\ Len(input_queue) \in Nat
          /\ \A i \in DOMAIN input_queue : input_queue'[i] = input_queue[i]
          /\ input_queue'[Len(input_queue) + 1] = e
      BY <3>1, <3>2, Appended
    <3>4. /\ \A i \in DOMAIN input_queue : input_queue[i] # Break
          /\ \A w \in Workers : at[w] # "ended"
      BY <3>1, NumbersOfJobs DEF NoBreakYet, Typed
    <3>5. \A i \in DOMAIN input_queue' : input_queue'[i] # Break
      BY <3>2, <3>3, <3>4
    <3>6. \A w \in Workers : at'[w] # "ended"
      BY <3>1, <3>4
    <3> QED
      BY <3>1, <3>2, <3>3, <3>5, <3>6 DEF Typed, JobsFirst, NoBreakYet, EndedLast, Q
  <2>2. CASE DispatchBreak
    <3>1. at' = at /\ dispatched >= Len(Jobs) /\ main = "dispatching"
      BY <2>2 DEF DispatchBreak
    <3>2. CASE UNCHANGED <<input_queue, dispatched>> /\ main' = "collecting"
      BY <3>1, <3>2 DEF Typed, JobsFirst, NoBreakYet, EndedLast, NoJobs
    <3>3. CASE input_queue' = Append(input_queue, Break) /\ dispatched' = dispatched + 1
      <4>1. input_queue \in Seq(Q) /\ Break \in Q
        BY DEF Typed
      <4> HIDE DEF Q
      <4>2. /\ input_queue' \in Seq(Q)
            /\ DOMAIN input_queue' = 1 .. Len(input_queue) + 1
            /\ DOMAIN input_queue = 1 .. Len(input_queue) /\ Len(input_queue) \in Nat
            /\ \A i \in DOMAIN input_queue : input_queue'[i] = input_queue[i]
            /\ input_queue'[Len(input_queue) + 1] = Break
        BY <3>3, <4>1, Appended
      <4>3. Typed'
        BY <3>3, <4>2 DEF Typed, Q
      <4>4. JobsFirst(input_queue')
        BY <4>2 DEF JobsFirst
      <4>5. NoBreakYet'
        BY <3>1, <3>3, NumbersOfJobs DEF NoBreakYet, Typed
      <4>6. EndedLast'
        BY <3>1, <4>2 DEF EndedLast, NoJobs
      <4> QED
        BY <4>3, <4>4, <4>5, <4>6
    <3> QED
      BY <2>2, <3>2, <3>3 DEF DispatchBreak
  <2>3. ASSUME NEW w \in Workers, Get(w) PROVE Inv'
    <3>1. /\ input_queue # <<>> /\ input_queue' = Tail(input_queue)
          /\ at' = [at EXCEPT ![w] = IF Head(input_queue) = Break THEN "ended" ELSE "test"]
          /\ dispatched' = dispatched /\ main' = main
      BY <2>3 DEF Get, onMain
    <3>2. input_queue \in Seq(Q)
      BY DEF Typed
    <3> HIDE DEF Q
    <3>3. /\ input_queue' \in Seq(Q) /\ Head(input_queue) = input_queue[1] /\ 1 \in DOMAIN input_queue
          /\ \A i \in DOMAIN input_queue' : /\ i \in Nat /\ i + 1 \in DOMAIN input_queue /\ i + 1 > 1
                                            /\ input_queue'[i] = input_queue[i + 1]
      BY <3>1, <3>2, TakenFirst
    <3>4. Typed'
      BY <3>1, <3>3 DEF Typed, Q
    <3>5. JobsFirst(input_queue')
      BY <3>3 DEF JobsFirst
    <3>6. NoBreakYet'
      BY <3>1, <3>3 DEF NoBreakYet
    <3>7. EndedLast'
      <4> SUFFICES ASSUME NEW v \in Workers, at'[v] = "ended" PROVE NoJobs(input_queue')
        BY DEF EndedLast
      <4>1. CASE at[v] = "ended"
        BY <3>3, <4>1 DEF EndedLast, NoJobs
      <4>2. CASE at[v] # "ended"
        <5>1. Head(input_queue) = Break
          BY <3>1, <4>2
        <5> QED
          BY <3>3, <5>1 DEF JobsFirst, NoJobs
      <4> QED
        BY <4>1, <4>2
    <3> QED
      BY <3>4, <3>5, <3>6, <3>7
  <2>4. ASSUME UNCHANGED <<input_queue, dispatched>>,
               main' = main \/ main' # "dispatching",
               \A w \in Workers : at'[w] = "ended" => at[w] = "ended"
        PROVE  Inv'
    BY <2>4 DEF Typed, JobsFirst, NoBreakYet, EndedLast, NoJobs
  <2>5. ASSUME NEW w \in Workers, Interrupted(w) \/ Skip(w) \/ Launch(w) \/ LaunchFails(w) \/ Finish(w)
        PROVE  Inv'
    <3>1. UNCHANGED <<input_queue, dispatched, main>>
      BY <2>5 DEF Interrupted, Skip, Launch, LaunchFails, Finish, PutBack, shared, onMain
    <3>2. \E place \in {"get", "runs", "dead"} : at' = [at EXCEPT ![w] = place]
      BY <2>5 DEF Interrupted, Skip, Launch, LaunchFails, Finish, PutBack
    <3> QED
      BY <2>4, <3>1, <3>2
  <2>6. CASE Collect \/ FileMissing \/ Return \/ SigintHook \/ UNCHANGED vars
    BY <2>4, <2>6 DEF Collect, FileMissing, Return, SigintHook, vars, shared, onMain
  <2> QED
    BY <2>1, <2>2, <2>3, <2>5, <2>6 DEF Next, Main, Worker
<1>3. Inv => BreaksComeLast
  BY DEF Inv, EndedLast, NoJobs, BreaksComeLast, Queued
<1> QED
  BY <1>1, <1>2, <1>3, PTL DEF Spec
-----------------------------------------------------------------------------
(***************************************************************************)
(* Where the jobs are.  A job moves from the input queue to a worker, from *)
(* there to the output queue, and from there to the main thread; at any    *)
(* time it is in one of these places, and in that place once.              *)
(***************************************************************************)
Waiting  == Queued(input_queue)
Held     == {holds[w] : w \in Workers} \ {Break}
Back     == Queued(output_queue)
Gathered == {j \in Numbers : j <= dispatched} \ (Waiting \cup Held \cup Back)

\* What the main thread has counted as s.
CountedAs(s) == {j \in Gathered : j \notin is_break /\ StatusOf(j) = s}

\* No job is twice on the queue.
Once(q) == \A i, k \in DOMAIN q : q[i] # Break /\ q[i] = q[k] => i = k

\* A worker holds a job from the time it has taken it until it puts it back,
\* or for ever if it dies.
BusyHold == \A w \in Workers : holds[w] # Break <=> at[w] \in {"test", "runs", "dead"}

OnePlace ==
  /\ Once(input_queue) /\ Once(output_queue)
  /\ \A v, w \in Workers : holds[v] # Break /\ holds[v] = holds[w] => v = w
  /\ Waiting \cap Held = {} /\ Waiting \cap Back = {} /\ Held \cap Back = {}
  /\ \A j \in Waiting \cup Held \cup Back : j <= dispatched

\* Every break is put before the main thread starts to collect, and every
\* worker has ended or died when it has returned.
MainInOrder ==
  /\ main = "dispatching" => collected = 0
  /\ main # "dispatching" => dispatched >= Len(Jobs)
  /\ main = "returned" => collected = Len(Jobs) /\ \A w \in Workers : at[w] \in {"ended", "dead"}
  /\ status = Running <=> main \in {"dispatching", "collecting"}

\* What is known of a job before it comes back ...
NotYetRun ==
  \A j \in Numbers :
     /\ j \notin Back \cup Gathered => j \notin is_break /\ tmp_file[j] = ""
     /\ j \in is_break \/ Jobs[j].skip => tmp_file[j] = ""

NoSkipRuns == \A w \in Workers : at[w] = "runs" => ~Jobs[holds[w]].skip

\* ... and of one that was run: the exit code and the file say the same, as
\* far as the exit code can.
Ran ==
  /\ \A j \in Numbers : tmp_file[j] = "FAIL" => returncode[j] \in {1, 2}
  /\ \A j \in Back \cup Gathered : ~Jobs[j].skip /\ j \notin is_break =>
       /\ returncode[j] = 0 => tmp_file[j] = "PASS"
       /\ returncode[j] # Crash => tmp_file[j] \in {"PASS", "FAIL"}

\* The main thread's books, as long as it keeps them.
Books ==
  main # "died" =>
    /\ Cardinality(Gathered) = collected
    /\ \A s \in Statuses : count[s] = Cardinality(CountedAs(s))
    /\ \A j \in Gathered : j \notin is_break => \E i \in DOMAIN results : results[i] = <<j, Entry(j)>>

\* The exit code, from the books it was computed from.
ExitCode ==
  /\ main = "died" => status = 1
  /\ main = "returned" => status = IF count["PASS"] + count["SKIP"] = Len(Jobs) THEN 0 ELSE 1
-----------------------------------------------------------------------------
Places == {"get", "test", "runs", "ended", "dead"}

PlaceTyped ==
  /\ input_queue \in Seq(Numbers \cup {Break}) /\ output_queue \in Seq(Numbers)
  /\ dispatched \in Nat
  /\ at \in [Workers -> Places]
  /\ holds \in [Workers -> Numbers \cup {Break}]

Place == PlaceTyped /\ BusyHold /\ OnePlace

\* What is put behind the queue is queued.
LEMMA QueuedAppended ==
  ASSUME NEW S, NEW q \in Seq(S), NEW e \in S
  PROVE  /\ Append(q, e) \in Seq(S)
         /\ Queued(Append(q, e)) = Queued(q) \cup ({e} \ {Break})
         /\ Once(q) /\ e \notin Queued(q) => Once(Append(q, e))
<1>1. /\ Append(q, e) \in Seq(S)
      /\ DOMAIN Append(q, e) = 1 .. Len(q) + 1 /\ DOMAIN q = 1 .. Len(q) /\ Len(q) \in Nat
      /\ \A i \in DOMAIN q : Append(q, e)[i] = q[i]
      /\ Append(q, e)[Len(q) + 1] = e
  BY Appended
<1>2. Queued(Append(q, e)) = Queued(q) \cup ({e} \ {Break})
  <2>1. \A x : x \in Queued(Append(q, e)) => x \in Queued(q) \cup ({e} \ {Break})
    BY <1>1 DEF Queued
  <2>2. \A x \in Queued(q) : x \in Queued(Append(q, e))
    BY <1>1 DEF Queued
  <2>3. e # Break => e \in Queued(Append(q, e))
    BY <1>1 DEF Queued
  <2> QED
    BY <2>1, <2>2, <2>3
<1>3. ASSUME Once(q), e \notin Queued(q) PROVE Once(Append(q, e))
  <2>1. \A i \in DOMAIN q : q[i] # Break => q[i] # e
    BY <1>3 DEF Queued
  <2> QED
    BY <1>1, <1>3, <2>1 DEF Once
<1> QED
  BY <1>1, <1>2, <1>3

\* What is taken from the queue was on it once.
LEMMA QueuedTaken ==
  ASSUME NEW S, NEW q \in Seq(S), q # <<>>, Once(q)
  PROVE  /\ Tail(q) \in Seq(S) /\ Head(q) \in S /\ Once(Tail(q))
         /\ Queued(Tail(q)) = Queued(q) \ {Head(q)}
         /\ Head(q) # Break => Head(q) \in Queued(q)
<1>1. /\ Tail(q) \in Seq(S) /\ Head(q) = q[1] /\ 1 \in DOMAIN q
      /\ \A i \in DOMAIN Tail(q) : i \in Nat /\ i + 1 \in DOMAIN q /\ i + 1 > 1 /\ Tail(q)[i] = q[i + 1]
  BY TakenFirst
<1>2. \A i \in DOMAIN q : i = 1 \/ (i - 1 \in DOMAIN Tail(q) /\ Tail(q)[i - 1] = q[i])
  OBVIOUS
<1>3. Head(q) \in S
  OBVIOUS
<1>4. Once(Tail(q))
  BY <1>1 DEF Once
<1>5. Queued(Tail(q)) = Queued(q) \ {Head(q)}
  <2>1. \A x \in Queued(Tail(q)) : x \in Queued(q) /\ x # Head(q)
    <3> TAKE x \in Queued(Tail(q))
    <3>1. PICK i \in DOMAIN Tail(q) : x = Tail(q)[i] /\ x # Break
      BY DEF Queued
    <3>2. i + 1 \in DOMAIN q /\ i + 1 # 1 /\ x = q[i + 1]
      BY <1>1, <3>1
    <3> QED
      BY <1>1, <3>1, <3>2 DEF Queued, Once
  <2>2. \A x \in Queued(q) : x # Head(q) => x \in Queued(Tail(q))
    <3> TAKE x \in Queued(q)
    <3> HAVE x # Head(q)
    <3>1. PICK i \in DOMAIN q : x = q[i] /\ x # Break
      BY DEF Queued
    <3>2. i # 1
      BY <1>1, <3>1
    <3> QED
      BY <1>2, <3>1, <3>2 DEF Queued
  <2> QED
    BY <2>1, <2>2
<1> QED
  BY <1>1, <1>3, <1>4, <1>5 DEF Queued

\* The jobs that the workers hold, when one of them takes or puts back its.
LEMMA HeldChanged ==
  ASSUME Place, NEW w \in Workers, NEW e \in Numbers \cup {Break},
         e # Break => e \notin Held,
         holds' = [holds EXCEPT ![w] = e]
  PROVE  /\ holds' \in [Workers -> Numbers \cup {Break}]
         /\ Held' = (Held \ {holds[w]}) \cup ({e} \ {Break})
         /\ holds[w] # Break => holds[w] \in Held
         /\ \A u, v \in Workers : holds'[u] # Break /\ holds'[u] = holds'[v] => u = v
<1>1. holds \in [Workers -> Numbers \cup {Break}]
  BY DEF Place, PlaceTyped
<1>2. \A u, v \in Workers : holds[u] # Break /\ holds[u] = holds[v] => u = v
  BY DEF Place, OnePlace
<1>3. holds'[w] = e /\ \A v \in Workers : v # w => holds'[v] = holds[v]
  BY <1>1
<1>4. \A v \in Workers : holds[v] # Break => holds[v] \in Held
  BY DEF Held
<1>5. Held' = (Held \ {holds[w]}) \cup ({e} \ {Break})
  <2>1. ASSUME NEW x \in Held' PROVE x \in (Held \ {holds[w]}) \cup ({e} \ {Break})
    <3>1. PICK v \in Workers : x = holds'[v] /\ x # Break
      BY <2>1 DEF Held
    <3>2. CASE v = w
      BY <1>3, <3>1, <3>2
    <3>3. CASE v # w
      BY <1>2, <1>3, <1>4, <3>1, <3>3
    <3> QED
      BY <3>2, <3>3
  <2>2. ASSUME NEW x \in Held, x # holds[w] PROVE x \in Held'
    <3>1. PICK v \in Workers : x = holds[v] /\ x # Break
      BY <2>2 DEF Held
    <3>2. holds'[v] = x
      BY <1>3, <2>2, <3>1
    <3> QED
      BY <3>1, <3>2 DEF Held
  <2>3. e # Break => e \in Held'
    BY <1>3 DEF Held
  <2> QED
    BY <2>1, <2>2, <2>3
<1>6. \A u, v \in Workers : holds'[u] # Break /\ holds'[u] = holds'[v] => u = v
  BY <1>2, <1>3, <1>4
<1> QED
  BY <1>1, <1>4, <1>5, <1>6

\* run_tests puts a job: it waits.
LEMMA DispatchJobMoves ==
  ASSUME Place, DispatchJob
  PROVE  /\ Place'
         /\ Waiting' = Waiting \cup {dispatched + 1} /\ Held' = Held /\ Back' = Back
         /\ Gathered' = Gathered
<1> DEFINE e == dispatched + 1
<1>1. /\ dispatched < Len(Jobs) /\ UNCHANGED <<output_queue, at, holds>>
      /\ input_queue' = Append(input_queue, e) /\ dispatched' = e
  BY DEF DispatchJob
<1>2. e \in Numbers /\ e \in Numbers \cup {Break} /\ e # Break /\ dispatched \in Nat /\ Numbers \subseteq Nat
  BY <1>1, NumbersOfJobs DEF Place, PlaceTyped
<1>3. e \notin Waiting \cup Held \cup Back
  BY <1>2 DEF Place, OnePlace
<1>4. input_queue \in Seq(Numbers \cup {Break}) /\ Once(input_queue)
  BY DEF Place, PlaceTyped, OnePlace
<1> HIDE DEF e
<1>5. /\ input_queue' \in Seq(Numbers \cup {Break})
      /\ Queued(input_queue') = Queued(input_queue) \cup ({e} \ {Break})
      /\ Once(input_queue')
  BY <1>1, <1>2, <1>3, <1>4, QueuedAppended DEF Waiting
<1>6. Waiting' = Waiting \cup {e} /\ Held' = Held /\ Back' = Back
  BY <1>1, <1>2, <1>5 DEF Waiting, Held, Back
<1>7. Gathered' = Gathered
  <2>1. \A j \in Numbers : j <= e <=> (j <= dispatched \/ j = e)
    BY <1>2 DEF e
  <2>2. Gathered' = {j \in Numbers : j <= e} \ (Waiting' \cup Held' \cup Back')
    BY <1>1 DEF Gathered
  <2>3. Waiting' \cup Held' \cup Back' = (Waiting \cup Held \cup Back) \cup {e}
    BY <1>6
  <2>4. Gathered = {j \in Numbers : j <= dispatched} \ (Waiting \cup Held \cup Back)
    BY DEF Gathered
  <2>5. ASSUME NEW j PROVE j \in Gathered' <=> j \in Gathered
    <3>1. CASE j = e
      BY <2>1, <2>2, <2>3, <2>4, <3>1, <1>2 DEF e
    <3>2. CASE j # e
      BY <2>1, <2>2, <2>3, <2>4, <3>2
    <3> QED
      BY <3>1, <3>2
  <2> QED
    BY <2>5
<1>8. Place'
  <2>1. PlaceTyped' /\ BusyHold'
    BY <1>1, <1>2, <1>5 DEF Place, PlaceTyped, BusyHold, e
  <2>2. \A j \in Waiting' \cup Held' \cup Back' : j <= e
    <3>1. Waiting \subseteq Numbers /\ Held \subseteq Numbers /\ Back \subseteq Numbers
      BY DEF Place, PlaceTyped, Waiting, Held, Back, Queued
    <3>2. \A j \in Waiting \cup Held \cup Back : j <= dispatched /\ j \in Nat
      BY <1>2, <3>1 DEF Place, OnePlace
    <3> QED
      BY <1>2, <1>6, <3>2 DEF e
  <2> QED
    BY <1>1, <1>3, <1>5, <1>6, <2>1, <2>2 DEF Place, OnePlace
<1> QED
  BY <1>6, <1>7, <1>8 DEF e

\* A step that neither queue, no worker and no dispatch takes part in.
LEMMA NobodyMoves ==
  ASSUME Place,
         UNCHANGED <<output_queue, holds>>,
         \A w \in Workers : at'[w] = at[w] \/ (at[w] \in {"test", "runs"} /\ at'[w] \in {"test", "runs", "dead"}),
         at' \in [Workers -> Places],
         \/ UNCHANGED <<input_queue, dispatched>>
         \/ input_queue' = Append(input_queue, Break) /\ dispatched' = dispatched + 1 /\ dispatched >= Len(Jobs)
  PROVE  Place' /\ UNCHANGED <<Waiting, Held, Back, Gathered>>
<1>1. input_queue \in Seq(Numbers \cup {Break}) /\ Once(input_queue) /\ dispatched \in Nat
  BY DEF Place, PlaceTyped, OnePlace
<1>2. UNCHANGED <<Held, Back>> /\ BusyHold'
  BY DEF Held, Back, Place, BusyHold
<1>3. CASE UNCHANGED <<input_queue, dispatched>>
  <2>1. UNCHANGED <<Waiting, Gathered>>
    BY <1>2, <1>3 DEF Waiting, Gathered
  <2> QED
    BY <1>2, <1>3, <2>1 DEF Place, PlaceTyped, OnePlace
<1>4. CASE input_queue' = Append(input_queue, Break) /\ dispatched' = dispatched + 1 /\ dispatched >= Len(Jobs)
  <2>1. Break \in Numbers \cup {Break} /\ Break \notin Queued(input_queue)
    BY DEF Queued
  <2>2. /\ input_queue' \in Seq(Numbers \cup {Break})
        /\ Queued(input_queue') = Queued(input_queue) \cup ({Break} \ {Break})
        /\ Once(input_queue')
    BY <1>1, <1>4, <2>1, QueuedAppended
  <2>3. Waiting' = Waiting
    BY <2>2 DEF Waiting
  <2>4. \A j \in Numbers : j <= dispatched /\ j <= dispatched'
    BY <1>1, <1>4, NumbersOfJobs
  <2>5. Gathered' = Gathered
    BY <1>2, <2>3, <2>4 DEF Gathered
  <2>6. Waiting \subseteq Numbers /\ Held \subseteq Numbers /\ Back \subseteq Numbers
    BY DEF Place, PlaceTyped, Waiting, Held, Back, Queued
  <2>7. dispatched' \in Nat
    BY <1>1, <1>4
  <2> QED
    BY <1>2, <2>2, <2>3, <2>4, <2>5, <2>6, <2>7 DEF Place, PlaceTyped, OnePlace
<1> QED
  BY <1>3, <1>4

\* A worker takes what is first on the queue: the job, if it is one, waits no
\* longer and is held.
LEMMA GetMoves ==
  ASSUME Place, NEW w \in Workers, Get(w)
  PROVE  /\ Place' /\ UNCHANGED <<Back, Gathered>>
         /\ Waiting' \cup Held' = Waiting \cup Held
         /\ Waiting' \subseteq Waiting
<1> DEFINE e == Head(input_queue)
<1>1. /\ at[w] = "get" /\ input_queue # <<>> /\ input_queue' = Tail(input_queue)
      /\ holds' = [holds EXCEPT ![w] = e]
      /\ at' = [at EXCEPT ![w] = IF e = Break THEN "ended" ELSE "test"]
      /\ UNCHANGED <<output_queue, dispatched>>
  BY DEF Get, onMain
<1>2. input_queue \in Seq(Numbers \cup {Break}) /\ Once(input_queue)
  BY DEF Place, PlaceTyped, OnePlace
<1>3. /\ input_queue' \in Seq(Numbers \cup {Break}) /\ e \in Numbers \cup {Break} /\ Once(input_queue')
      /\ Waiting' = Waiting \ {e}
      /\ e # Break => e \in Waiting
  BY <1>1, <1>2, QueuedTaken DEF Waiting
<1>4. e # Break => e \notin Held
  BY <1>3 DEF Place, OnePlace
<1>5. holds[w] = Break
  BY <1>1 DEF Place, BusyHold
<1> HIDE DEF e
<1>6. /\ holds' \in [Workers -> Numbers \cup {Break}]
      /\ Held' = (Held \ {holds[w]}) \cup ({e} \ {Break})
      /\ \A u, v \in Workers : holds'[u] # Break /\ holds'[u] = holds'[v] => u = v
  BY <1>1, <1>3, <1>4, HeldChanged
<1>7. Held' = Held \cup ({e} \ {Break}) /\ Break \notin Waiting
  BY <1>5, <1>6 DEF Held, Waiting, Queued
<1>8. Waiting' \cup Held' = Waiting \cup Held /\ Waiting' \subseteq Waiting /\ Back' = Back
  BY <1>1, <1>3, <1>7 DEF Back
<1>9. Gathered' = Gathered
  BY <1>1, <1>8 DEF Gathered
<1>10. Place'
  <2>1. at' \in [Workers -> Places] /\ at'[w] = (IF e = Break THEN "ended" ELSE "test") /\ \A v \in Workers : v # w => at'[v] = at[v]
    BY <1>1 DEF Place, PlaceTyped, Places
  <2>2. holds'[w] = e /\ \A v \in Workers : v # w => holds'[v] = holds[v]
    BY <1>1 DEF Place, PlaceTyped
  <2>3. BusyHold'
    BY <2>1, <2>2 DEF Place, BusyHold
  <2>4. PlaceTyped'
    BY <1>1, <1>3, <1>6, <2>1 DEF Place, PlaceTyped
  <2>5. OnePlace'
    <3>1. Waiting' \cap Held' = {} /\ Waiting' \cap Back' = {} /\ Held' \cap Back' = {}
      BY <1>3, <1>7, <1>8 DEF Place, OnePlace
    <3>2. Once(input_queue') /\ Once(output_queue')
      BY <1>1, <1>3 DEF Place, OnePlace
    <3>3. \A j \in Waiting' \cup Held' \cup Back' : j <= dispatched'
      BY <1>1, <1>8 DEF Place, OnePlace
    <3> QED
      BY <1>6, <3>1, <3>2, <3>3 DEF OnePlace
  <2> QED
    BY <2>3, <2>4, <2>5 DEF Place
<1> QED
  BY <1>8, <1>9, <1>10

\* A worker puts back the job it holds.
LEMMA PutBackMoves ==
  ASSUME Place, NEW w \in Workers, at[w] \in {"test", "runs"}, PutBack(w), UNCHANGED <<input_queue, dispatched>>
  PROVE  /\ Place' /\ UNCHANGED <<Waiting, Gathered>>
         /\ holds[w] \in Numbers /\ holds[w] \in Held
         /\ Held' = Held \ {holds[w]}
         /\ Back' = Back \cup {holds[w]}
<1>1. /\ output_queue' = Append(output_queue, holds[w])
      /\ holds' = [holds EXCEPT ![w] = Break]
      /\ at' = [at EXCEPT ![w] = "get"]
  BY DEF PutBack
<1>2. holds[w] \in Numbers /\ holds[w] # Break
  BY DEF Place, PlaceTyped, BusyHold
<1>3. /\ holds' \in [Workers -> Numbers \cup {Break}]
      /\ Held' = (Held \ {holds[w]}) \cup ({Break} \ {Break})
      /\ holds[w] # Break => holds[w] \in Held
      /\ \A u, v \in Workers : holds'[u] # Break /\ holds'[u] = holds'[v] => u = v
  BY <1>1, HeldChanged
<1>4. holds[w] \notin Back /\ holds[w] \notin Waiting
  BY <1>2, <1>3 DEF Place, OnePlace
<1>5. output_queue \in Seq(Numbers) /\ Once(output_queue)
  BY DEF Place, PlaceTyped, OnePlace
<1>6. /\ output_queue' \in Seq(Numbers)
      /\ Queued(output_queue') = Queued(output_queue) \cup ({holds[w]} \ {Break})
      /\ Once(output_queue')
  BY <1>1, <1>2, <1>4, <1>5, QueuedAppended DEF Back
<1>7. Held' = Held \ {holds[w]} /\ Back' = Back \cup {holds[w]} /\ Waiting' = Waiting
  BY <1>2, <1>3, <1>6 DEF Back, Waiting
<1>8. Gathered' = Gathered
  BY <1>2, <1>3, <1>7 DEF Gathered
<1>9. Place'
  <2>1. at' \in [Workers -> Places] /\ at'[w] = "get" /\ \A v \in Workers : v # w => at'[v] = at[v]
    BY <1>1 DEF Place, PlaceTyped, Places
  <2>2. holds'[w] = Break /\ \A v \in Workers : v # w => holds'[v] = holds[v]
    BY <1>1 DEF Place, PlaceTyped
  <2>3. BusyHold'
    BY <2>1, <2>2 DEF Place, BusyHold
  <2>4. PlaceTyped'
    BY <1>3, <1>6, <2>1 DEF Place, PlaceTyped
  <2>5. OnePlace'
    <3>1. Waiting' \cap Held' = {} /\ Waiting' \cap Back' = {} /\ Held' \cap Back' = {}
      BY <1>4, <1>7 DEF Place, OnePlace
    <3>2. Once(input_queue') /\ Once(output_queue')
      BY <1>6 DEF Place, OnePlace
    <3>3. \A j \in Waiting' \cup Held' \cup Back' : j <= dispatched'
      BY <1>2, <1>3, <1>7 DEF Place, OnePlace
    <3> QED
      BY <1>3, <3>1, <3>2, <3>3 DEF OnePlace
  <2> QED
    BY <2>3, <2>4, <2>5 DEF Place
<1> QED
  BY <1>2, <1>3, <1>7, <1>8, <1>9

\* The main thread takes a job off the output queue.
LEMMA CollectMoves ==
  ASSUME Place, output_queue # <<>>, output_queue' = Tail(output_queue),
         UNCHANGED <<input_queue, dispatched, at, holds>>
  PROVE  /\ Place' /\ UNCHANGED <<Waiting, Held>>
         /\ Head(output_queue) \in Numbers /\ Head(output_queue) \in Back
         /\ Back' = Back \ {Head(output_queue)}
         /\ Gathered' = Gathered \cup {Head(output_queue)}
         /\ Head(output_queue) \notin Gathered
<1> DEFINE j == Head(output_queue)
<1>1. output_queue \in Seq(Numbers) /\ Once(output_queue)
  BY DEF Place, PlaceTyped, OnePlace
<1>2. /\ output_queue' \in Seq(Numbers) /\ j \in Numbers /\ Once(output_queue')
      /\ Back' = Back \ {j}
      /\ j # Break => j \in Back
  BY <1>1, QueuedTaken DEF Back
<1>3. j \in Back
  BY <1>2, NumbersOfJobs
<1> HIDE DEF j
<1>4. UNCHANGED <<Waiting, Held>>
  BY DEF Waiting, Held
<1>5. j \notin Waiting /\ j \notin Held /\ j <= dispatched
  BY <1>3 DEF Place, OnePlace
<1>6. Gathered' = Gathered \cup {j} /\ j \notin Gathered
  BY <1>2, <1>3, <1>4, <1>5 DEF Gathered
<1>7. Place'
  BY <1>2, <1>4 DEF Place, PlaceTyped, BusyHold, OnePlace
<1> QED
  BY <1>2, <1>3, <1>4, <1>6, <1>7 DEF j
-----------------------------------------------------------------------------
OutcomeTyped ==
  /\ thread_exit \in BOOLEAN /\ is_break \subseteq Numbers
  /\ returncode \in [Numbers -> {0, 1, 2, Crash}]
  /\ tmp_file \in [Numbers -> {"", "PASS", "FAIL"}]

Outcome == OutcomeTyped /\ NotYetRun /\ NoSkipRuns /\ Ran

\* What one job came to stays so while no worker ends it.
LEMMA OutcomeStays ==
  ASSUME Outcome, UNCHANGED onJobs, thread_exit' \in BOOLEAN,
         Back' \cup Gathered' = Back \cup Gathered,
         \A w \in Workers : at'[w] = "runs" =>
            (at[w] = "runs" /\ holds'[w] = holds[w]) \/ ~Jobs[holds'[w]].skip
  PROVE  Outcome'
<1>1. OutcomeTyped' /\ NoSkipRuns'
  BY DEF Outcome, OutcomeTyped, NoSkipRuns, onJobs
<1>2. NotYetRun'
  <2>1. NotYetRun /\ UNCHANGED <<is_break, tmp_file>>
    BY DEF Outcome, onJobs
  <2>2. \A j : j \in Back' \/ j \in Gathered' <=> j \in Back \/ j \in Gathered
    OBVIOUS
  <2> QED
    BY <2>1, <2>2 DEF NotYetRun
<1>3. Ran'
  <2>1. Ran /\ UNCHANGED <<is_break, tmp_file, returncode>>
    BY DEF Outcome, onJobs
  <2> QED
    BY <2>1 DEF Ran
<1> QED
  BY <1>1, <1>2, <1>3 DEF Outcome

\* worker_thread.run, interrupted: the job has not run and is marked.
LEMMA InterruptedOutcome ==
  ASSUME Place, Outcome, NEW w \in Workers, Interrupted(w)
  PROVE  Place' /\ Outcome'
<1> DEFINE j == holds[w]
<1>1. /\ at[w] = "test" /\ PutBack(w) /\ UNCHANGED <<input_queue, dispatched, thread_exit, returncode, tmp_file>>
      /\ is_break' = is_break \cup {j}
      /\ at' = [at EXCEPT ![w] = "get"] /\ holds' = [holds EXCEPT ![w] = Break]
  BY DEF Interrupted, onMain, PutBack
<1>2. /\ Place' /\ UNCHANGED <<Waiting, Gathered>>
      /\ j \in Numbers /\ j \in Held
      /\ Back' = Back \cup {j}
  BY <1>1, PutBackMoves
<1> HIDE DEF j
<1>3. j \notin Back \cup Gathered
  BY <1>2 DEF Place, OnePlace, Gathered
<1>4. tmp_file[j] = ""
  BY <1>2, <1>3 DEF Outcome, NotYetRun
<1>5. OutcomeTyped'
  BY <1>1, <1>2 DEF Outcome, OutcomeTyped
<1>6. NotYetRun'
  BY <1>1, <1>2, <1>4 DEF Outcome, NotYetRun
<1>7. NoSkipRuns'
  BY <1>1 DEF Place, PlaceTyped, Outcome, NoSkipRuns
<1>8. Ran'
  BY <1>1, <1>2 DEF Outcome, Ran
<1> QED
  BY <1>2, <1>5, <1>6, <1>7, <1>8 DEF Outcome

\* worker_thread.run, is_skip: the job has not run.
LEMMA SkipOutcome ==
  ASSUME Place, Outcome, NEW w \in Workers, Skip(w)
  PROVE  Place' /\ Outcome'
<1> DEFINE j == holds[w]
<1>1. /\ at[w] = "test" /\ PutBack(w) /\ UNCHANGED <<input_queue, dispatched, thread_exit, is_break, returncode, tmp_file>>
      /\ Jobs[j].skip
      /\ at' = [at EXCEPT ![w] = "get"] /\ holds' = [holds EXCEPT ![w] = Break]
  BY DEF Skip, onMain, onJobs, PutBack
<1>2. /\ Place' /\ UNCHANGED <<Waiting, Gathered>>
      /\ j \in Numbers /\ j \in Held
      /\ Back' = Back \cup {j}
  BY <1>1, PutBackMoves
<1> HIDE DEF j
<1>3. OutcomeTyped'
  BY <1>1 DEF Outcome, OutcomeTyped
<1>4. NotYetRun'
  BY <1>1, <1>2 DEF Outcome, NotYetRun
<1>5. NoSkipRuns'
  BY <1>1 DEF Place, PlaceTyped, Outcome, NoSkipRuns
<1>6. Ran'
  BY <1>1, <1>2 DEF Outcome, Ran
<1> QED
  BY <1>2, <1>3, <1>4, <1>5, <1>6 DEF Outcome

\* run_job_synchronously: what the command came to is in the exit code, and
\* unless it crashed in its file.
LEMMA RetvalOfEnding ==
  ASSUME NEW e \in Endings
  PROVE  /\ Retval(e) \in {0, 1, 2, Crash}
         /\ e.crash \in BOOLEAN /\ e.result \in {"PASS", "FAIL"}
         /\ Retval(e) # Crash <=> ~e.crash
         /\ Retval(e) = 0 => e.result = "PASS"
<1>1. e.crash \in BOOLEAN /\ e.result \in {"PASS", "FAIL"} /\ e.valgrind \in {"clean", "leaks", "errors"}
  BY DEF Endings
<1>2. CASE e.crash
  <2>1. Retval(e) = Crash
    BY <1>2 DEF Retval
  <2> QED
    BY <1>1, <1>2, <2>1 DEF Crash
<1>3. CASE ~e.crash /\ e.valgrind = "errors"
  <2>1. Retval(e) = 2
    BY <1>3 DEF Retval
  <2> QED
    BY <1>1, <1>3, <2>1 DEF Crash
<1>4. CASE ~e.crash /\ e.valgrind # "errors" /\ e.result = "FAIL"
  <2>1. Retval(e) = 1
    BY <1>4 DEF Retval
  <2> QED
    BY <1>1, <1>4, <2>1 DEF Crash
<1>5. CASE ~e.crash /\ e.valgrind # "errors" /\ e.result = "PASS"
  <2>1. Retval(e) \in {0, 2}
    BY <1>1, <1>5 DEF Retval
  <2> QED
    BY <1>1, <1>5, <2>1 DEF Crash
<1> QED
  BY <1>1, <1>2, <1>3, <1>4, <1>5

LEMMA FinishOutcome ==
  ASSUME Place, Outcome, NEW w \in Workers, Finish(w)
  PROVE  Place' /\ Outcome'
<1> DEFINE j == holds[w]
<1>1. /\ at[w] = "runs" /\ PutBack(w) /\ UNCHANGED <<input_queue, dispatched, thread_exit, is_break>>
      /\ at' = [at EXCEPT ![w] = "get"] /\ holds' = [holds EXCEPT ![w] = Break]
  BY DEF Finish, onMain, PutBack
<1>2. PICK e \in Endings :
         /\ returncode' = [returncode EXCEPT ![j] = Retval(e)]
         /\ tmp_file' = [tmp_file EXCEPT ![j] = IF e.crash THEN "" ELSE e.result]
  BY DEF Finish
<1>3. /\ Place' /\ UNCHANGED <<Waiting, Gathered>>
      /\ j \in Numbers /\ j \in Held
      /\ Back' = Back \cup {j}
  BY <1>1, PutBackMoves
<1>4. ~Jobs[j].skip
  BY <1>1 DEF Outcome, NoSkipRuns
<1> HIDE DEF j
<1>5. j \notin Back \cup Gathered
  BY <1>3 DEF Place, OnePlace, Gathered
<1>6. j \notin is_break
  BY <1>3, <1>5 DEF Outcome, NotYetRun
<1> DEFINE rc == Retval(e)
           file == IF e.crash THEN "" ELSE e.result
<1> HIDE DEF rc
<1>7. /\ rc \in {0, 1, 2, Crash} /\ file \in {"", "PASS", "FAIL"}
      /\ file = "FAIL" => rc \in {1, 2}
      /\ rc = 0 => file = "PASS"
      /\ rc # Crash => file \in {"PASS", "FAIL"}
  <2>1. /\ rc \in {0, 1, 2, Crash} /\ e.crash \in BOOLEAN /\ e.result \in {"PASS", "FAIL"}
        /\ rc # Crash <=> ~e.crash
        /\ rc = 0 => e.result = "PASS"
    BY RetvalOfEnding DEF rc
  <2>2. CASE e.crash
    BY <2>1, <2>2 DEF Crash
  <2>3. CASE ~e.crash
    BY <2>1, <2>3 DEF Crash
  <2> QED
    BY <2>1, <2>2, <2>3
<1>8. /\ returncode' = [returncode EXCEPT ![j] = rc] /\ tmp_file' = [tmp_file EXCEPT ![j] = file]
  BY <1>2 DEF rc
<1> HIDE DEF file
<1>9. OutcomeTyped'
  BY <1>1, <1>7, <1>8 DEF Outcome, OutcomeTyped
<1>10. /\ returncode'[j] = rc /\ tmp_file'[j] = file
       /\ \A k \in Numbers : k # j => returncode'[k] = returncode[k] /\ tmp_file'[k] = tmp_file[k]
  BY <1>3, <1>8 DEF Outcome, OutcomeTyped
<1>11. NotYetRun'
  BY <1>1, <1>3, <1>4, <1>6, <1>10 DEF Outcome, NotYetRun
<1>12. NoSkipRuns'
  BY <1>1 DEF Place, PlaceTyped, Outcome, NoSkipRuns
<1>13. Ran'
  <2>1. Back \cup Gathered \subseteq Numbers
    BY DEF Place, PlaceTyped, Back, Gathered, Queued
  <2>2. \A k \in Numbers : tmp_file'[k] = "FAIL" => returncode'[k] \in {1, 2}
    BY <1>7, <1>10 DEF Outcome, Ran
  <2>3. ASSUME NEW k \in Back' \cup Gathered', ~Jobs[k].skip, k \notin is_break'
        PROVE  /\ returncode'[k] = 0 => tmp_file'[k] = "PASS"
               /\ returncode'[k] # Crash => tmp_file'[k] \in {"PASS", "FAIL"}
    <3>1. CASE k = j
      BY <1>7, <1>10, <3>1
    <3>2. CASE k # j
      <4>1. k \in Back \cup Gathered
        BY <1>3, <3>2
      <4> QED
        BY <1>1, <1>10, <2>1, <2>3, <3>2, <4>1 DEF Outcome, Ran
    <3> QED
      BY <3>1, <3>2
  <2> QED
    BY <2>2, <2>3 DEF Ran
<1> QED
  BY <1>3, <1>9, <1>11, <1>12, <1>13 DEF Outcome

LEMMA InitOutcome == Init => Place /\ Outcome
<1> SUFFICES ASSUME Init PROVE Place /\ Outcome
  OBVIOUS
<1>1. input_queue = <<>> /\ output_queue = <<>> /\ dispatched = 0 /\ \A w \in Workers : at[w] = "get" /\ holds[w] = Break
  BY DEF Init
<1>2. Waiting = {} /\ Held = {} /\ Back = {}
  BY <1>1 DEF Waiting, Held, Back, Queued
<1>3. Place
  <2>1. PlaceTyped
    <3>1. at \in [Workers -> Places] /\ holds \in [Workers -> Numbers \cup {Break}]
      BY DEF Init, Places
    <3>2. input_queue \in Seq(Numbers \cup {Break}) /\ output_queue \in Seq(Numbers) /\ dispatched \in Nat
      BY <1>1
    <3> QED
      BY <3>1, <3>2 DEF PlaceTyped
  <2>2. BusyHold
    BY <1>1 DEF BusyHold
  <2>3. OnePlace
    BY <1>1, <1>2 DEF OnePlace, Once
  <2> QED
    BY <2>1, <2>2, <2>3 DEF Place
<1>4. Gathered = {}
  BY <1>1, NumbersOfJobs DEF Gathered
<1>5. Outcome
  BY <1>1, <1>2, <1>4 DEF Init, Outcome, OutcomeTyped, NotYetRun, NoSkipRuns, Ran
<1> QED
  BY <1>3, <1>5

LEMMA NextOutcome ==
  ASSUME Place, Outcome, [Next]_vars
  PROVE  Place' /\ Outcome'
<1>1. CASE DispatchJob
  <2>1. /\ Place' /\ Back' = Back /\ Gathered' = Gathered
    BY <1>1, DispatchJobMoves
  <2>2. UNCHANGED <<onJobs, at, holds, thread_exit>>
    BY <1>1 DEF DispatchJob
  <2> QED
    BY <2>1, <2>2, OutcomeStays DEF Outcome, OutcomeTyped
<1>2. ASSUME NEW w \in Workers, Get(w) PROVE Place' /\ Outcome'
  <2>1. /\ Place' /\ Back' = Back /\ Gathered' = Gathered
    BY <1>2, GetMoves
  <2>2. UNCHANGED <<onJobs, thread_exit>> /\ \A v \in Workers : at'[v] = "runs" => at[v] = "runs" /\ holds'[v] = holds[v]
    BY <1>2 DEF Get, Place, PlaceTyped
  <2> QED
    BY <2>1, <2>2, OutcomeStays DEF Outcome, OutcomeTyped
<1>3. ASSUME UNCHANGED <<output_queue, holds, onJobs>>, thread_exit' \in BOOLEAN,
             \/ UNCHANGED at
             \/ \E w \in Workers : /\ at[w] = "test" /\ at' = [at EXCEPT ![w] = "runs"]
                                   /\ ~Jobs[holds[w]].skip
             \/ \E w \in Workers : at[w] = "runs" /\ at' = [at EXCEPT ![w] = "dead"],
             \/ UNCHANGED <<input_queue, dispatched>>
             \/ input_queue' = Append(input_queue, Break) /\ dispatched' = dispatched + 1 /\ dispatched >= Len(Jobs)
      PROVE  Place' /\ Outcome'
  <2>1. at \in [Workers -> Places]
    BY DEF Place, PlaceTyped
  <2>2. /\ at' \in [Workers -> Places]
        /\ \A w \in Workers : at'[w] = at[w] \/ (at[w] \in {"test", "runs"} /\ at'[w] \in {"test", "runs", "dead"})
        /\ \A w \in Workers : at'[w] = "runs" => at[w] = "runs" \/ ~Jobs[holds[w]].skip
    BY <1>3, <2>1 DEF Places
  <2>3. Place' /\ UNCHANGED <<Back, Gathered>>
    BY <1>3, <2>2, NobodyMoves
  <2> QED
    BY <1>3, <2>2, <2>3, OutcomeStays
<1>4. CASE DispatchBreak \/ Return \/ SigintHook \/ UNCHANGED vars
  <2>1. thread_exit \in BOOLEAN
    BY DEF Outcome, OutcomeTyped
  <2>2. UNCHANGED <<output_queue, holds, onJobs, at>> /\ thread_exit' \in BOOLEAN
    BY <1>4, <2>1 DEF DispatchBreak, Return, SigintHook, vars, shared
  <2>3. \/ UNCHANGED <<input_queue, dispatched>>
        \/ input_queue' = Append(input_queue, Break) /\ dispatched' = dispatched + 1 /\ dispatched >= Len(Jobs)
    BY <1>4 DEF DispatchBreak, Return, SigintHook, vars, shared, onMain
  <2> QED
    BY <1>3, <2>2, <2>3
<1>5. ASSUME NEW w \in Workers, Launch(w) \/ LaunchFails(w) PROVE Place' /\ Outcome'
  BY <1>3, <1>5 DEF Launch, LaunchFails, shared, onMain, Outcome, OutcomeTyped
<1>6. CASE Collect \/ FileMissing
  <2>1. /\ output_queue # <<>> /\ output_queue' = Tail(output_queue)
        /\ UNCHANGED <<input_queue, dispatched, at, holds, onJobs, thread_exit>>
    BY <1>6 DEF Collect, FileMissing
  <2>2. /\ Place' /\ Head(output_queue) \in Back
        /\ Back' = Back \ {Head(output_queue)} /\ Gathered' = Gathered \cup {Head(output_queue)}
    BY <2>1, CollectMoves
  <2>3. Back' \cup Gathered' = Back \cup Gathered
    BY <2>2
  <2> QED
    BY <2>1, <2>2, <2>3, OutcomeStays DEF Outcome, OutcomeTyped
<1> QED
  BY <1>1, <1>2, <1>4, <1>5, <1>6, InterruptedOutcome, SkipOutcome, FinishOutcome DEF Next, Main, Worker
-----------------------------------------------------------------------------
(***************************************************************************)
(* The main thread's books.                                                *)
(***************************************************************************)
MainTyped ==
  /\ main \in {"dispatching", "collecting", "died", "returned"}
  /\ dispatched \in 0 .. Len(Jobs) + Cardinality(Workers) /\ collected \in 0 .. Len(Jobs)
  /\ count \in [Statuses -> 0 .. Len(Jobs)]
  /\ results \in Seq(Numbers \X Statuses)
  /\ status \in {Running, 0, 1} /\ faults \in 0 .. MaxFaults

Kept == MainTyped /\ MainInOrder /\ Books /\ ExitCode

LEMMA FiniteNumbers ==
  /\ IsFiniteSet(Numbers) /\ Cardinality(Numbers) = Len(Jobs)
  /\ IsFiniteSet(Workers) /\ Cardinality(Workers) \in Nat
<1>1. IsFiniteSet(1 .. Len(Jobs)) /\ Cardinality(1 .. Len(Jobs)) = IF 1 > Len(Jobs) THEN 0 ELSE Len(Jobs) - 1 + 1
  BY NumbersOfJobs, FS_Interval
<1>2. IsFiniteSet(Workers) /\ Cardinality(Workers) \in Nat
  BY TestRunnerAssumption, FS_CardinalityType
<1> QED
  BY <1>1, <1>2, NumbersOfJobs

\* A set of jobs is counted by a number no larger than that of all jobs.
LEMMA SomeNumbers ==
  ASSUME NEW S \in SUBSET Numbers
  PROVE  IsFiniteSet(S) /\ Cardinality(S) \in Nat /\ Cardinality(S) <= Len(Jobs)
BY FiniteNumbers, FS_Subset, FS_CardinalityType

LEMMA GatheredNumbers == Gathered \in SUBSET Numbers /\ \A s : CountedAs(s) \in SUBSET Numbers
BY DEF Gathered, CountedAs

\* What is written of a job that has come back is one of the results.
LEMMA EntryIsStatus ==
  ASSUME Place, Outcome, NEW j \in Back \cup Gathered, j \notin is_break
  PROVE  j \in Numbers /\ StatusOf(j) \in Statuses /\ Entry(j) \in Statuses
<1>1. j \in Numbers
  BY DEF Place, PlaceTyped, Back, Gathered, Queued
<1>2. returncode[j] \in {0, 1, 2, Crash} /\ tmp_file[j] \in {"", "PASS", "FAIL"}
  BY <1>1 DEF Outcome, OutcomeTyped
<1>3. CASE Jobs[j].skip
  <2>1. StatusOf(j) = "SKIP"
    BY <1>3 DEF StatusOf
  <2> QED
    BY <1>1, <2>1 DEF Entry, Copied, Statuses
<1>4. CASE ~Jobs[j].skip /\ returncode[j] = Crash
  <2>1. StatusOf(j) = "CRASH"
    BY <1>4 DEF StatusOf, Crash
  <2> QED
    BY <1>1, <2>1 DEF Entry, Copied, Statuses
<1>5. CASE ~Jobs[j].skip /\ returncode[j] # Crash
  <2>1. StatusOf(j) \in {"PASS", "FAIL", "VALGR"}
    <3>1. CASE returncode[j] = 0
      BY <1>5, <3>1 DEF StatusOf
    <3>2. CASE returncode[j] = 1
      BY <1>5, <3>2 DEF StatusOf
    <3>3. CASE returncode[j] = 2
      BY <1>5, <3>3 DEF StatusOf
    <3> QED
      BY <1>2, <1>5, <3>1, <3>2, <3>3
  <2>2. tmp_file[j] \in {"PASS", "FAIL"}
    BY <1>5 DEF Outcome, Ran
  <2> QED
    BY <1>1, <2>1, <2>2 DEF Entry, Statuses
<1> QED
  BY <1>2, <1>3, <1>4, <1>5

\* The books stay true while the main thread does not collect and what it has
\* gathered stays as it is.
LEMMA BooksStay ==
  ASSUME Place, Kept, UNCHANGED <<collected, count, results, Gathered>>, main' # "died" => main # "died",
         \A j \in Gathered : /\ j \in is_break' <=> j \in is_break
                             /\ returncode'[j] = returncode[j] /\ tmp_file'[j] = tmp_file[j]
  PROVE  Books'
<1>1. \A j \in Gathered : StatusOf(j)' = StatusOf(j) /\ Entry(j)' = Entry(j)
  BY DEF StatusOf, Entry, Copied
<1>2. \A s \in Statuses : CountedAs(s)' = CountedAs(s)
  <2> TAKE s \in Statuses
  <2>1. CountedAs(s)' = {j \in Gathered' : j \notin is_break' /\ StatusOf(j)' = s}
    BY DEF CountedAs
  <2> QED
    BY <1>1, <2>1 DEF CountedAs
<1>3. CASE main' = "died"
  BY <1>3 DEF Books
<1>4. CASE main' # "died"
  <2>1. /\ Cardinality(Gathered') = collected'
        /\ \A s \in Statuses : count'[s] = Cardinality(CountedAs(s)')
    BY <1>2, <1>4 DEF Kept, Books
  <2>2. \A j \in Gathered' : j \notin is_break' => \E i \in DOMAIN results' : results'[i] = <<j, Entry(j)'>>
    BY <1>1, <1>4 DEF Kept, Books
  <2> QED
    BY <2>1, <2>2 DEF Books
<1> QED
  BY <1>3, <1>4

\* A step of a worker leaves the books alone.
LEMMA WorkerKeepsBooks ==
  ASSUME Place, Outcome, Kept, NEW w \in Workers, Worker(w)
  PROVE  Kept'
<1>1. UNCHANGED onMain /\ at[w] \in {"get", "test", "runs"}
  BY DEF Worker, Get, Interrupted, Skip, Launch, LaunchFails, Finish
<1>2. faults' \in 0 .. MaxFaults
  <2>1. faults \in 0 .. MaxFaults /\ MaxFaults \in Nat
    BY TestRunnerAssumption DEF Kept, MainTyped
  <2>2. faults' = faults \/ (faults < MaxFaults /\ faults' = faults + 1)
    BY DEF Worker, Get, Interrupted, Skip, Launch, LaunchFails, Finish
  <2> QED
    BY <2>1, <2>2
<1>3. Gathered' = Gathered
  <2>1. CASE Get(w)
    BY <2>1, GetMoves
  <2>2. CASE Interrupted(w) \/ Skip(w) \/ Finish(w)
    <3>1. at[w] \in {"test", "runs"} /\ PutBack(w) /\ UNCHANGED <<input_queue, dispatched>>
      BY <2>2 DEF Interrupted, Skip, Finish, onMain
    <3> QED
      BY <3>1, PutBackMoves
  <2>3. CASE Launch(w) \/ LaunchFails(w)
    BY <2>3 DEF Launch, LaunchFails, shared, onMain, Gathered, Waiting, Held, Back
  <2> QED
    BY <2>1, <2>2, <2>3 DEF Worker
<1>4. \A j \in Gathered : /\ j \in is_break' <=> j \in is_break
                          /\ returncode'[j] = returncode[j] /\ tmp_file'[j] = tmp_file[j]
  <2>1. CASE UNCHANGED onJobs
    BY <2>1 DEF onJobs
  <2>2. CASE Interrupted(w) \/ Finish(w)
    <3>1. at[w] \in {"test", "runs"}
      BY <2>2 DEF Interrupted, Finish
    <3>2. holds[w] \in Held
      BY <3>1 DEF Place, BusyHold, Held
    <3>3. holds[w] \notin Gathered
      BY <3>2 DEF Gathered
    <3> QED
      BY <2>2, <3>3, GatheredNumbers DEF Interrupted, Finish, Outcome, OutcomeTyped
  <2> QED
    BY <2>1, <2>2 DEF Worker, Get, Skip, Launch, LaunchFails
<1>5. Books'
  BY <1>1, <1>3, <1>4, BooksStay DEF onMain
<1>6. main # "returned"
  BY <1>1 DEF Kept, MainInOrder
<1> QED
  BY <1>1, <1>2, <1>5, <1>6 DEF Kept, MainTyped, MainInOrder, ExitCode, onMain

\* The main thread counts a job that has come back as what it came to.
LEMMA Counts ==
  ASSUME Place, Outcome, Kept, main = "collecting", output_queue # <<>>, output_queue' = Tail(output_queue),
         UNCHANGED <<input_queue, dispatched, at, holds, onJobs>>
  PROVE  LET j == Head(output_queue)
         IN  /\ Gathered' = Gathered \cup {j} /\ j \notin Gathered /\ j \in Back
             /\ Cardinality(Gathered') = collected + 1
             /\ \A k : StatusOf(k)' = StatusOf(k) /\ Entry(k)' = Entry(k)
             /\ \A s \in Statuses :
                   /\ Cardinality(CountedAs(s)') = IF j \notin is_break /\ s = StatusOf(j) THEN count[s] + 1 ELSE count[s]
                   /\ Cardinality(CountedAs(s)') \in 0 .. Len(Jobs)
<1> DEFINE j == Head(output_queue)
<1>1. Gathered' = Gathered \cup {j} /\ j \notin Gathered /\ j \in Back
  BY CollectMoves
<1>2. Cardinality(Gathered) = collected /\ \A s \in Statuses : count[s] = Cardinality(CountedAs(s))
  BY DEF Kept, Books
<1>3. Cardinality(Gathered') = collected + 1
  <2>1. IsFiniteSet(Gathered)
    BY GatheredNumbers, SomeNumbers
  <2> QED
    BY <1>1, <1>2, <2>1, FS_AddElement
<1>4. \A k : StatusOf(k)' = StatusOf(k) /\ Entry(k)' = Entry(k)
  BY DEF StatusOf, Entry, Copied, onJobs
<1>5. ASSUME NEW s \in Statuses
      PROVE  /\ Cardinality(CountedAs(s)') = IF j \notin is_break /\ s = StatusOf(j) THEN count[s] + 1 ELSE count[s]
             /\ Cardinality(CountedAs(s)') \in 0 .. Len(Jobs)
  <2>1. CountedAs(s)' = {k \in Gathered' : k \notin is_break' /\ StatusOf(k)' = s}
    BY DEF CountedAs
  <2>2. CountedAs(s)' = {k \in Gathered \cup {j} : k \notin is_break /\ StatusOf(k) = s}
    BY <1>1, <1>4, <2>1 DEF onJobs
  <2>3. IsFiniteSet(CountedAs(s)) /\ j \notin CountedAs(s) /\ count[s] = Cardinality(CountedAs(s))
    BY <1>1, <1>2, GatheredNumbers, SomeNumbers DEF CountedAs
  <2>4. j \in Numbers
    BY <1>1 DEF Place, PlaceTyped, Back, Queued
  <2>5. CountedAs(s)' \in SUBSET Numbers
    BY <2>2, <2>4, GatheredNumbers
  <2>6. Cardinality(CountedAs(s)') \in 0 .. Len(Jobs)
    BY <2>5, SomeNumbers, NumbersOfJobs
  <2> HIDE DEF j
  <2>7. CASE j \notin is_break /\ s = StatusOf(j)
    <3>1. CountedAs(s)' = CountedAs(s) \cup {j}
      BY <2>2, <2>7 DEF CountedAs
    <3>2. Cardinality(CountedAs(s) \cup {j}) = Cardinality(CountedAs(s)) + 1
      BY <2>3, FS_AddElement
    <3> QED
      BY <2>3, <2>6, <2>7, <3>1, <3>2
  <2>8. CASE ~(j \notin is_break /\ s = StatusOf(j))
    <3>1. CountedAs(s)' = CountedAs(s)
      BY <2>2, <2>8 DEF CountedAs
    <3> QED
      BY <2>3, <2>6, <2>8, <3>1
  <2> QED
    BY <2>7, <2>8
<1> QED
  BY <1>1, <1>3, <1>4, <1>5

LEMMA CollectKeeps ==
  ASSUME Place, Outcome, Kept, Collect
  PROVE  Kept'
<1> DEFINE j == Head(output_queue)
           s == StatusOf(j)
<1>1. /\ main = "collecting" /\ collected < Len(Jobs) /\ output_queue # <<>> /\ output_queue' = Tail(output_queue)
      /\ collected' = collected + 1
      /\ UNCHANGED <<input_queue, dispatched, at, holds, onJobs, main, status, faults>>
  BY DEF Collect
<1>2. /\ Gathered' = Gathered \cup {j} /\ j \notin Gathered /\ j \in Back
      /\ Cardinality(Gathered') = collected + 1
      /\ \A k : StatusOf(k)' = StatusOf(k) /\ Entry(k)' = Entry(k)
      /\ \A t \in Statuses :
            /\ Cardinality(CountedAs(t)') = IF j \notin is_break /\ t = s THEN count[t] + 1 ELSE count[t]
            /\ Cardinality(CountedAs(t)') \in 0 .. Len(Jobs)
  BY <1>1, Counts
<1>3. /\ j \in is_break => UNCHANGED <<count, results>>
      /\ j \notin is_break => count' = [count EXCEPT ![s] = @ + 1] /\ results' = Append(results, <<j, Entry(j)>>)
  BY DEF Collect
<1>4. j \notin is_break => j \in Numbers /\ s \in Statuses /\ Entry(j) \in Statuses
  BY <1>2, EntryIsStatus
<1>5. count \in [Statuses -> 0 .. Len(Jobs)] /\ results \in Seq(Numbers \X Statuses)
  BY DEF Kept, MainTyped
<1>6. is_break' = is_break
  BY <1>1 DEF onJobs
<1> HIDE DEF j, s
<1>7. \A t \in Statuses : count'[t] = IF j \notin is_break /\ t = s THEN count[t] + 1 ELSE count[t]
  BY <1>3, <1>4, <1>5
<1>8. count' \in [Statuses -> 0 .. Len(Jobs)]
  <2>1. \A t \in Statuses : count'[t] \in 0 .. Len(Jobs)
    BY <1>2, <1>7
  <2>2. count' = [t \in Statuses |-> count'[t]]
    BY <1>3, <1>5
  <2> QED
    BY <2>1, <2>2
<1>9. /\ results' \in Seq(Numbers \X Statuses)
      /\ \A i \in DOMAIN results : i \in DOMAIN results' /\ results'[i] = results[i]
      /\ j \notin is_break => \E i \in DOMAIN results' : results'[i] = <<j, Entry(j)>>
  <2>1. CASE j \in is_break
    BY <1>3, <1>5, <2>1
  <2>2. CASE j \notin is_break
    <3> DEFINE S == Numbers \X Statuses
               e == <<j, Entry(j)>>
    <3>1. e \in S /\ results \in Seq(S) /\ results' = Append(results, e)
      BY <1>3, <1>4, <1>5, <2>2
    <3> HIDE DEF S, e
    <3>2. /\ Append(results, e) \in Seq(S)
          /\ DOMAIN Append(results, e) = 1 .. Len(results) + 1 /\ DOMAIN results = 1 .. Len(results) /\ Len(results) \in Nat
          /\ \A i \in DOMAIN results : Append(results, e)[i] = results[i]
          /\ Append(results, e)[Len(results) + 1] = e
      BY <3>1, Appended
    <3>3. results' \in Seq(S) /\ \A i \in DOMAIN results : i \in DOMAIN results' /\ results'[i] = results[i]
      BY <3>1, <3>2
    <3>4. \E i \in DOMAIN results' : results'[i] = e
      BY <3>1, <3>2
    <3> QED
      BY <3>3, <3>4 DEF S, e
  <2> QED
    BY <2>1, <2>2
<1>10. Books'
  <2>1. Cardinality(Gathered') = collected' /\ \A t \in Statuses : count'[t] = Cardinality(CountedAs(t)')
    BY <1>1, <1>2, <1>7
  <2>2. \A k \in Gathered' : k \notin is_break' => \E i \in DOMAIN results' : results'[i] = <<k, Entry(k)'>>
    <3> TAKE k \in Gathered'
    <3> HAVE k \notin is_break'
    <3>1. CASE k = j
      BY <1>2, <1>6, <1>9, <3>1
    <3>2. CASE k # j
      <4>1. k \in Gathered /\ k \notin is_break
        BY <1>2, <1>6, <3>2
      <4>2. PICK i \in DOMAIN results : results[i] = <<k, Entry(k)>>
        BY <1>1, <4>1 DEF Kept, Books
      <4> QED
        BY <1>2, <1>9, <4>2
    <3> QED
      BY <3>1, <3>2
  <2> QED
    BY <2>1, <2>2 DEF Books
<1>11. MainTyped'
  BY <1>1, <1>8, <1>9, NumbersOfJobs DEF Kept, MainTyped
<1>12. MainInOrder' /\ ExitCode'
  BY <1>1 DEF Kept, MainInOrder, ExitCode
<1> QED
  BY <1>10, <1>11, <1>12 DEF Kept

LEMMA FileMissingKeeps ==
  ASSUME Place, Outcome, Kept, FileMissing
  PROVE  Kept'
<1> DEFINE j == Head(output_queue)
           s == StatusOf(j)
<1>1. /\ main = "collecting" /\ collected < Len(Jobs) /\ output_queue # <<>> /\ output_queue' = Tail(output_queue)
      /\ UNCHANGED <<input_queue, dispatched, at, holds, onJobs, collected, results>>
      /\ faults < MaxFaults /\ faults' = faults + 1
      /\ main' = "died" /\ status' = 1
  BY DEF FileMissing
<1>2. j \notin is_break /\ count' = [count EXCEPT ![s] = @ + 1]
  BY DEF FileMissing
<1>3. \A t \in Statuses :
         /\ Cardinality(CountedAs(t)') = IF j \notin is_break /\ t = s THEN count[t] + 1 ELSE count[t]
         /\ Cardinality(CountedAs(t)') \in 0 .. Len(Jobs)
  BY <1>1, Counts
<1>4. count \in [Statuses -> 0 .. Len(Jobs)]
  BY DEF Kept, MainTyped
<1> HIDE DEF j, s
<1>5. count' \in [Statuses -> 0 .. Len(Jobs)]
  <2>1. \A t \in Statuses : count'[t] \in 0 .. Len(Jobs)
    BY <1>2, <1>3, <1>4
  <2> QED
    BY <1>2, <1>4, <2>1
<1>6. faults' \in 0 .. MaxFaults
  BY <1>1, TestRunnerAssumption DEF Kept, MainTyped
<1>7. MainTyped'
  BY <1>1, <1>5, <1>6 DEF Kept, MainTyped
<1>8. MainInOrder' /\ Books' /\ ExitCode'
  BY <1>1 DEF Kept, MainInOrder, Books, ExitCode, Running
<1> QED
  BY <1>7, <1>8 DEF Kept

LEMMA InitKept == Init => Kept
<1> SUFFICES ASSUME Init PROVE Kept
  OBVIOUS
<1>1. MainTyped
  <2>1. 0 \in 0 .. Len(Jobs) /\ 0 \in 0 .. Len(Jobs) + Cardinality(Workers) /\ 0 \in 0 .. MaxFaults
    BY NumbersOfJobs, FiniteNumbers, TestRunnerAssumption
  <2>2. count \in [Statuses -> 0 .. Len(Jobs)]
    BY <2>1 DEF Init
  <2>3. results \in Seq(Numbers \X Statuses)
    <3>1. results = <<>>
      BY DEF Init
    <3> QED
      BY <3>1
  <2> QED
    BY <2>1, <2>2, <2>3 DEF Init, MainTyped
<1>2. MainInOrder /\ ExitCode
  BY DEF Init, MainInOrder, ExitCode
<1>3. Books
  <2>1. Gathered = {}
    <3>1. dispatched = 0
      BY DEF Init
    <3>2. \A j \in Numbers : ~(j <= dispatched)
      BY <3>1, NumbersOfJobs
    <3> QED
      BY <3>2 DEF Gathered
  <2>2. \A s : CountedAs(s) = {}
    BY <2>1 DEF CountedAs
  <2>3. \A s \in Statuses : count[s] = 0
    BY DEF Init
  <2>4. Cardinality({}) = 0
    BY FS_EmptySet
  <2>5. Cardinality(Gathered) = collected
    BY <2>1, <2>4 DEF Init
  <2> QED
    BY <2>1, <2>2, <2>3, <2>4, <2>5 DEF Books
<1> QED
  BY <1>1, <1>2, <1>3 DEF Kept

LEMMA NextKept ==
  ASSUME Place, Outcome, Kept, [Next]_vars
  PROVE  Kept'
<1>1. CASE DispatchJob \/ DispatchBreak
  <2>1. UNCHANGED Gathered
    <3>1. CASE DispatchJob
      BY <3>1, DispatchJobMoves
    <3>2. CASE DispatchBreak
      <4>1. UNCHANGED <<output_queue, holds, at>> /\ at' \in [Workers -> Places]
        BY <3>2 DEF DispatchBreak, Place, PlaceTyped
      <4>2. \/ UNCHANGED <<input_queue, dispatched>>
            \/ input_queue' = Append(input_queue, Break) /\ dispatched' = dispatched + 1 /\ dispatched >= Len(Jobs)
        BY <3>2 DEF DispatchBreak
      <4> QED
        BY <4>1, <4>2, NobodyMoves
    <3> QED
      BY <1>1, <3>1, <3>2
  <2>2. /\ main = "dispatching" /\ main' \in {"dispatching", "collecting"}
        /\ main' = "collecting" => dispatched' >= Len(Jobs)
        /\ UNCHANGED <<onJobs, at, collected, count, results, status, faults>>
    BY <1>1 DEF DispatchJob, DispatchBreak
  <2>3. Books'
    BY <2>1, <2>2, BooksStay DEF onJobs
  <2>4. dispatched' \in 0 .. Len(Jobs) + Cardinality(Workers)
    <3>1. dispatched \in 0 .. Len(Jobs) + Cardinality(Workers)
      BY DEF Kept, MainTyped
    <3>2. dispatched' = dispatched \/ (dispatched < Len(Jobs) + Cardinality(Workers) /\ dispatched' = dispatched + 1)
      BY <1>1, <3>1, FiniteNumbers, NumbersOfJobs DEF DispatchJob, DispatchBreak
    <3> QED
      BY <3>1, <3>2, FiniteNumbers, NumbersOfJobs
  <2>5. MainTyped'
    BY <2>2, <2>4 DEF Kept, MainTyped
  <2>6. MainInOrder' /\ ExitCode'
    BY <2>2 DEF Kept, MainInOrder, ExitCode
  <2> QED
    BY <2>3, <2>5, <2>6 DEF Kept
<1>2. CASE Return
  <2>1. /\ UNCHANGED <<shared, onJobs, at, holds, dispatched, collected, count, results, faults>>
        /\ main = "collecting" /\ collected = Len(Jobs) /\ \A w \in Workers : at[w] \in {"ended", "dead"}
        /\ main' = "returned"
        /\ status' = IF count["PASS"] + count["SKIP"] = Len(Jobs) THEN 0 ELSE 1
    BY <1>2 DEF Return, Joined
  <2>2. UNCHANGED Gathered
    BY <2>1 DEF Gathered, Waiting, Held, Back, shared
  <2>3. Books'
    BY <2>1, <2>2, BooksStay DEF onJobs
  <2>4. status' \in {0, 1} /\ status' # Running
    BY <2>1 DEF Running
  <2>5. MainTyped'
    BY <2>1, <2>4 DEF Kept, MainTyped
  <2>6. MainInOrder' /\ ExitCode'
    BY <2>1, <2>4 DEF Kept, MainInOrder, ExitCode
  <2> QED
    BY <2>3, <2>5, <2>6 DEF Kept
<1>3. CASE SigintHook \/ UNCHANGED vars
  <2>1. UNCHANGED <<shared, onJobs, at, holds, onMain, faults>>
    BY <1>3 DEF SigintHook, vars
  <2>2. UNCHANGED Gathered
    BY <2>1 DEF Gathered, Waiting, Held, Back, shared, onMain
  <2>3. Books'
    BY <2>1, <2>2, BooksStay DEF onJobs, onMain
  <2> QED
    BY <2>1, <2>3 DEF Kept, MainTyped, MainInOrder, ExitCode, onMain
<1> QED
  BY <1>1, <1>2, <1>3, WorkerKeepsBooks, CollectKeeps, FileMissingKeeps DEF Next, Main
-----------------------------------------------------------------------------
AllKept == Place /\ Outcome /\ Kept

LEMMA AlwaysKept == Spec => []AllKept
<1>1. Init => AllKept
  BY InitOutcome, InitKept DEF AllKept
<1>2. AllKept /\ [Next]_vars => AllKept'
  BY NextOutcome, NextKept DEF AllKept
<1> QED
  BY <1>1, <1>2, PTL DEF Spec

\* Whatever the jobs, the workers and the interrupt do, the variables have
\* their types: no thread puts back the break, and no count exceeds the jobs.
THEOREM RunnerTypeCorrect == Spec => []TypeOK
<1>1. AllKept => TypeOK
  BY DEF AllKept, Place, PlaceTyped, Places, Outcome, OutcomeTyped, Kept, MainTyped, TypeOK
<1> QED
  BY <1>1, AlwaysKept, PTL

\* A job is on a queue as often as at most once.
LEMMA OnceCopies ==
  ASSUME NEW S, NEW q \in Seq(S), Once(q), NEW j, j # Break
  PROVE  Cardinality({i \in DOMAIN q : q[i] = j}) = IF j \in Queued(q) THEN 1 ELSE 0
<1>1. CASE j \in Queued(q)
  <2>1. PICK i \in DOMAIN q : q[i] = j
    BY <1>1 DEF Queued
  <2>2. {k \in DOMAIN q : q[k] = j} = {i}
    BY <2>1 DEF Once
  <2> QED
    BY <1>1, <2>2, FS_Singleton
<1>2. CASE j \notin Queued(q)
  <2>1. {k \in DOMAIN q : q[k] = j} = {}
    BY <1>2 DEF Queued
  <2> QED
    BY <1>2, <2>1, FS_EmptySet
<1> QED
  BY <1>1, <1>2

LEMMA OneCopy ==
  ASSUME Place, NEW j \in Numbers
  PROVE  Copies(j) = IF j \in Waiting \cup Held \cup Back THEN 1 ELSE 0
<1>1. j # Break
  BY NumbersOfJobs
<1>2. Cardinality({i \in DOMAIN input_queue : input_queue[i] = j}) = IF j \in Waiting THEN 1 ELSE 0
  BY <1>1, OnceCopies DEF Place, PlaceTyped, OnePlace, Waiting
<1>3. Cardinality({i \in DOMAIN output_queue : output_queue[i] = j}) = IF j \in Back THEN 1 ELSE 0
  BY <1>1, OnceCopies DEF Place, PlaceTyped, OnePlace, Back
<1>4. Cardinality({w \in Workers : holds[w] = j}) = IF j \in Held THEN 1 ELSE 0
  <2>1. CASE j \in Held
    <3>1. PICK w \in Workers : holds[w] = j
      BY <2>1 DEF Held
    <3>2. {v \in Workers : holds[v] = j} = {w}
      BY <1>1, <3>1 DEF Place, OnePlace
    <3> QED
      BY <2>1, <3>2, FS_Singleton
  <2>2. CASE j \notin Held
    <3>1. {v \in Workers : holds[v] = j} = {}
      BY <1>1, <2>2 DEF Held
    <3> QED
      BY <2>2, <3>1, FS_EmptySet
  <2> QED
    BY <2>1, <2>2
<1>5. Waiting \cap Held = {} /\ Waiting \cap Back = {} /\ Held \cap Back = {}
  BY DEF Place, OnePlace
<1> QED
  BY <1>2, <1>3, <1>4, <1>5 DEF Copies

\* run_tests: the jobs on their way are as many as the main thread goes on to
\* wait for, each of them once, in whatever order the threads take them and
\* wherever an interrupt hits.
THEOREM RunnerLosesNothing == Spec => []NoneLost
<1>1. AllKept => NoneLost
  <2> SUFFICES ASSUME AllKept, main \in {"dispatching", "collecting"}
               PROVE  /\ \A j \in Numbers : Copies(j) <= 1
                      /\ Cardinality({j \in Numbers : Copies(j) = 1})
                           = (IF dispatched < Len(Jobs) THEN dispatched ELSE Len(Jobs)) - collected
    BY DEF NoneLost
  <2> DEFINE OnWay == Waiting \cup Held \cup Back
             Sent  == {j \in Numbers : j <= dispatched}
             upTo  == IF dispatched < Len(Jobs) THEN dispatched ELSE Len(Jobs)
  <2>1. \A j \in Numbers : Copies(j) = IF j \in OnWay THEN 1 ELSE 0
    BY OneCopy DEF AllKept
  <2>2. OnWay \subseteq Sent /\ Gathered = Sent \ OnWay
    <3>1. OnWay \subseteq Numbers
      BY DEF AllKept, Place, PlaceTyped, Waiting, Held, Back, Queued
    <3> QED
      BY <3>1 DEF AllKept, Place, OnePlace, Gathered
  <2>3. {j \in Numbers : Copies(j) = 1} = OnWay
    BY <2>1, <2>2
  <2>4. IsFiniteSet(Sent) /\ Cardinality(Sent) = upTo /\ upTo \in Nat
    <3>1. dispatched \in Nat /\ upTo \in Nat
      BY NumbersOfJobs DEF AllKept, Place, PlaceTyped
    <3>2. Sent = 1 .. upTo
      BY <3>1, NumbersOfJobs
    <3> HIDE DEF upTo, Sent
    <3>3. IsFiniteSet(1 .. upTo) /\ Cardinality(1 .. upTo) = IF 1 > upTo THEN 0 ELSE upTo - 1 + 1
      BY <3>1, FS_Interval
    <3> QED
      BY <3>1, <3>2, <3>3
  <2>5. Cardinality(Gathered) = collected
    BY DEF AllKept, Kept, Books
  <2> HIDE DEF OnWay, Sent, upTo
  <2>6. Cardinality(Gathered) = Cardinality(Sent) - Cardinality(Sent \cap OnWay)
    BY <2>2, <2>4, FS_Difference
  <2>7. Sent \cap OnWay = OnWay /\ Cardinality(OnWay) \in Nat
    BY <2>2, <2>4, FS_Subset, FS_CardinalityType
  <2>8. \A j \in Numbers : Copies(j) <= 1
    BY <2>1
  <2>9. Cardinality(OnWay) = upTo - collected
    <3>1. Cardinality(Sent \cap OnWay) = Cardinality(OnWay)
      BY <2>7
    <3>2. collected = upTo - Cardinality(OnWay)
      BY <2>4, <2>5, <2>6, <3>1
    <3> QED
      BY <2>4, <2>7, <3>2
  <2> QED
    BY <2>3, <2>8, <2>9 DEF upTo
<1> QED
  BY <1>1, AlwaysKept, PTL

\* When the main thread has returned it has gathered every job.
LEMMA GatheredAll == AllKept /\ main = "returned" => Gathered = Numbers
<1> SUFFICES ASSUME AllKept, main = "returned" PROVE Gathered = Numbers
  OBVIOUS
<1>1. Cardinality(Gathered) = Len(Jobs)
  BY DEF AllKept, Kept, MainInOrder, Books
<1> QED
  BY <1>1, GatheredNumbers, FiniteNumbers, FS_Subset

\* A job that came back is counted as passed or skipped exactly if it passed.
LEMMA CountedIfPassed ==
  ASSUME AllKept, NEW j \in Gathered, j \notin is_break
  PROVE  StatusOf(j) \in {"PASS", "SKIP"} <=> Passed(j)
<1>1. j \in Numbers
  BY GatheredNumbers
<1>2. CASE Jobs[j].skip
  BY <1>2 DEF StatusOf, Passed
<1>3. CASE ~Jobs[j].skip
  <2>1. returncode[j] \in {0, 1, 2, Crash}
    BY <1>1 DEF AllKept, Outcome, OutcomeTyped
  <2>2. CASE returncode[j] = 0
    <3>1. StatusOf(j) = "PASS"
      BY <1>3, <2>2 DEF StatusOf
    <3>2. tmp_file[j] = "PASS"
      BY <1>3, <2>2 DEF AllKept, Outcome, Ran
    <3> QED
      BY <2>2, <3>1, <3>2 DEF Passed
  <2>3. CASE returncode[j] # 0
    <3>1. StatusOf(j) \in {"FAIL", "VALGR", "CRASH"}
      <4>1. CASE returncode[j] = 1
        BY <1>3, <4>1 DEF StatusOf
      <4>2. CASE returncode[j] = 2
        BY <1>3, <4>2 DEF StatusOf
      <4>3. CASE returncode[j] = Crash
        BY <1>3, <4>3 DEF StatusOf, Crash
      <4> QED
        BY <2>1, <2>3, <4>1, <4>2, <4>3
    <3> QED
      BY <1>3, <2>3, <3>1 DEF Passed
  <2> QED
    BY <2>2, <2>3
<1> QED
  BY <1>2, <1>3

\* run_tests returns 0 exactly if every job passed or was to be skipped, and
\* never if an interrupt, a failure or a death of a thread came between.
THEOREM ExitCodeIsHonest == Spec => []ExitCodeHonest
<1>1. AllKept => ExitCodeHonest
  <2> SUFFICES ASSUME AllKept, status # Running
               PROVE  status = 0 <=> main = "returned" /\ \A j \in Numbers : j \notin is_break /\ Passed(j)
    BY DEF ExitCodeHonest
  <2>1. main \in {"died", "returned"}
    BY DEF AllKept, Kept, MainTyped, MainInOrder
  <2>2. CASE main = "died"
    BY <2>2 DEF AllKept, Kept, ExitCode
  <2>3. CASE main = "returned"
    <3> DEFINE P == CountedAs("PASS")
               K == CountedAs("SKIP")
    <3>1. Gathered = Numbers
      BY <2>3, GatheredAll
    <3>2. \A j \in Numbers : j \in P \cup K <=> j \notin is_break /\ Passed(j)
      <4> TAKE j \in Numbers
      <4>1. CASE j \in is_break
        BY <4>1 DEF CountedAs
      <4>2. CASE j \notin is_break
        BY <3>1, <4>2, CountedIfPassed DEF CountedAs
      <4> QED
        BY <4>1, <4>2
    <3>3. P \cap K = {}
      BY DEF CountedAs
    <3>4. /\ IsFiniteSet(P) /\ IsFiniteSet(K) /\ P \cup K \in SUBSET Numbers
          /\ Cardinality(P) = count["PASS"] /\ Cardinality(K) = count["SKIP"]
      <4>1. P \in SUBSET Numbers /\ K \in SUBSET Numbers
        BY GatheredNumbers
      <4>2. Cardinality(P) = count["PASS"] /\ Cardinality(K) = count["SKIP"]
        BY <2>3 DEF AllKept, Kept, Books, Statuses
      <4> QED
        BY <4>1, <4>2, SomeNumbers
    <3>5. Cardinality(P) \in Nat /\ Cardinality(K) \in Nat
      BY <3>4, FS_CardinalityType
    <3> HIDE DEF P, K
    <3>6. Cardinality(P \cup K) = Cardinality(P) + Cardinality(K) - Cardinality(P \cap K)
      BY <3>4, FS_Union
    <3>7. Cardinality({}) = 0
      BY FS_EmptySet
    <3>8. Cardinality(P \cup K) = count["PASS"] + count["SKIP"]
      <4>1. Cardinality(P \cap K) = 0
        BY <3>3, <3>7
      <4>2. Cardinality(P \cup K) = Cardinality(P) + Cardinality(K)
        BY <3>5, <3>6, <4>1
      <4> QED
        BY <3>4, <4>2
    <3>9. Cardinality(P \cup K) = Len(Jobs) <=> P \cup K = Numbers
      BY <3>4, FiniteNumbers, FS_Subset
    <3>10. P \cup K = Numbers <=> \A j \in Numbers : j \notin is_break /\ Passed(j)
      BY <3>2, <3>4
    <3>11. status = IF count["PASS"] + count["SKIP"] = Len(Jobs) THEN 0 ELSE 1
      BY <2>3 DEF AllKept, Kept, ExitCode
    <3> QED
      BY <2>3, <3>8, <3>9, <3>10, <3>11
  <2> QED
    BY <2>1, <2>2, <2>3
<1> QED
  BY <1>1, AlwaysKept, PTL

\* A suite that failed is reported as failed when run_tests returns, whatever
\* exit code valgrind gave it.
THEOREM FailuresAlwaysReported == Spec => []FailuresReported
<1>1. AllKept => FailuresReported
  <2> SUFFICES ASSUME AllKept, main = "returned", NEW j \in Numbers, Jobs[j].kind = "suite", tmp_file[j] = "FAIL"
               PROVE  <<j, "FAIL">> \in {results[i] : i \in DOMAIN results}
    BY DEF FailuresReported
  <2>1. j \in Gathered
    BY GatheredAll
  <2>2. j \notin is_break /\ ~Jobs[j].skip
    BY DEF AllKept, Outcome, NotYetRun
  <2>3. returncode[j] \in {1, 2}
    BY DEF AllKept, Outcome, Ran
  <2>4. StatusOf(j) \in {"FAIL", "VALGR"}
    <3>1. CASE returncode[j] = 1
      BY <2>2, <3>1 DEF StatusOf
    <3>2. CASE returncode[j] = 2
      BY <2>2, <3>2 DEF StatusOf
    <3> QED
      BY <2>3, <3>1, <3>2
  <2>5. Entry(j) = "FAIL"
    BY <2>4 DEF Entry, Copied
  <2>6. \E i \in DOMAIN results : results[i] = <<j, Entry(j)>>
    BY <2>1, <2>2 DEF AllKept, Kept, Books
  <2> QED
    BY <2>5, <2>6
<1> QED
  BY <1>1, AlwaysKept, PTL

\* worker_thread.run: a job that is still on the queue when the interrupt has
\* been noticed is never launched.
CutOff(j) == thread_exit /\ \A w \in Workers : at[w] = "runs" => holds[w] # j

THEOREM InterruptAlwaysCutsOff == Spec => InterruptCutsOff
<1>1. ASSUME NEW j \in Numbers
      PROVE  CutOff(j) /\ AllKept /\ [Next]_vars => CutOff(j)'
  <2> SUFFICES ASSUME CutOff(j), AllKept, [Next]_vars PROVE CutOff(j)'
    OBVIOUS
  <2>1. at \in [Workers -> Places] /\ holds \in [Workers -> Numbers \cup {Break}] /\ thread_exit
    BY DEF AllKept, Place, PlaceTyped, CutOff
  <2>2. ASSUME NEW w \in Workers, Worker(w) PROVE CutOff(j)'
    <3>1. thread_exit' = thread_exit
      BY <2>2 DEF Worker, Get, Interrupted, Skip, Launch, LaunchFails, Finish
    <3>2. \A v \in Workers : at'[v] = "runs" => at[v] = "runs" /\ holds'[v] = holds[v]
      BY <2>1, <2>2 DEF Worker, Get, Interrupted, Skip, Launch, LaunchFails, Finish, PutBack
    <3> QED
      BY <3>1, <3>2 DEF CutOff
  <2>3. CASE Main
    BY <2>3 DEF Main, DispatchJob, DispatchBreak, Collect, FileMissing, Return, CutOff
  <2>4. CASE SigintHook \/ UNCHANGED vars
    BY <2>4 DEF SigintHook, vars, CutOff, shared
  <2> QED
    BY <2>2, <2>3, <2>4 DEF Next
<1>2. ASSUME NEW j \in Numbers
      PROVE  AllKept => (thread_exit /\ j \in Queued(input_queue) => CutOff(j))
  <2> SUFFICES ASSUME AllKept, thread_exit, j \in Waiting, NEW w \in Workers, at[w] = "runs", holds[w] = j PROVE FALSE
    BY DEF CutOff, Waiting
  <2>1. j \in Held
    BY NumbersOfJobs DEF Held
  <2> QED
    BY <2>1 DEF AllKept, Place, OnePlace
<1>3. ASSUME NEW j \in Numbers
      PROVE  Spec => [](thread_exit /\ j \in Queued(input_queue)
                          => [](\A w \in Workers : at[w] = "runs" => holds[w] /= j))
  <2>1. CutOff(j) => \A w \in Workers : at[w] = "runs" => holds[w] /= j
    BY DEF CutOff
  <2> QED
    BY <1>1, <1>2, <2>1, AlwaysKept, PTL DEF Spec
<1> QED
  BY <1>3 DEF InterruptCutsOff
=============================================================================
