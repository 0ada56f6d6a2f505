----------------------------- MODULE TestRunner -----------------------------
(***************************************************************************)
(* The job runner of test.py: run_tests dispatches one job per test suite  *)
(* and example to a queue, one worker thread per processor runs them, and  *)
(* the main thread collects what comes back on a second queue, counts it   *)
(* and writes it to the results file.  SIGINT sets thread_exit.            *)
(*                                                                         *)
(* A job is its number in Jobs.  One step of a thread is what it does      *)
(* between two uses of what the threads share.                             *)
(***************************************************************************)
EXTENDS Integers, Sequences, FiniteSets

CONSTANTS Workers,     \* the threads, one per processor
          Jobs,        \* what is dispatched: a sequence of [kind, skip]
          Valgrind,    \* options.valgrind
          MaxFaults    \* bound on processes that cannot be started and files that are missing

ASSUME TestRunnerAssumption ==
  /\ IsFiniteSet(Workers) /\ Workers /= {}
  /\ Jobs \in Seq([kind : {"suite", "example"}, skip : BOOLEAN])
  /\ Valgrind \in BOOLEAN
  /\ MaxFaults \in Nat

VARIABLES input_queue, output_queue, thread_exit,
          is_break,    \* the jobs whose is_break a worker has set
          returncode,  \* by job; False, the initial value, equals 0
          tmp_file,    \* by job, what its command came to; a suite leaves it in its file
          at, holds,   \* by thread, where it is and the job it holds
          main,        \* where the main thread is
          dispatched, collected,
          count,       \* by status, what the summary says
          results,     \* the results file: a sequence of <<job, result>>
          status,      \* what the process exits with, Running until then
          faults       \* how many so far

shared == <<input_queue, output_queue>>
onJobs == <<is_break, returncode, tmp_file>>
onMain == <<main, dispatched, collected, count, results, status>>
vars   == <<shared, thread_exit, onJobs, at, holds, onMain, faults>>

Break   == 0           \* a job that tells a worker to end
Running == -1
Numbers == DOMAIN Jobs
Statuses == {"PASS", "FAIL", "VALGR", "CRASH", "SKIP"}
Crash == 139

Init ==
  /\ input_queue = <<>> /\ output_queue = <<>> /\ thread_exit = FALSE
  /\ is_break = {}
  /\ returncode = [j \in Numbers |-> 0]
  /\ tmp_file = [j \in Numbers |-> ""]
  /\ at = [w \in Workers |-> "get"] /\ holds = [w \in Workers |-> Break]
  /\ main = "dispatching" /\ dispatched = 0 /\ collected = 0
  /\ count = [s \in Statuses |-> 0] /\ results = <<>> /\ status = Running
  /\ faults = 0
-----------------------------------------------------------------------------
\* The main thread puts the jobs, then a break for each worker.
DispatchJob ==
  /\ main = "dispatching" /\ dispatched < Len(Jobs)
  /\ input_queue' = Append(input_queue, dispatched + 1)
  /\ dispatched' = dispatched + 1
  /\ UNCHANGED <<output_queue, thread_exit, onJobs, at, holds, main, collected, count, results, status, faults>>

\* Mutant: one processor is forgotten.
DispatchBreakFewer ==
  /\ main = "dispatching" /\ dispatched >= Len(Jobs)
  /\ IF dispatched < Len(Jobs) + Cardinality(Workers) - 1
       THEN input_queue' = Append(input_queue, Break) /\ dispatched' = dispatched + 1 /\ UNCHANGED main
       ELSE main' = "collecting" /\ UNCHANGED <<input_queue, dispatched>>
  /\ UNCHANGED <<output_queue, thread_exit, onJobs, at, holds, collected, count, results, status, faults>>

DispatchBreak ==
  /\ main = "dispatching" /\ dispatched >= Len(Jobs)
  /\ IF dispatched < Len(Jobs) + Cardinality(Workers)
       THEN input_queue' = Append(input_queue, Break) /\ dispatched' = dispatched + 1 /\ UNCHANGED main
       ELSE main' = "collecting" /\ UNCHANGED <<input_queue, dispatched>>
  /\ UNCHANGED <<output_queue, thread_exit, onJobs, at, holds, collected, count, results, status, faults>>

\* Mutant: the queue gives the job put last.
GetLast(w) ==
  /\ at[w] = "get" /\ input_queue /= <<>>
  /\ input_queue' = SubSeq(input_queue, 1, Len(input_queue) - 1)
  /\ holds' = [holds EXCEPT ![w] = input_queue[Len(input_queue)]]
  /\ at' = [at EXCEPT ![w] = IF input_queue[Len(input_queue)] = Break THEN "ended" ELSE "test"]
  /\ UNCHANGED <<output_queue, thread_exit, onJobs, onMain, faults>>

\* Mutant: thread_exit is tested before is_break.
GetTestsLate(w) ==
  /\ at[w] = "get" /\ input_queue /= <<>>
  /\ input_queue' = Tail(input_queue)
  /\ holds' = [holds EXCEPT ![w] = Head(input_queue)]
  /\ at' = [at EXCEPT ![w] = IF Head(input_queue) = Break /\ ~thread_exit THEN "ended" ELSE "test"]
  /\ UNCHANGED <<output_queue, thread_exit, onJobs, onMain, faults>>

\* worker_thread.run: the next job, or the end.
Get(w) ==
  /\ at[w] = "get" /\ input_queue /= <<>>
  /\ input_queue' = Tail(input_queue)
  /\ holds' = [holds EXCEPT ![w] = Head(input_queue)]
  /\ at' = [at EXCEPT ![w] = IF Head(input_queue) = Break THEN "ended" ELSE "test"]
  /\ UNCHANGED <<output_queue, thread_exit, onJobs, onMain, faults>>

PutBack(w) ==
  /\ output_queue' = Append(output_queue, holds[w])
  /\ holds' = [holds EXCEPT ![w] = Break]
  /\ at' = [at EXCEPT ![w] = "get"]

\* Mutant: an interrupted worker drops its job.
InterruptedDrops(w) ==
  /\ at[w] = "test" /\ thread_exit
  /\ is_break' = is_break \cup {holds[w]}
  /\ holds' = [holds EXCEPT ![w] = Break] /\ at' = [at EXCEPT ![w] = "get"]
  /\ UNCHANGED <<input_queue, output_queue, thread_exit, returncode, tmp_file, onMain, faults>>

Interrupted(w) ==
  /\ at[w] = "test" /\ thread_exit
  /\ is_break' = is_break \cup {holds[w]}
  /\ PutBack(w)
  /\ UNCHANGED <<input_queue, thread_exit, returncode, tmp_file, onMain, faults>>

Skip(w) ==
  /\ at[w] = "test" /\ ~thread_exit /\ Jobs[holds[w]].skip
  /\ PutBack(w)
  /\ UNCHANGED <<input_queue, thread_exit, onJobs, onMain, faults>>

\* Mutant: an example is launched whether or not there was an interrupt.
LaunchExamples(w) ==
  /\ at[w] = "test" /\ ~Jobs[holds[w]].skip
  /\ Jobs[holds[w]].kind = "example" \/ ~thread_exit
  /\ at' = [at EXCEPT ![w] = "runs"]
  /\ UNCHANGED <<shared, thread_exit, onJobs, holds, onMain, faults>>

Launch(w) ==
  /\ at[w] = "test" /\ ~thread_exit /\ ~Jobs[holds[w]].skip
  /\ at' = [at EXCEPT ![w] = "runs"]
  /\ UNCHANGED <<shared, thread_exit, onJobs, holds, onMain, faults>>

\* Popen raises: the exception ends the thread.
LaunchFails(w) ==
  /\ at[w] = "runs" /\ faults < MaxFaults
  /\ faults' = faults + 1
  /\ at' = [at EXCEPT ![w] = "dead"]
  /\ UNCHANGED <<shared, thread_exit, onJobs, holds, onMain>>

\* How a command ends: what it finds, whether it crashes, whether valgrind
\* sees an error, which is the exit code then, or only leaks.
Endings == [result : {"PASS", "FAIL"}, crash : BOOLEAN, valgrind : {"clean", "leaks", "errors"}]

\* run_job_synchronously: a leak summary counts only when all else passed.
Retval(e) ==
  CASE e.crash -> Crash
    [] ~e.crash /\ e.valgrind = "errors" -> 2
    [] ~e.crash /\ e.valgrind /= "errors" /\ e.result = "FAIL" -> 1
    [] ~e.crash /\ e.valgrind = "leaks" /\ e.result = "PASS" -> 2
    [] OTHER -> 0

Finish(w) ==
  /\ at[w] = "runs"
  /\ \E e \in Endings :
       /\ ~Valgrind => e.valgrind = "clean"
       /\ returncode' = [returncode EXCEPT ![holds[w]] = Retval(e)]
       /\ tmp_file' = [tmp_file EXCEPT ![holds[w]] = IF e.crash THEN "" ELSE e.result]
  /\ PutBack(w)
  /\ UNCHANGED <<input_queue, thread_exit, is_break, onMain, faults>>
-----------------------------------------------------------------------------
StatusOf(j) ==
  CASE Jobs[j].skip -> "SKIP"
    [] ~Jobs[j].skip /\ returncode[j] = 0 -> "PASS"
    [] ~Jobs[j].skip /\ returncode[j] = 1 -> "FAIL"
    [] ~Jobs[j].skip /\ returncode[j] = 2 -> "VALGR"
    [] OTHER -> "CRASH"

\* Mutant: the file is taken for valid after 0 and 1 only.
CopiedOf01(j) == Jobs[j].kind = "suite" /\ StatusOf(j) \in {"PASS", "FAIL"}

\* A suite's own file is copied if its exit code is 0, 1 or 2.
Copied(j) == Jobs[j].kind = "suite" /\ StatusOf(j) \in {"PASS", "FAIL", "VALGR"}

Entry(j) == IF Copied(j) THEN tmp_file[j] ELSE StatusOf(j)

\* Mutant: what an interrupt cut off is counted as well.
CollectAll ==
  /\ main = "collecting" /\ collected < Len(Jobs) /\ output_queue /= <<>>
  /\ output_queue' = Tail(output_queue)
  /\ collected' = collected + 1
  /\ count' = [count EXCEPT ![StatusOf(Head(output_queue))] = @ + 1]
  /\ results' = Append(results, <<Head(output_queue), Entry(Head(output_queue))>>)
  /\ UNCHANGED <<input_queue, thread_exit, onJobs, at, holds, main, dispatched, status, faults>>

Collect ==
  /\ main = "collecting" /\ collected < Len(Jobs) /\ output_queue /= <<>>
  /\ output_queue' = Tail(output_queue)
  /\ collected' = collected + 1
  /\ LET j == Head(output_queue)
     IN IF j \in is_break THEN UNCHANGED <<count, results>>
        ELSE /\ count' = [count EXCEPT ![StatusOf(j)] = @ + 1]
             /\ results' = Append(results, <<j, Entry(j)>>)
  /\ UNCHANGED <<input_queue, thread_exit, onJobs, at, holds, main, dispatched, status, faults>>

\* The file that is to be copied is not there: the exception ends the main
\* thread after it has counted the job; the workers are not told.
FileMissing ==
  /\ main = "collecting" /\ collected < Len(Jobs) /\ output_queue /= <<>>
  /\ faults < MaxFaults /\ faults' = faults + 1
  /\ LET j == Head(output_queue)
     IN /\ j \notin is_break /\ Copied(j)
        /\ count' = [count EXCEPT ![StatusOf(j)] = @ + 1]
  /\ output_queue' = Tail(output_queue)
  /\ main' = "died" /\ status' = 1
  /\ UNCHANGED <<input_queue, thread_exit, onJobs, at, holds, dispatched, collected, results>>

\* Every worker is joined, then the exit code follows from the counts.
Joined == main = "collecting" /\ collected = Len(Jobs) /\ \A w \in Workers : at[w] \in {"ended", "dead"}

Return ==
  /\ Joined
  /\ main' = "returned"
  /\ status' = IF count["PASS"] + count["SKIP"] = Len(Jobs) THEN 0 ELSE 1
  /\ UNCHANGED <<shared, thread_exit, onJobs, at, holds, dispatched, collected, count, results, faults>>

\* The handler runs in the main thread, and not while that waits in get or join.
SigintHook ==
  /\ ~thread_exit
  /\ \/ main = "dispatching"
     \/ main = "collecting" /\ (Joined \/ (collected < Len(Jobs) /\ output_queue /= <<>>))
  /\ thread_exit' = TRUE
  /\ UNCHANGED <<shared, onJobs, at, holds, onMain, faults>>

Main == DispatchJob \/ DispatchBreak \/ Collect \/ FileMissing \/ Return

Worker(w) ==
  \/ Get(w)
  \/ Interrupted(w)
  \/ Skip(w)
  \/ Launch(w)
  \/ LaunchFails(w)
  \/ Finish(w)

Next ==
  \/ Main
  \/ \E w \in Workers : Worker(w)
  \/ SigintHook

Spec == Init /\ [][Next]_vars

\* Every thread is scheduled, and every command ends.
FairSpec == Spec /\ WF_vars(Main) /\ \A w \in Workers : WF_vars(Worker(w))
-----------------------------------------------------------------------------
Queued(queue) == {queue[i] : i \in DOMAIN queue} \ {Break}

\* The jobs that were dispatched and not collected.
Copies(j) ==
  Cardinality({i \in DOMAIN input_queue : input_queue[i] = j})
  + Cardinality({i \in DOMAIN output_queue : output_queue[i] = j})
  + Cardinality({w \in Workers : holds[w] = j})

TypeOK ==
  /\ input_queue \in Seq(Numbers \cup {Break}) /\ output_queue \in Seq(Numbers)
  /\ thread_exit \in BOOLEAN /\ is_break \subseteq Numbers
  /\ returncode \in [Numbers -> {0, 1, 2, Crash}] /\ tmp_file \in [Numbers -> {"", "PASS", "FAIL"}]
  /\ at \in [Workers -> {"get", "test", "runs", "ended", "dead"}]
  /\ holds \in [Workers -> Numbers \cup {Break}]
  /\ main \in {"dispatching", "collecting", "died", "returned"}
  /\ dispatched \in 0 .. Len(Jobs) + Cardinality(Workers) /\ collected \in 0 .. Len(Jobs)
  /\ count \in [Statuses -> 0 .. Len(Jobs)]
  /\ results \in Seq(Numbers \X Statuses)
  /\ status \in {Running, 0, 1} /\ faults \in 0 .. MaxFaults

\* However the threads interleave, and wherever an interrupt hits, the jobs on
\* their way are as many as the main thread goes on to wait for, each of them
\* once: a job put twice would end the collection early, a job dropped would
\* block it for ever.
NoneLost ==
  main \in {"dispatching", "collecting"} =>
    /\ \A j \in Numbers : Copies(j) <= 1
    /\ Cardinality({j \in Numbers : Copies(j) = 1})
         = (IF dispatched < Len(Jobs) THEN dispatched ELSE Len(Jobs)) - collected

\* A worker that has been told to end leaves no job behind that no other worker
\* is there to take: the breaks are behind every job.
BreaksComeLast == (\E w \in Workers : at[w] = "ended") => Queued(input_queue) = {}

\* The exit code is 0 exactly if every job passed or was to be skipped: False,
\* the code of a job that an interrupt cut off, equals 0, the code of success,
\* and so is that of a job whose worker died.
Passed(j) == Jobs[j].skip \/ (returncode[j] = 0 /\ tmp_file[j] = "PASS")
ExitCodeHonest == status /= Running => (status = 0 <=> main = "returned" /\ \A j \in Numbers : j \notin is_break /\ Passed(j))

\* A suite that failed is reported as failed in the results file, also when
\* valgrind's exit code has taken the place of the suite's own.
FailuresReported ==
  main = "returned" =>
    \A j \in Numbers : Jobs[j].kind = "suite" /\ tmp_file[j] = "FAIL"
                         => <<j, "FAIL">> \in {results[i] : i \in DOMAIN results}

\* A job still on the queue when the interrupt is noticed is never run.
InterruptCutsOff ==
  \A j \in Numbers : [](thread_exit /\ j \in Queued(input_queue)
                          => [](\A w \in Workers : at[w] = "runs" => holds[w] /= j))

\* Interrupted or not, run_tests comes to its end, unless a process could not
\* be started or a file was missing: then it may wait for ever.
RunTestsEnds == <>(main = "returned" \/ faults > 0)
=============================================================================
