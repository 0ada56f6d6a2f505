----------------------------- MODULE Visualizer -----------------------------
(***************************************************************************)
(* The two threads of the visualizer (core.py): the SimulationThread, that *)
(* runs the simulator one period at a time each time it is told to go, and *)
(* the view, GTK's main loop, whose callbacks use the simulator under the  *)
(* simulation's lock.                                                      *)
(*                                                                         *)
(* view is the stack of the view's callbacks that have not returned: while *)
(* update_view_timeout finds the lock taken it runs the main loop itself,  *)
(* and other callbacks start inside it.  What a callback does between      *)
(* acquiring and releasing the lock, and in update_view_timeout after it,  *)
(* is one step: only code typed into the shell goes on with the lock held. *)
(***************************************************************************)
EXTENDS Integers, Sequences, FiniteSets, FiniteSetsExt

CONSTANTS MaxNesting,  \* bound on calls of update_view_timeout inside one another
          MaxTimers    \* bound on the timeouts that wait when the user starts one

ASSUME VisualizerAssumption == {MaxNesting, MaxTimers} \subseteq Nat \ {0}

VARIABLES sim,         \* where the SimulationThread is
          lock,        \* who holds its lock
          go, quit,
          due,         \* target_time is ahead of the simulator's time
          pause_messages,  \* there are some
          idle,        \* the calls of update_model that gobject.idle_add holds
          view,
          playing,     \* play_button is active
          timers,      \* the timeouts that call update_view_timeout
          _update_timeout_id,
          closed       \* gtk.main_quit was called

timeouts  == <<playing, timers, _update_timeout_id>>
vars == <<sim, lock, go, quit, due, pause_messages, idle, view, timeouts, closed>>

None == 0
Ids  == 1 .. MaxTimers + MaxNesting + 2

\* Of GLib's source numbers, one that nothing refers to.
Fresh == Min(Ids \ (timers \cup {_update_timeout_id} \cup {view[i].timer : i \in DOMAIN view}))

Frame(at, timer) == [at |-> at, timer |-> timer]

Init ==
  /\ sim = "while" /\ lock = "free" /\ go = FALSE /\ quit = FALSE
  /\ due = FALSE /\ pause_messages = FALSE
  /\ idle = 0 /\ view = <<>>
  /\ playing = FALSE /\ timers = {1} /\ _update_timeout_id = 1   \* create_gui calls _speed_changed
  /\ closed = FALSE
-----------------------------------------------------------------------------
(* SimulationThread.run *)

SimWhile ==
  /\ sim = "while" /\ sim' = IF quit THEN "ended" ELSE "wait"
  /\ UNCHANGED <<lock, go, quit, due, pause_messages, idle, view, timeouts, closed>>

SimWait ==
  /\ sim = "wait" /\ go /\ sim' = "clear"
  /\ UNCHANGED <<lock, go, quit, due, pause_messages, idle, view, timeouts, closed>>

\* go is cleared before quit is read: a go that comes with quit may be lost here.
SimClear ==
  /\ sim = "clear" /\ go' = FALSE
  /\ sim' = IF quit THEN "ended" ELSE "acquire"
  /\ UNCHANGED <<lock, quit, due, pause_messages, idle, view, timeouts, closed>>

\* Mutant: the lock is tried and not waited for.
SimAcquireTries ==
  /\ sim = "acquire" /\ sim' = "run"
  /\ lock' = IF lock = "free" THEN "sim" ELSE lock
  /\ UNCHANGED <<go, quit, due, pause_messages, idle, view, timeouts, closed>>

SimAcquire ==
  /\ sim = "acquire" /\ lock = "free"
  /\ sim' = "run" /\ lock' = "sim"
  /\ UNCHANGED <<go, quit, due, pause_messages, idle, view, timeouts, closed>>

\* PyViz::SimulatorRunUntil returns at once if the target was reached before; a
\* script may call PyViz::Pause in the period.
SimRun ==
  /\ sim = "run" /\ sim' = "release"
  /\ due' = FALSE
  /\ pause_messages' \in {pause_messages, pause_messages \/ due}
  /\ idle' = idle + 1
  /\ UNCHANGED <<lock, go, quit, view, timeouts, closed>>

SimRelease ==
  /\ sim = "release" /\ sim' = "while" /\ lock' = "free"
  /\ UNCHANGED <<go, quit, due, pause_messages, idle, view, timeouts, closed>>
-----------------------------------------------------------------------------
(* The view *)

Top    == view[Len(view)]
At(at) == view /= <<>> /\ Top.at = at
Popped == SubSeq(view, 1, Len(view) - 1)
GoesOn(at) == view' = [view EXCEPT ![Len(view)].at = at]
Calls(frame) == view' = Append(view, frame)

\* The main loop runs, or update_view_timeout runs it.  update_model has the
\* highest priority of what waits there.
InLoop == (view = <<>> /\ ~closed) \/ At("pump")
Free   == InLoop /\ idle = 0

\* A timeout that is being dispatched is not dispatched again inside.
Tick ==
  /\ Free /\ Len(view) < MaxNesting
  /\ \E t \in timers : /\ \A i \in DOMAIN view : view[i].timer /= t
                       /\ Calls(Frame("try", t))
  /\ UNCHANGED <<sim, lock, go, quit, due, pause_messages, idle, timeouts, closed>>

\* update_view_timeout finds the lock taken: it runs the main loop, and tries again.
TryLock ==
  /\ At("try") /\ lock /= "free"
  /\ GoesOn("pump")
  /\ UNCHANGED <<sim, lock, go, quit, due, pause_messages, idle, timeouts, closed>>

NothingPending ==
  /\ At("pump") /\ idle = 0
  /\ GoesOn("try")
  /\ UNCHANGED <<sim, lock, go, quit, due, pause_messages, idle, timeouts, closed>>

\* Mutant: "return True" is missing.
UpdateViewReturnsNone ==
  /\ At("try") /\ lock = "free"
  /\ view' = Popped
  /\ pause_messages' = FALSE /\ due' = TRUE
  /\ IF playing /\ ~pause_messages
     THEN go' = TRUE /\ timers' = timers \ {Top.timer} /\ UNCHANGED <<playing, _update_timeout_id>>
     ELSE /\ playing' = FALSE
          /\ timers' = timers \ {Top.timer, IF playing THEN _update_timeout_id ELSE None}
          /\ _update_timeout_id' = None
          /\ UNCHANGED go
  /\ UNCHANGED <<sim, lock, quit, idle, closed>>

\* The rest of update_view_timeout.  A message stops playing, as the user
\* would; when not playing the timeout is not called again.
UpdateView ==
  /\ At("try") /\ lock = "free"
  /\ view' = Popped
  /\ pause_messages' = FALSE /\ due' = TRUE
  /\ IF playing /\ ~pause_messages
     THEN go' = TRUE /\ UNCHANGED timeouts
     ELSE /\ playing' = FALSE
          /\ timers' = timers \ {Top.timer, IF playing THEN _update_timeout_id ELSE None}
          /\ _update_timeout_id' = None
          /\ UNCHANGED go
  /\ UNCHANGED <<sim, lock, quit, idle, closed>>

\* _start_update_timer
StartTimer ==
  /\ timers' = (timers \ {_update_timeout_id}) \cup {Fresh}
  /\ _update_timeout_id' = Fresh

\* Mutant: a timer that is known is taken for one that runs.
PlayToggledKnown ==
  /\ Free /\ ~quit /\ (playing \/ Cardinality(timers) <= MaxTimers)
  /\ playing' = ~playing
  /\ IF playing THEN timers' = timers \ {_update_timeout_id} /\ UNCHANGED _update_timeout_id
     ELSE IF _update_timeout_id = None THEN StartTimer ELSE UNCHANGED <<timers, _update_timeout_id>>
  /\ UNCHANGED <<sim, lock, go, quit, due, pause_messages, idle, view, closed>>

\* _on_play_button_toggled.  Pausing leaves _update_timeout_id as it is.
PlayToggled ==
  /\ Free /\ ~quit /\ (playing \/ Cardinality(timers) <= MaxTimers)
  /\ playing' = ~playing
  /\ IF playing THEN timers' = timers \ {_update_timeout_id} /\ UNCHANGED _update_timeout_id
     ELSE StartTimer
  /\ UNCHANGED <<sim, lock, go, quit, due, pause_messages, idle, view, closed>>

SpeedChanged ==
  /\ Free /\ ~quit /\ Cardinality(timers) <= MaxTimers
  /\ StartTimer
  /\ UNCHANGED <<sim, lock, go, quit, due, pause_messages, idle, view, playing, closed>>

\* Callbacks that wait for the lock: update_model, and what the user looks up
\* or sets (a tooltip, a node that is dragged or selected, a new window).
UpdateModelStarts ==
  /\ InLoop /\ idle > 0 /\ idle' = idle - 1
  /\ Calls(Frame("update_model", None))
  /\ UNCHANGED <<sim, lock, go, quit, due, pause_messages, timeouts, closed>>

LookUpStarts ==
  /\ Free /\ ~quit
  /\ Calls(Frame("look_up", None))
  /\ UNCHANGED <<sim, lock, go, quit, due, pause_messages, idle, timeouts, closed>>

\* simulation-periodic-update is emitted.
UpdateModel ==
  /\ At("update_model") /\ lock = "free"
  /\ view' = Popped
  /\ UNCHANGED <<sim, lock, go, quit, due, pause_messages, idle, timeouts, closed>>

LookUp ==
  /\ At("look_up") /\ lock = "free"
  /\ view' = Popped
  /\ UNCHANGED <<sim, lock, go, quit, due, pause_messages, idle, timeouts, closed>>

\* Code typed into ipython runs with the lock held; it may call select_node,
\* which waits for the lock in _update_ipython_selected_node.
Runcode ==
  /\ Free /\ ~quit /\ lock = "free"
  /\ lock' = "shell" /\ Calls(Frame("code", None))
  /\ UNCHANGED <<sim, go, quit, due, pause_messages, idle, timeouts, closed>>

SelectNode ==
  /\ At("code") /\ Calls(Frame("look_up", None))
  /\ UNCHANGED <<sim, lock, go, quit, due, pause_messages, idle, timeouts, closed>>

RuncodeReturns ==
  /\ At("code") /\ view' = Popped /\ lock' = "free"
  /\ UNCHANGED <<sim, go, quit, due, pause_messages, idle, timeouts, closed>>

\* _quit
Quit ==
  /\ Free /\ ~quit
  /\ timers' = timers \ {_update_timeout_id} /\ _update_timeout_id' = None
  /\ quit' = TRUE
  /\ Calls(Frame("quit", None))
  /\ UNCHANGED <<sim, lock, go, due, pause_messages, idle, playing, closed>>

\* Mutant: the thread is joined without a last go.
QuitGoForgotten ==
  /\ At("quit") /\ GoesOn("join")
  /\ UNCHANGED <<sim, lock, go, quit, due, pause_messages, idle, timeouts, closed>>

QuitGo ==
  /\ At("quit") /\ GoesOn("join") /\ go' = TRUE
  /\ UNCHANGED <<sim, lock, quit, due, pause_messages, idle, timeouts, closed>>

QuitJoined ==
  /\ At("join") /\ sim = "ended"
  /\ view' = Popped /\ closed' = TRUE
  /\ UNCHANGED <<sim, lock, go, quit, due, pause_messages, idle, timeouts>>
-----------------------------------------------------------------------------
Sim == SimWhile \/ SimWait \/ SimClear \/ SimAcquire \/ SimRun \/ SimRelease

\* What the view does without the user.
Loop == TryLock \/ NothingPending \/ UpdateView \/ UpdateModelStarts \/ UpdateModel \/ LookUp
        \/ QuitGo \/ QuitJoined

User == PlayToggled \/ SpeedChanged \/ LookUpStarts \/ Runcode \/ SelectNode \/ RuncodeReturns \/ Quit

Next == Sim \/ Loop \/ Tick \/ User

Spec == Init /\ [][Next]_vars

\* Both threads are scheduled, what the user does leaves the main loop time for
\* the timeouts and the other thread time to take the lock, and the code that the
\* user runs ends.
FairSpec ==
  /\ Spec
  /\ WF_vars(Sim) /\ WF_vars(Loop) /\ WF_vars(RuncodeReturns)
  /\ SF_vars(SimAcquire) /\ SF_vars(Tick) /\ SF_vars(NothingPending)
-----------------------------------------------------------------------------
TypeOK ==
  /\ sim \in {"while", "wait", "clear", "acquire", "run", "release", "ended"}
  /\ lock = IF sim \in {"run", "release"} THEN "sim"
            ELSE IF \E i \in DOMAIN view : view[i].at = "code" THEN "shell" ELSE "free"
  /\ {go, quit, due, pause_messages, playing, closed} \subseteq BOOLEAN
  /\ idle \in Nat /\ Len(view) <= MaxNesting + 2
  /\ timers \subseteq Ids /\ _update_timeout_id \in Ids \cup {None}

\* While the user has it play, a timer runs that will look after the view,
\* though pausing leaves a stale _update_timeout_id behind, messages stop
\* playing too, and all of this may happen inside an update_view_timeout that
\* has not returned.
TimerRuns == playing /\ ~quit => _update_timeout_id \in timers

\* As long as it plays, the simulation goes on: no go is lost for good, and
\* neither thread waits for the other for ever.  Where shell code waits for the
\* lock that it holds itself, see ShellReleases, everything does.
Selecting == Len(view) > 1 /\ view[Len(view) - 1].at = "code"

KeepsSimulating == <>[](playing /\ ~quit /\ ~Selecting) => []<><<due' /= due>>_due

\* Quitting ends both threads, wherever each of them is.
QuitEnds == quit ~> (sim = "ended" /\ closed)

\* IPython is patched "to automatically acquire and release the simulation
\* lock around each code that is executed".
ShellReleases == lock = "shell" ~> lock /= "shell"
=============================================================================
