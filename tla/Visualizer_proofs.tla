------------------------- MODULE Visualizer_proofs -------------------------
(***************************************************************************)
(* The timer of Visualizer that drives the simulation, for any nesting of  *)
(* update_view_timeout and any number of timeouts that wait; and who holds *)
(* the simulation's lock, which TypeOK says for every state.               *)
(***************************************************************************)
EXTENDS Visualizer, Ranking_proofs, SequenceTheorems

\* A timer that was just started runs, and is the one that is known.
LEMMA Started ==
  ASSUME StartTimer
  PROVE  _update_timeout_id' \in timers'
BY DEF StartTimer

\* _on_play_button_toggled, _speed_changed, update_view_timeout and _quit keep
\* _update_timeout_id and the timers in step: while it plays, the timeout that
\* is known is one that runs, wherever in a nested call each of them happens.
\* The property is inductive: each step that takes that timeout away stops
\* playing or quits in the same step.
THEOREM PlayingHasTimer == Spec => []TimerRuns
<1>1. Init => TimerRuns
  BY DEF Init, TimerRuns
<1>2. TimerRuns /\ [Next]_vars => TimerRuns'
  <2> SUFFICES ASSUME TimerRuns, [Next]_vars PROVE TimerRuns'
    OBVIOUS
  <2>1. ASSUME UNCHANGED <<quit, timeouts>> PROVE TimerRuns'
    BY <2>1 DEF TimerRuns, timeouts
  <2>2. CASE Sim
    BY <2>1, <2>2 DEF Sim, SimWhile, SimWait, SimClear, SimAcquire, SimRun, SimRelease
  <2>3. CASE UpdateView
    \* A message, or that it does not play: playing is off after the step.
    <3>1. quit' = quit /\ (UNCHANGED timeouts \/ playing' = FALSE)
      BY <2>3 DEF UpdateView
    <3> QED
      BY <2>1, <3>1 DEF TimerRuns
  <2>4. CASE Tick \/ TryLock \/ NothingPending \/ UpdateModelStarts \/ UpdateModel
              \/ LookUp \/ QuitGo \/ QuitJoined
    BY <2>1, <2>4 DEF Tick, TryLock, NothingPending, UpdateModelStarts, UpdateModel, LookUp,
                      QuitGo, QuitJoined
  <2>5. CASE PlayToggled
    \* Pausing turns playing off, whatever becomes of the timeout.
    <3>1. CASE playing
      <4>1. playing' = FALSE
        BY <2>5, <3>1 DEF PlayToggled
      <4> QED
        BY <4>1 DEF TimerRuns
    <3>2. CASE ~playing
      <4>1. StartTimer
        BY <2>5, <3>2 DEF PlayToggled
      <4> QED
        BY <4>1, Started DEF TimerRuns
    <3> QED
      BY <3>1, <3>2
  <2>6. CASE SpeedChanged
    BY <2>6, Started DEF SpeedChanged, TimerRuns
  <2>7. CASE Quit
    BY <2>7 DEF Quit, TimerRuns
  <2>8. CASE LookUpStarts \/ Runcode \/ SelectNode \/ RuncodeReturns
    BY <2>1, <2>8 DEF LookUpStarts, Runcode, SelectNode, RuncodeReturns
  <2>9. CASE UNCHANGED vars
    BY <2>1, <2>9 DEF vars
  <2> QED
    BY <2>2, <2>3, <2>4, <2>5, <2>6, <2>7, <2>8, <2>9 DEF Next, Loop, User
<1> QED
  BY <1>1, <1>2, PTL DEF Spec
-----------------------------------------------------------------------------
(* The stack of callbacks *)

Ats    == {"try", "pump", "update_model", "look_up", "code", "quit", "join"}
Frames == [at : Ats, timer : Ids \cup {None}]

\* Only the main loop that update_view_timeout runs, and shell code that selects
\* a node, have a callback above them; only update_view_timeout has a timer; and
\* shell code is the last callback, but for the one it calls itself.
FrameOK(v, i) ==
  /\ v[i].at \in {"try", "pump"} => i <= MaxNesting
  /\ v[i].at \notin {"try", "pump"} => v[i].timer = None
  /\ i < Len(v) => v[i].at \in {"pump", "code"}
  /\ v[i].at = "code" => /\ i <= MaxNesting + 1
                         /\ i = Len(v) \/ (i = Len(v) - 1 /\ v[Len(v)].at = "look_up")

StackOK(v) == v \in Seq(Frames) /\ \A i \in DOMAIN v : FrameOK(v, i)

Coding(v) == \E i \in DOMAIN v : v[i].at = "code"

\* However deep the calls are nested.
LEMMA StackBound ==
  ASSUME NEW v, StackOK(v)
  PROVE  Len(v) \in Nat /\ Len(v) <= MaxNesting + 2
<1>1. Len(v) \in Nat /\ DOMAIN v = 1 .. Len(v) /\ MaxNesting \in Nat
  BY VisualizerAssumption DEF StackOK
<1>2. CASE Len(v) <= 1
  BY <1>1, <1>2
<1>3. CASE Len(v) > 1
  <2>1. PICK i \in DOMAIN v : Len(v) = i + 1
    <3>1. Len(v) - 1 \in DOMAIN v /\ Len(v) = (Len(v) - 1) + 1
      BY <1>1, <1>3
    <3> QED
      BY <3>1
  <2>2. FrameOK(v, i) /\ i < Len(v) /\ i \in Nat
    BY <1>1, <2>1 DEF StackOK
  <2>3. i <= MaxNesting + 1
    <3>1. CASE v[i].at = "pump"
      BY <1>1, <2>2, <3>1 DEF FrameOK
    <3>2. CASE v[i].at = "code"
      BY <2>2, <3>2 DEF FrameOK
    <3> QED
      BY <2>2, <3>1, <3>2 DEF FrameOK
  <2> QED
    BY <1>1, <2>1, <2>2, <2>3
<1> QED
  BY <1>1, <1>2, <1>3

\* A callback that starts while the main loop runs, or that shell code calls.
LEMMA StackCalls ==
  ASSUME NEW v, StackOK(v), NEW f \in Frames,
         \/ v = <<>> \/ v[Len(v)].at = "pump"
         \/ v[Len(v)].at = "code" /\ f.at = "look_up",
         f.at \in {"try", "pump"} => Len(v) < MaxNesting,
         f.at \notin {"try", "pump"} => f.timer = None
  PROVE  /\ StackOK(Append(v, f))
         /\ Coding(Append(v, f)) <=> Coding(v) \/ f.at = "code"
         /\ v = <<>> \/ v[Len(v)].at = "pump" => ~Coding(v)
<1> DEFINE w == Append(v, f)
<1>1. /\ v \in Seq(Frames) /\ Len(v) \in Nat /\ DOMAIN v = 1 .. Len(v) /\ MaxNesting \in Nat
      /\ w \in Seq(Frames) /\ Len(w) = Len(v) + 1 /\ DOMAIN w = 1 .. Len(w)
      /\ w[Len(w)] = f /\ \A i \in DOMAIN v : w[i] = v[i]
  BY VisualizerAssumption DEF StackOK
<1> HIDE DEF w
<1>2. \A i \in DOMAIN v : FrameOK(v, i)
  BY DEF StackOK
<1>3. v # <<>> => Len(v) \in DOMAIN v
  BY <1>1
<1>4. ASSUME NEW i \in DOMAIN v, v[i].at = "code"
      PROVE  i = Len(v) /\ v # <<>> /\ v[Len(v)].at = "code"
  <2>1. FrameOK(v, i) /\ v # <<>>
    BY <1>1, <1>2, <1>4
  <2>2. v[Len(v)].at \in {"pump", "code"}
    BY <2>1
  <2> QED
    BY <1>1, <1>4, <2>1, <2>2 DEF FrameOK
<1>5. ASSUME NEW i \in DOMAIN w PROVE FrameOK(w, i)
  <2>1. CASE i = Len(w)
    <3>1. w[i] = f
      BY <1>1, <2>1
    <3>2. f.at = "code" => Len(v) <= MaxNesting
      BY <1>1, <1>2, <1>3 DEF FrameOK
    <3> QED
      BY <1>1, <2>1, <3>1, <3>2 DEF FrameOK
  <2>2. CASE i # Len(w)
    <3>1. i \in DOMAIN v /\ w[i] = v[i] /\ FrameOK(v, i) /\ i < Len(w)
      BY <1>1, <1>2, <1>5, <2>2
    <3>2. v[i].at \in {"pump", "code"}
      <4>1. CASE i = Len(v)
        BY <1>1, <3>1, <4>1
      <4>2. CASE i < Len(v)
        BY <3>1, <4>2 DEF FrameOK
      <4> QED
        BY <1>1, <3>1, <4>1, <4>2
    <3>3. v[i].at = "code" => i = Len(w) - 1 /\ f.at = "look_up"
      BY <1>1, <1>4, <3>1
    <3> QED
      BY <1>1, <3>1, <3>2, <3>3 DEF FrameOK
  <2> QED
    BY <2>1, <2>2
<1>6. Coding(w) <=> Coding(v) \/ f.at = "code"
  BY <1>1 DEF Coding
<1>7. v = <<>> \/ v[Len(v)].at = "pump" => ~Coding(v)
  BY <1>1, <1>4 DEF Coding
<1> QED
  BY <1>1, <1>5, <1>6, <1>7 DEF StackOK, w

\* The callback on top returns, or goes on.
LEMMA StackReturns ==
  ASSUME NEW v, StackOK(v), v # <<>>
  PROVE  /\ StackOK(SubSeq(v, 1, Len(v) - 1))
         /\ v[Len(v)].at # "code" =>
              (Coding(SubSeq(v, 1, Len(v) - 1)) <=> Coding(v))
         /\ v[Len(v)].at = "code" => ~Coding(SubSeq(v, 1, Len(v) - 1))
<1> DEFINE w == SubSeq(v, 1, Len(v) - 1)
<1>1. /\ v \in Seq(Frames) /\ Len(v) \in Nat /\ DOMAIN v = 1 .. Len(v) /\ Len(v) > 0
      /\ w \in Seq(Frames) /\ Len(w) = Len(v) - 1 /\ DOMAIN w = 1 .. Len(w)
      /\ \A i \in DOMAIN w : w[i] = v[i]
  <2>1. v \in Seq(Frames) /\ Len(v) \in Nat /\ DOMAIN v = 1 .. Len(v) /\ Len(v) > 0
    BY DEF StackOK
  <2>2. \A i \in 1 .. (Len(v) - 1) + 1 : i \in 1 .. Len(v)
    BY <2>1
  <2>3. /\ w \in Seq(Frames) /\ Len(w) = Len(v) - 1 /\ DOMAIN w = 1 .. Len(w)
        /\ \A i \in 1 .. Len(w) : w[i] = v[i]
    BY <2>1, SubSeqProperties
  <2> QED
    BY <2>1, <2>3
<1> HIDE DEF w
<1>2. \A i \in DOMAIN v : FrameOK(v, i)
  BY DEF StackOK
<1>3. ASSUME NEW i \in DOMAIN w PROVE FrameOK(w, i) /\ (w[i].at = "code" => v[Len(v)].at = "look_up")
  BY <1>1, <1>2, <1>3 DEF FrameOK
<1>4. ASSUME NEW i \in DOMAIN v, v[i].at = "code", v[Len(v)].at # "code" PROVE i \in DOMAIN w
  BY <1>1, <1>4
<1> QED
  BY <1>1, <1>3, <1>4 DEF StackOK, Coding, w

LEMMA StackGoesOn ==
  ASSUME NEW v, StackOK(v), v # <<>>, NEW at \in Ats \ {"code"},
         v[Len(v)].at # "code",
         v[Len(v)].at = "look_up" => at = "look_up",
         at \in {"try", "pump"} <=> v[Len(v)].at \in {"try", "pump"}
  PROVE  /\ StackOK([v EXCEPT ![Len(v)].at = at])
         /\ Coding([v EXCEPT ![Len(v)].at = at]) <=> Coding(v)
<1> DEFINE w == [v EXCEPT ![Len(v)].at = at]
<1>1. /\ v \in Seq(Frames) /\ Len(v) \in Nat /\ DOMAIN v = 1 .. Len(v) /\ Len(v) > 0
      /\ v[Len(v)] \in Frames /\ MaxNesting \in Nat
  BY VisualizerAssumption DEF StackOK
<1>2. [v[Len(v)] EXCEPT !.at = at] \in Frames
  BY <1>1 DEF Frames
<1>3. /\ w \in Seq(Frames) /\ Len(w) = Len(v) /\ DOMAIN w = 1 .. Len(w)
      /\ w[Len(w)].at = at /\ w[Len(w)].timer = v[Len(v)].timer
      /\ \A i \in DOMAIN v : i # Len(v) => w[i] = v[i]
  BY <1>1, <1>2 DEF Frames
<1> HIDE DEF w
<1>4. \A i \in DOMAIN v : FrameOK(v, i)
  BY DEF StackOK
<1>5. ASSUME NEW i \in DOMAIN w PROVE FrameOK(w, i)
  <2>1. i \in DOMAIN v /\ FrameOK(v, i)
    BY <1>1, <1>3, <1>4
  <2> QED
    BY <1>1, <1>3, <2>1 DEF FrameOK, Ats
<1>6. \A i \in DOMAIN v : w[i].at = "code" <=> v[i].at = "code"
  BY <1>1, <1>3 DEF Ats
<1> QED
  BY <1>1, <1>3, <1>5, <1>6 DEF StackOK, Coding, w
-----------------------------------------------------------------------------
(* Types *)

\* update_view_timeout has fewer calls open than there are source numbers left
\* over by the timeouts that wait.
LEMMA FreshIsFree ==
  ASSUME StackOK(view), timers \in SUBSET Ids, _update_timeout_id \in Ids \cup {None},
         Cardinality(timers) <= MaxTimers
  PROVE  Fresh \in Ids
<1> DEFINE held == {view[i].timer : i \in DOMAIN view} \cap Ids
           used == timers \cup {_update_timeout_id} \cup {view[i].timer : i \in DOMAIN view}
<1>1. /\ MaxNesting \in Nat /\ MaxTimers \in Nat
      /\ Ids = 1 .. MaxTimers + MaxNesting + 2 /\ Ids \in SUBSET Int
      /\ view \in Seq(Frames) /\ DOMAIN view = 1 .. Len(view) /\ Len(view) \in Nat
  BY VisualizerAssumption DEF Ids, StackOK
<1>2. IsFiniteSet(Ids) /\ Cardinality(Ids) = MaxTimers + MaxNesting + 2
  BY <1>1, FS_Interval
<1>3. IsFiniteSet(held) /\ Cardinality(held) <= MaxNesting
  <2> DEFINE K == {i \in 1 .. MaxNesting : i \in DOMAIN view /\ view[i].timer \in Ids}
             f == [i \in K |-> view[i].timer]
  <2>1. \A i \in DOMAIN view : view[i].timer \in Ids => i \in K
    <3> SUFFICES ASSUME NEW i \in DOMAIN view, view[i].timer \in Ids PROVE i <= MaxNesting
      BY <1>1
    <3>1. FrameOK(view, i) /\ view[i].timer # None
      BY <1>1 DEF StackOK, None
    <3> QED
      BY <3>1 DEF FrameOK
  <2>2. f \in [K -> held] /\ \A t \in held : \E i \in K : f[i] = t
    BY <2>1
  <2>3. f \in Surjection(K, held)
    <3> HIDE DEF K, held, f
    <3> QED
      BY <2>2 DEF Surjection
  <2>4. IsFiniteSet(1 .. MaxNesting) /\ Cardinality(1 .. MaxNesting) <= MaxNesting
    BY <1>1, UpTo
  <2>5. IsFiniteSet(K) /\ Cardinality(K) <= Cardinality(1 .. MaxNesting)
    BY <2>4, FS_Subset
  <2> HIDE DEF K, held, f
  <2>6. IsFiniteSet(held) /\ Cardinality(held) <= Cardinality(K)
    BY <2>3, <2>5, FS_Surjection
  <2>7. Cardinality(held) \in Nat /\ Cardinality(K) \in Nat /\ Cardinality(1 .. MaxNesting) \in Nat
    BY <2>4, <2>5, <2>6, FS_CardinalityType
  <2> QED
    BY <1>1, <2>4, <2>5, <2>6, <2>7
<1>4. IsFiniteSet(timers)
  BY <1>2, FS_Subset
<1> DEFINE known == timers \cup {_update_timeout_id}
<1>5. IsFiniteSet(known) /\ Cardinality(known) <= MaxTimers + 1
  <2>1. /\ IsFiniteSet(known)
        /\ Cardinality(known) = IF _update_timeout_id \in timers THEN Cardinality(timers)
                               ELSE Cardinality(timers) + 1
    BY <1>4, FS_AddElement
  <2>2. Cardinality(timers) \in Nat
    BY <1>4, FS_CardinalityType
  <2> QED
    BY <1>1, <2>1, <2>2
<1>6. Ids \ used # {}
  <2>1. ASSUME Ids \ used = {} PROVE FALSE
    <3>1. Ids \in SUBSET (known \cup held)
      BY <2>1
    <3> HIDE DEF known, held
    <3>2. /\ IsFiniteSet(known \cup held)
          /\ Cardinality(known \cup held) = Cardinality(known) + Cardinality(held) - Cardinality(known \cap held)
      BY <1>3, <1>5, FS_Union
    <3>3. Cardinality(Ids) <= Cardinality(known \cup held)
      BY <3>1, <3>2, FS_Subset
    <3>4. IsFiniteSet(known \cap held)
      BY <1>5, FS_Intersection
    <3>5. /\ Cardinality(known) \in Nat /\ Cardinality(held) \in Nat /\ Cardinality(known \cap held) \in Nat
      BY <1>3, <1>5, <3>4, FS_CardinalityType
    <3> QED
      BY <1>1, <1>2, <1>3, <1>5, <3>2, <3>3, <3>5
  <2> QED
    BY <2>1
<1> HIDE DEF used
<1>7. IsFiniteSet(Ids \ used) /\ Ids \ used \in SUBSET Int
  BY <1>1, <1>2, FS_Subset
<1>8. PICK k \in Ids \ used : \A j \in Ids \ used : k <= j
  BY <1>6, <1>7, Least
<1>9. Min(Ids \ used) \in Ids
  BY <1>8 DEF Min
<1> QED
  BY <1>9 DEF Fresh, used

Flags  == {go, quit, due, pause_messages, playing, closed} \subseteq BOOLEAN
Sources == timers \in SUBSET Ids /\ _update_timeout_id \in Ids \cup {None}
Places == {"while", "wait", "clear", "acquire", "run", "release", "ended"}

\* The SimulationThread holds the lock for one period, shell code for as long as
\* it runs, and never both.
LockOK ==
  /\ sim \in Places
  /\ sim \in {"run", "release"} => lock = "sim" /\ ~Coding(view)
  /\ sim \notin {"run", "release"} => lock = IF Coding(view) THEN "shell" ELSE "free"

ViewInv == Flags /\ Sources /\ LockOK /\ StackOK(view) /\ idle \in Nat

LEMMA InitView == Init => ViewInv
<1> SUFFICES ASSUME Init PROVE ViewInv
  OBVIOUS
<1>1. Flags
  BY DEF Init, Flags
<1>2. 1 \in Ids
  BY VisualizerAssumption DEF Ids
<1>3. Sources
  BY <1>2 DEF Init, Sources
<1>4. StackOK(view) /\ ~Coding(view)
  BY DEF Init, StackOK, Coding
<1>5. LockOK /\ idle \in Nat
  BY <1>4 DEF Init, LockOK, Places
<1> QED
  BY <1>1, <1>3, <1>4, <1>5 DEF ViewInv

LEMMA NextFlags == Flags /\ [Next]_vars => Flags'
<1> SUFFICES ASSUME Flags, [Next]_vars PROVE Flags'
  OBVIOUS
<1> USE DEF Flags
<1>1. CASE Sim
  BY <1>1, Zenon DEF Sim, SimWhile, SimWait, SimClear, SimAcquire, SimRun, SimRelease, timeouts
<1>2. CASE TryLock \/ NothingPending \/ UpdateModelStarts \/ UpdateModel \/ LookUp
  BY <1>2, Zenon DEF TryLock, NothingPending, UpdateModelStarts, UpdateModel, LookUp, timeouts
<1>3. CASE UpdateView
  BY <1>3, Zenon DEF UpdateView, timeouts
<1>4. CASE QuitGo \/ QuitJoined
  BY <1>4, Zenon DEF QuitGo, QuitJoined, timeouts
<1>5. CASE Tick
  BY <1>5, Zenon DEF Tick, timeouts
<1>6. CASE PlayToggled
  BY <1>6, Zenon DEF PlayToggled, timeouts
<1>7. CASE SpeedChanged
  BY <1>7, Zenon DEF SpeedChanged, timeouts
<1>8. CASE LookUpStarts \/ Runcode \/ SelectNode \/ RuncodeReturns \/ Quit
  BY <1>8, Zenon DEF LookUpStarts, Runcode, SelectNode, RuncodeReturns, Quit, timeouts
<1>9. CASE UNCHANGED vars
  BY <1>9, Zenon DEF vars, timeouts
<1> QED
  BY <1>1, <1>2, <1>3, <1>4, <1>5, <1>6, <1>7, <1>8, <1>9 DEF Next, Loop, User

LEMMA NextSources == Sources /\ StackOK(view) /\ [Next]_vars => Sources'
<1> SUFFICES ASSUME Sources, StackOK(view), [Next]_vars PROVE Sources'
  OBVIOUS
<1> USE DEF Sources
<1>1. ASSUME UNCHANGED timeouts PROVE Sources'
  BY <1>1 DEF timeouts
<1>2. ASSUME timers' \in SUBSET timers, _update_timeout_id' \in {_update_timeout_id, None} PROVE Sources'
  BY <1>2
<1>3. ASSUME StartTimer, Cardinality(timers) <= MaxTimers PROVE Sources'
  <2>1. Fresh \in Ids
    BY <1>3, FreshIsFree
  <2> QED
    BY <1>3, <2>1 DEF StartTimer
<1>4. CASE Sim
  BY <1>1, <1>4 DEF Sim, SimWhile, SimWait, SimClear, SimAcquire, SimRun, SimRelease
<1>5. CASE UpdateView
  BY <1>1, <1>2, <1>5 DEF UpdateView
<1>6. CASE Tick \/ TryLock \/ NothingPending \/ UpdateModelStarts \/ UpdateModel \/ LookUp
           \/ QuitGo \/ QuitJoined
  BY <1>1, <1>6 DEF Tick, TryLock, NothingPending, UpdateModelStarts, UpdateModel, LookUp, QuitGo, QuitJoined
<1>7. CASE PlayToggled
  BY <1>2, <1>3, <1>7 DEF PlayToggled
<1>8. CASE SpeedChanged
  BY <1>3, <1>8 DEF SpeedChanged
<1>9. CASE Quit
  BY <1>2, <1>9 DEF Quit
<1>10. CASE LookUpStarts \/ Runcode \/ SelectNode \/ RuncodeReturns
  BY <1>1, <1>10 DEF LookUpStarts, Runcode, SelectNode, RuncodeReturns
<1>11. CASE UNCHANGED vars
  BY <1>1, <1>11 DEF vars
<1> QED
  BY <1>4, <1>5, <1>6, <1>7, <1>8, <1>9, <1>10, <1>11 DEF Next, Loop, User

\* A callback that starts in the main loop starts above one that is in it.
LEMMA LoopCalls ==
  ASSUME StackOK(view), InLoop, NEW f \in Frames,
         f.at \in {"try", "pump"} => Len(view) < MaxNesting,
         f.at \notin {"try", "pump"} => f.timer = None,
         Calls(f)
  PROVE  StackOK(view)' /\ ~Coding(view) /\ (Coding(view)' <=> f.at = "code")
<1>1. view = <<>> \/ view[Len(view)].at = "pump"
  BY DEF InLoop, At, Top
<1> QED
  BY <1>1, StackCalls DEF Calls

LEMMA NextStack ==
  ASSUME ViewInv, [Next]_vars
  PROVE  StackOK(view)' /\ LockOK' /\ idle' \in Nat
<1> USE DEF ViewInv, LockOK, Places
<1>1. ASSUME UNCHANGED view PROVE StackOK(view)' /\ (Coding(view)' <=> Coding(view))
  BY <1>1 DEF StackOK, Coding, FrameOK
<1>2. CASE Sim
  <2>1. UNCHANGED view
    BY <1>2 DEF Sim, SimWhile, SimWait, SimClear, SimAcquire, SimRun, SimRelease
  <2>2. idle' \in Nat
    BY <1>2 DEF Sim, SimWhile, SimWait, SimClear, SimAcquire, SimRun, SimRelease
  <2>3. LockOK'
    BY <1>1, <1>2, <2>1 DEF Sim, SimWhile, SimWait, SimClear, SimAcquire, SimRun, SimRelease
  <2> QED
    BY <1>1, <2>1, <2>2, <2>3
<1>3. ASSUME NEW at \in Ats, At(at), view' = Popped
      PROVE  StackOK(view)' /\ (Coding(view)' <=> Coding(view) /\ at # "code")
  BY <1>3, StackReturns DEF At, Top, Popped, Coding, StackOK
<1>4. ASSUME NEW at, NEW to, <<at, to>> \in {<<"try", "pump">>, <<"pump", "try">>, <<"quit", "join">>},
             At(at), GoesOn(to)
      PROVE  StackOK(view)' /\ (Coding(view)' <=> Coding(view))
  <2>1. view # <<>> /\ view[Len(view)].at = at
    BY <1>4 DEF At, Top
  <2>2. to \in Ats \ {"code"}
    BY <1>4 DEF Ats
  <2> QED
    BY <1>4, <2>1, <2>2, StackGoesOn DEF GoesOn
<1>5. \A at \in Ats, t \in Ids \cup {None} : Frame(at, t) \in Frames /\ Frame(at, t).at = at /\ Frame(at, t).timer = t
  BY DEF Frame, Frames
<1>6. CASE Tick
  <2>1. PICK t \in timers : Calls(Frame("try", t))
    BY <1>6 DEF Tick
  <2>2. t \in Ids \cup {None}
    BY <2>1 DEF Sources
  <2>3. InLoop /\ Len(view) < MaxNesting
    BY <1>6 DEF Tick, Free
  <2>4. StackOK(view)' /\ ~Coding(view) /\ ~Coding(view)'
    BY <1>5, <2>1, <2>2, <2>3, LoopCalls DEF Ats
  <2> QED
    BY <1>6, <2>4 DEF Tick
<1>7. CASE TryLock
  BY <1>4, <1>7 DEF TryLock
<1>8. CASE NothingPending
  BY <1>4, <1>8 DEF NothingPending
<1>9. CASE UpdateView
  BY <1>3, <1>9 DEF UpdateView, Ats
<1>10. ASSUME NEW at \in {"update_model", "look_up", "code", "quit"}, InLoop, Calls(Frame(at, None))
       PROVE  StackOK(view)' /\ ~Coding(view) /\ (Coding(view)' <=> at = "code")
  BY <1>5, <1>10, LoopCalls DEF Ats
<1>11. CASE UpdateModelStarts
  BY <1>10, <1>11 DEF UpdateModelStarts
<1>12. CASE LookUpStarts
  BY <1>10, <1>12 DEF LookUpStarts, Free
<1>13. CASE UpdateModel
  BY <1>3, <1>13 DEF UpdateModel, Ats
<1>14. CASE LookUp
  BY <1>3, <1>14 DEF LookUp, Ats
<1>15. CASE Runcode
  BY <1>10, <1>15 DEF Runcode, Free
<1>16. CASE SelectNode
  <2>1. view # <<>> /\ view[Len(view)].at = "code"
    BY <1>16 DEF SelectNode, At, Top
  <2>2. StackOK(view)' /\ (Coding(view)' <=> Coding(view))
    BY <1>5, <1>16, <2>1, StackCalls DEF SelectNode, Calls, Ats
  <2> QED
    BY <1>16, <2>2 DEF SelectNode
<1>17. CASE RuncodeReturns
  <2>1. view # <<>> /\ view[Len(view)].at = "code" /\ Len(view) \in DOMAIN view
    BY <1>17 DEF RuncodeReturns, At, Top, StackOK
  <2>2. Coding(view)
    BY <2>1 DEF Coding
  <2>3. StackOK(view)' /\ ~Coding(view)'
    BY <1>3, <1>17 DEF RuncodeReturns, Ats
  <2> QED
    BY <1>17, <2>2, <2>3 DEF RuncodeReturns
<1>18. CASE Quit
  BY <1>10, <1>18 DEF Quit, Free
<1>19. CASE QuitGo
  BY <1>4, <1>19 DEF QuitGo
<1>20. CASE QuitJoined
  BY <1>3, <1>20 DEF QuitJoined, Ats
<1>21. CASE PlayToggled \/ SpeedChanged \/ UNCHANGED vars
  BY <1>1, <1>21 DEF PlayToggled, SpeedChanged, vars
<1> QED
  BY <1>2, <1>6, <1>7, <1>8, <1>9, <1>11, <1>12, <1>13, <1>14, <1>15, <1>16, <1>17, <1>18, <1>19,
     <1>20, <1>21 DEF Next, Loop, User

LEMMA ViewType == ViewInv => TypeOK
<1> SUFFICES ASSUME ViewInv PROVE TypeOK
  OBVIOUS
<1>1. Len(view) <= MaxNesting + 2
  BY StackBound DEF ViewInv
<1>2. lock = IF sim \in {"run", "release"} THEN "sim"
             ELSE IF \E i \in DOMAIN view : view[i].at = "code" THEN "shell" ELSE "free"
  BY DEF ViewInv, LockOK, Coding
<1> QED
  BY <1>1, <1>2 DEF ViewInv, TypeOK, Flags, Sources, LockOK, Places

\* The lock is the SimulationThread's while it runs a period, the shell's while
\* code typed into it has not returned, and free otherwise: what a callback did
\* while the lock was its own never leaves it taken, and the two never hold it
\* together.  And however update_view_timeout runs the main loop inside itself,
\* the callbacks that have not returned are bounded and a new timeout finds a
\* source number that is not in use.
THEOREM LockIsHeldOnce == Spec => []TypeOK
<1>1. Init => ViewInv
  BY InitView
<1>2. ViewInv /\ [Next]_vars => ViewInv'
  BY NextFlags, NextSources, NextStack DEF ViewInv
<1> QED
  BY <1>1, <1>2, ViewType, PTL DEF Spec
=============================================================================
