------------------------- MODULE FileRendererProofs -------------------------
(***************************************************************************)
(* Proofs about FSWatch and FileRenderer for every set of directories,     *)
(* debounce delay and bound on the changes: type correctness, and that the *)
(* debouncer sends no more signals than it took notifications.  The run of *)
(* MCFileRenderer checks the same formulas on a small instance.            *)
(***************************************************************************)
EXTENDS FileRenderer, FiniteSetTheorems, TLAPS

\* The directories with an event in the kernel's queue.
Queued == {d \in Dir : event[d]}

\* Events are merged and dropped, never made up: each that was taken or waits
\* has a change of the files of its own.
EventInv == bursts + Cardinality(Queued) <= disk

\* The signals still to be sent: one being sent, or about to arm the timer, one
\* that the timer stands for, and a stale value in the timer's channel.
Held  == IF deb \in {"send", "reset"} THEN 1 ELSE 0
Armed == IF timer > 0 THEN 1 ELSE 0
Left  == IF timerC = TRUE THEN 1 ELSE 0

SignalInv == signals + Held + Armed + Left <= bursts

\* The inductive invariant: signals, notifications and changes are in proportion.
IInv == TypeOK /\ EventInv /\ SignalInv
-----------------------------------------------------------------------------
\* The queued directories are finitely many.
LEMMA QueuedFinite == IsFiniteSet(Queued) /\ Cardinality(Queued) \in Nat
BY WatchAssumption, FS_Subset, FS_CardinalityType DEF Queued

\* A queue that gets an event grows by at most one, one that loses its event
\* shrinks by one.
LEMMA QueuedSteps ==
  ASSUME TypeOK, NEW d \in Dir
  PROVE  /\ \A b \in BOOLEAN : event' = [event EXCEPT ![d] = b] =>
              /\ Cardinality(Queued)' \in Nat
              /\ Cardinality(Queued)' <= Cardinality(Queued) + 1
              /\ ~b => Cardinality(Queued)' <= Cardinality(Queued)
              /\ ~b /\ event[d] => Cardinality(Queued)' = Cardinality(Queued) - 1
<1> SUFFICES ASSUME NEW b \in BOOLEAN, event' = [event EXCEPT ![d] = b]
             PROVE  /\ Cardinality(Queued)' \in Nat
                    /\ Cardinality(Queued)' <= Cardinality(Queued) + 1
                    /\ ~b => Cardinality(Queued)' <= Cardinality(Queued)
                    /\ ~b /\ event[d] => Cardinality(Queued)' = Cardinality(Queued) - 1
  OBVIOUS
<1>1. CASE b
  <2>1. Queued' = Queued \cup {d}
    BY <1>1 DEF Queued, TypeOK
  <2>2. Cardinality(Queued \cup {d}) = IF d \in Queued THEN Cardinality(Queued)
                                       ELSE Cardinality(Queued) + 1
    BY QueuedFinite, FS_AddElement
  <2> QED
    BY <1>1, <2>1, <2>2, QueuedFinite
<1>2. CASE ~b
  <2>1. Queued' = Queued \ {d}
    BY <1>2 DEF Queued, TypeOK
  <2>2. Cardinality(Queued \ {d}) = IF d \in Queued THEN Cardinality(Queued) - 1
                                    ELSE Cardinality(Queued)
    BY QueuedFinite, FS_RemoveElement
  <2>3. d \in Queued => Cardinality(Queued) # 0
    BY QueuedFinite, FS_EmptySet
  <2>4. d \in Queued <=> event[d]
    BY DEF Queued
  <2> QED
    BY <1>2, <2>1, <2>2, <2>3, <2>4, QueuedFinite
<1> QED
  BY <1>1, <1>2

LEMMA InitIInv == Init => IInv
<1> SUFFICES ASSUME Init PROVE IInv
  OBVIOUS
<1>1. TypeOK
  <2>1. 0 \in 0..MaxChanges /\ 0 \in 0..Delay
    BY WatchAssumption
  <2>2. doneInit \in [Dir -> BOOLEAN] /\ event \in [Dir -> BOOLEAN] /\ timerC \in BOOLEAN
    BY DEF Init, WatchInit
  <2> QED
    BY <2>1, <2>2 DEF Init, WatchInit, TypeOK
<1>2. Queued = {}
  BY DEF Init, WatchInit, Queued
<1>3. EventInv
  BY <1>2, FS_EmptySet DEF Init, WatchInit, EventInv
<1>4. SignalInv
  BY DEF Init, WatchInit, SignalInv, Held, Armed, Left
<1> QED
  BY <1>1, <1>3, <1>4 DEF IInv

\* The files change: an event may be queued.
LEMMA FileSteps ==
  ASSUME IInv, NEW d \in Dir, Write(d) \/ Replace, UNCHANGED rendererVars
  PROVE  IInv'
<1> USE DEF IInv
<1>1. TypeOK'
  <2>1. event' \in [Dir -> BOOLEAN]
    <3>1. CASE Write(d)
      <4> DEFINE b == event[d] \/ watcher[d] = "watching"
      <4>1. b \in BOOLEAN /\ event' = [event EXCEPT ![d] = b]
        BY <3>1, Zenon DEF Write
      <4> HIDE DEF b
      <4> QED
        BY <4>1 DEF TypeOK
    <3>2. CASE Replace
      BY <3>2 DEF Replace, TypeOK
    <3> QED
      BY <3>1, <3>2
  <2>2. disk' \in 0..MaxChanges
    BY WatchAssumption DEF Write, Replace, TypeOK
  <2> QED
    BY <2>1, <2>2 DEF Write, Replace, TypeOK, watchVars, debVars, rendererVars
<1>2. disk' = disk + 1 /\ UNCHANGED debVars
  BY DEF Write, Replace
<1>3. EventInv'
  <2>1. CASE Write(d)
    <3> DEFINE b == event[d] \/ watcher[d] = "watching"
    <3>1. b \in BOOLEAN /\ event' = [event EXCEPT ![d] = b]
      BY <2>1, Zenon DEF Write
    <3> HIDE DEF b
    <3>2. Cardinality(Queued)' \in Nat /\ Cardinality(Queued)' <= Cardinality(Queued) + 1
      BY <3>1, QueuedSteps
    <3> QED
      BY <1>2, <3>2, QueuedFinite DEF EventInv, TypeOK, debVars
  <2>2. CASE Replace
    <3>1. Queued' = Queued
      BY <2>2 DEF Replace, Queued
    <3> QED
      BY <1>2, <3>1, QueuedFinite DEF EventInv, TypeOK, debVars
  <2> QED
    BY <2>1, <2>2
<1>4. SignalInv'
  BY <1>2 DEF SignalInv, debVars, Held, Armed, Left
<1> QED
  BY <1>1, <1>3, <1>4

\* A step that leaves the files and the debouncer alone.
LEMMA QuietStep ==
  ASSUME IInv, TypeOK', UNCHANGED <<fsVars, debVars>>
  PROVE  IInv'
<1>1. Queued' = Queued
  BY DEF fsVars, Queued
<1> QED
  BY <1>1 DEF IInv, EventInv, SignalInv, Held, Armed, Left, fsVars, debVars

\* watchDir's goroutine: it makes a watcher, loses it, or takes an event.
LEMMA WatcherSteps ==
  ASSUME IInv, NEW d \in Dir, WatchDirStep(d) \/ RestartWatcher(d), UNCHANGED rendererVars
  PROVE  IInv'
<1> USE DEF IInv
<1>1. CASE NewWatcher(d) \/ AddDir(d)
  <2>1. TypeOK'
    <3>1. CASE NewWatcher(d)
      BY <3>1 DEF NewWatcher, TypeOK, fsVars, debVars, rendererVars
    <3>2. CASE AddDir(d)
      <4>1. \E w \in {"watching", "dead"} : watcher' = [watcher EXCEPT ![d] = w]
        BY <3>2 DEF AddDir
      <4>2. doneInit' = [doneInit EXCEPT ![d] = TRUE] \/ doneInit' = doneInit
        BY <3>2 DEF AddDir
      <4>3. UNCHANGED <<fsVars, debVars, rendererVars>>
        BY <3>2 DEF AddDir
      <4>4. watcher' \in [Dir -> {"none", "creating", "adding", "watching", "dead"}]
        BY <4>1 DEF TypeOK
      <4>5. doneInit' \in [Dir -> BOOLEAN]
        BY <4>2 DEF TypeOK
      <4> QED
        BY <4>3, <4>4, <4>5 DEF TypeOK, fsVars, debVars, rendererVars
    <3> QED
      BY <1>1, <3>1, <3>2
  <2> QED
    BY <1>1, <2>1, QuietStep DEF NewWatcher, AddDir
<1>2. CASE RestartWatcher(d)
  <2>1. TypeOK'
    BY <1>2 DEF RestartWatcher, TypeOK, debVars, rendererVars
  <2>2. EventInv'
    <3>1. event' = [event EXCEPT ![d] = FALSE] /\ disk' = disk /\ UNCHANGED debVars
      BY <1>2 DEF RestartWatcher
    <3>2. Cardinality(Queued)' \in Nat /\ Cardinality(Queued)' <= Cardinality(Queued)
      BY <3>1, QueuedSteps
    <3> QED
      BY <3>1, <3>2, QueuedFinite DEF EventInv, TypeOK, debVars
  <2>3. SignalInv'
    BY <1>2 DEF RestartWatcher, SignalInv, debVars, Held, Armed, Left
  <2> QED
    BY <2>1, <2>2, <2>3
<1>3. CASE DeliverEvent(d)
  <2>1. /\ Cardinality(Queued)' = Cardinality(Queued) - 1
        /\ Cardinality(Queued)' \in Nat
    BY <1>3, QueuedSteps DEF DeliverEvent
  <2>2. bursts' \in Nat /\ bursts' <= bursts + 1 /\ disk' = disk
    BY <1>3 DEF DeliverEvent, TypeOK, debVars
  <2>3. EventInv'
    BY <2>1, <2>2, QueuedFinite DEF EventInv, TypeOK
  <2>4. bursts' \in 0..MaxChanges
    BY <2>1, <2>2, <2>3, WatchAssumption DEF EventInv, TypeOK
  <2>5. TypeOK'
    BY <1>3, <2>4 DEF DeliverEvent, TypeOK, watchVars, debVars, rendererVars
  <2>6. SignalInv'
    BY <1>3 DEF DeliverEvent, SignalInv, TypeOK, debVars, Held, Armed, Left
  <2> QED
    BY <2>3, <2>5, <2>6
<1> QED
  BY <1>1, <1>2, <1>3 DEF WatchDirStep

\* Fewer signals still to be sent keep the sum below its bound.
LEMMA FewerToSend ==
  ASSUME NEW sent \in Nat, NEW took \in Nat,
         NEW a \in Nat, NEW b \in Nat, NEW c \in Nat,
         NEW d \in Nat, NEW e \in Nat, NEW f \in Nat,
         sent + a + b + c <= took, d + e + f <= a + b + c
  PROVE  sent + d + e + f <= took
OBVIOUS

\* The four ways in which a signal is passed on: to the timer, out of its channel,
\* nowhere while the clock ticks, and into its channel.
LEMMA PassedOn ==
  ASSUME NEW a \in Nat, NEW b \in Nat, NEW c \in Nat,
         NEW d \in Nat, NEW e \in Nat, NEW f \in Nat,
         \/ a = 1 /\ d = 0 /\ e <= 1 /\ f = c
         \/ d <= c /\ e = b /\ f = 0
         \/ d = a /\ b = 1 /\ e <= 1 /\ f = c
         \/ d = a /\ b = 1 /\ e = 0 /\ f <= c + 1
  PROVE  d + e + f <= a + b + c
OBVIOUS

\* The debouncer and its timer pass a signal on, and make none.
LEMMA DebounceSteps ==
  ASSUME IInv, Debounce \/ TimePasses \/ ReceiveSignal
  PROVE  IInv'
<1> USE DEF IInv
<1>1. TypeOK'
  <2>1. CASE Debounce
    <3>1. deb' \in {"loop", "send", "parked"} /\ timer' \in 0..Delay
      BY <2>1, WatchAssumption DEF Debounce, Select, ResetTimer, TypeOK
    <3>2. timerC' \in BOOLEAN
      BY <2>1 DEF Debounce, Select, ResetTimer, TypeOK
    <3> QED
      BY <2>1, <3>1, <3>2 DEF Debounce, Select, ResetTimer, TypeOK, watchVars, fsVars, rendererVars
  <2>2. CASE TimePasses
    <3>1. timer' \in 0..Delay
      BY <2>2, WatchAssumption DEF TimePasses, Tick, TypeOK
    <3>2. timerC' \in BOOLEAN /\ deb' \in {"off", "loop", "parked", "reset", "send"}
      BY <2>2, Zenon DEF TimePasses, Tick, TypeOK
    <3> QED
      BY <2>2, <3>1, <3>2 DEF TimePasses, Tick, TypeOK, watchVars, fsVars, rendererVars
  <2>3. CASE ReceiveSignal
    BY <2>3 DEF ReceiveSignal, SendNotify, TypeOK, watchVars, fsVars
  <2> QED
    BY <2>1, <2>2, <2>3
<1>2. UNCHANGED <<disk, event, bursts>>
  BY DEF Debounce, TimePasses, ReceiveSignal, Select, ResetTimer, Tick, SendNotify, fsVars
<1>3. EventInv'
  BY <1>2 DEF EventInv, Queued
<1>4. /\ signals \in Nat /\ bursts \in Nat
      /\ Held \in Nat /\ Held <= 1 /\ Armed \in Nat /\ Armed <= 1 /\ Left \in Nat /\ Left <= 1
      /\ Held' \in Nat /\ Held' <= 1 /\ Armed' \in Nat /\ Armed' <= 1 /\ Left' \in Nat /\ Left' <= 1
      /\ signals + Held + Armed + Left <= bursts
  BY DEF Held, Armed, Left, TypeOK, SignalInv
<1>5. ASSUME Select /\ UNCHANGED rendererVars
      PROVE  SignalInv'
  <2>1. UNCHANGED <<signals, bursts, timer>> /\ deb = "loop" /\ timerC' = FALSE
    BY <1>5 DEF Select
  <2>2. Held = 0 /\ Left' = 0 /\ Armed' = Armed
    BY <2>1 DEF Held, Left, Armed
  <2>3. Held' <= Left /\ Held' \in Nat /\ Held' <= 1
    <3>1. CASE timerC = TRUE
      BY <3>1 DEF Held, Left
    <3>2. CASE timerC = FALSE
      <4>1. deb' = "parked"
        BY <1>5, <3>2, Zenon DEF Select
      <4> QED
        BY <4>1, <1>4 DEF Held
    <3> QED
      BY <3>1, <3>2 DEF TypeOK
  <2>4. Held' + Armed' + Left' <= Held + Armed + Left
    BY <1>4, <2>1, <2>2, <2>3, PassedOn
  <2> QED
    BY <1>4, <2>1, <2>4, FewerToSend DEF SignalInv
<1>6. ASSUME ResetTimer /\ UNCHANGED rendererVars
      PROVE  SignalInv'
  <2>1. UNCHANGED <<signals, bursts, timerC>> /\ deb = "reset" /\ deb' = "loop"
    BY <1>6 DEF ResetTimer
  <2>2. Held = 1 /\ Held' = 0 /\ Left' = Left /\ Armed' \in Nat /\ Armed' <= 1
    BY <2>1 DEF Held, Left, Armed
  <2>3. Held' + Armed' + Left' <= Held + Armed + Left
    BY <1>4, <2>2, PassedOn
  <2> QED
    BY <1>4, <2>1, <2>3, FewerToSend DEF SignalInv
<1>7. ASSUME TimePasses
      PROVE  SignalInv'
  <2>1. UNCHANGED <<signals, bursts>> /\ timer > 0 /\ timer' = timer - 1
    BY <1>7 DEF TimePasses, Tick
  <2>2. Armed = 1 /\ Armed' \in Nat /\ Armed' <= 1 /\ (timer = 1 => Armed' = 0)
    BY <2>1 DEF Armed
  <2>3. CASE timer # 1
    <3>1. deb' = deb /\ timerC' = timerC
      BY <1>7, <2>3, Zenon DEF TimePasses, Tick, TypeOK
    <3>2. Held' = Held /\ Left' = Left
      BY <3>1 DEF Held, Left
    <3>3. Held' + Armed' + Left' <= Held + Armed + Left
      BY <1>4, <2>1, <2>2, <3>2, PassedOn
    <3> QED
      BY <1>4, <2>1, <3>3, FewerToSend DEF SignalInv
  <2>4. CASE timer = 1 /\ deb = "parked"
    <3>1. deb' = "send" /\ timerC' = timerC
      BY <1>7, <2>4, Zenon DEF TimePasses, Tick, TypeOK
    <3>2. Held = 0 /\ Held' = 1 /\ Left' = Left
      BY <2>4, <3>1 DEF Held, Left
    <3> QED
      BY <1>4, <2>1, <2>2, <2>4, <3>2 DEF SignalInv
  <2>5. CASE timer = 1 /\ deb # "parked"
    <3>1. deb' = deb
      BY <1>7, <2>5, Zenon DEF TimePasses, Tick
    <3>2. Held' = Held /\ Left' \in Nat /\ Left' <= 1
      BY <3>1 DEF Held, Left
    <3>3. Left' <= Left + 1
      BY <1>4, <3>2
    <3>4. Held' + Armed' + Left' <= Held + Armed + Left
      BY <1>4, <2>1, <2>2, <2>5, <3>2, <3>3, PassedOn
    <3> QED
      BY <1>4, <2>1, <3>4, FewerToSend DEF SignalInv
  <2> QED
    BY <2>3, <2>4, <2>5
<1>8. ASSUME ReceiveSignal
      PROVE  SignalInv'
  <2>1. /\ deb = "send" /\ deb' = "loop" /\ signals' = signals + 1
        /\ UNCHANGED <<timer, timerC, bursts>>
    BY <1>8 DEF ReceiveSignal, SendNotify
  <2>2. Held = 1 /\ Held' = 0 /\ Armed' = Armed /\ Left' = Left
    BY <2>1 DEF Held, Armed, Left
  <2> QED
    BY <1>4, <2>1, <2>2 DEF SignalInv
<1> QED
  BY <1>1, <1>3, <1>5, <1>6, <1>7, <1>8 DEF Debounce

\* Run and the goroutine that reloads the chart; the debouncer starts.
LEMMA RendererSteps ==
  ASSUME IInv, Run \/ Reload
  PROVE  IInv'
<1> USE DEF IInv
<1>1. CASE Reload
  <2>1. TypeOK'
    BY <1>1 DEF Reload, loadChart, TypeOK, fsVars, watchVars, debVars
  <2> QED
    BY <1>1, <2>1, QuietStep DEF Reload
<1>2. CASE InitialLoad
  <2>1. TypeOK'
    BY <1>2 DEF InitialLoad, loadChart, TypeOK, fsVars, watchVars, debVars
  <2> QED
    BY <1>2, <2>1, QuietStep DEF InitialLoad
<1>3. ASSUME NEW d \in Dir, CallWatchDir(d) PROVE IInv'
  <2>1. TypeOK'
    BY <1>3 DEF CallWatchDir, StartWatchDir, TypeOK, fsVars, debVars
  <2> QED
    BY <1>3, <2>1, QuietStep DEF CallWatchDir, StartWatchDir
<1>4. CASE WatchDirReturns \/ RunReturns
  <2>1. TypeOK'
    BY <1>4 DEF WatchDirReturns, RunReturns, TypeOK, fsVars, watchVars, debVars
  <2> QED
    BY <1>4, <2>1, QuietStep DEF WatchDirReturns, RunReturns
<1>5. CASE WatchingStarts
  <2>1. TypeOK'
    BY <1>5 DEF WatchingStarts, StartDebouncer, TypeOK, fsVars, watchVars
  <2>2. UNCHANGED <<disk, event, bursts>>
    BY <1>5 DEF WatchingStarts, StartDebouncer, fsVars
  <2>3. EventInv'
    BY <2>2 DEF EventInv, Queued
  <2>4. SignalInv'
    BY <1>5 DEF WatchingStarts, StartDebouncer, SignalInv, Held, Armed, Left
  <2> QED
    BY <2>1, <2>3, <2>4
<1> QED
  BY <1>1, <1>2, <1>3, <1>4, <1>5 DEF Run

\* Every step keeps the invariant.
LEMMA NextIInv ==
  ASSUME IInv, [Next]_vars
  PROVE  IInv'
<1>1. CASE Replace /\ UNCHANGED rendererVars
  <2>1. TypeOK'
    BY <1>1, WatchAssumption DEF IInv, Replace, TypeOK, watchVars, debVars, rendererVars
  <2>2. Queued' = Queued /\ disk' = disk + 1 /\ UNCHANGED debVars
    BY <1>1 DEF Replace, Queued
  <2> QED
    BY <2>1, <2>2, QueuedFinite DEF IInv, TypeOK, EventInv, SignalInv, debVars, Held, Armed, Left
<1>2. CASE UNCHANGED vars
  <2>1. TypeOK'
    BY <1>2 DEF IInv, TypeOK, vars, fsVars, watchVars, debVars, rendererVars
  <2> QED
    BY <1>2, <2>1, QuietStep DEF vars
<1> QED
  BY <1>1, <1>2, FileSteps, WatcherSteps, DebounceSteps, RendererSteps DEF Next

\* The invariant holds in every state, whatever the fairness.
THEOREM Invariance == Spec => []IInv
<1>1. Init => IInv
  BY InitIInv
<1>2. IInv /\ [Next]_vars => IInv'
  BY NextIInv
<1> QED
  BY <1>1, <1>2, PTL DEF Spec

\* Every variable keeps its type: among the parts, the debouncer never takes more
\* notifications than there were changes.
THEOREM TypeCorrect == Spec => []TypeOK
<1>1. IInv => TypeOK
  BY DEF IInv
<1> QED
  BY <1>1, Invariance, PTL

\* The debouncer does not flood the renderer with signals.
THEOREM NoFloodHolds == Spec => []NoFlood
<1>1. IInv => NoFlood
  BY DEF IInv, SignalInv, NoFlood, TypeOK, Held, Armed, Left
<1> QED
  BY <1>1, Invariance, PTL
=============================================================================
