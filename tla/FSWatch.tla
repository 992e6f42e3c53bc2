------------------------------- MODULE FSWatch -------------------------------
(***************************************************************************)
(* pkg/util/fswatch/fswatch.go: WatchDirRecursively.  One goroutine per    *)
(* directory restarts an fsnotify watcher when it closes; one goroutine    *)
(* per watcher turns write events into non-blocking sends on notifyRaw;    *)
(* one debouncer turns those into signals on notify, using a time.Timer.   *)
(* The receiver of notify is modelled in FileRenderer.                     *)
(*                                                                         *)
(* The content of the directories is a version number.  A goroutine can    *)
(* receive from the unbuffered notifyRaw only while it is parked in its    *)
(* select, since senders never wait.  Timers are those of Go before 1.23   *)
(* (docker/manager/Dockerfile: 1.10.3): their channel has one slot, which  *)
(* Reset does not empty.                                                   *)
(***************************************************************************)
EXTENDS Naturals, FiniteSets

CONSTANTS
  Dir,         \* the subdirectories that recursiveSubdirs found
  Delay,       \* debounceDelay, in ticks of the clock
  MaxChanges,  \* bound: how many times the files change
  MayFail      \* fsnotify may return errors and close its channels

ASSUME WatchAssumption ==
  /\ IsFiniteSet(Dir)
  /\ Delay \in Nat \ {0}
  /\ MaxChanges \in Nat
  /\ MayFail \in BOOLEAN

VARIABLES
  disk,      \* the version of the files under the watched directories
  watcher,   \* what the goroutine of watchDir is doing for each directory
  doneInit,  \* the value in the doneInit channel was sent
  event,     \* a write event waits in the kernel's queue of a directory
  deb,       \* where the debouncer is
  timer,     \* ticks until the timer fires, 0: not armed
  timerC,    \* the timer's channel holds a value
  bursts,    \* notifications received from notifyRaw
  signals    \* signals sent on notify

watchVars == <<watcher, doneInit>>
debVars == <<deb, timer, timerC, bursts, signals>>
fsVars == <<disk, event>>

WatchInit ==
  /\ disk = 0
  /\ watcher = [d \in Dir |-> "none"]
  /\ doneInit = [d \in Dir |-> FALSE]
  /\ event = [d \in Dir |-> FALSE]
  /\ deb = "off"
  /\ timer = 0
  /\ timerC = FALSE
  /\ bursts = 0
  /\ signals = 0
-----------------------------------------------------------------------------
(* The files (external).                                                    *)

\* A file is written in place: fsnotify reports Write if it watches.
Write(d) ==
  /\ disk < MaxChanges
  /\ disk' = disk + 1
  /\ event' = [event EXCEPT ![d] = @ \/ watcher[d] = "watching"]
  /\ UNCHANGED <<watchVars, debVars>>

\* A file is created, removed or replaced by a rename: the events fsnotify
\* reports have no Write bit and the event loop ignores them.
Replace ==
  /\ disk < MaxChanges
  /\ disk' = disk + 1
  /\ UNCHANGED <<event, watchVars, debVars>>
-----------------------------------------------------------------------------
(* watchDir, one goroutine and one event loop per directory.                *)

StartWatchDir(d) ==
  /\ watcher[d] = "none"
  /\ watcher' = [watcher EXCEPT ![d] = "creating"]
  /\ UNCHANGED <<doneInit, debVars, fsVars>>

\* fsnotify.NewWatcher; on an error the goroutine returns.
NewWatcher(d) ==
  /\ watcher[d] = "creating"
  /\ \/ watcher' = [watcher EXCEPT ![d] = "adding"]
     \/ MayFail /\ watcher' = [watcher EXCEPT ![d] = "dead"]
  /\ UNCHANGED <<doneInit, debVars, fsVars>>

AddSilently(d) ==
  /\ watcher[d] = "adding"
  /\ watcher' = [watcher EXCEPT ![d] = "watching"]
  /\ UNCHANGED <<doneInit, debVars, fsVars>>

\* watcher.Add; the value for doneInit is sent only when it succeeds.
AddDir(d) ==
  /\ watcher[d] = "adding"
  /\ \/ /\ watcher' = [watcher EXCEPT ![d] = "watching"]
        /\ doneInit' = [doneInit EXCEPT ![d] = TRUE]
     \/ /\ MayFail
        /\ watcher' = [watcher EXCEPT ![d] = "dead"]
        /\ UNCHANGED doneInit
  /\ UNCHANGED <<debVars, fsVars>>

\* The watcher's channels close: done is sent and the outer loop starts over.
RestartWatcher(d) ==
  /\ MayFail
  /\ watcher[d] = "watching"
  /\ watcher' = [watcher EXCEPT ![d] = "creating"]
  /\ event' = [event EXCEPT ![d] = FALSE]
  /\ UNCHANGED <<doneInit, debVars, disk>>

\* The event loop takes a write event; the send on notifyRaw is dropped when
\* the debouncer is not parked in its select.
DeliverEvent(d) ==
  /\ watcher[d] = "watching"
  /\ event[d]
  /\ event' = [event EXCEPT ![d] = FALSE]
  /\ \/ /\ deb = "parked"
        /\ deb' = "reset"
        /\ bursts' = bursts + 1
        /\ UNCHANGED <<timer, timerC, signals>>
     \/ deb # "parked" /\ UNCHANGED debVars
  /\ UNCHANGED <<watchVars, disk>>

WatchDirStep(d) == NewWatcher(d) \/ AddDir(d) \/ DeliverEvent(d)
-----------------------------------------------------------------------------
(* The debouncer.                                                           *)

StartDebouncer ==
  /\ deb = "off"
  /\ deb' = "loop"
  /\ UNCHANGED <<timer, timerC, bursts, signals, watchVars, fsVars>>

\* select: the timer's value if there is one, otherwise park.
Select ==
  /\ deb = "loop"
  /\ timerC' = FALSE
  /\ deb' = IF timerC THEN "send" ELSE "parked"
  /\ UNCHANGED <<timer, bursts, signals, watchVars, fsVars>>

\* timer.Reset(debounceDelay): armed again, its channel is left as it is.
SkipReset ==
  /\ deb = "reset"
  /\ deb' = "loop"
  /\ UNCHANGED <<timer, timerC, bursts, signals, watchVars, fsVars>>

ResetTimer ==
  /\ deb = "reset"
  /\ timer' = Delay
  /\ deb' = "loop"
  /\ UNCHANGED <<timerC, bursts, signals, watchVars, fsVars>>

StaleTick ==
  /\ timer' = timer - 1
  /\ LET fires == timer = 1
     IN  /\ deb' = IF fires /\ deb = "parked" THEN "send" ELSE deb
         /\ timerC' = (timerC \/ (fires /\ deb # "parked"))
  /\ UNCHANGED <<bursts, signals, watchVars, fsVars>>

\* Time passes.  When the timer fires its value goes to the parked debouncer,
\* or into the channel's slot.
Tick ==
  /\ timer > 0
  /\ timer' = timer - 1
  /\ LET fires == timer = 1
     IN  /\ deb' = IF fires /\ deb = "parked" THEN "send" ELSE deb
         /\ timerC' = (timerC \/ (fires /\ deb # "parked"))
  /\ UNCHANGED <<bursts, signals, watchVars, fsVars>>

\* notify <- struct{}{}: completes together with the receiver's <-notify.
StaySending ==
  /\ deb = "send"
  /\ signals' = signals + 1
  /\ UNCHANGED <<deb, timer, timerC, bursts, watchVars, fsVars>>

SendNotify ==
  /\ deb = "send"
  /\ deb' = "loop"
  /\ signals' = signals + 1
  /\ UNCHANGED <<timer, timerC, bursts, watchVars, fsVars>>

\* A signal is going to be sent without any further change of a file.
SignalPending == deb \in {"reset", "send"} \/ timer > 0 \/ timerC
=============================================================================
