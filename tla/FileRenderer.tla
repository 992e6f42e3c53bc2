---------------------------- MODULE FileRenderer ----------------------------
(***************************************************************************)
(* pkg/helm/fs_renderer.go composed with FSWatch: FileTemplateRenderer.Run *)
(* loads the chart, watches its directories and starts a goroutine that    *)
(* loads it again on every signal.  A chart is the version of the files it *)
(* was loaded from.                                                        *)
(***************************************************************************)
EXTENDS FSWatch

CONSTANTS Broken,   \* the versions of the files that chartutil.Load rejects
          NoChart,  \* h.chart = nil
          NoDir     \* the loop over the directories has not started

ASSUME RendererAssumption == Broken \subseteq Nat /\ NoChart \notin Nat /\ NoDir \notin Dir

VARIABLES
  run,        \* where Run is
  toWatch,    \* the directories WatchDirRecursively has still to watch
  current,    \* the directory whose doneInit it waits for
  consumer,   \* where the goroutine that receives chartChanged is
  chart,      \* h.chart
  attempted   \* the version the last loadChart read

rendererVars == <<run, toWatch, current, consumer, chart, attempted>>
vars == <<fsVars, watchVars, debVars, rendererVars>>

Init ==
  /\ WatchInit
  /\ run = "load"
  /\ toWatch = Dir
  /\ current = NoDir
  /\ consumer = "off"
  /\ chart = NoChart
  /\ attempted = 0

\* h.chart is assigned whether chartutil.Load fails (nil) or not.
loadChart ==
  /\ chart' = IF disk \in Broken THEN NoChart ELSE disk
  /\ attempted' = disk
-----------------------------------------------------------------------------
(* Run, the caller's goroutine.                                             *)

InitialLoad ==
  /\ run = "load"
  /\ loadChart
  /\ run' = IF disk \in Broken THEN "failed" ELSE "watch"
  /\ UNCHANGED <<fsVars, watchVars, debVars, toWatch, current, consumer>>

\* watchDir(d, notifyRaw) is called ...
CallWatchDir(d) ==
  /\ run = "watch"
  /\ d \in toWatch
  /\ StartWatchDir(d)
  /\ run' = "wait"
  /\ current' = d
  /\ toWatch' = toWatch \ {d}
  /\ UNCHANGED <<consumer, chart, attempted>>

\* ... and returns after <-doneInit; its error result is ignored.
WatchDirReturns ==
  /\ run = "wait"
  /\ doneInit[current]
  /\ run' = "watch"
  /\ UNCHANGED <<fsVars, watchVars, debVars, toWatch, current, consumer, chart, attempted>>

WatchingStarts ==
  /\ run = "watch"
  /\ toWatch = {}
  /\ StartDebouncer
  /\ run' = "consume"
  /\ UNCHANGED <<toWatch, current, consumer, chart, attempted>>

RunReturns ==
  /\ run = "consume"
  /\ consumer' = "idle"
  /\ run' = "started"
  /\ UNCHANGED <<fsVars, watchVars, debVars, toWatch, current, chart, attempted>>
-----------------------------------------------------------------------------
(* The goroutine that reloads the chart.                                    *)

ReceiveSignal ==
  /\ consumer = "idle"
  /\ SendNotify
  /\ consumer' = "load"
  /\ UNCHANGED <<run, toWatch, current, chart, attempted>>

\* An error of loadChart is logged.
Reload ==
  /\ consumer = "load"
  /\ loadChart
  /\ consumer' = "idle"
  /\ UNCHANGED <<fsVars, watchVars, debVars, run, toWatch, current>>
-----------------------------------------------------------------------------
Run == InitialLoad \/ (\E d \in Dir : CallWatchDir(d)) \/ WatchDirReturns
         \/ WatchingStarts \/ RunReturns

Debounce == (Select \/ ResetTimer) /\ UNCHANGED rendererVars

TimePasses == Tick /\ UNCHANGED rendererVars

Next ==
  \/ Run
  \/ Debounce
  \/ TimePasses
  \/ ReceiveSignal
  \/ Reload
  \/ \E d \in Dir : WatchDirStep(d) /\ UNCHANGED rendererVars
  \/ \E d \in Dir : (RestartWatcher(d) \/ Write(d)) /\ UNCHANGED rendererVars
  \/ Replace /\ UNCHANGED rendererVars

Spec == Init /\ [][Next]_vars

\* The Go scheduler runs every goroutine that is not blocked, and the clock
\* advances.  Nothing is assumed about files and about watchers closing.
FairSpec ==
  /\ Spec
  /\ WF_vars(Run)
  /\ WF_vars(Debounce)
  /\ WF_vars(TimePasses)
  /\ WF_vars(ReceiveSignal)
  /\ WF_vars(Reload)
  /\ \A d \in Dir : WF_vars(WatchDirStep(d) /\ UNCHANGED rendererVars)
-----------------------------------------------------------------------------
TypeOK ==
  /\ disk \in 0 .. MaxChanges
  /\ watcher \in [Dir -> {"none", "creating", "adding", "watching", "dead"}]
  /\ doneInit \in [Dir -> BOOLEAN]
  /\ event \in [Dir -> BOOLEAN]
  /\ deb \in {"off", "loop", "parked", "reset", "send"}
  /\ timer \in 0 .. Delay
  /\ timerC \in BOOLEAN
  /\ bursts \in 0 .. MaxChanges
  /\ signals \in Nat
  /\ run \in {"load", "watch", "wait", "consume", "started", "failed"}
  /\ toWatch \in SUBSET Dir
  /\ current \in Dir \cup {NoDir}
  /\ consumer \in {"off", "idle", "load"}
  /\ chart \in 0 .. MaxChanges \cup {NoChart}
  /\ attempted \in 0 .. MaxChanges

\* "The debounce delay prevents flooding": there is never more than one signal
\* for each notification the debouncer took, however the timer's stale value
\* and its resets interleave.
NoFlood == signals <= bursts

\* A notification dropped while a signal is still to be sent does no harm: the
\* chart is loaded again after the change that the dropped one was about.
PendingSignalCovers ==
  \A v \in 1 .. MaxChanges :
    (SignalPending /\ disk >= v) ~> (attempted >= v)

\* watchDir's caller waits for doneInit without a timeout: Run still returns,
\* with an error or without, however often watchers close and start over and
\* whatever the files do meanwhile, unless a goroutine of watchDir has given up
\* (then it may wait for ever; see README.md).
RunEndsOrWatcherDies ==
  <>(run \in {"started", "failed"} \/ \E d \in Dir : watcher[d] = "dead")
=============================================================================
