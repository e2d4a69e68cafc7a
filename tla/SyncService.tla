----------------------------- MODULE SyncService -----------------------------
(***************************************************************************)
(* internal/service: the desktop service that starts and stops the watch   *)
(* loop.  Start, Stop and the goroutine of each run share one status under *)
(* a mutex; what they do between two critical sections interleaves.        *)
(*                                                                         *)
(* A run is one admitted Start.  Its cancel function and its done channel  *)
(* are made together, so s.cancel and s.done are one variable, current.    *)
(* The watch loop of a run appears as the service sees it: an initial      *)
(* sync, later syncs made by timer callbacks, Close, and its return.       *)
(***************************************************************************)
EXTENDS Naturals, FiniteSets

CONSTANTS
  MaxRuns,     \* bound: admitted Starts
  MaxFaults,   \* bound: syncs and Opens that fail
  MaxStops,    \* bound: calls of Stop that are not no-ops
  StartEarly   \* may the user start again before an earlier run and its
               \* callback have ended?

ASSUME BoundsAssumption == {MaxRuns, MaxFaults, MaxStops} \subseteq Nat
ASSUME FlagsAssumption == StartEarly \in BOOLEAN

Runs == 1..MaxRuns
None == 0

VARIABLES
  status,    \* StateInfo.Status
  syncing,   \* StateInfo.Syncing
  current,   \* the run of s.cancel and s.done; None is nil
  run,       \* run -> where its Start, then its goroutine, is
  callback,  \* run -> where its timer callback is
  closes,    \* run -> the run whose done channel its deferred close closes
  cancelled, \* runs whose context is cancelled
  stops,     \* runs whose cancel function a Stop is about to call
  done,      \* runs whose done channel is closed
  lock,      \* the run that holds the sync root's lock file
  quit,      \* OnShutdown: "no", "waiting", "exited"
  used       \* how often each bounded event has happened

info == <<status, syncing>>
held == <<current, closes, cancelled, stops, done>>
vars == <<info, held, run, callback, lock, quit, used>>

Statuses == {"idle", "running", "stopping", "error"}
Starting == {"opening", "opened"}
InSync == {"syncing", "doomed"}
Looping == {"initial", "synced", "looping"} \cup InSync
Ending == {"failed_sync", "checking", "reporting", "leaving"}
Over == {"none", "failing", "closing", "ended"}

TypeOK ==
  /\ status \in Statuses /\ syncing \in BOOLEAN
  /\ current \in Runs \cup {None}
  /\ run \in [Runs -> Starting \cup Looping \cup Ending \cup Over]
  /\ callback \in [Runs -> {"none", "fired", "ok", "checking", "reporting"}
                           \cup InSync]
  /\ closes \in [Runs -> Runs \cup {None}]
  /\ cancelled \subseteq Runs /\ stops \subseteq Runs /\ done \subseteq Runs
  /\ lock \in Runs \cup {None}
  /\ quit \in {"no", "waiting", "exited"}
  /\ used \in [starts : 0..MaxRuns, faults : 0..MaxFaults, stops : Nat]

Init ==
  /\ status = "idle" /\ syncing = FALSE /\ current = None
  /\ run = [r \in Runs |-> "none"] /\ callback = run
  /\ closes = [r \in Runs |-> None]
  /\ cancelled = {} /\ stops = {} /\ done = {} /\ lock = None
  /\ quit = "no"
  /\ used = [starts |-> 0, faults |-> 0, stops |-> 0]

(* The client is bound to the context of the run: a sync that begins after *)
(* the cancellation fails at its first request.                            *)
Begun(r) == IF r \in cancelled THEN "doomed" ELSE "syncing"

InFlight(r) == run[r] \in InSync \/ callback[r] \in InSync

At(r, where) == quit # "exited" /\ run[r] = where
Goes(r, where) == run' = [run EXCEPT ![r] = where] /\ UNCHANGED callback
CallbackAt(r, where) == quit # "exited" /\ callback[r] = where
CallbackGoes(r, where) ==
  callback' = [callback EXCEPT ![r] = where] /\ UNCHANGED run
Fault == /\ used.faults < MaxFaults
         /\ used' = [used EXCEPT !.faults = @ + 1]

-----------------------------------------------------------------------------
(* The critical sections of s.mu. *)

(* Mutant: the in-flight indicator survives a failed sync.                 *)
EndSync_Leaks == UNCHANGED info

setError == status' = "error" /\ syncing' = FALSE
BeginSync == syncing' = TRUE /\ UNCHANGED status
EndSync == syncing' = FALSE /\ UNCHANGED status
markSynced == /\ status' = IF status = "error" THEN "running" ELSE status
              /\ UNCHANGED syncing

-----------------------------------------------------------------------------
(* Start *)

(* The goroutine of r will not touch the status any more.                  *)
Dead(r) == r = None \/ run[r] \in {"none", "closing", "ended"}

(* What is left of earlier runs can no longer meet a new one.              *)
Settled == /\ \A r \in Runs : callback[r] = "none"
           /\ status = "error" => Dead(current)

(* Mutant: a service that is stopping may be started.                      *)
Admissible_Stopping == status # "running"

Admissible == status \notin {"running", "stopping"}

(* Mutant: cancel and done are made once, not by every Start.              *)
NewRun_Reused == IF current = None THEN 1 ELSE current

(* The cancel function and the done channel a Start makes.                 *)
NewRun == used.starts + 1

(* Admission: status, cancel and done are claimed under the lock.          *)
Start ==
  /\ quit = "no"
  /\ Admissible
  /\ StartEarly \/ Settled
  /\ used.starts < MaxRuns
  /\ used' = [used EXCEPT !.starts = @ + 1]
  /\ status' = "running" /\ syncing' = FALSE
  /\ current' = NewRun
  /\ Goes(NewRun, "opening")
  /\ UNCHANGED <<closes, cancelled, stops, done, lock, quit>>

(* sync.Open has loaded the state, which takes the lock file, and Start    *)
(* has spawned the goroutine.                                              *)
Opens(r) ==
  /\ At(r, "opening")
  /\ lock = None
  /\ lock' = r
  /\ Goes(r, "opened")
  /\ UNCHANGED <<info, held, quit, used>>

(* sync.Open fails: no directory, no session, or the lock file is taken.   *)
OpenFails(r) ==
  /\ At(r, "opening")
  /\ IF lock = None THEN Fault ELSE UNCHANGED used
  /\ cancelled' = cancelled \cup {r}
  /\ Goes(r, "failing")
  /\ UNCHANGED <<info, current, closes, stops, done, lock, quit>>

(* fail: the status is reset, whatever it has become; then done is closed. *)
FailResets(r) ==
  /\ At(r, "failing")
  /\ status' = "idle" /\ syncing' = FALSE
  /\ Goes(r, "closing")
  /\ closes' = [closes EXCEPT ![r] = r]
  /\ UNCHANGED <<current, cancelled, stops, done, lock, quit, used>>

-----------------------------------------------------------------------------
(* The goroutine of a run. *)

(* Mutant: the goroutine takes no channel to close.                        *)
RunEnters_NoDone(r) ==
  /\ At(r, "opened")
  /\ Goes(r, "initial")
  /\ UNCHANGED <<info, held, lock, quit, used>>

(* defer close(s.done): s.done is read now, without the mutex.             *)
RunEnters(r) ==
  /\ At(r, "opened")
  /\ closes' = [closes EXCEPT ![r] = current]
  /\ Goes(r, "initial")
  /\ UNCHANGED <<info, current, cancelled, stops, done, lock, quit, used>>

InitialBegins(r) ==
  /\ At(r, "initial")
  /\ BeginSync
  /\ Goes(r, Begun(r))
  /\ UNCHANGED <<held, lock, quit, used>>

InitialEnds(r) ==
  /\ quit # "exited" /\ run[r] \in InSync
  /\ EndSync
  /\ \/ run[r] = "syncing" /\ Goes(r, "synced") /\ UNCHANGED used
     \/ /\ Goes(r, "failed_sync")
        /\ IF r \in cancelled THEN UNCHANGED used ELSE Fault
  /\ UNCHANGED <<held, lock, quit>>

(* The success is reported; then the file watcher may fail to start.       *)
InitialReported(r) ==
  /\ At(r, "synced")
  /\ markSynced
  /\ \/ Goes(r, "looping") /\ UNCHANGED used
     \/ Goes(r, "failed_sync") /\ Fault
  /\ UNCHANGED <<held, lock, quit>>

(* The initial sync or the watcher failed: state.Close, the loop returns.  *)
InitialFailed(r) ==
  /\ At(r, "failed_sync")
  /\ lock' = None
  /\ Goes(r, "checking")
  /\ UNCHANGED <<info, held, quit, used>>

(* if ctx.Err() == nil, and only then setError.                            *)
ErrorChecked(r) ==
  /\ At(r, "checking")
  /\ Goes(r, IF r \in cancelled THEN "leaving" ELSE "reporting")
  /\ UNCHANGED <<info, held, lock, quit, used>>

ErrorReported(r) ==
  /\ At(r, "reporting")
  /\ setError
  /\ Goes(r, "leaving")
  /\ UNCHANGED <<held, lock, quit, used>>

(* Mutant: the loop returns without waiting for a sync in flight.          *)
LoopReturns_NoDrain(r) ==
  /\ At(r, "looping") /\ r \in cancelled
  /\ lock' = None
  /\ Goes(r, "leaving")
  /\ UNCHANGED <<info, held, quit, used>>

(* The loop has seen ctx.Done, drained the sync in flight and closed the   *)
(* state.                                                                  *)
LoopReturns(r) ==
  /\ At(r, "looping") /\ r \in cancelled
  /\ callback[r] \notin InSync
  /\ lock' = None
  /\ Goes(r, "leaving")
  /\ UNCHANGED <<info, held, quit, used>>

(* Mutant: the deferred function runs only after a clean return.           *)
RunLeaves_ErrorOnly(r) ==
  /\ At(r, "leaving")
  /\ UNCHANGED info
  /\ Goes(r, "closing")
  /\ UNCHANGED <<held, lock, quit, used>>

RunLeaves(r) ==
  /\ At(r, "leaving")
  /\ status' = IF status = "error" THEN status ELSE "idle"
  /\ Goes(r, "closing")
  /\ UNCHANGED <<held, syncing, lock, quit, used>>

(* close(done), of fail and of run; closing a closed channel panics.       *)
DoneCloses(r) ==
  /\ At(r, "closing")
  /\ done' = done \cup {closes[r]}
  /\ Goes(r, "ended")
  /\ UNCHANGED <<info, current, closes, cancelled, stops, lock, quit, used>>

-----------------------------------------------------------------------------
(* The timer callback of a run.  It passes the ctx check before it waits   *)
(* for the loop's mutex, so it may sync after the loop has closed.  A sync *)
(* the loop makes itself after a poll takes the same steps, sooner.        *)

CallbackFires(r) ==
  /\ At(r, "looping") /\ CallbackAt(r, "none")
  /\ r \notin cancelled
  /\ CallbackGoes(r, "fired")
  /\ UNCHANGED <<info, held, lock, quit, used>>

CallbackBegins(r) ==
  /\ CallbackAt(r, "fired")
  /\ BeginSync
  /\ CallbackGoes(r, Begun(r))
  /\ UNCHANGED <<held, lock, quit, used>>

CallbackEnds(r) ==
  /\ quit # "exited" /\ callback[r] \in InSync
  /\ EndSync
  /\ \/ callback[r] = "syncing" /\ CallbackGoes(r, "ok") /\ UNCHANGED used
     \/ /\ CallbackGoes(r, "checking")
        /\ IF r \in cancelled THEN UNCHANGED used ELSE Fault
  /\ UNCHANGED <<held, lock, quit>>

CallbackReported(r) ==
  /\ CallbackAt(r, "ok")
  /\ markSynced
  /\ CallbackGoes(r, "none")
  /\ UNCHANGED <<held, lock, quit, used>>

CallbackChecked(r) ==
  /\ CallbackAt(r, "checking")
  /\ CallbackGoes(r, IF r \in cancelled THEN "none" ELSE "reporting")
  /\ UNCHANGED <<info, held, lock, quit, used>>

CallbackFailed(r) ==
  /\ CallbackAt(r, "reporting")
  /\ setError
  /\ CallbackGoes(r, "none")
  /\ UNCHANGED <<held, lock, quit, used>>

-----------------------------------------------------------------------------
(* Stop and Wait *)

(* Mutant: an error is not stopped, only left alone.                       *)
StopEffect_RunningOnly == IF status = "running"
                          THEN status' = "stopping" /\ stops' = stops \cup {current}
                          ELSE UNCHANGED <<status, stops>>

StopEffect == IF status \in {"running", "error"}
              THEN status' = "stopping" /\ stops' = stops \cup {current}
              ELSE UNCHANGED <<status, stops>>

(* The user's Stop, or SignOut; also of an error whose run has died.       *)
Stop ==
  /\ quit = "no"
  /\ status \in {"running", "error"}
  /\ used.stops < MaxStops
  /\ used' = [used EXCEPT !.stops = @ + 1]
  /\ StopEffect
  /\ UNCHANGED <<syncing, current, run, callback, closes, cancelled, done,
                 lock, quit>>

(* The rest of Stop: the cancel function is called outside the mutex.      *)
Cancels(r) ==
  /\ quit # "exited"
  /\ r \in stops
  /\ stops' = stops \ {r}
  /\ cancelled' = cancelled \cup {r}
  /\ UNCHANGED <<info, current, run, callback, closes, done, lock, quit,
                 used>>

(* OnShutdown: Stop, then Wait for the done channel, then the process ends.*)
Quit ==
  /\ quit = "no"
  /\ quit' = "waiting"
  /\ StopEffect
  /\ UNCHANGED <<syncing, current, run, callback, closes, cancelled, done,
                 lock, used>>

Exit ==
  /\ quit = "waiting"
  /\ current = None \/ current \in done
  /\ quit' = "exited"
  /\ UNCHANGED <<info, held, run, callback, lock, used>>

-----------------------------------------------------------------------------
Progress(r) ==
  \/ Opens(r) \/ OpenFails(r) \/ FailResets(r) \/ RunEnters(r)
  \/ InitialBegins(r) \/ InitialEnds(r) \/ InitialReported(r) \/ InitialFailed(r)
  \/ ErrorChecked(r) \/ ErrorReported(r) \/ LoopReturns(r) \/ RunLeaves(r)
  \/ DoneCloses(r)
CallbackProgress(r) ==
  \/ CallbackBegins(r) \/ CallbackEnds(r) \/ CallbackReported(r)
  \/ CallbackChecked(r) \/ CallbackFailed(r)

Next ==
  \/ Start \/ Stop \/ Quit \/ Exit
  \/ \E r \in Runs : \/ Progress(r) \/ CallbackProgress(r)
                     \/ CallbackFires(r) \/ Cancels(r)

(* Goroutines run on; the user need not do anything, and a loop left alone *)
(* may run for ever.                                                       *)
Spec == /\ Init /\ [][Next]_vars
        /\ WF_vars(Exit)
        /\ \A r \in Runs : /\ WF_vars(Progress(r)) /\ WF_vars(Cancels(r))
                           /\ WF_vars(CallbackProgress(r))

-----------------------------------------------------------------------------
(* Properties *)

(* An idle service holds no lock file and no sync still changes the folder *)
(* behind a window that offers to start; a callback that begins after the  *)
(* cancellation fails at its first request and changes nothing.            *)
IdleMeansStopped ==
  status = "idle" =>
    lock = None /\ \A r \in Runs : "syncing" \notin {run[r], callback[r]}

(* gui/main.go, OnShutdown: "wait for the run goroutine to drain so        *)
(* state.Close happens before the process exits".                          *)
GracefulExit == quit = "exited" => lock = None

(* sync_service.go: "A failing sync run must not leave the in-flight       *)
(* indicator on"; nor may a stop, a restart or a late callback.            *)
IndicatorHonest == syncing => \E r \in Runs : InFlight(r)

(* No done channel is closed twice, which would panic, and every run       *)
(* closes its own.                                                         *)
ClosesOnce == \A r \in Runs : run[r] = "closing" => closes[r] = r /\ r \notin done

(* sync_service.go, Start and Wait: whatever is started, stopped and       *)
(* failing, one run at a time holds the folder and only that one changes   *)
(* it; its channel is closed once, after it has let go; and the process    *)
(* ends with the folder free, doing nothing more.                          *)
Working == \E r \in Runs : "syncing" \in {run[r], callback[r]}
Lease == INSTANCE FolderLease
           WITH holder <- lock, working <- Working, over <- done,
                exited <- (quit = "exited")
HoldsLease == Lease!Spec

(* The application always quits: Wait, on the main thread, returns whatever *)
(* state the service is in when the user quits.                            *)
ShutdownEnds == quit = "waiting" ~> quit = "exited"

(* sync_service.go, Start: "still stopping; try again shortly".  A Stop in *)
(* the error state after the run has died breaks that: no goroutine is     *)
(* left to take the status back.  A service that is stopping while its run *)
(* lives does get out of it, whatever fails in the meantime.               *)
StoppingEnds == status = "stopping" ~> (status # "stopping" \/ quit = "exited")
LiveStopsEnd ==
  status = "stopping" /\ ~Dead(current) ~> (status # "stopping" \/ quit = "exited")
=============================================================================
