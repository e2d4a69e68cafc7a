-------------------------- MODULE SyncServiceProofs --------------------------
(***************************************************************************)
(* What holds of SyncService for any number of runs, faults and stops.     *)
(***************************************************************************)
EXTENDS SyncService, TLAPS

Entered == Looping \cup Ending \cup {"closing"}

(* Runs are numbered by their Starts, nothing moves in a run that has not  *)
(* been started, and a goroutine has taken a channel to close.             *)
Numbered ==
  /\ current = used.starts
  /\ status # "idle" => current # None
  /\ \A r \in Runs : run[r] # "none" \/ callback[r] # "none" => r <= current
  /\ \A r \in Runs : run[r] \in Entered => closes[r] # None

TypeInv == TypeOK /\ Numbered

RunStates == Starting \cup Looping \cup Ending \cup Over
CallbackStates == {"none", "fired", "ok", "checking", "reporting"} \cup InSync
Counts == [starts : 0..MaxRuns, faults : 0..MaxFaults, stops : Nat]

-----------------------------------------------------------------------------
(* Lemmas about the moves that actions are made of. *)

(* What a move of a goroutine leaves where it was.                         *)
LEMMA GoesTo ==
  ASSUME TypeOK, NEW r \in Runs, NEW where \in RunStates, Goes(r, where)
  PROVE  /\ run' \in [Runs -> RunStates] /\ callback' = callback
         /\ run'[r] = where /\ \A s \in Runs \ {r} : run'[s] = run[s]
BY DEF Goes, TypeOK, RunStates

(* The same of a move of a callback.                                       *)
LEMMA CallbackGoesTo ==
  ASSUME TypeOK, NEW r \in Runs, NEW where \in CallbackStates, CallbackGoes(r, where)
  PROVE  /\ callback' \in [Runs -> CallbackStates] /\ run' = run
         /\ callback'[r] = where /\ \A s \in Runs \ {r} : callback'[s] = callback[s]
BY DEF CallbackGoes, TypeOK, CallbackStates

(* A fault counts itself and nothing else.                                 *)
LEMMA FaultCounts ==
  ASSUME TypeOK, Fault \/ UNCHANGED used
  PROVE  used' \in Counts /\ used'.starts = used.starts
BY BoundsAssumption DEF TypeOK, Fault, Counts

(* The critical sections leave a known status and a known indicator.       *)
LEMMA InfoTyped ==
  ASSUME TypeOK, setError \/ BeginSync \/ EndSync \/ markSynced \/ UNCHANGED info
  PROVE  status' \in Statuses /\ syncing' \in BOOLEAN
BY DEF TypeOK, setError, BeginSync, EndSync, markSynced, info, Statuses

(* A goroutine or a callback that has been started belongs to a numbered   *)
(* run, and there is then a current one.                                   *)
LEMMA Started ==
  ASSUME TypeInv, NEW r \in Runs, run[r] # "none" \/ callback[r] # "none"
  PROVE  r <= current /\ current # None
BY BoundsAssumption DEF TypeInv, TypeOK, Numbered, Runs, None

(* A move of a started goroutine keeps the numbering.                      *)
LEMMA MoveNumbered ==
  ASSUME TypeInv, NEW r \in Runs, NEW where \in RunStates, Goes(r, where),
         run[r] # "none", UNCHANGED current, used'.starts = used.starts,
         \A s \in Runs \ {r} : closes'[s] = closes[s],
         where \in Entered => closes'[r] # None
  PROVE  Numbered'
<1>1. r <= current /\ current # None
  BY Started
<1>2. callback' = callback /\ \A s \in Runs \ {r} : run'[s] = run[s]
  BY GoesTo DEF TypeInv
<1>3. run'[r] = where
  BY GoesTo DEF TypeInv
<1> QED
  BY <1>1, <1>2, <1>3 DEF TypeInv, Numbered

(* So does a move of a callback.                                           *)
LEMMA CallbackMoveNumbered ==
  ASSUME TypeInv, NEW r \in Runs, NEW where \in CallbackStates,
         CallbackGoes(r, where), run[r] # "none" \/ callback[r] # "none",
         UNCHANGED <<current, closes>>, used'.starts = used.starts
  PROVE  Numbered'
<1>1. r <= current /\ current # None
  BY Started
<1>2. run' = run /\ \A s \in Runs \ {r} : callback'[s] = callback[s]
  BY CallbackGoesTo DEF TypeInv
<1> QED
  BY <1>1, <1>2 DEF TypeInv, Numbered

-----------------------------------------------------------------------------
(* The type invariant. *)

(* It holds at the start.                                                  *)
LEMMA TypeInit == Init => TypeInv
<1> USE BoundsAssumption DEF Runs, None
<1> SUFFICES ASSUME Init PROVE TypeInv
  OBVIOUS
<1>1. TypeOK
  <2>1. used \in Counts
    BY DEF Init, Counts
  <2>2. run \in [Runs -> RunStates] /\ callback \in [Runs -> CallbackStates]
    BY DEF Init, RunStates, CallbackStates, Over
  <2> QED
    BY <2>1, <2>2 DEF Init, TypeOK, Statuses, RunStates, CallbackStates, Counts
<1>2. Numbered
  BY DEF Init, Numbered, Entered, Looping, InSync, Ending
<1> QED
  BY <1>1, <1>2 DEF TypeInv

(* Starts, stops and quits keep it.                                        *)
LEMMA ControlTyped ==
  ASSUME TypeInv, Start \/ Stop \/ Quit \/ Exit \/ \E r \in Runs : Cancels(r)
  PROVE  TypeInv'
<1> USE BoundsAssumption DEF Runs, None, TypeInv, TypeOK, Numbered, Entered,
        Statuses, Starting, InSync, Looping, Ending, Over, info, held
<1>1. CASE Start
  <2>1. Goes(NewRun, "opening") /\ NewRun \in Runs
    BY <1>1 DEF Start, NewRun
  <2>2. used' = [used EXCEPT !.starts = @ + 1] /\ used.starts < MaxRuns
    BY <1>1 DEF Start
  <2>3. /\ used' \in [starts : 0..MaxRuns, faults : 0..MaxFaults, stops : Nat]
        /\ used'.starts = NewRun
    <3>1. used \in [starts : 0..MaxRuns, faults : 0..MaxFaults, stops : Nat]
      OBVIOUS
    <3>2. used.starts + 1 \in 0..MaxRuns
      BY <2>2, <3>1
    <3> QED
      BY ONLY <2>2, <3>1, <3>2 DEF NewRun
  <2>4. TypeOK'
    BY <1>1, <2>1, <2>3, GoesTo DEF Start, RunStates
  <2>5. Numbered'
    BY <1>1, <2>1, <2>3, GoesTo DEF Start, NewRun, RunStates
  <2> QED
    BY <2>4, <2>5
<1>2. CASE Stop
  BY <1>2 DEF Stop, StopEffect
<1>3. CASE Quit
  BY <1>3 DEF Quit, StopEffect
<1>4. CASE Exit
  BY <1>4 DEF Exit
<1>5. ASSUME NEW r \in Runs, Cancels(r) PROVE TypeInv'
  BY <1>5 DEF Cancels
<1> QED
  BY <1>1, <1>2, <1>3, <1>4, <1>5

(* So does every step of a goroutine.                                      *)
LEMMA GoroutineTyped ==
  ASSUME TypeInv, NEW r \in Runs, Progress(r)
  PROVE  TypeInv'
<1> USE DEF Progress, Opens, OpenFails, FailResets, RunEnters, InitialBegins,
            InitialEnds, InitialReported, InitialFailed, ErrorChecked,
            ErrorReported, LoopReturns, RunLeaves, DoneCloses,
            RunStates, Starting, InSync, Looping, Ending, Over
<1>1. PICK where \in RunStates : Goes(r, where)
  BY DEF Begun
<1>2. run[r] # "none" /\ (Fault \/ UNCHANGED used)
  BY DEF At
<1>3. status' \in Statuses /\ syncing' \in BOOLEAN
  <2>1. setError \/ BeginSync \/ EndSync \/ markSynced \/ UNCHANGED info
          \/ (status' \in {"idle", status} /\ syncing' \in {FALSE, syncing})
    BY DEF info
  <2> QED
    BY ONLY TypeInv, <2>1, InfoTyped DEF TypeInv, TypeOK, Statuses
<1>4. UNCHANGED current /\ cancelled' \subseteq Runs /\ stops' \subseteq Runs
      /\ lock' \in Runs \cup {None} /\ quit' \in {"no", "waiting", "exited"}
  BY DEF held, TypeInv, TypeOK
<1>5. /\ closes' \in [Runs -> Runs \cup {None}]
      /\ \A s \in Runs \ {r} : closes'[s] = closes[s]
  BY DEF held, TypeInv, TypeOK
<1>6. where \in Entered => closes'[r] # None
  <2>1. current # None /\ r # None
    BY <1>2, Started DEF Runs, None
  <2>2. CASE run[r] \in Entered
    BY <1>1, <2>2, GoesTo DEF TypeInv, Numbered, Entered, held, At
  <2>3. CASE run[r] \notin Entered
    BY <1>1, <2>1, <2>3, GoesTo DEF TypeInv, TypeOK, Entered, held, At
  <2> QED
    BY <2>2, <2>3
<1>7. done' \subseteq Runs
  <2>1. run[r] = "closing" => closes[r] \in Runs
    BY DEF TypeInv, TypeOK, Numbered, Entered
  <2> QED
    BY <2>1 DEF held, At, TypeInv, TypeOK
<1>8. TypeOK'
  BY ONLY TypeInv, r \in Runs, <1>1, <1>2, <1>3, <1>4, <1>5, <1>7, GoesTo, FaultCounts
     DEF TypeInv, TypeOK, Counts, RunStates
<1> QED
  BY ONLY TypeInv, r \in Runs, <1>1, <1>2, <1>4, <1>5, <1>6, <1>8, FaultCounts,
     MoveNumbered DEF TypeInv

(* So does every step of a callback.                                       *)
LEMMA CallbackTyped ==
  ASSUME TypeInv, NEW r \in Runs, CallbackProgress(r) \/ CallbackFires(r)
  PROVE  TypeInv'
<1> USE DEF CallbackStates, InSync, info, held
<1>1. CASE CallbackFires(r)
  <2>1. PICK where \in CallbackStates : CallbackGoes(r, where)
    BY <1>1 DEF CallbackFires, Begun
  <2>2. /\ run[r] # "none" \/ callback[r] # "none"
        /\ UNCHANGED <<held, lock, quit>> /\ (Fault \/ UNCHANGED used)
    BY <1>1 DEF CallbackFires, At, CallbackAt, Looping
  <2>3. Numbered'
    BY <2>1, <2>2, FaultCounts, CallbackMoveNumbered DEF TypeInv
  <2>4. status' \in Statuses /\ syncing' \in BOOLEAN
    BY <1>1, InfoTyped DEF CallbackFires, TypeInv
  <2>5. TypeOK'
    BY <2>1, <2>2, <2>4, CallbackGoesTo, FaultCounts DEF TypeInv, TypeOK, Counts
  <2> QED
    BY <2>3, <2>5 DEF TypeInv
<1>2. CASE CallbackBegins(r)
  <2>1. PICK where \in CallbackStates : CallbackGoes(r, where)
    BY <1>2 DEF CallbackBegins, Begun
  <2>2. /\ run[r] # "none" \/ callback[r] # "none"
        /\ UNCHANGED <<held, lock, quit>> /\ (Fault \/ UNCHANGED used)
    BY <1>2 DEF CallbackBegins, At, CallbackAt, Looping
  <2>3. Numbered'
    BY <2>1, <2>2, FaultCounts, CallbackMoveNumbered DEF TypeInv
  <2>4. status' \in Statuses /\ syncing' \in BOOLEAN
    BY <1>2, InfoTyped DEF CallbackBegins, TypeInv
  <2>5. TypeOK'
    BY <2>1, <2>2, <2>4, CallbackGoesTo, FaultCounts DEF TypeInv, TypeOK, Counts
  <2> QED
    BY <2>3, <2>5 DEF TypeInv
<1>3. CASE CallbackEnds(r)
  <2>1. PICK where \in CallbackStates : CallbackGoes(r, where)
    BY <1>3 DEF CallbackEnds, Begun
  <2>2. /\ run[r] # "none" \/ callback[r] # "none"
        /\ UNCHANGED <<held, lock, quit>> /\ (Fault \/ UNCHANGED used)
    BY <1>3 DEF CallbackEnds, At, CallbackAt, Looping
  <2>3. Numbered'
    BY <2>1, <2>2, FaultCounts, CallbackMoveNumbered DEF TypeInv
  <2>4. status' \in Statuses /\ syncing' \in BOOLEAN
    BY <1>3, InfoTyped DEF CallbackEnds, TypeInv
  <2>5. TypeOK'
    BY <2>1, <2>2, <2>4, CallbackGoesTo, FaultCounts DEF TypeInv, TypeOK, Counts
  <2> QED
    BY <2>3, <2>5 DEF TypeInv
<1>4. CASE CallbackReported(r)
  <2>1. PICK where \in CallbackStates : CallbackGoes(r, where)
    BY <1>4 DEF CallbackReported, Begun
  <2>2. /\ run[r] # "none" \/ callback[r] # "none"
        /\ UNCHANGED <<held, lock, quit>> /\ (Fault \/ UNCHANGED used)
    BY <1>4 DEF CallbackReported, At, CallbackAt, Looping
  <2>3. Numbered'
    BY <2>1, <2>2, FaultCounts, CallbackMoveNumbered DEF TypeInv
  <2>4. status' \in Statuses /\ syncing' \in BOOLEAN
    BY <1>4, InfoTyped DEF CallbackReported, TypeInv
  <2>5. TypeOK'
    BY <2>1, <2>2, <2>4, CallbackGoesTo, FaultCounts DEF TypeInv, TypeOK, Counts
  <2> QED
    BY <2>3, <2>5 DEF TypeInv
<1>5. CASE CallbackChecked(r)
  <2>1. PICK where \in CallbackStates : CallbackGoes(r, where)
    BY <1>5 DEF CallbackChecked, Begun
  <2>2. /\ run[r] # "none" \/ callback[r] # "none"
        /\ UNCHANGED <<held, lock, quit>> /\ (Fault \/ UNCHANGED used)
    BY <1>5 DEF CallbackChecked, At, CallbackAt, Looping
  <2>3. Numbered'
    BY <2>1, <2>2, FaultCounts, CallbackMoveNumbered DEF TypeInv
  <2>4. status' \in Statuses /\ syncing' \in BOOLEAN
    BY <1>5, InfoTyped DEF CallbackChecked, TypeInv
  <2>5. TypeOK'
    BY <2>1, <2>2, <2>4, CallbackGoesTo, FaultCounts DEF TypeInv, TypeOK, Counts
  <2> QED
    BY <2>3, <2>5 DEF TypeInv
<1>6. CASE CallbackFailed(r)
  <2>1. PICK where \in CallbackStates : CallbackGoes(r, where)
    BY <1>6 DEF CallbackFailed, Begun
  <2>2. /\ run[r] # "none" \/ callback[r] # "none"
        /\ UNCHANGED <<held, lock, quit>> /\ (Fault \/ UNCHANGED used)
    BY <1>6 DEF CallbackFailed, At, CallbackAt, Looping
  <2>3. Numbered'
    BY <2>1, <2>2, FaultCounts, CallbackMoveNumbered DEF TypeInv
  <2>4. status' \in Statuses /\ syncing' \in BOOLEAN
    BY <1>6, InfoTyped DEF CallbackFailed, TypeInv
  <2>5. TypeOK'
    BY <2>1, <2>2, <2>4, CallbackGoesTo, FaultCounts DEF TypeInv, TypeOK, Counts
  <2> QED
    BY <2>3, <2>5 DEF TypeInv
<1> QED
  BY <1>1, <1>2, <1>3, <1>4, <1>5, <1>6 DEF CallbackProgress

(* The steps of the specification keep it.                                 *)
LEMMA TypeStep == TypeInv /\ [Next]_vars => TypeInv'
<1> SUFFICES ASSUME TypeInv, [Next]_vars PROVE TypeInv'
  OBVIOUS
<1>1. CASE Start \/ Stop \/ Quit \/ Exit
  BY <1>1, ControlTyped
<1>2. ASSUME NEW r \in Runs, Progress(r) PROVE TypeInv'
  BY <1>2, GoroutineTyped
<1>3. ASSUME NEW r \in Runs, CallbackProgress(r) \/ CallbackFires(r) PROVE TypeInv'
  BY <1>3, CallbackTyped
<1>4. ASSUME NEW r \in Runs, Cancels(r) PROVE TypeInv'
  BY <1>4, ControlTyped
<1>5. CASE UNCHANGED vars
  BY <1>5 DEF vars, info, held, TypeInv, TypeOK, Numbered
<1> QED
  BY <1>1, <1>2, <1>3, <1>4, <1>5 DEF Next

(* However Start, Stop, Quit and the goroutines of any number of runs      *)
(* interleave, runs stay numbered by their Starts.                         *)
THEOREM TypeInvariant == Spec => []TypeInv
BY TypeInit, TypeStep, PTL DEF Spec

(* Every variable of the service keeps its type.                           *)
THEOREM TypeCorrect == Spec => []TypeOK
<1>1. TypeInv => TypeOK
  BY DEF TypeInv
<1> QED
  BY TypeInvariant, <1>1, PTL

-----------------------------------------------------------------------------
(* What holds whenever the user may start again. *)

(* The states of a run that holds the lock file.                           *)
Holding == {"opened", "failed_sync"} \cup Looping
LockHeld == lock # None => run[lock] \in Holding

(* A callback syncs while its loop is there, or cannot reach the server.   *)
SyncsInLoop ==
  \A r \in Runs :
    /\ callback[r] = "syncing" => run[r] = "looping"
    /\ callback[r] = "fired" => run[r] = "looping" \/ r \in cancelled

Contained == LockHeld /\ SyncsInLoop /\ IndicatorHonest

(* No Start, Stop, Quit or cancellation disturbs what runs.                *)
LEMMA ControlContained ==
  ASSUME TypeInv, Contained,
         Start \/ Stop \/ Quit \/ Exit \/ (\E r \in Runs : Cancels(r))
           \/ UNCHANGED vars
  PROVE  Contained'
<1> USE DEF Contained, LockHeld, SyncsInLoop, IndicatorHonest, InFlight
<1>1. CASE Start
  <2>1. /\ Goes(NewRun, "opening") /\ syncing' = FALSE /\ NewRun \in Runs
        /\ NewRun = current + 1
        /\ UNCHANGED <<cancelled, lock>>
    BY <1>1, BoundsAssumption DEF Start, NewRun, Runs, TypeInv, TypeOK, Numbered
  <2>2. run[NewRun] = "none" /\ callback[NewRun] = "none"
    BY <2>1, BoundsAssumption DEF TypeInv, TypeOK, Numbered, Runs, None
  <2>3. /\ callback' = callback /\ run'[NewRun] = "opening"
        /\ \A s \in Runs \ {NewRun} : run'[s] = run[s]
    BY <2>1, GoesTo DEF TypeInv, RunStates, Starting
  <2> QED
    BY <2>1, <2>2, <2>3 DEF Holding, Looping, InSync, TypeInv, TypeOK
<1>2. CASE Stop
  BY <1>2 DEF Stop, StopEffect
<1>3. CASE Quit
  BY <1>3 DEF Quit, StopEffect
<1>4. CASE Exit
  BY <1>4 DEF Exit, info, held
<1>5. ASSUME NEW r \in Runs, Cancels(r) PROVE Contained'
  BY <1>5 DEF Cancels, info
<1>6. CASE UNCHANGED vars
  BY <1>6 DEF vars, info, held
<1> QED
  BY <1>1, <1>2, <1>3, <1>4, <1>5, <1>6

(* Nor does a step of a goroutine.                                         *)
LEMMA GoroutineContained ==
  ASSUME TypeInv, Contained, NEW r \in Runs, Progress(r)
  PROVE  Contained'
<1> USE DEF TypeInv, TypeOK, Contained, LockHeld, SyncsInLoop, IndicatorHonest,
            InFlight, Holding, Looping, InSync, info, held
<1>1. CASE Opens(r)
  BY <1>1 DEF Opens, At, Goes
<1>2. CASE OpenFails(r)
  BY <1>2 DEF OpenFails, At, Goes
<1>3. CASE FailResets(r)
  BY <1>3 DEF FailResets, At, Goes
<1>4. CASE RunEnters(r)
  BY <1>4 DEF RunEnters, At, Goes
<1>5. CASE InitialBegins(r)
  BY <1>5 DEF InitialBegins, At, Goes, Begun, BeginSync
<1>6. CASE InitialEnds(r)
  BY <1>6 DEF InitialEnds, At, Goes, EndSync
<1>7. CASE InitialReported(r)
  BY <1>7 DEF InitialReported, At, Goes, markSynced
<1>8. CASE InitialFailed(r)
  BY <1>8 DEF InitialFailed, At, Goes
<1>9. CASE ErrorChecked(r)
  BY <1>9 DEF ErrorChecked, At, Goes
<1>10. CASE ErrorReported(r)
  BY <1>10 DEF ErrorReported, At, Goes, setError
<1>11. CASE LoopReturns(r)
  BY <1>11 DEF LoopReturns, At, Goes
<1>12. CASE RunLeaves(r)
  BY <1>12 DEF RunLeaves, At, Goes
<1>13. CASE DoneCloses(r)
  BY <1>13 DEF DoneCloses, At, Goes
<1> QED
  BY <1>1, <1>2, <1>3, <1>4, <1>5, <1>6, <1>7, <1>8, <1>9, <1>10, <1>11, <1>12, <1>13 DEF Progress

(* Nor does one of a callback.                                             *)
LEMMA CallbackContained ==
  ASSUME TypeInv, Contained, NEW r \in Runs, CallbackProgress(r) \/ CallbackFires(r)
  PROVE  Contained'
<1> USE DEF TypeInv, TypeOK, Contained, LockHeld, SyncsInLoop, IndicatorHonest,
            InFlight, InSync, info, held
<1>1. CASE CallbackFires(r)
  BY <1>1 DEF CallbackFires, At, CallbackAt, CallbackGoes
<1>2. CASE CallbackBegins(r)
  BY <1>2 DEF CallbackBegins, At, CallbackAt, CallbackGoes, Begun, BeginSync
<1>3. CASE CallbackEnds(r)
  BY <1>3 DEF CallbackEnds, At, CallbackAt, CallbackGoes, EndSync
<1>4. CASE CallbackReported(r)
  BY <1>4 DEF CallbackReported, At, CallbackAt, CallbackGoes, markSynced
<1>5. CASE CallbackChecked(r)
  BY <1>5 DEF CallbackChecked, At, CallbackAt, CallbackGoes
<1>6. CASE CallbackFailed(r)
  BY <1>6 DEF CallbackFailed, At, CallbackAt, CallbackGoes, setError
<1> QED
  BY <1>1, <1>2, <1>3, <1>4, <1>5, <1>6 DEF CallbackProgress

(* A step of the specification keeps it.                                   *)
LEMMA ContainedStep == TypeInv /\ Contained /\ [Next]_vars => Contained'
<1> SUFFICES ASSUME TypeInv, Contained, [Next]_vars PROVE Contained'
  OBVIOUS
<1>1. ASSUME NEW r \in Runs, Progress(r) PROVE Contained'
  BY <1>1, GoroutineContained
<1>2. ASSUME NEW r \in Runs, CallbackProgress(r) \/ CallbackFires(r)
      PROVE Contained'
  BY <1>2, CallbackContained
<1>3. CASE Start \/ Stop \/ Quit \/ Exit \/ (\E r \in Runs : Cancels(r))
             \/ UNCHANGED vars
  BY <1>3, ControlContained
<1> QED
  BY <1>1, <1>2, <1>3 DEF Next

(* service/watch.go: the indicator of a sync in flight is on only while a  *)
(* sync is, however the user starts, stops and starts again.               *)
THEOREM IndicatorIsHonest == Spec => []IndicatorHonest
<1>1. Init => TypeInv /\ Contained
  BY TypeInit DEF Init, Contained, LockHeld, SyncsInLoop, IndicatorHonest
<1>2. (TypeInv /\ Contained) /\ [Next]_vars => (TypeInv /\ Contained)'
  BY TypeStep, ContainedStep
<1>3. TypeInv /\ Contained => IndicatorHonest
  BY DEF Contained
<1> QED
  BY <1>1, <1>2, <1>3, PTL DEF Spec

-----------------------------------------------------------------------------
(* What holds as long as the user starts again only when the earlier run   *)
(* and its callback have ended.                                            *)

(* Earlier runs are over, but for the closing of their channel.            *)
Retired ==
  \A r \in Runs \ {current} :
    run[r] \in {"none", "closing", "ended"} /\ callback[r] = "none"
IdleIsDead == status = "idle" => Dead(current)

(* A run closes the channel its own Start has made, and is over then.      *)
OwnChannel ==
  \A r \in Runs : /\ run[r] \in Entered => closes[r] = r
                  /\ r \in done => run[r] = "ended"

Ordered == Retired /\ IdleIsDead /\ OwnChannel /\ GracefulExit
IInv == TypeInv /\ Contained /\ Ordered

(* No Start, Stop, Quit or cancellation disturbs the order of the runs; a  *)
(* process that exits has closed the channel of its last run, which holds  *)
(* no lock file then.                                                      *)
LEMMA ControlOrdered ==
  ASSUME IInv, StartEarly = FALSE,
         Start \/ Stop \/ Quit \/ Exit \/ (\E r \in Runs : Cancels(r))
           \/ UNCHANGED vars
  PROVE  Ordered'
<1> USE DEF IInv, Ordered, Retired, IdleIsDead, Dead, OwnChannel, GracefulExit
<1>1. CASE Start
  <2>1. /\ Goes(NewRun, "opening") /\ status' = "running" /\ NewRun \in Runs
        /\ current' = NewRun /\ NewRun = current + 1 /\ quit # "exited"
        /\ UNCHANGED <<closes, done, lock, quit>>
    BY <1>1, BoundsAssumption DEF Start, NewRun, Runs, TypeInv, TypeOK, Numbered
  <2>2. run[NewRun] = "none" /\ callback[NewRun] = "none"
    BY <2>1, BoundsAssumption DEF TypeInv, TypeOK, Numbered, Runs, None
  <2>3. /\ callback' = callback /\ run'[NewRun] = "opening"
        /\ \A s \in Runs \ {NewRun} : run'[s] = run[s]
    BY <2>1, GoesTo DEF TypeInv, RunStates, Starting
  <2>4. Dead(current) /\ \A r \in Runs : callback[r] = "none"
    BY <1>1 DEF Start, Admissible, Settled, TypeInv, TypeOK, Statuses
  <2>5. Retired'
    <3> SUFFICES ASSUME NEW r \in Runs \ {NewRun}
                 PROVE  run[r] \in {"none", "closing", "ended"}
      BY <2>1, <2>3, <2>4
    <3>1. r # None
      BY BoundsAssumption DEF Runs, None
    <3> QED
      BY <2>4, <3>1
  <2>6. OwnChannel'
    BY <2>1, <2>2, <2>3 DEF Entered, Looping, Ending, InSync, TypeInv, TypeOK
  <2> QED
    BY <2>1, <2>5, <2>6
<1>2. CASE Stop
  BY <1>2 DEF Stop, StopEffect
<1>3. CASE Quit
  BY <1>3 DEF Quit, StopEffect
<1>4. CASE Exit
  <2>1. UNCHANGED <<info, held, run, callback, lock>>
    BY <1>4 DEF Exit
  <2>2. CASE current = None
    BY <1>4, <2>1, <2>2 DEF Exit, info, held, Contained, LockHeld, Holding, Looping,
                            InSync, TypeInv, TypeOK, Runs, None
  <2>3. CASE current \in done
    BY <1>4, <2>1, <2>3 DEF Exit, info, held, Contained, LockHeld, Holding, Looping,
                            InSync, TypeInv, TypeOK, Runs, None
  <2> QED
    BY <1>4, <2>2, <2>3 DEF Exit
<1>5. ASSUME NEW r \in Runs, Cancels(r) PROVE Ordered'
  BY <1>5 DEF Cancels, info
<1>6. CASE UNCHANGED vars
  BY <1>6 DEF vars, info, held
<1> QED
  BY <1>1, <1>2, <1>3, <1>4, <1>5, <1>6

(* Nor does a step of a goroutine.                                         *)
LEMMA GoroutineOrdered ==
  ASSUME IInv, NEW r \in Runs, Progress(r)
  PROVE  Ordered'
<1> USE DEF IInv, TypeInv, TypeOK, Ordered, Retired, IdleIsDead, Dead, OwnChannel,
            GracefulExit, Entered, Looping, Ending, InSync, Runs, None, info, held
<1>0. quit # "exited" /\ UNCHANGED quit
  BY DEF Progress, At, Opens, OpenFails, FailResets, RunEnters, InitialBegins, InitialEnds, InitialReported, InitialFailed, ErrorChecked, ErrorReported, LoopReturns, RunLeaves, DoneCloses
<1>1. CASE Opens(r)
  BY <1>0, <1>1 DEF Opens, At, Goes
<1>2. CASE OpenFails(r)
  BY <1>0, <1>2 DEF OpenFails, At, Goes
<1>3. CASE FailResets(r)
  BY <1>0, <1>3 DEF FailResets, At, Goes
<1>4. CASE RunEnters(r)
  BY <1>0, <1>4 DEF RunEnters, At, Goes
<1>5. CASE InitialBegins(r)
  BY <1>0, <1>5 DEF InitialBegins, At, Goes, Begun, BeginSync
<1>6. CASE InitialEnds(r)
  BY <1>0, <1>6 DEF InitialEnds, At, Goes, EndSync
<1>7. CASE InitialReported(r)
  BY <1>0, <1>7 DEF InitialReported, At, Goes, markSynced
<1>8. CASE InitialFailed(r)
  BY <1>0, <1>8 DEF InitialFailed, At, Goes
<1>9. CASE ErrorChecked(r)
  BY <1>0, <1>9 DEF ErrorChecked, At, Goes
<1>10. CASE ErrorReported(r)
  BY <1>0, <1>10 DEF ErrorReported, At, Goes, setError
<1>11. CASE LoopReturns(r)
  BY <1>0, <1>11 DEF LoopReturns, At, Goes
<1>12. CASE RunLeaves(r)
  BY <1>0, <1>12 DEF RunLeaves, At, Goes
<1>13. CASE DoneCloses(r)
  BY <1>0, <1>13 DEF DoneCloses, At, Goes
<1> QED
  BY <1>1, <1>2, <1>3, <1>4, <1>5, <1>6, <1>7, <1>8, <1>9, <1>10, <1>11, <1>12, <1>13 DEF Progress

(* Nor does one of a callback.                                             *)
LEMMA CallbackOrdered ==
  ASSUME IInv, NEW r \in Runs, CallbackProgress(r) \/ CallbackFires(r)
  PROVE  Ordered'
<1> USE DEF IInv, TypeInv, TypeOK, Ordered, Retired, IdleIsDead, Dead, OwnChannel,
            GracefulExit, Entered, Looping, Ending, InSync, Runs, None, info, held
<1>0. quit # "exited" /\ UNCHANGED quit
  BY DEF CallbackProgress, At, CallbackAt, CallbackFires, CallbackBegins, CallbackEnds, CallbackReported, CallbackChecked, CallbackFailed
<1>1. CASE CallbackFires(r)
  BY <1>0, <1>1 DEF CallbackFires, At, CallbackAt, CallbackGoes
<1>2. CASE CallbackBegins(r)
  BY <1>0, <1>2 DEF CallbackBegins, At, CallbackAt, CallbackGoes, Begun, BeginSync
<1>3. CASE CallbackEnds(r)
  BY <1>0, <1>3 DEF CallbackEnds, At, CallbackAt, CallbackGoes, EndSync
<1>4. CASE CallbackReported(r)
  BY <1>0, <1>4 DEF CallbackReported, At, CallbackAt, CallbackGoes, markSynced
<1>5. CASE CallbackChecked(r)
  BY <1>0, <1>5 DEF CallbackChecked, At, CallbackAt, CallbackGoes
<1>6. CASE CallbackFailed(r)
  BY <1>0, <1>6 DEF CallbackFailed, At, CallbackAt, CallbackGoes, setError
<1> QED
  BY <1>1, <1>2, <1>3, <1>4, <1>5, <1>6 DEF CallbackProgress

(* The bookkeeping of the runs is never mixed up: IInv is inductive.       *)
THEOREM Invariant ==
  ASSUME StartEarly = FALSE
  PROVE  Spec => []IInv
<1>1. Init => IInv
  <2> SUFFICES ASSUME Init PROVE IInv
    OBVIOUS
  <2>1. TypeInv
    BY TypeInit
  <2>2. Contained
    BY DEF Init, Contained, LockHeld, SyncsInLoop, IndicatorHonest
  <2>3. Ordered
    BY DEF Init, Ordered, Retired, IdleIsDead, Dead, OwnChannel, GracefulExit,
           Entered, Looping, Ending, InSync
  <2> QED
    BY <2>1, <2>2, <2>3 DEF IInv
<1>2. IInv /\ [Next]_vars => IInv'
  <2> SUFFICES ASSUME IInv, [Next]_vars PROVE IInv'
    OBVIOUS
  <2>1. TypeInv'
    BY TypeStep DEF IInv
  <2>2. Contained'
    BY ContainedStep DEF IInv
  <2>3. CASE \E r \in Runs : Progress(r)
    BY <2>1, <2>2, <2>3, GoroutineOrdered DEF IInv
  <2>4. CASE \E r \in Runs : CallbackProgress(r) \/ CallbackFires(r)
    BY <2>1, <2>2, <2>4, CallbackOrdered DEF IInv
  <2>5. CASE Start \/ Stop \/ Quit \/ Exit \/ (\E r \in Runs : Cancels(r))
               \/ UNCHANGED vars
    BY <2>1, <2>2, <2>5, ControlOrdered DEF IInv
  <2> QED
    BY <2>3, <2>4, <2>5 DEF Next
<1> QED
  BY <1>1, <1>2, PTL DEF Spec

(* sync_service.go: an idle service holds no lock file, and no sync of any *)
(* run, nor of a late timer callback, still changes the folder.            *)
THEOREM IdleIsStopped ==
  ASSUME StartEarly = FALSE
  PROVE  Spec => []IdleMeansStopped
<1>1. IInv => IdleMeansStopped
  <2> SUFFICES ASSUME IInv, status = "idle" PROVE IdleMeansStopped
    BY DEF IdleMeansStopped
  <2>1. \A r \in Runs : run[r] \in {"none", "closing", "ended"}
    BY DEF IInv, Ordered, Retired, IdleIsDead, Dead, Runs, None
  <2>2. \A r \in Runs : "syncing" \notin {run[r], callback[r]}
    BY <2>1 DEF IInv, Contained, SyncsInLoop
  <2>3. lock = None
    BY <2>1 DEF IInv, Contained, LockHeld, Holding, Looping, InSync, TypeInv, TypeOK
  <2> QED
    BY <2>2, <2>3 DEF IdleMeansStopped
<1> QED
  BY Invariant, <1>1, PTL

(* gui/main.go, OnShutdown: the process exits only after state.Close has   *)
(* released the lock file, whatever was under way when the user quit.      *)
THEOREM ExitIsGraceful ==
  ASSUME StartEarly = FALSE
  PROVE  Spec => []GracefulExit
<1>1. IInv => GracefulExit
  BY DEF IInv, Ordered
<1> QED
  BY Invariant, <1>1, PTL

(* No run closes another's done channel, or its own twice.                 *)
THEOREM ChannelsCloseOnce ==
  ASSUME StartEarly = FALSE
  PROVE  Spec => []ClosesOnce
<1>1. IInv => ClosesOnce
  BY DEF IInv, Ordered, OwnChannel, ClosesOnce, Entered
<1> QED
  BY Invariant, <1>1, PTL

-----------------------------------------------------------------------------
(* The service implements FolderLease. *)

HolderHolds == \A r \in Runs : run[r] \in Holding => lock = r

(* The lock file changes hands only when a run opens its state or closes   *)
(* it.                                                                     *)
LEMMA HolderStep == TypeInv /\ HolderHolds /\ [Next]_vars => HolderHolds'
<1> SUFFICES ASSUME TypeInv, HolderHolds, [Next]_vars PROVE HolderHolds'
  OBVIOUS
<1> USE DEF TypeInv, TypeOK, HolderHolds, Holding, Looping, InSync, Runs, None, info, held
<1>1. CASE Start
  <2>1. /\ Goes(NewRun, "opening") /\ NewRun \in Runs /\ UNCHANGED lock
    BY <1>1, BoundsAssumption DEF Start, NewRun
  <2>2. /\ run'[NewRun] = "opening" /\ \A s \in Runs \ {NewRun} : run'[s] = run[s]
    BY <2>1, GoesTo DEF RunStates, Starting
  <2> QED
    BY <2>1, <2>2
<1>2. CASE Stop \/ Quit \/ Exit \/ UNCHANGED vars \/ \E r \in Runs : Cancels(r)
  BY <1>2 DEF Stop, Quit, Exit, vars, Cancels
<1>3. ASSUME NEW r \in Runs, Progress(r) PROVE HolderHolds'
  <2>1. CASE Opens(r)
    BY <2>1, BoundsAssumption DEF Opens, At, Goes
  <2>2. CASE InitialFailed(r)
    BY <2>2, BoundsAssumption DEF InitialFailed, At, Goes
  <2>3. CASE LoopReturns(r)
    BY <2>3, BoundsAssumption DEF LoopReturns, At, Goes
  <2>4. CASE RunEnters(r) \/ InitialBegins(r) \/ InitialEnds(r) \/ InitialReported(r)
    BY <2>4 DEF RunEnters, InitialBegins, InitialEnds, InitialReported, Begun, At, Goes
  <2>5. CASE OpenFails(r) \/ FailResets(r) \/ ErrorChecked(r) \/ ErrorReported(r)
               \/ RunLeaves(r) \/ DoneCloses(r)
    BY <2>5 DEF OpenFails, FailResets, ErrorChecked, ErrorReported, RunLeaves,
                DoneCloses, At, Goes
  <2> QED
    BY <1>3, <2>1, <2>2, <2>3, <2>4, <2>5 DEF Progress
<1>4. ASSUME NEW r \in Runs, CallbackProgress(r) \/ CallbackFires(r) PROVE HolderHolds'
  BY <1>4 DEF CallbackProgress, CallbackFires, CallbackBegins, CallbackEnds,
     CallbackReported, CallbackChecked, CallbackFailed, CallbackGoes
<1> QED
  BY <1>1, <1>2, <1>3, <1>4 DEF Next

LInv == IInv /\ HolderHolds

(* The run that changes the folder holds the lock file, in one of its two  *)
(* places.                                                                 *)
LEMMA WorkerHolds ==
  ASSUME LInv, NEW r \in Runs, "syncing" \in {run[r], callback[r]}
  PROVE  /\ lock = r /\ lock # None /\ quit # "exited"
         /\ run[r] \in {"syncing", "looping"}
         /\ run[r] = "syncing" => callback[r] # "syncing"
<1>1. run[r] \in {"syncing", "looping"} /\ (run[r] = "syncing" => callback[r] # "syncing")
  BY DEF LInv, IInv, Contained, SyncsInLoop
<1>2. lock = r /\ lock # None
  BY <1>1 DEF LInv, HolderHolds, Holding, Looping, InSync, Runs, None
<1>3. quit # "exited"
  BY <1>2 DEF LInv, IInv, Ordered, GracefulExit
<1> QED
  BY <1>1, <1>2, <1>3

(* Nothing is seen of steps that touch none of what the contract is about. *)
LEMMA Unseen ==
  ASSUME UNCHANGED <<lock, done, quit>>, Working' <=> Working
  PROVE  UNCHANGED Lease!vars
BY DEF Lease!vars, Working

(* A step of one goroutine, or one callback, that neither begins nor ends  *)
(* a sync leaves the folder as it is.                                      *)
LEMMA StillWorking ==
  ASSUME TypeOK, NEW r \in Runs,
         \A s \in Runs \ {r} : run'[s] = run[s] /\ callback'[s] = callback[s],
         "syncing" \in {run'[r], callback'[r]} <=> "syncing" \in {run[r], callback[r]}
  PROVE  Working' <=> Working
BY DEF Working

(* Starts, stops and cancellations are not seen; the process ends with the *)
(* folder free.                                                            *)
LEMMA ControlLeases ==
  ASSUME LInv, LInv', StartEarly = FALSE,
         Start \/ Stop \/ Quit \/ Exit \/ (\E r \in Runs : Cancels(r))
           \/ UNCHANGED vars
  PROVE  [Lease!Next]_(Lease!vars)
<1> USE DEF info, held
<1>1. CASE Start
  <2>1. /\ Goes(NewRun, "opening") /\ NewRun \in Runs /\ NewRun = current + 1
        /\ UNCHANGED <<lock, done, quit>>
    BY <1>1, BoundsAssumption DEF Start, NewRun, Runs, LInv, IInv, TypeInv, TypeOK, Numbered
  <2>2. run[NewRun] = "none" /\ callback[NewRun] = "none"
    BY <2>1, BoundsAssumption DEF LInv, IInv, TypeInv, TypeOK, Numbered, Runs, None
  <2>3. /\ callback' = callback /\ run'[NewRun] = "opening"
        /\ \A s \in Runs \ {NewRun} : run'[s] = run[s]
    BY <2>1, GoesTo DEF LInv, IInv, TypeInv, RunStates, Starting
  <2>4. Working' <=> Working
    BY <2>1, <2>2, <2>3, StillWorking DEF LInv, IInv, TypeInv
  <2> QED
    BY <2>1, <2>4, Unseen
<1>2. CASE Stop \/ (\E r \in Runs : Cancels(r)) \/ UNCHANGED vars
  <2>1. UNCHANGED <<lock, done, quit, run, callback>>
    BY <1>2 DEF Stop, Cancels, vars
  <2>2. Working' <=> Working
    BY <2>1 DEF Working
  <2> QED
    BY <2>1, <2>2, Unseen
<1>3. CASE Quit
  <2>1. UNCHANGED <<lock, done, run, callback>> /\ quit # "exited" /\ quit' # "exited"
    BY <1>3 DEF Quit
  <2> QED
    BY <2>1 DEF Working, Lease!vars
<1>4. CASE Exit
  <2>1. UNCHANGED <<lock, done, run, callback>> /\ quit # "exited" /\ quit' = "exited"
    BY <1>4 DEF Exit
  <2>2. lock = None
    BY <2>1 DEF LInv, IInv, Ordered, GracefulExit
  <2> QED
    BY <2>1, <2>2 DEF Working, Lease!Next, Lease!Exit, Lease!None, None
<1> QED
  BY <1>1, <1>2, <1>3, <1>4

(* A goroutine takes the folder when it opens its state, changes it in its *)
(* initial sync, lets go when it closes the state, and is reported after.  *)
LEMMA GoroutineLeases ==
  ASSUME LInv, LInv', NEW r \in Runs, Progress(r)
  PROVE  [Lease!Next]_(Lease!vars)
<1> USE DEF info, held
<1>0. /\ TypeOK /\ quit # "exited" /\ UNCHANGED quit /\ callback' = callback
      /\ \A s \in Runs \ {r} : run'[s] = run[s]
  BY DEF Progress, At, Goes, LInv, IInv, TypeInv, TypeOK, Opens, OpenFails, FailResets, RunEnters, InitialBegins, InitialEnds, InitialReported, InitialFailed, ErrorChecked, ErrorReported, LoopReturns, RunLeaves, DoneCloses
<1>a. \A where : Goes(r, where) => run'[r] = where
  BY <1>0 DEF Goes, TypeOK
<1>1. CASE Opens(r)
  <2>1. lock = None /\ lock' = r /\ UNCHANGED done /\ run[r] = "opening" /\ run'[r] = "opened"
    BY <1>1, <1>a DEF Opens, At
  <2>2. Working' <=> Working
    BY <1>0, <2>1, StillWorking
  <2>3. \A q \in done : q < r
    <3> SUFFICES ASSUME NEW q \in done PROVE q < r
      OBVIOUS
    <3>1. q \in Runs /\ run[q] = "ended"
      BY <1>0 DEF LInv, IInv, Ordered, OwnChannel, TypeOK
    <3>2. r = current
      BY <2>1 DEF LInv, IInv, Ordered, Retired
    <3>3. q <= current /\ q # r
      BY <2>1, <3>1 DEF LInv, IInv, TypeInv, Numbered
    <3> QED
      BY <3>1, <3>2, <3>3 DEF Runs
  <2> QED
    BY <1>0, <2>1, <2>2, <2>3 DEF Lease!Next, Lease!Acquire, Lease!None, None
<1>2. CASE InitialBegins(r)
  <2>1. run[r] = "initial" /\ run'[r] \in InSync /\ UNCHANGED <<lock, done>>
    BY <1>2, <1>a DEF InitialBegins, Begun, InSync, At
  <2>2. callback[r] # "syncing"
    BY <2>1 DEF LInv, IInv, Contained, SyncsInLoop
  <2>3. CASE run'[r] = "syncing"
    <3>1. Working'
      BY <2>3 DEF Working
    <3>2. lock = r /\ lock # None
      BY <2>1 DEF LInv, HolderHolds, Holding, Looping, Runs, None
    <3>3. ~Working
      BY <2>1, <2>2, <3>2, WorkerHolds DEF Working
    <3> QED
      BY <1>0, <2>1, <3>1, <3>2, <3>3 DEF Lease!Next, Lease!BeginWork, Lease!None, None
  <2>4. CASE run'[r] # "syncing"
    BY <1>0, <2>1, <2>2, <2>4, StillWorking, Unseen
  <2> QED
    BY <2>3, <2>4
<1>3. CASE InitialEnds(r)
  <2>1. run[r] \in InSync /\ run'[r] # "syncing" /\ UNCHANGED <<lock, done>>
    BY <1>3, <1>a DEF InitialEnds
  <2>2. callback[r] # "syncing"
    BY <2>1 DEF LInv, IInv, Contained, SyncsInLoop, InSync
  <2>3. CASE run[r] = "syncing"
    <3>1. Working
      BY <2>3 DEF Working
    <3>2. lock = r
      BY <2>3, WorkerHolds
    <3>3. ~Working'
      BY <1>0, <2>1, <2>2, <3>2, WorkerHolds DEF Working
    <3> QED
      BY <1>0, <2>1, <3>1, <3>3 DEF Lease!Next, Lease!EndWork
  <2>4. CASE run[r] # "syncing"
    BY <1>0, <2>1, <2>2, <2>4, StillWorking, Unseen
  <2> QED
    BY <2>3, <2>4
<1>4. CASE InitialFailed(r) \/ LoopReturns(r)
  <2>1. /\ run[r] \in {"failed_sync", "looping"} /\ callback[r] # "syncing"
        /\ run'[r] \in {"checking", "leaving"} /\ lock' = None /\ UNCHANGED done
    BY <1>4, <1>a DEF InitialFailed, LoopReturns, At, InSync, LInv, IInv, Contained, SyncsInLoop
  <2>2. lock = r /\ lock # None
    BY <2>1 DEF LInv, HolderHolds, Holding, Looping, Runs, None
  <2>3. ~Working
    BY <2>1, <2>2, WorkerHolds DEF Working
  <2>4. Working' <=> Working
    BY <1>0, <2>1, StillWorking
  <2> QED
    BY <1>0, <2>1, <2>2, <2>3, <2>4 DEF Lease!Next, Lease!Release, Lease!None, None
<1>5. CASE DoneCloses(r)
  <2>1. /\ run[r] = "closing" /\ run'[r] = "ended" /\ done' = done \cup {r}
        /\ UNCHANGED lock
    BY <1>5, <1>a DEF DoneCloses, At, LInv, IInv, Ordered, OwnChannel, Entered
  <2>2. r \notin done /\ r # lock
    BY <2>1 DEF LInv, IInv, Ordered, OwnChannel, Contained, LockHeld, Holding, Looping,
                InSync, Runs, None
  <2>3. Working' <=> Working
    BY <1>0, <2>1, StillWorking
  <2> QED
    BY <1>0, <2>1, <2>2, <2>3 DEF Lease!Next, Lease!Report
<1>6. CASE OpenFails(r) \/ FailResets(r) \/ RunEnters(r) \/ InitialReported(r)
             \/ ErrorChecked(r) \/ ErrorReported(r) \/ RunLeaves(r)
  <2>1. run[r] # "syncing" /\ run'[r] # "syncing" /\ UNCHANGED <<lock, done>>
    BY <1>6, <1>a DEF OpenFails, FailResets, RunEnters, InitialReported, ErrorChecked,
                      ErrorReported, RunLeaves, At
  <2> QED
    BY <1>0, <2>1, StillWorking, Unseen
<1> QED
  BY <1>1, <1>2, <1>3, <1>4, <1>5, <1>6 DEF Progress

(* A callback changes the folder while its loop holds it, or is not seen.  *)
LEMMA CallbackLeases ==
  ASSUME LInv, LInv', NEW r \in Runs, CallbackProgress(r) \/ CallbackFires(r)
  PROVE  [Lease!Next]_(Lease!vars)
<1> USE DEF info, held
<1>0. /\ TypeOK /\ quit # "exited" /\ UNCHANGED <<lock, done, quit>> /\ run' = run
      /\ \A s \in Runs \ {r} : callback'[s] = callback[s]
  BY DEF CallbackProgress, At, CallbackAt, CallbackGoes, LInv, IInv, TypeInv, TypeOK, CallbackFires, CallbackBegins, CallbackEnds, CallbackReported, CallbackChecked, CallbackFailed
<1>a. \A where : CallbackGoes(r, where) => callback'[r] = where
  BY <1>0 DEF CallbackGoes, TypeOK
<1>1. CASE callback[r] # "syncing" /\ callback'[r] = "syncing"
  <2>1. run[r] = "looping"
    BY <1>0, <1>1 DEF LInv, IInv, Contained, SyncsInLoop
  <2>2. lock = r /\ lock # None
    BY <2>1 DEF LInv, HolderHolds, Holding, Looping, Runs, None
  <2>3. ~Working
    BY <1>1, <2>1, <2>2, WorkerHolds DEF Working
  <2>4. Working'
    BY <1>1 DEF Working
  <2> QED
    BY <1>0, <2>2, <2>3, <2>4 DEF Lease!Next, Lease!BeginWork, Lease!None, None
<1>2. CASE callback[r] = "syncing" /\ callback'[r] # "syncing"
  <2>1. lock = r /\ run[r] = "looping"
    BY <1>2, WorkerHolds
  <2>2. Working
    BY <1>2 DEF Working
  <2>3. ~Working'
    BY <1>0, <1>2, <2>1, WorkerHolds DEF Working
  <2> QED
    BY <1>0, <2>2, <2>3 DEF Lease!Next, Lease!EndWork
<1>3. CASE callback[r] = "syncing" <=> callback'[r] = "syncing"
  BY <1>0, <1>3, StillWorking, Unseen
<1> QED
  BY <1>1, <1>2, <1>3

(* sync_service.go, Start and Wait: whatever is started, stopped and       *)
(* failing, one run at a time holds the folder, only that one changes it,  *)
(* Wait returns for a run when it has let go, and the process ends after.  *)
THEOREM LeaseIsHeld ==
  ASSUME StartEarly = FALSE
  PROVE  Spec => HoldsLease
<1>1. Init => Lease!Init /\ HolderHolds
  <2> SUFFICES ASSUME Init PROVE Lease!Init /\ HolderHolds
    OBVIOUS
  <2>1. HolderHolds
    BY DEF Init, HolderHolds, Holding, Looping, InSync
  <2>2. ~Working
    BY DEF Init, Working
  <2> QED
    BY <2>1, <2>2 DEF Init, Lease!Init, Lease!None, None
<1>2. IInv /\ HolderHolds /\ [Next]_vars => HolderHolds'
  BY HolderStep DEF IInv
<1>3. IInv /\ IInv' /\ HolderHolds /\ HolderHolds' /\ [Next]_vars
        => [Lease!Next]_(Lease!vars)
  <2> SUFFICES ASSUME LInv, LInv', [Next]_vars PROVE [Lease!Next]_(Lease!vars)
    BY DEF LInv
  <2>1. CASE \E r \in Runs : Progress(r)
    BY <2>1, GoroutineLeases
  <2>2. CASE \E r \in Runs : CallbackProgress(r) \/ CallbackFires(r)
    BY <2>2, CallbackLeases
  <2>3. CASE Start \/ Stop \/ Quit \/ Exit \/ (\E r \in Runs : Cancels(r))
               \/ UNCHANGED vars
    BY <2>3, ControlLeases
  <2> QED
    BY <2>1, <2>2, <2>3 DEF Next
<1> QED
  BY Invariant, <1>1, <1>2, <1>3, PTL DEF Spec, HoldsLease, Lease!Spec
=============================================================================
