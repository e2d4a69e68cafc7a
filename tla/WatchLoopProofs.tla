--------------------------- MODULE WatchLoopProofs ---------------------------
(***************************************************************************)
(* What is proved of the watch loop, for any number of timer callbacks,    *)
(* any bounds and any time of the cancellation.                            *)
(***************************************************************************)
EXTENDS WatchLoop, FiniteSetTheorems, TLAPS

(* A goroutine past the lock and before the unlock.                        *)
Inside(g) == at[g] \in {"locked", "walked"}

(* Only the holder of syncMu is inside doSync.                             *)
Mutex == \A g \in Goroutines : Inside(g) => holder = g

(* The main goroutine is in doSync only from the two places that call it.  *)
MainAt == /\ at["main"] # "fired"
          /\ at["main"] # "none" => loop \in {"initial", "syncing"}

Shape == Mutex /\ MainAt

(* The main goroutine is one of the goroutines; "nobody" is none of them.  *)
LEMMA Names == "main" \in Goroutines /\ Nobody \notin Goroutines
BY CallbacksAssumption DEF Goroutines, Nobody

(* A counter of bounded events stays within its bound.                     *)
LEMMA UseType ==
  ASSUME TypeOK
  PROVE  /\ Use("edits", MaxEdits) => used' \in [remote : 0..MaxRemote, edits : 0..MaxEdits, faults : 0..MaxFaults]
         /\ Use("remote", MaxRemote) => used' \in [remote : 0..MaxRemote, edits : 0..MaxEdits, faults : 0..MaxFaults]
         /\ Use("faults", MaxFaults) => used' \in [remote : 0..MaxRemote, edits : 0..MaxEdits, faults : 0..MaxFaults]
BY BoundsAssumption DEF TypeOK, Use

(* Where doSync leaves the main goroutine.                                 *)
LEMMA ReturnLoop ==
  ASSUME TypeOK, Shape, NEW g \in Goroutines, Inside(g), NEW ok \in BOOLEAN, Return(g, ok)
  PROVE  /\ g # "main" => loop' = loop
         /\ g = "main" => /\ loop \in {"initial", "syncing"}
                          /\ loop = "syncing" => loop' = "select"
                          /\ loop = "initial" => loop' = IF ok THEN "setup" ELSE "returned"
<1>1. CASE g # "main"
  BY <1>1 DEF Return
<1>2. CASE g = "main"
  <2>1. loop \in {"initial", "syncing"}
    BY <1>2 DEF Shape, MainAt, Inside
  <2>2. CASE loop = "initial"
    BY <1>2, <2>2 DEF Return
  <2>3. CASE loop = "syncing"
    BY <1>2, <2>3 DEF Return
  <2> QED
    BY <1>2, <2>1, <2>2, <2>3
<1> QED
  BY <1>1, <1>2

(* A push adds at most one entry to the server's log.                      *)
LEMMA PushedSize ==
  ASSUME server \in Nat
  PROVE  /\ Cardinality(Pushed) \in Nat
         /\ Pushed \subseteq 1..(server + Cardinality(Pushed))
<1>1. CASE seen.edit
  <2>1. Cardinality(Pushed) = 1
    BY <1>1, FS_Singleton DEF Pushed
  <2> QED
    BY <1>1, <2>1 DEF Pushed
<1>2. CASE ~seen.edit
  BY <1>2, FS_EmptySet DEF Pushed
<1> QED
  BY <1>1, <1>2

-----------------------------------------------------------------------------
(* Types and mutual exclusion *)

LEMMA InitTypes == Init => TypeOK /\ Shape
<1> SUFFICES ASSUME Init
             PROVE  TypeOK /\ Shape
  OBVIOUS
<1>1. at \in [Goroutines -> {"none", "fired", "waiting", "locked", "walked"}]
  BY DEF Init
<1>2. \A g \in Goroutines : at[g] \in {"none", "waiting"}
  BY DEF Init
<1>3. Shape
  BY <1>2, Names DEF Init, Shape, Mutex, MainAt, Inside
<1>4. used \in [remote : 0..MaxRemote, edits : 0..MaxEdits, faults : 0..MaxFaults]
  BY BoundsAssumption DEF Init
<1>5. seen \in [edit : BOOLEAN, upto : 0..server]
  BY DEF Init, NothingSeen
<1>6. saved \in [cursor : 0..server, own : SUBSET (1..server)]
  BY DEF Init
<1> QED
  BY <1>1, <1>3, <1>4, <1>5, <1>6 DEF Init, TypeOK

(* Every step keeps the types, given who is inside doSync.                 *)
LEMMA NextTypes == TypeOK /\ Shape /\ [Next]_vars => TypeOK'
<1> SUFFICES ASSUME TypeOK, Shape, [Next]_vars
             PROVE  TypeOK'
  OBVIOUS
<1> USE DEF ctx, input, store, work
<1>1. CASE Edit
  BY <1>1, UseType DEF Edit, TypeOK, Happen
<1>2. CASE RemoteChange
  BY <1>2, UseType DEF RemoteChange, TypeOK
<1>3. CASE Cancel
  BY <1>3 DEF Cancel, TypeOK
<1>4. ASSUME NEW g \in Goroutines, Lock(g) PROVE TypeOK'
  BY <1>4 DEF Lock, Goes, TypeOK
<1>5. ASSUME NEW g \in Goroutines, Walk(g) PROVE TypeOK'
  <2>1. seen' \in [edit : BOOLEAN, upto : 0..server]
    BY <1>5 DEF Walk, TypeOK
  <2>2. at' \in [Goroutines -> {"none", "fired", "waiting", "locked", "walked"}]
    BY <1>5 DEF Walk, Goes, TypeOK
  <2> QED
    BY <1>5, <2>1, <2>2 DEF Walk, TypeOK
<1>6. ASSUME NEW g \in Goroutines, SyncFails(g) PROVE TypeOK'
  <2>1. Inside(g) /\ Return(g, FALSE)
    BY <1>6 DEF SyncFails, Inside
  <2>2. loop' \in {"initial", "setup", "select", "polling", "calling", "syncing", "closing", "returned"}
    BY <2>1, ReturnLoop DEF TypeOK
  <2>3. used' \in [remote : 0..MaxRemote, edits : 0..MaxEdits, faults : 0..MaxFaults]
    BY <1>6, UseType DEF SyncFails, TypeOK
  <2>4. closed' \in BOOLEAN
    BY <2>1 DEF Return
  <2>5. edited' \in BOOLEAN
    BY <1>6 DEF SyncFails, TypeOK
  <2>6. seen' \in [edit : BOOLEAN, upto : 0..server]
    BY <2>1 DEF Return, NothingSeen, TypeOK
  <2>7. holder' \in Goroutines \cup {Nobody}
    BY <2>1 DEF Return, Release
  <2> QED
    BY <1>6, <2>1, <2>2, <2>3, <2>4, <2>5, <2>6, <2>7 DEF SyncFails, Return, Goes, TypeOK
<1>7. ASSUME NEW g \in Goroutines, SyncEnds(g) PROVE TypeOK'
  <2> DEFINE ok == ~closed
  <2>1. Inside(g) /\ Return(g, ok) /\ ok \in BOOLEAN
    BY <1>7 DEF SyncEnds, Inside
  <2> HIDE DEF ok
  <2>2. loop' \in {"initial", "setup", "select", "polling", "calling", "syncing", "closing", "returned"}
    BY <2>1, ReturnLoop DEF TypeOK
  <2>3. server' \in Nat /\ server' >= server /\ own' \subseteq 1..server'
    <3>1. Cardinality(Pushed) \in Nat /\ Pushed \subseteq 1..(server + Cardinality(Pushed))
      BY PushedSize DEF TypeOK
    <3>2. server' = server + Cardinality(Pushed) /\ own' = own \cup Pushed
      BY <1>7 DEF SyncEnds
    <3>3. server \in Nat /\ own \subseteq 1..server
      BY DEF TypeOK
    <3>4. server' \in Nat /\ server' >= server
      BY <3>1, <3>2, <3>3
    <3>5. 1..server \subseteq 1..server'
      BY <3>3, <3>4
    <3> QED
      BY <3>1, <3>2, <3>3, <3>4, <3>5
  <2>4. cursor' \in 0..server' /\ asked' \in 0..server'
    BY <1>7, <2>3 DEF SyncEnds, TypeOK
  <2>5. saved' \in [cursor : 0..server', own : SUBSET (1..server')]
    <3>1. CASE closed
      BY <1>7, <2>3, <3>1 DEF SyncEnds, TypeOK
    <3>2. CASE ~closed
      BY <1>7, <2>3, <2>4, <3>2 DEF SyncEnds
    <3> QED
      BY <3>1, <3>2
  <2>6. seen' \in [edit : BOOLEAN, upto : 0..server']
    BY <2>1, <2>3 DEF Return, NothingSeen
  <2>7. closed' \in BOOLEAN /\ failed' \in BOOLEAN
    BY <1>7, <2>1 DEF Return, SyncEnds
  <2>8. events' \subseteq {"file", "state"}
    BY <1>7 DEF SyncEnds, Happen, TypeOK
  <2>9. holder' \in Goroutines \cup {Nobody}
    BY <2>1 DEF Return, Release
  <2> QED
    BY <1>7, <2>1, <2>2, <2>3, <2>4, <2>5, <2>6, <2>7, <2>8, <2>9
       DEF SyncEnds, Return, Goes, TypeOK
<1>8. ASSUME NEW e \in events, filterFsEvents(e) PROVE TypeOK'
  <2>1. signal' \in BOOLEAN
    BY <1>8 DEF filterFsEvents
  <2> QED
    BY <1>8, <2>1 DEF filterFsEvents, TypeOK
<1>9. ASSUME NEW g \in Goroutines, TimerFires(g) PROVE TypeOK'
  BY <1>9 DEF TimerFires, Goes, TypeOK
<1>10. ASSUME NEW g \in Goroutines, CallbackChecks(g) PROVE TypeOK'
  BY <1>10 DEF CallbackChecks, Goes, TypeOK
<1>11. CASE Setup
  BY <1>11, UseType DEF Setup, TypeOK
<1>12. CASE SelectDone
  BY <1>12 DEF SelectDone, TypeOK
<1>13. CASE SelectLocal
  BY <1>13 DEF SelectLocal, TypeOK
<1>14. CASE SelectTick
  BY <1>14 DEF SelectTick, TypeOK
<1>15. CASE Polled
  <2>1. loop' \in {"select", "calling"} /\ timer' \in BOOLEAN
    BY <1>15 DEF Polled, TypeOK
  <2> QED
    BY <1>15, <2>1 DEF Polled, TypeOK
<1>16. CASE PollFails
  BY <1>16, UseType DEF PollFails, TypeOK
<1>17. CASE CallSync
  BY <1>17 DEF CallSync, Goes, TypeOK
<1>18. CASE LoopCloses
  BY <1>18 DEF LoopCloses, TypeOK
<1>19. CASE UNCHANGED vars
  BY <1>19 DEF vars, TypeOK
<1> QED
  BY <1>1, <1>2, <1>3, <1>4, <1>5, <1>6, <1>7, <1>8, <1>9, <1>10, <1>11, <1>12,
     <1>13, <1>14, <1>15, <1>16, <1>17, <1>18, <1>19 DEF Next, InSync, Main, Poll

(* Every step leaves at most the holder of syncMu inside doSync.           *)
LEMMA NextShape == TypeOK /\ Shape /\ [Next]_vars => Shape'
<1> SUFFICES ASSUME TypeOK, Shape, [Next]_vars
             PROVE  Shape'
  OBVIOUS
<1> USE Names
<1> USE DEF ctx, input, store, work, Shape, Mutex, MainAt, Inside
<1>1. CASE \/ Edit \/ RemoteChange \/ Cancel \/ Setup \/ SelectDone \/ SelectLocal
           \/ SelectTick \/ Polled \/ PollFails \/ LoopCloses \/ UNCHANGED vars
           \/ \E e \in events : filterFsEvents(e)
  <2>1. at' = at /\ holder' = holder
    BY <1>1 DEF Edit, RemoteChange, Cancel, Setup, SelectDone, SelectLocal,
                SelectTick, Polled, PollFails, LoopCloses, vars, filterFsEvents
  <2>2. loop' = loop \/ loop \notin {"initial", "syncing"}
    BY <1>1 DEF Edit, RemoteChange, Cancel, Setup, SelectDone, SelectLocal,
                SelectTick, Polled, PollFails, LoopCloses, vars, filterFsEvents
  <2> QED
    BY <2>1, <2>2
<1>2. ASSUME NEW g \in Goroutines, Lock(g) PROVE Shape'
  BY <1>2 DEF Lock, Goes, TypeOK
<1>3. ASSUME NEW g \in Goroutines, Walk(g) PROVE Shape'
  BY <1>3 DEF Walk, Goes, TypeOK
<1>4. ASSUME NEW g \in Goroutines, SyncFails(g) \/ SyncEnds(g) PROVE Shape'
  <2>1. PICK ok \in BOOLEAN : Return(g, ok)
    BY <1>4 DEF SyncFails, SyncEnds
  <2>2. Inside(g)
    BY <1>4 DEF SyncFails, SyncEnds
  <2>3. at' = [at EXCEPT ![g] = "none"] /\ holder = g
    BY <2>1, <2>2 DEF Return, Goes
  <2>4. \A h \in Goroutines : h # g => at'[h] = at[h] /\ ~Inside(h)
    BY <2>3 DEF TypeOK
  <2>5. at'[g] = "none"
    BY <2>3 DEF TypeOK
  <2>6. g # "main" => loop' = loop
    BY <2>1, <2>2, ReturnLoop
  <2> QED
    BY <2>4, <2>5, <2>6
<1>5. ASSUME NEW g \in Goroutines, TimerFires(g) PROVE Shape'
  <2>1. g # "main"
    BY <1>5, CallbacksAssumption DEF TimerFires
  <2> QED
    BY <1>5, <2>1 DEF TimerFires, Goes, TypeOK
<1>6. ASSUME NEW g \in Goroutines, CallbackChecks(g) PROVE Shape'
  BY <1>6 DEF CallbackChecks, Goes, TypeOK
<1>7. CASE CallSync
  BY <1>7 DEF CallSync, Goes, TypeOK
<1> QED
  BY <1>1, <1>2, <1>3, <1>4, <1>5, <1>6, <1>7 DEF Next, InSync, Main, Poll

(* Every variable of the watch loop keeps its type, and doSync is entered  *)
(* by one goroutine at a time (watcher.go: "it never races with itself").  *)
THEOREM TypeCorrect == Spec => [](TypeOK /\ Shape)
<1>1. TypeOK /\ Shape /\ [Next]_vars => (TypeOK /\ Shape)'
  BY NextTypes, NextShape
<1> QED
  BY InitTypes, <1>1, PTL DEF Spec

-----------------------------------------------------------------------------
(* Shutdown *)

(* Nothing that could start a sync exists: as before the watcher is set up.*)
Quiet == /\ timer = FALSE /\ signal = FALSE /\ watching = FALSE /\ events = {}
         /\ \A g \in Callbacks : at[g] = "none"

Early == loop \in {"initial", "setup"} => Quiet

Ending == /\ loop = "closing" => cancelled
          /\ closed <=> loop = "returned"

(* After Close either requests fail, or there is no goroutine to make any. *)
Gone == closed => (cancelled \/ (Quiet /\ at["main"] = "none"))

NoneWalked == closed => \A g \in Goroutines : at[g] # "walked"

SavedAll == saved = [cursor |-> cursor, own |-> own]

SInv == Early /\ Ending /\ Gone /\ NoneWalked /\ SavedAll

(* A watch loop begins with nothing that a shutdown could lose.            *)
LEMMA InitShutdown == Init => SInv
<1> SUFFICES ASSUME Init
             PROVE  SInv
  OBVIOUS
<1>1. \A g \in Callbacks : at[g] = "none"
  BY CallbacksAssumption DEF Init, Goroutines
<1> QED
  BY <1>1 DEF Init, SInv, Early, Quiet, Ending, Gone, NoneWalked, SavedAll

(* A sync returns only to a loop that is not closed, or is cancelled.      *)
LEMMA ReturnShutdown ==
  ASSUME TypeOK, Shape, SInv, NEW g \in Goroutines, Inside(g),
         NEW ok \in BOOLEAN, Return(g, ok),
         timer' = timer, signal' = signal, watching' = watching,
         watching = FALSE => events' = events, cancelled' = cancelled
  PROVE  Early' /\ Ending' /\ Gone' /\ NoneWalked'
<1>1. at' = [at EXCEPT ![g] = "none"] /\ at'[g] = "none"
  BY DEF Return, Goes, TypeOK
<1>2. \A h \in Goroutines : at'[h] = at[h] \/ at'[h] = "none"
  BY <1>1 DEF TypeOK
<1>3. \A h \in Goroutines : at'[h] # "walked"
  <2>1. holder = g
    BY DEF Shape, Mutex
  <2>2. \A h \in Goroutines : h # g => ~Inside(h) /\ at'[h] = at[h]
    BY <1>1, <2>1 DEF Shape, Mutex, TypeOK
  <2> QED
    BY <1>1, <2>2 DEF Inside
<1>4. Callbacks \subseteq Goroutines /\ "main" \in Goroutines
  BY DEF Goroutines
<1>5. Quiet => Quiet'
  BY <1>2, <1>4 DEF Quiet
<1>6. closed' = (closed \/ loop' = "returned")
  BY DEF Return
<1>7. CASE g # "main"
  <2>1. loop' = loop
    BY <1>7, ReturnLoop
  <2>2. ~Quiet
    BY <1>7 DEF Quiet, Goroutines, Inside
  <2>3. Early'
    BY <2>1, <2>2 DEF SInv, Early
  <2>4. closed' <=> closed
    BY <1>6, <2>1 DEF SInv, Ending
  <2>5. Ending'
    BY <2>1, <2>4 DEF SInv, Ending
  <2>6. Gone'
    BY <2>2, <2>4 DEF SInv, Gone
  <2> QED
    BY <1>3, <2>3, <2>5, <2>6 DEF NoneWalked
<1>8. CASE g = "main"
  <2>1. loop \in {"initial", "syncing"} /\ ~closed
    BY <1>8, ReturnLoop DEF SInv, Ending
  <2>2. CASE loop = "syncing"
    <3>1. loop' = "select"
      BY <1>8, <2>2, ReturnLoop
    <3> QED
      BY <1>3, <1>6, <2>1, <3>1 DEF Early, Ending, Gone, NoneWalked
  <2>3. CASE loop = "initial"
    <3>1. loop' \in {"setup", "returned"}
      BY <1>8, <2>3, ReturnLoop
    <3>2. Quiet' /\ at'["main"] = "none"
      BY <1>1, <1>5, <1>8, <2>3 DEF SInv, Early
    <3> QED
      BY <1>3, <1>6, <2>1, <3>1, <3>2 DEF Early, Ending, Gone, NoneWalked
  <2> QED
    BY <2>1, <2>2, <2>3
<1> QED
  BY <1>7, <1>8

(* No step of any goroutine, before or after Close, lets memory and disk   *)
(* part for good.                                                          *)
LEMMA NextShutdown ==
  ASSUME BoundClient = TRUE, TypeOK, Shape, SInv, [Next]_vars
  PROVE  SInv'
<1> USE Names
<1> USE DEF ctx, input, store, work, SInv, Early, Quiet, Ending, Gone, NoneWalked,
            SavedAll
<1>0. Callbacks \subseteq Goroutines
  BY DEF Goroutines
<1>1. CASE Edit
  BY <1>1 DEF Edit, Happen
<1>2. CASE RemoteChange
  BY <1>2 DEF RemoteChange
<1>3. CASE Cancel
  BY <1>3 DEF Cancel
<1>4. ASSUME NEW g \in Goroutines, Lock(g) PROVE SInv'
  <2>1. at[g] = "waiting" /\ at' = [at EXCEPT ![g] = "locked"]
    BY <1>4 DEF Lock, Goes
  <2>2. Quiet => g = "main" /\ Quiet'
    BY <1>0, <1>4, <2>1, CallbacksAssumption DEF Lock, Goroutines, TypeOK
  <2>3. \A h \in Goroutines : at'[h] = "walked" => at[h] = "walked"
    BY <2>1 DEF TypeOK
  <2> QED
    BY <1>4, <2>1, <2>2, <2>3 DEF Lock
<1>5. ASSUME NEW g \in Goroutines, Walk(g) PROVE SInv'
  <2>1. ~cancelled /\ at[g] = "locked" /\ at' = [at EXCEPT ![g] = "walked"]
    BY <1>5 DEF Walk, Aborted, Goes
  <2>2. Quiet => g = "main" /\ Quiet'
    BY <1>0, <1>5, <2>1, CallbacksAssumption DEF Walk, Goroutines, TypeOK
  <2>3. ~closed
    BY <2>1, <2>2
  <2> QED
    BY <1>5, <2>2, <2>3 DEF Walk
<1>6. ASSUME NEW g \in Goroutines, SyncFails(g) PROVE SInv'
  <2>1. Inside(g) /\ Return(g, FALSE)
    BY <1>6 DEF SyncFails, Inside
  <2>2. Early' /\ Ending' /\ Gone' /\ NoneWalked'
    <3> HIDE DEF SInv, Early, Quiet, Ending, Gone, NoneWalked, SavedAll
    <3> QED
      BY <1>6, <2>1, ReturnShutdown DEF SyncFails
  <2>3. SavedAll'
    BY <1>6 DEF SyncFails
  <2> QED
    BY <2>2, <2>3
<1>7. ASSUME NEW g \in Goroutines, SyncEnds(g) PROVE SInv'
  <2> DEFINE ok == ~closed
  <2>1. Inside(g) /\ Return(g, ok) /\ ok \in BOOLEAN
    BY <1>7 DEF SyncEnds, Inside
  <2>2. Early' /\ Ending' /\ Gone' /\ NoneWalked'
    <3> HIDE DEF SInv, Early, Quiet, Ending, Gone, NoneWalked, SavedAll, ok
    <3>1. watching = FALSE => events' = events
      BY <1>7 DEF SyncEnds, Happen
    <3> QED
      BY <1>7, <2>1, <3>1, ReturnShutdown DEF SyncEnds
  <2>3. SavedAll'
    BY <1>7 DEF SyncEnds
  <2> QED
    BY <2>2, <2>3
<1>8. ASSUME NEW e \in events, filterFsEvents(e) PROVE SInv'
  BY <1>8 DEF filterFsEvents
<1>9. ASSUME NEW g \in Goroutines, TimerFires(g) PROVE SInv'
  <2>1. timer /\ at' = [at EXCEPT ![g] = "fired"]
    BY <1>9 DEF TimerFires, Goes
  <2>2. \A h \in Goroutines : at'[h] = "walked" => at[h] = "walked"
    BY <2>1 DEF TypeOK
  <2>3. ~Quiet /\ (closed => cancelled) /\ loop \notin {"initial", "setup"}
    BY <2>1
  <2>4. UNCHANGED <<loop, cancelled, closed, saved, cursor, own>>
    BY <1>9 DEF TimerFires
  <2> QED
    BY <2>2, <2>3, <2>4
<1>10. ASSUME NEW g \in Goroutines, CallbackChecks(g) PROVE SInv'
  <2>1. at[g] = "fired" /\ at' = [at EXCEPT ![g] = IF cancelled THEN "none" ELSE "waiting"]
    BY <1>10 DEF CallbackChecks, Goes
  <2>2. ~Quiet
    BY <1>0, <2>1 DEF Shape, MainAt, Goroutines
  <2>3. \A h \in Goroutines : at'[h] = "walked" => at[h] = "walked"
    BY <2>1 DEF TypeOK
  <2>4. (closed => cancelled) /\ loop \notin {"initial", "setup"}
    BY <2>2
  <2>5. UNCHANGED <<loop, cancelled, closed, saved, cursor, own>>
    BY <1>10 DEF CallbackChecks
  <2> QED
    BY <2>3, <2>4, <2>5
<1>11. CASE Setup
  <2>1. at["main"] = "none" /\ Quiet /\ at' = at
    BY <1>11 DEF Setup, Shape, MainAt
  <2>2. \A h \in Goroutines : at[h] = "none"
    BY <2>1 DEF Goroutines
  <2> QED
    BY <1>11, <2>1, <2>2 DEF Setup
<1>12. CASE SelectDone
  BY <1>12 DEF SelectDone
<1>13. CASE SelectLocal
  BY <1>13 DEF SelectLocal
<1>14. CASE SelectTick
  BY <1>14 DEF SelectTick
<1>15. CASE Polled
  BY <1>15 DEF Polled
<1>16. CASE PollFails
  BY <1>16 DEF PollFails
<1>17. CASE CallSync
  <2>1. loop = "calling" /\ loop' \in {"select", "syncing"} /\ ~closed
    BY <1>17 DEF CallSync
  <2> QED
    BY <1>17, <2>1 DEF CallSync
<1>18. CASE LoopCloses
  <2>1. \A h \in Goroutines : at[h] # "walked"
    BY <1>18 DEF LoopCloses, Shape, Mutex, Inside
  <2>2. cancelled /\ loop' = "returned" /\ closed' = TRUE /\ at' = at
    BY <1>18 DEF LoopCloses
  <2>3. UNCHANGED <<cancelled, saved, cursor, own>>
    BY <1>18 DEF LoopCloses
  <2> QED
    BY <2>1, <2>2, <2>3
<1>19. CASE UNCHANGED vars
  BY <1>19 DEF vars
<1> QED
  BY <1>1, <1>2, <1>3, <1>4, <1>5, <1>6, <1>7, <1>8, <1>9, <1>10, <1>11, <1>12,
     <1>13, <1>14, <1>15, <1>16, <1>17, <1>18, <1>19 DEF Next, InSync, Main, Poll

(* With the client bound to the context, what a sync has pushed or taken   *)
(* over is in state.db when the loop is gone, for any number of callbacks  *)
(* however late they fire.                                                 *)
THEOREM ShutdownCorrect ==
  ASSUME BoundClient = TRUE
  PROVE  Spec => []ShutdownSaves
<1>1. Init => TypeOK /\ Shape /\ SInv
  BY InitTypes, InitShutdown
<1>2. (TypeOK /\ Shape /\ SInv) /\ [Next]_vars => (TypeOK /\ Shape /\ SInv)'
  BY NextTypes, NextShape, NextShutdown
<1>3. SInv => ShutdownSaves
  BY DEF SInv, SavedAll, ShutdownSaves
<1> QED
  BY <1>1, <1>2, <1>3, PTL DEF Spec
=============================================================================
