----------------------------- MODULE FolderLease -----------------------------
(***************************************************************************)
(* What the desktop service promises of its runs: one at a time has the    *)
(* folder, only that one changes it, it lets go of it between two changes, *)
(* and a run is reported as over once, when it has let go for good.  The   *)
(* process ends when no run has the folder.  SyncService is shown to       *)
(* implement this module.                                                  *)
(***************************************************************************)
EXTENDS Naturals

CONSTANT Runs   \* numbered as they were started
None == 0

VARIABLES
  holder,   \* the run that has the folder, or None
  working,  \* is it changing the folder?
  over,     \* the runs reported as over: Wait returns for them
  exited    \* has the process ended?

vars == <<holder, working, over, exited>>

Init == holder = None /\ ~working /\ over = {} /\ ~exited

(* A run takes the folder; every run reported before is an earlier one.    *)
Acquire(r) ==
  /\ holder = None /\ holder' = r
  /\ \A q \in over : q < r
  /\ UNCHANGED <<working, over>>

BeginWork == holder # None /\ ~working /\ working' /\ UNCHANGED <<holder, over>>
EndWork == working /\ ~working' /\ UNCHANGED <<holder, over>>

Release ==
  /\ holder # None /\ ~working /\ holder' = None
  /\ UNCHANGED <<working, over>>

Report(r) ==
  /\ r # holder /\ r \notin over
  /\ over' = over \cup {r}
  /\ UNCHANGED <<holder, working>>

Exit == holder = None /\ exited' /\ UNCHANGED <<holder, working, over>>

Next ==
  /\ ~exited
  /\ \/ Exit
     \/ /\ UNCHANGED exited
        /\ \/ BeginWork \/ EndWork \/ Release
           \/ \E r \in Runs : Acquire(r) \/ Report(r)

Spec == Init /\ [][Next]_vars
=============================================================================
