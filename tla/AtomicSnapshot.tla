---------------------------- MODULE AtomicSnapshot ----------------------------
(***************************************************************************)
(* What a bootstrap promises its caller: the tree of the scope and the     *)
(* length of its change log, read in one step.  This is the snapshot that  *)
(* SyncCycle takes in its initial sync.                                    *)
(***************************************************************************)
EXTENDS Sequences

VARIABLES
  tree,     \* the server's [dirs, files]
  log,      \* its change log
  taken,    \* is there a snapshot?
  result    \* the snapshot: [dirs, files, cursor]

Init == ~taken

(* The scope changes; a snapshot stays as it was taken.                    *)
Evolve == UNCHANGED <<taken, result>>

Take ==
  /\ ~taken /\ taken'
  /\ result' = [dirs |-> tree.dirs, files |-> tree.files, cursor |-> Len(log)]
  /\ UNCHANGED <<tree, log>>

(* The caller starts over.                                                 *)
Drop == taken /\ ~taken' /\ UNCHANGED <<tree, log>>

Next == Evolve \/ Take \/ Drop
Spec == Init /\ [][Next]_<<tree, log, taken, result>>
=============================================================================
