----------------------------- MODULE MCDirCycle -----------------------------
(* Small instances of DirCycle.  In the first, a folder has a file and a   *)
(* subfolder that holds another, a second folder has the places of all of  *)
(* them, and no two names are alike.  In the second there are two names    *)
(* that differ only in case, and a third one.                              *)
EXTENDS DirCycle

MCDirPaths == {<<1>>, <<2>>, <<1, 3>>, <<2, 3>>}
MCFilePaths == {<<1, 1>>, <<2, 1>>, <<1, 3, 1>>, <<2, 3, 1>>}
MCTrees == {[dirs |-> {<<1>>, <<1, 3>>},
             files |-> [p \in {<<1, 1>>, <<1, 3, 1>>} |-> 1]]}
MCFold == [p \in MCFilePaths |-> p]

MCNames == {<<1>>, <<2>>, <<3>>}
MCNameTrees == {[dirs |-> {}, files |-> [p \in {<<2>>} |-> 1]]}
MCNameFold == [p \in MCNames |-> IF p = <<3>> THEN 2 ELSE 1]

-----------------------------------------------------------------------------
(* What each defect of the code does on its own, for Defects.cfg,          *)
(* ReplannedEdit.cfg and, with CaseInsensitive, CaseDefects.cfg: TLC finds *)
(* every one of these violated.                                            *)
Alone(flaw) == flaws \subseteq {flaw}

(* A file edited here stays behind when others move its folder, to become  *)
(* a copy; what the server has at the new place never arrives.             *)
UnfetchedMirrors == Alone("unfetched") => MirrorsServer
(* A file edited here and moved by others is pushed against a row that can *)
(* match no version of the old path.                                       *)
StrandedSettles == Alone("stranded") => Settles
(* A file deleted here and changed by others has a copy and keeps its row. *)
ForgottenSettles == Alone("forgotten") => Settles
(* A poll with a failed plan is applied again, moves of folders included.  *)
ReplayedMirrors == Alone("replayed") => MirrorsServer
(* A folder moves to where another was deleted in the same poll: what it   *)
(* brought is deleted by the plans made before.                            *)
ReplannedMirrors == Alone("replanned") => MirrorsServer
(* The same may take an edit in it.                                        *)
ReplannedKeeps == Alone("replanned") => KeepsEdits
(* A folder is deleted and restored in one poll: the plans of the delete   *)
(* win over those of the subtree fetched.                                  *)
OutrankedMirrors == Alone("outranked") => MirrorsServer
(* A folder moves while a plan made for its old place waits.               *)
CarriedMirrors == Alone("carried") => MirrorsServer
(* A file changes, and then a folder above it: the folder is handled first.*)
ReorderedMirrors == Alone("reordered") => MirrorsServer
(* A plan is skipped because a name like it is on the disk, and the cursor *)
(* passes the change it was for.                                           *)
SkippedMirrors == Alone("skipped") => MirrorsServer
=============================================================================
