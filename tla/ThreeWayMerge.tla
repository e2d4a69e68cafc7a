---------------------------- MODULE ThreeWayMerge ----------------------------
(***************************************************************************)
(* internal/sync/compare.go: the decision for one path, from what is on    *)
(* disk, what the archive remembers of the last sync, and what is known of *)
(* the server.                                                             *)
(*                                                                         *)
(* A content stands for its hash; Absent is "no such file" on disk and "no *)
(* such row" in the archive, so a path in sync has equal contents on both  *)
(* sides, absent ones included.                                            *)
(***************************************************************************)
CONSTANT Absent

Actions == {"none", "push", "pull", "delete_local", "delete_remote", "conflict"}

LocalChanged(disk, row) == disk # Absent /\ row # Absent /\ disk # row
LocalNew(disk, row) == disk # Absent /\ row = Absent
LocalDeleted(disk, row) == disk = Absent /\ row # Absent
LocalSame(disk, row) == disk = row

(* Mutant: a remote put is dropped when the file was deleted here.         *)
IncrementalAction_PutDropped(disk, row, event) ==
  CASE LocalSame(disk, row) /\ event = "put"       -> "pull"
    [] LocalSame(disk, row) /\ event = "delete"    -> "delete_local"
    [] LocalDeleted(disk, row) /\ event = "none"   -> "delete_remote"
    [] LocalDeleted(disk, row) /\ event = "put"    -> "none"
    [] LocalDeleted(disk, row) /\ event = "delete" -> "delete_local"
    [] LocalChanged(disk, row) /\ event = "none"   -> "push"
    [] LocalNew(disk, row) /\ event = "none"       -> "push"
    [] LocalChanged(disk, row) /\ event = "put"    -> "conflict"
    [] LocalNew(disk, row) /\ event = "put"        -> "conflict"
    [] LocalChanged(disk, row) /\ event = "delete" -> "conflict"
    [] OTHER                                       -> "none"

(* Mutant: a new local file does not stand in the way of a remote put.     *)
IncrementalAction_NewPulled(disk, row, event) ==
  CASE LocalSame(disk, row) /\ event = "put"       -> "pull"
    [] LocalNew(disk, row) /\ event = "put"        -> "pull"
    [] LocalSame(disk, row) /\ event = "delete"    -> "delete_local"
    [] LocalDeleted(disk, row) /\ event = "none"   -> "delete_remote"
    [] LocalDeleted(disk, row) /\ event = "delete" -> "delete_local"
    [] LocalChanged(disk, row) /\ event = "none"   -> "push"
    [] LocalNew(disk, row) /\ event = "none"       -> "push"
    [] LocalChanged(disk, row) /\ event = "put"    -> "conflict"
    [] LocalDeleted(disk, row) /\ event = "put"    -> "conflict"
    [] LocalChanged(disk, row) /\ event = "delete" -> "conflict"
    [] OTHER                                       -> "none"

(* CompareIncremental, for a path that is not the source of a file move.   *)
(* event is the last change of the path in this poll that is not our own:  *)
(* "put", "delete", or "none".                                             *)
IncrementalAction(disk, row, event) ==
  CASE LocalSame(disk, row) /\ event = "put"       -> "pull"
    [] LocalSame(disk, row) /\ event = "delete"    -> "delete_local"
    [] LocalDeleted(disk, row) /\ event = "none"   -> "delete_remote"
    [] LocalDeleted(disk, row) /\ event = "delete" -> "delete_local"
    [] LocalChanged(disk, row) /\ event = "none"   -> "push"
    [] LocalNew(disk, row) /\ event = "none"       -> "push"
    [] ~LocalSame(disk, row) /\ event = "put"      -> "conflict"
    [] LocalChanged(disk, row) /\ event = "delete" -> "conflict"
    [] LocalNew(disk, row) /\ event = "delete"     -> "none"
    [] OTHER                                       -> "none"

(* classify and classifyNoArchive, the full comparison.  Only whether the  *)
(* server has the path is known, not whether it changed there.             *)
FullAction(disk, row, hasRemote) ==
  IF row = Absent
  THEN CASE disk # Absent /\ hasRemote  -> "conflict"
         [] disk # Absent /\ ~hasRemote -> "push"
         [] disk = Absent /\ hasRemote  -> "pull"
         [] OTHER                       -> "none"
  ELSE CASE disk = row /\ hasRemote                 -> "none"
         [] LocalChanged(disk, row) /\ hasRemote    -> "push"
         [] LocalDeleted(disk, row) /\ hasRemote    -> "delete_remote"
         [] LocalChanged(disk, row) /\ ~hasRemote   -> "conflict"
         [] OTHER                                   -> "delete_local"
=============================================================================
