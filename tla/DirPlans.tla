------------------------------- MODULE DirPlans -------------------------------
(***************************************************************************)
(* From change events to plans, directories included: dir_events*.go,      *)
(* CompareIncremental with its file moves, MergePlansByPath and            *)
(* MergeFolderDeletes.  A list of plans is a function from the path of a   *)
(* plan to the plan; the archive is a function from paths to contents.     *)
(***************************************************************************)
EXTENDS ScopeTree

INSTANCE ThreeWayMerge WITH Absent <- NoContent

PlanActs == Actions \cup {"delete_remote_dir", "preserve", "move_apply",
                          "mkdir", "rmdir", "move", "skip"}

(* from is the source of a move, content the pinned revision.              *)
Plan(act, from, content) == [act |-> act, from |-> from, content |-> content]
Bare(act) == Plan(act, Root, NoContent)
NoPlans == [p \in {} |-> Bare("none")]
PlansOf(plans, act) == {p \in Paths(plans) : plans[p].act = act}

-----------------------------------------------------------------------------
(* Directory events. *)

(* Mutant: what is tracked is deleted, whatever has become of it.          *)
DeletePlans_Unchecked(disk, copies, rows, d) ==
  LET known == FilesBelow(rows, d)
      strays == {c \in copies : AtOrBelow(c.dir, d)}
      rmdir == IF strays = {} THEN {d} ELSE {}
  IN  [p \in known \cup rmdir |->
         IF p = d THEN Bare("rmdir") ELSE Bare("delete_local")]

(* expandArchiveDelete: what has changed on disk since the last sync, or   *)
(* was never synced, is kept as a copy; the emptied shell goes last.       *)
DeletePlans(disk, copies, rows, d) ==
  LET known == FilesBelow(rows, d)
      kept == {p \in FilesBelow(disk.files, d) : disk.files[p] # At(rows, p)}
      strays == {c \in copies : AtOrBelow(c.dir, d)}
      rmdir == IF kept = {} /\ strays = {} THEN {d} ELSE {}
  IN  [p \in known \cup kept \cup rmdir |->
         CASE p \in kept -> Bare("preserve")
           [] p = d      -> Bare("rmdir")
           [] OTHER      -> Bare("delete_local")]

(* expandArchiveMove: a tracked file that changed on disk stays behind and *)
(* is to become a copy; every other file below d moves, tracked or not.    *)
Drifted(disk, rows, d) ==
  {p \in FilesBelow(rows, d) :
     At(disk.files, p) \notin {NoContent, rows[p]}}

(* SubtreeComparePlans: the full comparison below the prefix, and a mkdir  *)
(* for each directory that no file of the snapshot implies.                *)
SnapshotPlans(scan, rows, onDisk, snap) ==
  LET files == snap.sub.files
      compared == Paths(files) \cup FilesBelow(scan, snap.prefix)
                    \cup FilesBelow(rows, snap.prefix)
      action(p) == FullAction(At(scan, p), At(rows, p), p \in Paths(files))
      empty == {e \in snap.sub.dirs \ onDisk : FilesBelow(files, e) = {}}
  IN  Overlaid([p \in {q \in compared : action(q) # "none"} |->
                  Plan(action(p), Root, At(files, p))],
               [e \in empty |-> Bare("mkdir")])

-----------------------------------------------------------------------------
(* File events. *)

FileMoves(changes) == Where(changes, LAMBDA ch : ch.act = "move")
MoveSources(changes) == {ch.before : ch \in ToSet(FileMoves(changes))}

(* remoteChanged: the last put or delete of the path; moves are apart.     *)
EventsOf(changes, p) ==
  Where(changes, LAMBDA ch : \/ ch.act = "put" /\ ch.after = p
                             \/ ch.act = "delete" /\ ch.before = p)

Classified(scan, rows, changes) ==
  LET named == {ch.after : ch \in ToSet(changes)} \cup
               {ch.before : ch \in ToSet(changes)}
      candidates == (Paths(scan) \cup Paths(rows) \cup named)
                      \ (MoveSources(changes) \cup {Root})
      event(p) == IF EventsOf(changes, p) = <<>> THEN Bare("none")
                  ELSE Last(EventsOf(changes, p))
      action(p) == IncrementalAction(At(scan, p), At(rows, p), event(p).act)
  IN  [p \in {q \in candidates : action(q) # "none"} |->
         Plan(action(p), Root, event(p).content)]

(* The fileMoves loop: the file is renamed when it is here and in sync,    *)
(* saved beside when it was edited here, pulled when it is not here.       *)
MovePlans(scan, rows, ch) ==
  LET disk == At(scan, ch.before)
      row == At(rows, ch.before)
      to(act) == [p \in {ch.after} |-> Plan(act, ch.before, ch.content)]
  IN  CASE disk = row /\ row # NoContent -> to("move_apply")
        [] LocalChanged(disk, row)       -> to("conflict")
        [] LocalDeleted(disk, row) ->
             Overlaid(to("pull"), [p \in {ch.before} |-> Bare("delete_local")])
        [] OTHER                         -> to("pull")

(* CompareIncremental.  Its list can hold two plans for the target of a    *)
(* move, the move's behind the other's: sort.Slice keeps the order of up   *)
(* to twelve plans, and no instance has more.                              *)
FilePlans(scan, rows, changes) ==
  LET moves == FileMoves(changes)
  IN  LaidOver(Classified(scan, rows, changes),
               [i \in DOMAIN moves |-> MovePlans(scan, rows, moves[i])])

-----------------------------------------------------------------------------
(* Merging. *)

(* MergePlansByPath: of two plans for a path, the one of the later list.   *)
MergePlansByPath(filePlans, subtree, walk) ==
  Overlaid(Overlaid(filePlans, subtree), walk)

(* Mutant: what is on disk but not tracked is not looked at.               *)
MergeFolderDeletes_TrackedOnly(plans, scan, rows) ==
  LET deleted == PlansOf(plans, "delete_remote")
      candidates == UNION {Parents(p) : p \in deleted}
      eligible == {d \in candidates : FilesBelow(rows, d) \subseteq deleted}
      kept == {d \in eligible : Parents(d) \cap eligible = {}}
      covered == {p \in deleted : Parents(p) \cap kept # {}}
  IN  Overlaid(Without(plans, covered), [d \in kept |-> Bare("delete_remote_dir")])

(* MergeFolderDeletes: the deletes that leave a directory without tracked  *)
(* and without local files become one delete of the topmost such one.      *)
MergeFolderDeletes(plans, scan, rows) ==
  LET deleted == PlansOf(plans, "delete_remote")
      candidates == UNION {Parents(p) : p \in deleted}
      eligible == {d \in candidates : /\ FilesBelow(rows, d) \subseteq deleted
                                      /\ FilesBelow(scan, d) = {}}
      kept == {d \in eligible : Parents(d) \cap eligible = {}}
      covered == {p \in deleted : Parents(p) \cap kept # {}}
  IN  Overlaid(Without(plans, covered), [d \in kept |-> Bare("delete_remote_dir")])
=============================================================================
