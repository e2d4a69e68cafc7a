------------------------------- MODULE DirCycle -------------------------------
(***************************************************************************)
(* The incremental cycle with directories and names that differ in case:   *)
(* RunIncrementalSync's HandleIncrementalDirEvents, the merging of its     *)
(* plans with those of the file events, the passes of case.go, and the     *)
(* executor's handlers for directories and moves.                          *)
(* SyncCycle has the interleavings inside one handler; here a handler is   *)
(* one step, and what is interleaved are the events of a poll, the plans   *)
(* they turn into, the changes made between two cycles, and crashes.       *)
(***************************************************************************)
EXTENDS ScopeServer, CasePlans

CONSTANTS
  MaxChanges,    \* bound: changes other clients make
  MaxUnpolled,   \* bound: how many of them one poll brings
  MaxEdits,      \* bound: what the user does to the synced directory
  MaxMishaps,    \* bound: crashes of the process and requests that fail
  MaxEvents      \* bound: all of these together

ASSUME BoundsAssumption ==
  /\ {MaxChanges, MaxUnpolled, MaxEdits, MaxMishaps, MaxEvents} \subseteq Nat
  /\ CaseInsensitive \in BOOLEAN
  /\ FilePaths \subseteq DOMAIN Fold
  /\ \A p \in DirPaths \cup FilePaths : Parents(p) \subseteq DirPaths
  /\ CaseInsensitive => DirPaths = {}   \* bound: names in one directory only
  /\ CaseInsensitive => \A t \in Trees : \A p \in Paths(t.files) :
                          Variants(p, Paths(t.files)) = {}

VARIABLES
  \* this machine's disk
  disk,       \* [dirs, files] below the sync root
  copies,     \* .sync-conflict-* files: [dir, content]; never synced
  saved,      \* state.db: [archive, cursor, pushed]
  \* the process
  archive,    \* State.Files
  cursor,     \* State.Cursor
  pushed,     \* State.pushedSeqs
  pc,         \* "idle", "dir_events", "executing"
  scan,       \* what Walk saw
  batch,      \* the changes polled that are not our own
  dirEvents,  \* those of directories not yet handled
  outcome,    \* DirEventOutcome: [walk, snaps, changed]
  plans,      \* the plans not yet executed
  target,     \* NextCursor of the poll
  pruneTo,    \* the first sequence number of the poll, 0 if it was empty
  failed,     \* did a plan end in an error?
  \* bookkeeping of the run
  edits,      \* contents the user wrote and has not replaced or deleted
  flaws,      \* the known defects this run has met, see below
  calm,       \* cycles ended since the last event from outside
  used        \* how often each bounded event has happened

local == <<disk, copies, saved>>
state == <<archive, cursor, pushed>>
cycle == <<pc, scan, batch, dirEvents, outcome, plans, target, pruneTo, failed>>
vars == <<server, local, state, cycle, edits, flaws, calm, used>>

CyclesToSettle == 3

(* Defects of the code, noted when a step meets one: the properties of the *)
(* runs hold of executions without those they name.  Each is shown alone   *)
(* by a run or by a property of MCDirCycle.                                *)
(*   "overwritten": a rename took the place of a file the user made.       *)
(*   "cascaded":    a folder delete took a file this client had not seen.  *)
(*   "unfetched":   a file edited here stayed behind when its folder moved.*)
(*   "stranded":    a file edited here was moved by another client.        *)
(*   "forgotten":   a file deleted here was changed by another client.     *)
(*   "superseded":  a file moved in a poll that has more of it is just moved.*)
(*   "renamed":     a case-only rename took the place of other plans.      *)
(*   "skipped":     a plan was dropped because of a name like it.          *)
(*   "replayed":    a plan failed, so the whole poll is applied again.     *)
(*   "replanned":   a folder came to where one deleted in the same poll was.*)
(*   "outranked":   a folder's delete went before its later restore.       *)
(*   "carried":     a folder moved with what was still to be done in it.   *)
(*   "reordered":   a folder's change went before a file's earlier one.    *)
Flaws == {"overwritten", "cascaded", "unfetched", "stranded", "forgotten",
          "replayed", "superseded", "renamed", "skipped", "replanned",
          "outranked", "carried", "reordered"}

NoOutcome == [walk |-> NoPlans, snaps |-> <<>>, changed |-> FALSE]
Spent(what) == /\ used.edits + used.changes + used.mishaps < MaxEvents
               /\ used' = [used EXCEPT ![what] = @ + 1] /\ calm' = 0
Inside == UNCHANGED <<calm, used>>
Copy(d, c) == [dir |-> d, content |-> c]

(* A row has the hash of the local file and the server's content version.  *)
Row(hash, version) == [hash |-> hash, version |-> version]
Hashes(map) == [p \in Paths(map) |-> map[p].hash]
rows == Hashes(archive)
InSync(files) == [p \in Paths(files) |-> Row(files[p], files[p])]

(* The file that p opens.                                                  *)
Entry(p) ==
  LET variants == IF CaseInsensitive THEN Variants(p, Paths(disk.files)) ELSE {}
  IN  IF variants = {} THEN p ELSE CHOOSE q \in variants : TRUE
Mine(p) == At(disk.files, Entry(p))
Contents(map) == {map[p] : p \in Paths(map)}

Rows(map) == Paths(map) \subseteq FilePaths

(* Disk, archive and plans stay within the paths of the model, the disk is *)
(* a tree, and a cycle leaves nothing behind it but the state.             *)
TypeOK ==
  /\ ServerOK
  /\ disk.dirs \subseteq DirPaths /\ Rows(disk.files) /\ WellFormed(disk)
  /\ CaseInsensitive => \A p \in Paths(disk.files) : Entry(p) = p
  /\ \A c \in copies : c.dir \in disk.dirs \cup {Root}
  /\ Rows(archive) /\ Rows(saved.archive)
  /\ saved.cursor \in 0..Len(log) /\ cursor \in saved.cursor..Len(log)
  /\ pushed \subseteq DOMAIN log
  /\ pc \in {"idle", "dir_events", "executing"}
  /\ pc = "idle" => plans = NoPlans /\ batch = <<>> /\ ~failed
  /\ Paths(plans) \subseteq FilePaths \cup DirPaths
  /\ \A p \in Paths(plans) : plans[p].act \in PlanActs \ {"none"}
  /\ target \in 0..Len(log)
  /\ flaws \subseteq Flaws

(* A directory that is in sync, its archive and its cursor up to date.     *)
Init ==
  /\ ServerInit
  /\ disk = tree /\ copies = {}
  /\ archive = InSync(tree.files) /\ cursor = 0 /\ pushed = {}
  /\ saved = [archive |-> archive, cursor |-> cursor, pushed |-> pushed]
  /\ pc = "idle" /\ scan = NoFiles /\ batch = <<>> /\ dirEvents = <<>>
  /\ outcome = NoOutcome /\ plans = NoPlans
  /\ target = 0 /\ pruneTo = 0 /\ failed = FALSE
  /\ edits = {} /\ flaws = {} /\ calm = 0
  /\ used = [edits |-> 0, changes |-> 0, mishaps |-> 0]

-----------------------------------------------------------------------------
(* The environment, between two cycles. *)

Unpolled == ((cursor + 1)..Len(log)) \ pushed

(* Bound: a directory moves only where all that can be in it has a path.   *)
Fits(d, e) ==
  \A paths \in {DirPaths, FilePaths} : \A p \in paths :
    Below(p, d) => Rebased(p, d, e) \in paths

OtherClient ==
  /\ pc = "idle"
  /\ used.changes < MaxChanges /\ Spent("changes")
  /\ Cardinality(Unpolled) < MaxUnpolled
  /\ \/ FileChange
     \/ DirChange
     \/ \E d, e \in DirPaths : Fits(d, e) /\ MoveDir(d, e)
  /\ UNCHANGED <<local, state, cycle, edits, flaws>>

UserTurn == /\ pc = "idle"
            /\ used.edits < MaxEdits /\ Spent("edits")
            /\ UNCHANGED <<server, saved, state, cycle, flaws>>

(* Contents of the user are negative, those of the others positive.        *)
UserWrite(p) ==
  /\ UserTurn
  /\ Entry(p) = p
  /\ LET c == -(used.edits + 1)
     IN  /\ disk' = [dirs |-> disk.dirs \cup Parents(p),
                     files |-> With(disk.files, p, c)]
         /\ edits' = (edits \ {At(disk.files, p)}) \cup {c}
  /\ UNCHANGED copies

UserDelete(p) ==
  /\ UserTurn
  /\ p \in Paths(disk.files)
  /\ disk' = [disk EXCEPT !.files = Without(@, {p})]
  /\ edits' = edits \ {disk.files[p]}
  /\ UNCHANGED copies

(* A case-only rename.                                                     *)
UserRename(p, q) ==
  /\ UserTurn
  /\ SameFold(p, q) /\ p \in Paths(disk.files) /\ q \notin Paths(disk.files)
  /\ Parents(q) \subseteq disk.dirs
  /\ disk' = [disk EXCEPT !.files = With(Without(@, {p}), q, disk.files[p])]
  /\ UNCHANGED <<copies, edits>>

(* Conflict copies are left alone.                                         *)
UserRemoveDir(d) ==
  /\ UserTurn
  /\ d \in disk.dirs
  /\ ~\E c \in copies : AtOrBelow(c.dir, d)
  /\ disk' = Pruned(disk, d)
  /\ edits' = edits \ Contents(Subtree(disk, d).files)
  /\ UNCHANGED copies

User == \/ \E p \in FilePaths : UserWrite(p) \/ UserDelete(p)
        \/ \E p, q \in FilePaths : UserRename(p, q)
        \/ \E d \in DirPaths : UserRemoveDir(d)

-----------------------------------------------------------------------------
(* RunIncrementalSync up to executePlans. *)

Abandon == /\ pc' = "idle" /\ scan' = NoFiles
           /\ batch' = <<>> /\ dirEvents' = <<>> /\ outcome' = NoOutcome
           /\ plans' = NoPlans /\ target' = 0 /\ pruneTo' = 0 /\ failed' = FALSE

Touched(ch) == {ch.before, ch.after} \ {Root}

(* Walk, PollChanges, and the filter of IsPushedSeq.                       *)
Poll ==
  LET foreign == Chosen(log, Unpolled)
  IN  /\ pc = "idle"
      /\ scan' = Walked(disk.files)
      /\ batch' = foreign
      /\ dirEvents' = Where(foreign, LAMBDA ch : ch.isDir)
      /\ target' = Len(log)
      /\ pruneTo' = IF Len(log) > cursor THEN cursor + 1 ELSE 0
      /\ pc' = "dir_events"
      /\ flaws' = flaws \cup
           (IF \E i, j \in DOMAIN foreign :
                 /\ i < j /\ ~foreign[i].isDir /\ foreign[j].isDir
                 /\ \E p \in Touched(foreign[i]), d \in Touched(foreign[j]) : Below(p, d)
            THEN {"reordered"} ELSE {})
      /\ UNCHANGED <<server, local, state, outcome, plans, failed, edits>>
      /\ Inside

HandleMkdir(d) ==
  /\ disk' = [disk EXCEPT !.dirs = @ \cup {d} \cup Parents(d)]
  /\ outcome' = [outcome EXCEPT !.changed = TRUE]
  /\ UNCHANGED <<copies, archive, flaws>>

HandleDelete(d) ==
  /\ outcome' = [outcome EXCEPT
       !.walk = Overlaid(@, DeletePlans(disk, copies, rows, d))]
  /\ UNCHANGED <<disk, copies, archive, flaws>>

(* expandArchiveMove: the files on disk are renamed one by one, drifted    *)
(* ones stay and are to become copies; the rows of those that moved, or    *)
(* are gone, follow.                                                       *)
HandleMove(from, to) ==
  LET drifted == Drifted(disk, rows, from)
      moving == FilesBelow(disk.files, from) \ drifted
      strays == {c \in copies : AtOrBelow(c.dir, from)}
      moved == {Copy(Rebased(c.dir, from, to), c.content) : c \in strays}
      arrived == [q \in {Rebased(p, from, to) : p \in moving} |->
                    disk.files[Rebased(q, to, from)]]
      made == {q \in DirPaths : \E p \in Paths(arrived) : Below(p, q)} \cup
              {q \in DirPaths : \E c \in moved : AtOrBelow(c.dir, q)}
      tracked == FilesBelow(archive, from) \ drifted
  IN  /\ disk' = [dirs |-> disk.dirs \cup made,
                  files |-> Overlaid(Without(disk.files, moving), arrived)]
      /\ copies' = (copies \ strays) \cup moved
      /\ archive' = Overlaid(Without(archive, tracked),
                             [q \in {Rebased(p, from, to) : p \in tracked} |->
                                archive[Rebased(q, to, from)]])
      /\ outcome' = [walk |-> Overlaid(outcome.walk,
                                       [p \in drifted |-> Bare("preserve")]),
                     snaps |-> outcome.snaps,
                     changed |-> outcome.changed \/ moving # {} \/ strays # {}]
      /\ flaws' = flaws \cup (IF drifted # {} THEN {"unfetched"} ELSE {})
                        \cup (IF Paths(arrived) \cap Paths(disk.files) # {}
                              THEN {"overwritten"} ELSE {})
                        \cup (IF \E p \in Paths(outcome.walk) : AtOrBelow(p, from)
                              THEN {"carried"} ELSE {})
                        \cup (IF {Rebased(p, from, to) : p \in moving \cup tracked}
                                   \cap Paths(outcome.walk) # {}
                              THEN {"replanned"} ELSE {})

(* A directory put: the subtree is fetched as it is now; 404 skips it.     *)
(* Bound: nobody deletes, moves or restores the scope's root.              *)
HandlePut(d) ==
  /\ outcome' = IF IsDir(tree, d)
                THEN [outcome EXCEPT
                        !.snaps = Append(@, [prefix |-> d, sub |-> Subtree(tree, d)])]
                ELSE outcome
  /\ flaws' = flaws \cup
       (IF \E ch \in ToSet(Tail(dirEvents)) :
              IsDirMove(ch) /\ (AtOrBelow(d, ch.before) \/ Below(ch.before, d))
        THEN {"carried"} ELSE {})
  /\ UNCHANGED <<disk, copies, archive>>

HandleDirEvent ==
  LET ch == Head(dirEvents)
  IN  /\ pc = "dir_events" /\ dirEvents # <<>>
      /\ dirEvents' = Tail(dirEvents)
      /\ \/ ch.act = "mkdir" /\ HandleMkdir(ch.after)
         \/ ch.act = "delete" /\ HandleDelete(ch.before)
         \/ ch.act = "move" /\ HandleMove(ch.before, ch.after)
         \/ ch.act = "put" /\ HandlePut(ch.after)
      /\ UNCHANGED <<server, saved, cursor, pushed, pc, scan, batch, plans,
                     target, pruneTo, failed, edits>>
      /\ Inside

(* The fetch of a restored subtree fails: HandleIncrementalDirEvents gives *)
(* up, and with it the cycle.  What the events before it did to the disk   *)
(* and, in memory, to the archive stays; the cursor does not move.         *)
SubtreeFails ==
  /\ pc = "dir_events" /\ dirEvents # <<>> /\ Head(dirEvents).act = "put"
  /\ used.mishaps < MaxMishaps /\ Spent("mishaps")
  /\ Abandon
  /\ UNCHANGED <<server, local, state, edits, flaws>>

(* The second walk, when events have changed the disk or brought           *)
(* snapshots; then the comparison and the merging of the plans.            *)
Compare ==
  LET rewalk == outcome.changed \/ outcome.snaps # <<>>
      seen == IF rewalk THEN Walked(disk.files) ELSE scan
      subtree == LaidOver(NoPlans, [i \in DOMAIN outcome.snaps |->
                                      SnapshotPlans(seen, rows, disk.dirs, outcome.snaps[i])])
      fileEvents == Where(batch, LAMBDA ch : ~ch.isDir)
      moveTargets == {ch.after : ch \in ToSet(FileMoves(fileEvents))}
      merged == MergePlansByPath(FilePlans(seen, rows, fileEvents), subtree,
                                 outcome.walk)
      safe == Neutralize(MergeCaseOnlyRenames(merged, seen, rows), seen, rows)
  IN  /\ pc = "dir_events" /\ dirEvents = <<>>
      /\ scan' = seen
      /\ plans' = MergeFolderDeletes(safe, seen, rows)
      /\ flaws' = flaws
           \cup (IF \E ch \in ToSet(FileMoves(fileEvents)) :
                      LocalChanged(At(seen, ch.before), At(rows, ch.before))
                 THEN {"stranded"} ELSE {})
           \cup (IF \E i, j \in DOMAIN fileEvents :
                      /\ i # j /\ fileEvents[i].act = "move"
                      /\ Touched(fileEvents[i]) \cap Touched(fileEvents[j]) # {}
                 THEN {"superseded"} ELSE {})
           \cup (IF \E p \in Consumed(MovePairs(seen, rows)) :
                      p \notin Paths(merged) \/
                      merged[p].act \notin {"push", "delete_remote"}
                 THEN {"renamed"} ELSE {})
           \cup (IF \E i \in DOMAIN outcome.snaps :
                      \E p \in Paths(outcome.walk) \cup moveTargets :
                        Exists(outcome.snaps[i].sub, p)
                 THEN {"outranked"} ELSE {})
           \cup (IF PlansOf(safe, "skip") # {} THEN {"skipped"} ELSE {})
      /\ pc' = "executing"
      /\ UNCHANGED <<server, local, state, batch, dirEvents, outcome, target,
                     pruneTo, failed, edits>>
      /\ Inside

-----------------------------------------------------------------------------
(* execute: one plan at a time, in the order of the paths, the removal of  *)
(* emptied directories last and the deepest first (reorderRmdirsLast).     *)

Goes(p, q) ==
  LET last(r) == plans[r].act = "rmdir"
  IN  \/ ~last(p) /\ last(q)
      \/ last(p) /\ last(q) /\ Len(p) > Len(q)
      \/ (last(p) <=> last(q)) /\ (last(p) => Len(p) = Len(q)) /\ Precedes(p, q)

Turn(p, act) ==
  /\ pc = "executing"
  /\ p \in PlansOf(plans, act)
  /\ \A q \in Paths(plans) \ {p} : Goes(p, q)
  /\ plans' = Without(plans, {p})
  /\ UNCHANGED <<saved, cursor, pc, scan, batch, dirEvents, outcome, target,
                 pruneTo, edits>>

Done == UNCHANGED failed /\ Inside
Fail == /\ failed' = TRUE /\ Inside
        /\ UNCHANGED <<server, disk, copies, archive, pushed, flaws>>

RowSet(p, c) == archive' = With(archive, p, Row(c, c))
(* Mutant: the row of what is gone stays.                                  *)
RowDropped_Stays(p) == UNCHANGED archive

RowDropped(p) == archive' = Without(archive, {p})

(* Mutant: the directories of the path are not made.                       *)
WithFile_NoParents(d, p, c) == [dirs |-> d.dirs, files |-> With(d.files, p, c)]

WithFile(d, p, c) == [dirs |-> d.dirs \cup Parents(p), files |-> With(d.files, p, c)]

(* PUT of a file.  The directories it needs are made, each with an entry   *)
(* of its own; the client learns the sequence number of the file's.        *)
Upload(p, c) ==
  LET missing == Where([n \in 1..(Len(p) - 1) |-> SubSeq(p, 1, n)],
                       LAMBDA d : d \notin tree.dirs)
  IN  /\ tree' = WithFile(tree, p, c)
      /\ log' = Append(log \o [i \in DOMAIN missing |-> DirMake(missing[i])],
                       FilePut(p, c))
      /\ pushed' = pushed \cup {Len(log')}
      /\ UNCHANGED trash

(* Mutant: the upload carries no precondition.                             *)
Precondition_None(p) == TRUE

(* If-Match for a path with a row, If-None-Match without.                  *)
Precondition(p) ==
  At(tree.files, p) = IF p \in Paths(archive) THEN archive[p].version ELSE NoContent

Push(p) ==
  /\ Turn(p, "push")
  /\ IF Mine(p) # NoContent /\ Precondition(p)
     THEN /\ Upload(p, Mine(p))
          /\ RowSet(p, Mine(p))
          /\ Done /\ UNCHANGED <<disk, copies, flaws>>
     ELSE Fail

(* The file put in the place of the one that p opens; which of two names   *)
(* alike it has then, depends on the file system.                          *)
Replace(p, c) ==
  \E name \in {p, Entry(p)} :
    disk' = WithFile([disk EXCEPT !.files = Without(@, {Entry(p)})], name, c)

(* A pull without a row does not look at what is on disk.                  *)
Pull(p) ==
  LET mine == Mine(p)
      row == At(rows, p)
      new == plans[p].content
      skipped == row = new \/ (row # NoContent /\ mine \notin {NoContent, row})
  IN  /\ Turn(p, "pull")
      /\ IF skipped
         THEN UNCHANGED <<disk, archive, flaws>>
         ELSE /\ Replace(p, new)
              /\ RowSet(p, new)
              /\ flaws' = flaws \cup
                   (IF row = NoContent /\ mine \notin {NoContent, new}
                    THEN {"overwritten"} ELSE {})
      /\ Done /\ UNCHANGED <<server, copies, pushed>>

DeleteLocal(p) ==
  /\ Turn(p, "delete_local")
  /\ disk' = [disk EXCEPT !.files = Without(@, {Entry(p)})]
  /\ RowDropped(p)
  /\ Done /\ UNCHANGED <<server, copies, pushed, flaws>>

(* A file that is gone already is an error (404).                          *)
DeleteRemote(p) ==
  /\ Turn(p, "delete_remote")
  /\ IF p \in Paths(tree.files)
     THEN /\ DeleteFile(p)
          /\ pushed' = pushed \cup {Len(log')}
          /\ RowDropped(p)
          /\ Done /\ UNCHANGED <<disk, copies, flaws>>
     ELSE Fail

(* The server cascades: what is below goes too, known here or not.         *)
DeleteRemoteDir(d) ==
  /\ Turn(d, "delete_remote_dir")
  /\ IF d \in tree.dirs
     THEN /\ DeleteDir(d)
          /\ pushed' = pushed \cup {Len(log')}
          /\ archive' = DeletePrefix(archive, d)
          /\ flaws' = flaws \cup
               (IF \E p \in FilesBelow(tree.files, d) : tree.files[p] # At(rows, p)
                THEN {"cascaded"} ELSE {})
          /\ Done /\ UNCHANGED <<disk, copies>>
     ELSE Fail

(* The copy of the server's side is kept unless it is what we have; then   *)
(* the local file, if there is one, is uploaded without a precondition.    *)
Conflict(p) ==
  LET mine == Mine(p)
      theirs == IF plans[p].content # NoContent THEN plans[p].content
                ELSE At(tree.files, p)
  IN  /\ Turn(p, "conflict")
      /\ IF theirs = NoContent \/ theirs = mine
         THEN UNCHANGED <<disk, copies>>
         ELSE /\ copies' = copies \cup {Copy(Parent(p), theirs)}
              /\ disk' = [disk EXCEPT !.dirs = @ \cup Parents(p)]
      /\ IF mine = NoContent
         THEN RowDropped(p) /\ UNCHANGED <<server, pushed>>
         ELSE /\ RowSet(p, mine)
              /\ IF mine = theirs THEN UNCHANGED <<server, pushed>>
                 ELSE Upload(p, mine)
      /\ flaws' = flaws \cup
           (IF mine = NoContent /\ p \in Paths(tree.files)
            THEN {"forgotten"} ELSE {})
      /\ Done

PreserveLocalRename(p) ==
  /\ Turn(p, "preserve")
  /\ copies' = copies \cup
       (IF Mine(p) # NoContent THEN {Copy(Parent(p), Mine(p))} ELSE {})
  /\ disk' = [disk EXCEPT !.files = Without(@, {Entry(p)})]
  /\ RowDropped(p)
  /\ Done /\ UNCHANGED <<server, pushed, flaws>>

(* os.Rename replaces what it finds; a source that is gone is no error.    *)
MoveApply(p) ==
  LET from == plans[p].from
      source == Entry(from)
      replaced == Entry(p)
      c == Mine(from)
  IN  /\ Turn(p, "move_apply")
      /\ IF c = NoContent
         THEN disk' = [disk EXCEPT !.dirs = @ \cup Parents(p)] /\ UNCHANGED flaws
         ELSE /\ disk' = WithFile([disk EXCEPT !.files = Without(@, {source, replaced})],
                                  p, c)
              /\ flaws' = flaws \cup (IF replaced \in Paths(disk.files) \ {source}
                                      THEN {"overwritten"} ELSE {})
      /\ archive' = IF from \in Paths(archive)
                    THEN With(Without(archive, {from}), p, archive[from])
                    ELSE archive
      /\ Done /\ UNCHANGED <<server, copies, pushed>>

(* The rename of a case-only pair on the server, without a precondition:   *)
(* the row gets the version of what the server has moved.  A source that   *)
(* is gone is an error, a destination that is taken is not.                *)
Move(p) ==
  LET from == plans[p].from
  IN  /\ Turn(p, "move")
      /\ CASE from \notin Paths(tree.files) -> Fail
           [] from \in Paths(tree.files) /\ ~Vacant(tree, p) ->
                /\ flaws' = flaws \cup {"skipped"}
                /\ Done /\ UNCHANGED <<server, disk, copies, archive, pushed>>
           [] OTHER ->
                /\ MoveFile(from, p)
                /\ pushed' = pushed \cup {Len(log')}
                /\ archive' = With(Without(archive, {from}), p,
                                   Row(archive[from].hash, tree.files[from]))
                /\ flaws' = flaws \cup
                     (IF tree.files[from] # archive[from].version
                      THEN {"renamed"} ELSE {})
                /\ Done /\ UNCHANGED <<disk, copies>>

SkipCaseConflict(p) ==
  /\ Turn(p, "skip")
  /\ Done /\ UNCHANGED <<server, disk, copies, archive, pushed, flaws>>

MkdirLocal(d) ==
  /\ Turn(d, "mkdir")
  /\ disk' = [disk EXCEPT !.dirs = @ \cup {d} \cup Parents(d)]
  /\ Done /\ UNCHANGED <<server, copies, archive, pushed, flaws>>

(* A directory that is not empty stays.                                    *)
RmdirLocal(d) ==
  LET empty == /\ ~\E p \in disk.dirs \cup Paths(disk.files) : Below(p, d)
               /\ ~\E c \in copies : AtOrBelow(c.dir, d)
  IN  /\ Turn(d, "rmdir")
      /\ disk' = IF empty THEN [disk EXCEPT !.dirs = @ \ {d}] ELSE disk
      /\ Done /\ UNCHANGED <<server, copies, archive, pushed, flaws>>

(* A plan's request fails, and with it the plan.                           *)
RequestFails ==
  /\ used.mishaps < MaxMishaps /\ Spent("mishaps")
  /\ \E p \in FilePaths \cup DirPaths :
       \E act \in {"push", "pull", "delete_remote", "delete_remote_dir", "conflict",
                  "move"} :
         Turn(p, act)
  /\ failed' = TRUE
  /\ UNCHANGED <<server, disk, copies, archive, pushed, flaws>>

Handler ==
  \/ \E p \in FilePaths :
       \/ Push(p) \/ Pull(p) \/ DeleteLocal(p) \/ DeleteRemote(p)
       \/ Conflict(p) \/ PreserveLocalRename(p) \/ MoveApply(p)
       \/ Move(p) \/ SkipCaseConflict(p)
  \/ \E d \in DirPaths : DeleteRemoteDir(d) \/ MkdirLocal(d) \/ RmdirLocal(d)

(* Mutant: the cursor advances over a plan that failed.                    *)
Finish_Advances ==
  /\ pc = "executing" /\ plans = NoPlans
  /\ cursor' = target
  /\ pushed' = {i \in pushed : i >= pruneTo}
  /\ saved' = [archive |-> archive, cursor |-> cursor', pushed |-> pushed']
  /\ Abandon
  /\ calm' = IF calm < CyclesToSettle THEN calm + 1 ELSE calm
  /\ UNCHANGED <<server, disk, copies, archive, edits, flaws, used>>

(* The end of RunIncrementalSync: the cursor advances unless a plan        *)
(* failed, and the state is saved.                                         *)
Finish ==
  /\ pc = "executing" /\ plans = NoPlans
  /\ cursor' = IF failed THEN cursor ELSE target
  /\ pushed' = {i \in pushed : i >= pruneTo}
  /\ saved' = [archive |-> archive, cursor |-> cursor', pushed |-> pushed']
  /\ flaws' = flaws \cup (IF failed /\ batch # <<>> THEN {"replayed"} ELSE {})
  /\ Abandon
  /\ calm' = IF calm < CyclesToSettle THEN calm + 1 ELSE calm
  /\ UNCHANGED <<server, disk, copies, archive, edits, used>>

(* The same, but the save fails: memory is ahead of state.db.              *)
SaveFails ==
  /\ pc = "executing" /\ plans = NoPlans
  /\ used.mishaps < MaxMishaps /\ Spent("mishaps")
  /\ cursor' = IF failed THEN cursor ELSE target
  /\ pushed' = {i \in pushed : i >= pruneTo}
  /\ flaws' = flaws \cup (IF failed /\ batch # <<>> THEN {"replayed"} ELSE {})
  /\ Abandon
  /\ UNCHANGED <<server, local, archive, edits>>

(* The process dies and starts again from state.db.                        *)
Crash ==
  /\ pc # "idle"
  /\ used.mishaps < MaxMishaps /\ Spent("mishaps")
  /\ archive' = saved.archive /\ cursor' = saved.cursor /\ pushed' = saved.pushed
  /\ Abandon
  /\ UNCHANGED <<server, local, edits, flaws>>

-----------------------------------------------------------------------------
Step == Poll \/ HandleDirEvent \/ Compare \/ Handler \/ Finish
Mishap == RequestFails \/ SubtreeFails \/ SaveFails \/ Crash
Next == OtherClient \/ User \/ Step \/ Mishap

Spec == Init /\ [][Next]_vars

-----------------------------------------------------------------------------
(* Properties *)

(* Nothing is left to do: no change to poll, none to push.                 *)
Settled == pc = "idle" /\ Unpolled = {} /\ disk.files = rows

Unmet(known) == flaws \cap known = {}

(* An edit is on this disk, in a conflict copy, or has been on the server. *)
Kept(c) == \/ c \in Contents(disk.files)
           \/ \E x \in copies : x.content = c
           \/ \E i \in DOMAIN log : log[i].content = c

(* docs/overview.md, 3-way merge, "local wins": what the user wrote        *)
(* and has neither replaced nor deleted is never lost, whatever others do  *)
(* to the file or to the directories above it, and wherever the process    *)
(* dies.  The renames of MoveApply and expandArchiveMove break it.         *)
KeepsEdits == \A c \in edits : Kept(c)

(* The same, but for the file that such a rename takes the place of, and   *)
(* the file that one brings to a path a folder delete of the same poll is  *)
(* to clear: DeleteLocal does not look at it.                              *)
KeepsEditsUnlessFlawed == Unmet({"overwritten", "replanned"}) => KeepsEdits

(* docs/overview.md, Directory lifecycle, "mirrors them onto the local FS  *)
(* so the user sees the same tree on web and on disk": when neither side   *)
(* has anything left to tell, the files are the server's; a file deleted   *)
(* here that others have changed may be a conflict copy instead.  It fails *)
(* where a cursor passed a change that never reached the disk.             *)
MirrorsServer ==
  LET same(p) == At(disk.files, p) = At(tree.files, p)
      aside(p) == /\ p \notin Paths(disk.files)
                  /\ \E x \in copies : x.content = tree.files[p]
      alike(p) == CaseInsensitive /\ Variants(p, Paths(tree.files)) # {}
  IN  Settled => \A p \in FilePaths : same(p) \/ aside(p) \/ alike(p)
(* The same, but for what the defects named leave behind.                  *)
MirrorsServerUnlessFlawed ==
  Unmet({"cascaded", "unfetched", "replayed", "superseded", "renamed",
         "skipped", "replanned", "outranked", "carried", "reordered"}) => MirrorsServer

(* docs/overview.md, 3-way merge: a cycle removes or replaces a file of    *)
(* the server only when this client has synced that very content, or keeps *)
(* a copy of it.  A merged folder delete takes more than that, and so does *)
(* a push after a case-only rename that hid another's change.              *)
Remembered(p, c) == At(rows, p) = c \/ \E x \in copies' : x.content = c
OthersKeptHere ==
  \A p \in {q \in Paths(tree.files) : tree.files[q] > 0} :
    \/ At(tree'.files, p) = tree.files[p]
    \/ \E q \in Paths(tree'.files) \ Paths(tree.files) : tree'.files[q] = tree.files[p]
    \/ Remembered(p, tree.files[p])
OthersKept == [][pc # "idle" => OthersKeptHere]_vars

(* The same, but for these, for a case conflict that hid a plan, and for   *)
(* what a poll has of a file that it moves or whose folder it changes.     *)
OthersKeptUnlessFlawed ==
  [][pc # "idle" /\ Unmet({"cascaded", "superseded", "renamed", "skipped", "reordered"})'
     => OthersKeptHere]_vars

(* case.go, "on case-sensitive local FS, no filtering happens": no cycle   *)
(* deletes on the server a file that is still on this disk.  Walk lists    *)
(* one of two names alike on every file system, and the other, once        *)
(* synced, passes for deleted.                                             *)
DeletesOnlyWhatIsGone ==
  [][pc # "idle" =>
       (Paths(tree.files) \ Paths(tree'.files)) \cap Paths(disk.files) = {}]_vars

(* docs/overview.md, "Concurrent push overwrites": a rejected push becomes *)
(* a conflict and is over.  Left alone, the client has nothing to do after *)
(* three cycles, failed requests and crashes before them included; where a *)
(* file is pushed against a row that can never match it never stops.       *)
Settles == calm = CyclesToSettle /\ pc = "idle" => Settled
(* The same, but for what the defects named leave behind.                  *)
SettlesUnlessFlawed ==
  Unmet({"cascaded", "unfetched", "stranded", "forgotten", "replayed", "superseded",
         "skipped", "replanned", "outranked", "carried", "reordered"}) => Settles
=============================================================================
