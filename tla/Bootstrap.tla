------------------------------ MODULE Bootstrap ------------------------------
(***************************************************************************)
(* BootstrapWithDirs (internal/sync/bootstrap.go): the map of all remote   *)
(* files and directories, and the cursor it is true at.  The cursor is     *)
(* pinned first; a subtree above the server's cap is listed directory by   *)
(* directory while other clients go on changing it; the changes since the  *)
(* pin are then replayed on the map until a poll brings none.              *)
(***************************************************************************)
EXTENDS ScopeServer

CONSTANTS
  MaxRounds,           \* maxReplayIterations
  MaxChanges,          \* bound: changes other clients make
  MaxFaults,           \* bound: requests that fail
  MovesWhileFetching   \* may a directory move out of what is yet to be fetched?

ASSUME BoundsAssumption ==
  /\ {MaxRounds, MaxChanges, MaxFaults} \subseteq Nat
  /\ MovesWhileFetching \in BOOLEAN

VARIABLES
  pc,        \* "idle", "listing", "replaying", "done", "failed"
  cursor,
  files,     \* remoteFiles
  dirs,      \* dirSet
  todo,      \* directories still to be fetched, in this order
  rounds,    \* polls of the replay so far
  faults

client == <<pc, cursor, files, dirs, todo, rounds>>
vars == <<server, client, faults>>

TypeOK ==
  /\ ServerOK
  /\ pc \in {"idle", "listing", "replaying", "done", "failed"}
  /\ cursor \in 0..Len(log)
  /\ Paths(files) \subseteq FilePaths /\ dirs \subseteq DirPaths
  /\ todo \in Seq({Root} \cup DirPaths)
  /\ pc \in {"idle", "done", "failed"} => todo = <<>>
  /\ rounds \in 0..MaxRounds /\ faults \in 0..MaxFaults

Init ==
  /\ ServerInit
  /\ pc = "idle" /\ cursor = 0 /\ files = NoFiles /\ dirs = {}
  /\ todo = <<>> /\ rounds = 0 /\ faults = 0

-----------------------------------------------------------------------------
(* Mutant: a queued directory keeps its old name.                          *)
Queued_NotMoved(queue, ch) ==
  IF ch.isDir /\ ch.act = "put" THEN Append(queue, ch.after) ELSE queue

(* coalesceDirDelete: the directories of the queue that are still there.   *)
StillThere(queue, d) ==
  FoldLeft(LAMBDA kept, q : IF AtOrBelow(q, d) THEN kept ELSE Append(kept, q),
           <<>>, queue)

(* The dirty queue: a restored directory is fetched, unless it is deleted  *)
(* again, under its new name if it is moved (coalesceDirMove).             *)
Queued(queue, ch) ==
  IF ~ch.isDir THEN queue
  ELSE CASE ch.act = "put"    -> Append(queue, ch.after)
         [] ch.act = "delete" -> StillThere(queue, ch.before)
         [] ch.act = "move"   ->
              [i \in DOMAIN queue |->
                 IF AtOrBelow(queue[i], ch.before)
                 THEN Rebased(queue[i], ch.before, ch.after) ELSE queue[i]]
         [] OTHER             -> queue

Fetching == todo # <<>>

(* A move that would be seen by a fetch and is replayed after it, or takes *)
(* something out of a directory that is in the queue.                      *)
MovesWhatIsFetched(d) ==
  \/ Fetching
  \/ /\ pc = "replaying"
     /\ \E q \in ToSet(FoldLeft(Queued, <<>>, Since(cursor))) : Below(d, q)

OtherClient ==
  /\ Len(log) < MaxChanges
  /\ \/ FileChange
     \/ DirChange
     \/ \E d, e \in DirPaths :
          /\ MoveDir(d, e)
          /\ MovesWhileFetching \/ ~MovesWhatIsFetched(d)
  /\ UNCHANGED <<client, faults>>

-----------------------------------------------------------------------------
(* LatestCursor.                                                           *)
Pin ==
  /\ pc \in {"idle", "done", "failed"}
  /\ pc' = "listing"
  /\ cursor' = Len(log)
  /\ files' = NoFiles /\ dirs' = {} /\ todo' = <<Root>> /\ rounds' = 0
  /\ UNCHANGED <<server, faults>>

Listed == pc' = IF todo' = <<>> THEN "replaying" ELSE pc

(* The whole subtree in one answer of the server; d itself is live too.    *)
Snapshot(d, rest) ==
  LET sub == Subtree(tree, d)
  IN  /\ files' = Overlaid(files, sub.files)
      /\ dirs' = dirs \cup sub.dirs \cup ({d} \ {Root})
      /\ todo' = rest

(* The files of one directory; its subdirectories come next, each with     *)
(* all that is below it, in the order the server lists them.               *)
ListDir(d, rest) ==
  LET children == {e \in tree.dirs : Parent(e) = d}
      here == {p \in Paths(tree.files) : Parent(p) = d}
  IN  /\ files' = Overlaid(files, Only(tree.files, here))
      /\ dirs' = dirs \cup children \cup ({d} \ {Root})
      /\ \E order \in SetToSeqs(children) : todo' = order \o rest

(* Mutant: a directory that is gone is tried again.                        *)
Fetch_Retries404 ==
  LET d == Head(todo)
      rest == Tail(todo)
  IN  /\ Fetching
      /\ IF ~IsDir(tree, d)
         THEN UNCHANGED <<todo, files, dirs>>
         ELSE Snapshot(d, rest) \/ ListDir(d, rest)
      /\ Listed
      /\ UNCHANGED <<server, cursor, rounds, faults>>

(* FetchRemoteMapWithDirs, for the scope root, for a subdirectory of a     *)
(* listing, and for an entry of the dirty queue: 413 falls back to a       *)
(* listing, 404 leaves the directory out.  The cap is in the hundred       *)
(* thousands of entries that a small tree stands for, so either answer of  *)
(* the server is possible.                                                 *)
Fetch ==
  LET d == Head(todo)
      rest == Tail(todo)
  IN  /\ Fetching
      /\ IF ~IsDir(tree, d)
         THEN todo' = rest /\ UNCHANGED <<files, dirs>>
         ELSE Snapshot(d, rest) \/ ListDir(d, rest)
      /\ Listed
      /\ UNCHANGED <<server, cursor, rounds, faults>>

-----------------------------------------------------------------------------
(* The replay. *)

(* Mutant: renamePrefixInMap without its TrimPrefix, a moved directory's   *)
(* files keep their old name below the new one.                            *)
Applied_Untrimmed(map, ch) ==
  LET moved == FilesBelow(map, ch.before)
      untrimmed == [q \in {ch.after \o p : p \in moved} |->
                      map[SubSeq(q, Len(ch.after) + 1, Len(q))]]
  IN  IF ch.isDir
      THEN CASE ch.act = "delete" -> DeletePrefix(map, ch.before)
             [] ch.act = "move"   -> Overlaid(Without(map, moved), untrimmed)
             [] OTHER             -> map
      ELSE CASE ch.act = "put"    -> With(map, ch.after, ch.content)
             [] ch.act = "delete" -> Without(map, {ch.before})
             [] OTHER -> With(Without(map, {ch.before}), ch.after, ch.content)

(* applyChanges on the file map.                                           *)
Applied(map, ch) ==
  IF ch.isDir
  THEN CASE ch.act = "delete" -> DeletePrefix(map, ch.before)
         [] ch.act = "move"   -> RenamePrefix(map, ch.before, ch.after)
         [] OTHER             -> map
  ELSE CASE ch.act = "put"    -> With(map, ch.after, ch.content)
         [] ch.act = "delete" -> Without(map, {ch.before})
         [] OTHER -> With(Without(map, {ch.before}), ch.after, ch.content)

(* applyDirChanges on the set of directories.                              *)
AppliedToDirs(set, ch) ==
  IF ~ch.isDir THEN set
  ELSE CASE ch.act = "mkdir"  -> set \cup {ch.after}
         [] ch.act = "delete" -> DeleteDirs(set, ch.before)
         [] ch.act = "move"   -> RenameDirs(set, ch.before, ch.after)
         [] OTHER             -> set

(* One iteration of replayUntilConvergedWithDirs up to the draining of the *)
(* queue, which Fetch does.                                                *)
Poll ==
  LET changes == Since(cursor)
  IN  /\ pc = "replaying" /\ ~Fetching
      /\ rounds < MaxRounds
      /\ cursor' = Len(log)
      /\ rounds' = rounds + 1
      /\ files' = FoldLeft(Applied, files, changes)
      /\ dirs' = FoldLeft(AppliedToDirs, dirs, changes)
      /\ todo' = FoldLeft(Queued, <<>>, changes)
      /\ pc' = IF changes = <<>> THEN "done" ELSE "replaying"
      /\ UNCHANGED <<server, faults>>

Fail == pc' = "failed" /\ todo' = <<>> /\ UNCHANGED <<cursor, files, dirs, rounds>>

(* "delta replay did not converge".                                        *)
GiveUp ==
  /\ pc = "replaying" /\ ~Fetching /\ rounds = MaxRounds
  /\ Fail
  /\ UNCHANGED <<server, faults>>

(* Any request fails: the error reaches the caller, which drops the map.   *)
RequestFails ==
  /\ pc \in {"listing", "replaying"}
  /\ faults < MaxFaults /\ faults' = faults + 1
  /\ Fail
  /\ UNCHANGED server

Step == Fetch \/ Poll \/ GiveUp
Next == OtherClient \/ Pin \/ Step \/ RequestFails

Spec == Init /\ [][Next]_vars /\ WF_vars(Step)

-----------------------------------------------------------------------------
(* Properties *)

(* docs/overview.md, "Large subtree (>100k) blowing up snapshot": listing, *)
(* pinned cursor and replay together are one atomic snapshot: the map that *)
(* is handed to the caller is the server's tree at the moment of the last  *)
(* poll, the cursor the end of its log.                                    *)
Result == IF pc = "done" THEN [dirs |-> dirs, files |-> files, cursor |-> cursor]
          ELSE [dirs |-> {}, files |-> NoFiles, cursor |-> 0]
Atomic == INSTANCE AtomicSnapshot WITH taken <- pc = "done", result <- Result
TakesAtomicSnapshot == Atomic!Spec

(* A bootstrap that is started ends, with a map or with an error: also     *)
(* while other clients keep changing the scope.                            *)
Ends == (pc = "listing") ~> (pc \in {"done", "failed"})
=============================================================================
