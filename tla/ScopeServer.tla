----------------------------- MODULE ScopeServer -----------------------------
(***************************************************************************)
(* The server as its other clients change it: the tree of the scope, the   *)
(* log that GET /api/v1/changes reads, and the trash a folder can be       *)
(* restored from.  One entry of the log per request: a directory's delete, *)
(* move and restore stand for everything below it (types.ChangeEntry with  *)
(* is_dir; applyChanges and HandleIncrementalDirEvents read them so).      *)
(***************************************************************************)
EXTENDS ScopeTree

CONSTANTS
  DirPaths,    \* the directories that can exist
  FilePaths,   \* the files that can exist
  Trees        \* the trees the server can have at first

ASSUME PathsAssumption ==
  /\ DirPaths \cup FilePaths \subseteq Seq(Nat) \ {Root}
  /\ DirPaths \cap FilePaths = {} /\ IsFiniteSet(DirPaths)
  /\ \A t \in Trees : /\ t \in [dirs : SUBSET DirPaths,
                                files : [Paths(t.files) -> Nat \ {NoContent}]]
                      /\ Paths(t.files) \subseteq FilePaths
                      /\ WellFormed(t)

VARIABLES
  tree,    \* [dirs, files]
  log,     \* the change log; an entry's sequence number is its index
  trash    \* the folder deleted last: [top, sub]

server == <<tree, log, trash>>

OldContent == 1
NewContent == Len(log) + 2
EmptyTrash == [top |-> Root, sub |-> [dirs |-> {}, files |-> NoFiles]]

ServerInit == tree \in Trees /\ log = <<>> /\ trash = EmptyTrash

Answer(ch, new) == tree' = new /\ log' = Append(log, ch)

PutFile(p) ==
  /\ IsDir(tree, Parent(p))
  /\ Answer(FilePut(p, NewContent),
            [tree EXCEPT !.files = With(@, p, NewContent)])
  /\ UNCHANGED trash

DeleteFile(p) ==
  /\ p \in Paths(tree.files)
  /\ Answer(FileDelete(p), [tree EXCEPT !.files = Without(@, {p})])
  /\ UNCHANGED trash

MoveFile(p, q) ==
  /\ p \in Paths(tree.files) /\ Vacant(tree, q)
  /\ Answer(FileMove(p, q, tree.files[p]),
            [tree EXCEPT !.files = With(Without(@, {p}), q, tree.files[p])])
  /\ UNCHANGED trash

MakeDir(d) ==
  /\ Vacant(tree, d)
  /\ Answer(DirMake(d), [tree EXCEPT !.dirs = @ \cup {d}])
  /\ UNCHANGED trash

DeleteDir(d) ==
  /\ d \in tree.dirs
  /\ Answer(DirDelete(d), Pruned(tree, d))
  /\ trash' = [top |-> d, sub |-> Subtree(tree, d)]

MoveDir(d, e) ==
  /\ d \in tree.dirs /\ Vacant(tree, e) /\ ~AtOrBelow(e, d)
  /\ RenameDirs(tree.dirs, d, e) \subseteq DirPaths
  /\ Paths(Moved(tree, d, e).files) \subseteq FilePaths
  /\ Answer(DirMove(d, e), Moved(tree, d, e))
  /\ UNCHANGED trash

RestoreDir ==
  /\ trash # EmptyTrash /\ Vacant(tree, trash.top)
  /\ Answer(DirPut(trash.top), Grafted(tree, trash.sub))
  /\ trash' = EmptyTrash

FileChange ==
  \/ \E p \in FilePaths : PutFile(p) \/ DeleteFile(p)
  \/ \E p, q \in FilePaths : MoveFile(p, q)
DirChange ==
  \/ \E d \in DirPaths : MakeDir(d) \/ DeleteDir(d)
  \/ RestoreDir

(* The changes after the cursor that a poll answers with.                  *)
Since(cursor) == SubSeq(log, cursor + 1, Len(log))

ServerOK == /\ tree.dirs \subseteq DirPaths
            /\ Paths(tree.files) \subseteq FilePaths
            /\ WellFormed(tree)
            /\ trash = EmptyTrash \/ trash.top \in trash.sub.dirs
=============================================================================
