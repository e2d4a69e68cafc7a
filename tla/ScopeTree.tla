------------------------------ MODULE ScopeTree ------------------------------
(***************************************************************************)
(* The tree of a server scope, its change log, and the client's operations *)
(* on maps keyed by path (bootstrap.go, dir_events*.go).                   *)
(*                                                                         *)
(* A path is the sequence of its segments, each segment a natural number,  *)
(* so that "has the prefix dir/" is "is strictly below dir" and paths have *)
(* the order of their strings.  A content stands for one revision of a     *)
(* file: its hash, its content version and its revision id.                *)
(***************************************************************************)
EXTENDS Integers, Sequences, FiniteSets, SequencesExt

Root == <<>>
NoContent == 0      \* content of an entry that carries none
NoFiles == [p \in {} |-> NoContent]

Below(p, d) == IsStrictPrefix(d, p)
AtOrBelow(p, d) == IsPrefix(d, p)
Parent(p) == Front(p)
Parents(p) == {SubSeq(p, 1, n) : n \in 1..(Len(p) - 1)}

(* The name p gets when directory from becomes to.                         *)
Rebased(p, from, to) == to \o SubSeq(p, Len(from) + 1, Len(p))

(* sort.Slice by Path.                                                     *)
Precedes(p, q) ==
  \/ IsStrictPrefix(p, q)
  \/ \E n \in 1..Len(p) : /\ n <= Len(q) /\ p[n] < q[n]
                          /\ SubSeq(p, 1, n - 1) = SubSeq(q, 1, n - 1)

(* The elements of s that have an index in I, or pass a test, in order.    *)
Chosen(s, I) ==
  LET upTo[n \in 0..Len(s)] ==
        IF n = 0 THEN <<>>
        ELSE IF n \in I THEN Append(upTo[n - 1], s[n]) ELSE upTo[n - 1]
  IN  upTo[Len(s)]
Where(s, Test(_)) == Chosen(s, {i \in DOMAIN s : Test(s[i])})

-----------------------------------------------------------------------------
(* Maps keyed by path, and sets of directories. *)

Paths(map) == DOMAIN map
Only(map, S) == [p \in Paths(map) \cap S |-> map[p]]
Without(map, S) == [p \in Paths(map) \ S |-> map[p]]
With(map, p, c) == [q \in Paths(map) \cup {p} |-> IF q = p THEN c ELSE map[q]]
Overlaid(map, new) == [p \in Paths(map) \cup Paths(new) |->
                         IF p \in Paths(new) THEN new[p] ELSE map[p]]
LaidOver(map, layers) == FoldLeft(Overlaid, map, layers)

FilesBelow(map, d) == {p \in Paths(map) : Below(p, d)}

At(map, p) == IF p \in Paths(map) THEN map[p] ELSE NoContent
DeletePrefix(map, d) == Without(map, FilesBelow(map, d))
DeleteDirs(dirs, d) == {e \in dirs : ~AtOrBelow(e, d)}

(* A moved entry replaces what the map has under its new name.             *)
RenamePrefix(map, from, to) ==
  LET moved == FilesBelow(map, from)
      new == {Rebased(p, from, to) : p \in moved}
  IN  Overlaid(Without(map, moved),
               [q \in new |-> map[Rebased(q, to, from)]])
RenameDirs(dirs, from, to) ==
  {IF AtOrBelow(d, from) THEN Rebased(d, from, to) ELSE d : d \in dirs}

-----------------------------------------------------------------------------
(* The server: [dirs, files], and types.ChangeEntry as its log has them. *)

Change(act, isDir, before, after, content) ==
  [act |-> act, isDir |-> isDir, before |-> before, after |-> after,
   content |-> content]

FilePut(p, c) == Change("put", FALSE, Root, p, c)
FileDelete(p) == Change("delete", FALSE, p, Root, NoContent)
FileMove(p, q, c) == Change("move", FALSE, p, q, c)
DirMake(d) == Change("mkdir", TRUE, Root, d, NoContent)
DirDelete(d) == Change("delete", TRUE, d, Root, NoContent)
DirMove(d, e) == Change("move", TRUE, d, e, NoContent)
DirPut(d) == Change("put", TRUE, Root, d, NoContent)

IsDirMove(ch) == ch.isDir /\ ch.act = "move"

Exists(tree, p) == p = Root \/ p \in tree.dirs \/ p \in Paths(tree.files)
IsDir(tree, p) == p = Root \/ p \in tree.dirs
Vacant(tree, p) == ~Exists(tree, p) /\ IsDir(tree, Parent(p))

Subtree(tree, d) ==
  [dirs |-> {e \in tree.dirs : AtOrBelow(e, d)},
   files |-> Only(tree.files, FilesBelow(tree.files, d))]
Grafted(tree, sub) ==
  [dirs |-> tree.dirs \cup sub.dirs, files |-> Overlaid(tree.files, sub.files)]
Pruned(tree, d) ==
  [dirs |-> DeleteDirs(tree.dirs, d), files |-> DeletePrefix(tree.files, d)]
Moved(tree, d, e) ==
  [dirs |-> RenameDirs(tree.dirs, d, e), files |-> RenamePrefix(tree.files, d, e)]

(* A tree whose entries all hang together.                                 *)
WellFormed(tree) ==
  /\ tree.dirs \cap Paths(tree.files) = {}
  /\ \A p \in tree.dirs \cup Paths(tree.files) : Parents(p) \subseteq tree.dirs
=============================================================================
