--------------------------- MODULE DirCycleProofs ---------------------------
(***************************************************************************)
(* Proofs about DirCycle, for any paths and bounds: its type invariant;    *)
(* that no edit of the user is lost but where the model says so; and that  *)
(* no cycle deletes on the server a file that is still on this disk.       *)
(***************************************************************************)
EXTENDS DirCycle, ScopeTheorems

-----------------------------------------------------------------------------
(* The invariants. *)

(* What is not lost with the disk: contents of the others, and those of    *)
(* the user that have been on the server.                                  *)
KnownFrom(l) == (Nat \cup {l[i].content : i \in DOMAIN l}) \ {NoContent}
Known == KnownFrom(log)

(* A map has only contents of K.                                           *)
Holds(map, K) == \A p \in Paths(map) : map[p] \in K

(* An entry of the log names paths of the scope.                           *)
EventOK(ch) ==
  IF ch.isDir
  THEN /\ ch.act \in {"mkdir", "put", "move"} => ch.after \in DirPaths
       /\ ch.act \in {"delete", "move"} => ch.before \in DirPaths
       /\ ch.act = "move" => Fits(ch.before, ch.after)
  ELSE /\ {ch.before, ch.after} \subseteq FilePaths \cup {Root}
       /\ ch.act = "move" => Root \notin {ch.before, ch.after}
       /\ ch.act \in {"put", "move"} => ch.content # NoContent
Events(K) == {ch \in Entries : EventOK(ch) /\ ch.content \in K \cup {NoContent}}
DirEvents(K) == {ch \in Events(K) : ch.isDir}

LogOK(l) == l \in Seq(Entries) /\ l \in Seq(Events(KnownFrom(l)))

ServerInv ==
  /\ ServerTyped
  /\ LogOK(log)
  /\ Holds(tree.files, Known) /\ Holds(trash.sub.files, Known)

(* Paths that open one file.                                               *)
Alike(p, q) == p = q \/ (CaseInsensitive /\ SameFold(p, q))
Twinless(files) == \A p, q \in Paths(files) : Alike(p, q) => p = q

DiskInv ==
  /\ TreeOK(disk) /\ Holds(disk.files, Int \ {NoContent})
  /\ Twinless(disk.files)
  /\ \A c \in copies : c.dir \in disk.dirs \cup {Root}

RowsOK(map, K) == Paths(map) \subseteq FilePaths /\ \A p \in Paths(map) : map[p].hash \in K

Counts == [edits : Nat, changes : Nat, mishaps : Nat]

StateInv ==
  /\ RowsOK(archive, Known) /\ RowsOK(saved.archive, Known)
  /\ saved.cursor \in 0..Len(log) /\ cursor \in saved.cursor..Len(log)
  /\ pushed \cup saved.pushed \subseteq DOMAIN log
  /\ pc \in {"idle", "dir_events", "executing"}
  /\ pc = "idle" => outcome = NoOutcome /\ batch = <<>> /\ ~failed
  /\ pc # "executing" => plans = NoPlans
  /\ target \in 0..Len(log) /\ (pc # "idle" => cursor <= target)
  /\ flaws \subseteq Flaws /\ used \in Counts

(* What the plan pl for p is made of.                                      *)
PlanOK(p, pl, K) ==
  /\ p \in FilePaths \cup DirPaths
  /\ pl \in [act : PlanActs \ {"none"}, from : FilePaths \cup {Root},
             content : K \cup {NoContent}]
  /\ pl.act = "pull" => pl.content # NoContent

(* Subtrees of the server, as they were fetched.                           *)
Snaps(K) == {s \in [prefix : DirPaths, sub : [dirs : SUBSET DirPaths, files : Map]] :
               Paths(s.sub.files) \subseteq FilePaths /\ Holds(s.sub.files, K)}

(* The actions that directory events plan, and all but those of merging.   *)
WalkActs == {"preserve", "rmdir", "delete_local"}
Unmerged == PlanActs \ {"none", "move", "skip", "delete_remote_dir"}

CycleInv ==
  /\ Paths(scan) \subseteq FilePaths
  /\ batch \in Seq(Events(Known)) /\ dirEvents \in Seq(DirEvents(Known))
  /\ outcome \in [walk : {outcome.walk}, snaps : Seq(Snaps(Known)), changed : BOOLEAN]
  /\ \A p \in Paths(outcome.walk) :
       PlanOK(p, outcome.walk[p], Known) /\ outcome.walk[p].act \in WalkActs
  /\ \A p \in Paths(plans) : PlanOK(p, plans[p], Known)

(* A file to be renamed on the server has a row, and no other plan.        *)
MovesOK(m, map) ==
  \A p \in PlansOf(m, "move") :
    LET from == m[p].from
    IN  /\ from \in Paths(map) \ Paths(m)
        /\ \A q \in Paths(m) \ {p} : m[q].act \in {"move", "move_apply"} => m[q].from # from
        /\ \A d \in PlansOf(m, "delete_remote_dir") : ~Below(from, d)

TypeInv == ServerInv /\ DiskInv /\ StateInv /\ CycleInv /\ MovesOK(plans, archive)

-----------------------------------------------------------------------------
(* Compare sees every file there is.                                       *)
Clear == CaseInsensitive \/ \A p, q \in FilePaths : SameFold(p, q) => p = q

(* The map has all files, as they are.                                     *)
Mirror(map, files) == Paths(map) = Paths(files) /\ \A p \in Paths(files) : map[p] = files[p]

(* What p opens can be had elsewhere.                                      *)
Safe(p, files, K) == \A q \in Paths(files) : Alike(p, q) => files[q] \in K

(* Kept, of an edit.                                                       *)
Saved(c, files, C, K) == \/ c \in Contents(files)
                         \/ \E x \in C : x.content = c
                         \/ c \in K

Planning(w, files, K) ==
  \A p \in PlansOf(w, "delete_local") : p \in Paths(files) => files[p] \in K
Executing(m, files, K, F) ==
  /\ "replanned" \notin F => \A p \in PlansOf(m, "delete_local") : Safe(p, files, K)
  /\ \A p \in PlansOf(m, "move_apply") : Safe(m[p].from, files, K)
Keeping(E, files, C, K, F) ==
  /\ \A c \in E : c \in Int /\ c < 0
  /\ F \cap {"overwritten", "replanned"} = {} => \A c \in E : Saved(c, files, C, K)

SafeInv ==
  /\ pc = "dir_events" =>
       /\ ~outcome.changed => Mirror(scan, disk.files)
       /\ "replanned" \notin flaws => Planning(outcome.walk, disk.files, Known)
  /\ pc = "executing" => Executing(plans, disk.files, Known, flaws)
  /\ Keeping(edits, disk.files, copies, Known, flaws)

(* What is deleted on the server is not here any more.                     *)
Gone(m, files) ==
  /\ \A p \in PlansOf(m, "delete_remote") : p \notin Paths(files)
  /\ \A p \in PlansOf(m, "move") : m[p].from \notin Paths(files)
  /\ \A d \in PlansOf(m, "delete_remote_dir") : FilesBelow(files, d) = {}

GoneInv == pc = "executing" => Gone(plans, disk.files)

-----------------------------------------------------------------------------
(* Paths, maps and trees. *)

(* The parents of a path of the model are directories of the model.        *)
LEMMA ParentsFit ==
  ASSUME NEW p \in DirPaths \cup FilePaths
  PROVE  /\ p \in Names /\ p # Root
         /\ Parents(p) \subseteq DirPaths
         /\ \A q \in Parents(p) : q \in Names /\ Parents(q) \subseteq Parents(p)
         /\ Parent(p) \in Parents(p) \cup {Root}
<1>1. p \in Names /\ p # Root
  BY PathsAreNames
<1>2. Parents(p) \subseteq DirPaths
  BY BoundsAssumption
<1>3. ASSUME NEW q \in Parents(p)
      PROVE  q \in Names /\ Parents(q) \subseteq Parents(p)
  <2>1. q \in Names /\ q \in DirPaths
    BY <1>2, PathsAreNames
  <2>2. Parents(q) \subseteq DirPaths
    BY <2>1, BoundsAssumption
  <2>3. ASSUME NEW d \in Parents(q)
        PROVE  d \in Parents(p)
    <3>1. d \in Names
      BY <2>2, PathsAreNames
    <3>2. Below(q, d) /\ d # Root /\ Below(p, q)
      BY <1>1, <2>1, <3>1, ParentsAre
    <3>3. AtOrBelow(p, q)
      BY <1>1, <2>1, <3>2, BelowMeans
    <3>4. Below(p, d)
      BY <1>1, <2>1, <3>1, <3>2, <3>3, BelowStrictly
    <3> QED
      BY <1>1, <3>1, <3>2, <3>4, ParentsAre
  <2> QED
    BY <2>1, <2>3
<1>4. Parent(p) \in Parents(p) \cup {Root}
  <2>1. Parent(p) \in Names /\ Below(p, Parent(p))
    BY <1>1, ParentAbove
  <2> QED
    BY <1>1, <2>1, ParentsAre
<1> QED
  BY <1>1, <1>2, <1>3, <1>4

(* A tree with more directories, whose parents it has too.                 *)
LEMMA MoreDirsOK ==
  ASSUME NEW t, TreeOK(t), NEW D \in SUBSET DirPaths,
         \A d \in D : Parents(d) \subseteq t.dirs \cup D
  PROVE  TreeOK([dirs |-> t.dirs \cup D, files |-> t.files])
<1>1. (t.dirs \cup D) \cap Paths(t.files) = {}
  BY PathsAreNames DEF TreeOK
<1>2. \A p \in t.dirs \cup D \cup Paths(t.files) : Parents(p) \subseteq t.dirs \cup D
  BY DEF TreeOK, WellFormed
<1> QED
  BY <1>1, <1>2 DEF TreeOK, WellFormed

(* A tree with a file more, and the directories that file needs.           *)
LEMMA WithFileOK ==
  ASSUME NEW t, TreeOK(t), NEW p \in FilePaths, NEW c \in Int
  PROVE  /\ TreeOK(WithFile(t, p, c))
         /\ WithFile(t, p, c).dirs = t.dirs \cup Parents(p)
         /\ WithFile(t, p, c).files = With(t.files, p, c)
<1>1. p \in Names /\ Parents(p) \subseteq DirPaths
      /\ \A q \in Parents(p) : Parents(q) \subseteq Parents(p)
  BY ParentsFit
<1>2. PICK m : m = With(t.files, p, c)
  OBVIOUS
<1>3. m \in Map /\ Paths(m) = Paths(t.files) \cup {p}
  BY <1>1, <1>2, WithIs DEF TreeOK
<1>4. (t.dirs \cup Parents(p)) \cap Paths(m) = {}
  BY <1>1, <1>3, PathsAreNames DEF TreeOK
<1>5. \A q \in t.dirs \cup Parents(p) \cup Paths(m) : Parents(q) \subseteq t.dirs \cup Parents(p)
  BY <1>1, <1>3 DEF TreeOK, WellFormed
<1>6. TreeOK([dirs |-> t.dirs \cup Parents(p), files |-> m])
  BY <1>1, <1>3, <1>4, <1>5 DEF TreeOK, WellFormed
<1> QED
  BY <1>2, <1>6 DEF WithFile

(* The contents of a map of which a directory has been renamed.            *)
LEMMA RenamedHolds ==
  ASSUME NEW m \in Map, NEW K, Holds(m, K), NEW d \in Names, NEW e \in Names
  PROVE  Holds(RenamePrefix(m, d, e), K)
<1>1. PICK r : r = RenamePrefix(m, d, e)
  OBVIOUS
<1>2. /\ r \in Map
      /\ \A q \in Names : ~Below(q, d) /\ ~Below(q, e) => Same(r, m, q)
      /\ \A q \in Names : Below(q, d) /\ ~Below(q, e) => q \notin Paths(r)
      /\ \A q \in Names : Below(q, e) =>
           IF Rebased(q, e, d) \in Paths(m)
           THEN q \in Paths(r) /\ r[q] = m[Rebased(q, e, d)]
           ELSE ~Below(q, d) => Same(r, m, q)
  BY <1>1, RenamePrefixIs
<1>3. ASSUME NEW q \in Paths(r)
      PROVE  r[q] \in K
  <2>1. q \in Names
    BY <1>2, MapIs
  <2>2. CASE Below(q, e) /\ Rebased(q, e, d) \in Paths(m)
    BY <1>2, <2>1, <2>2 DEF Holds
  <2>3. CASE Below(q, e) /\ Rebased(q, e, d) \notin Paths(m) /\ Below(q, d)
    <3>1. PICK moved : moved = FilesBelow(m, d)
      OBVIOUS
    <3>2. PICK new : new = {Rebased(p, d, e) : p \in moved}
      OBVIOUS
    <3>3. q \notin new
      <4>1. \A p \in moved : p \in Names /\ AtOrBelow(p, d) /\ p \in Paths(m)
        BY <3>1, MapIs, BelowMeans DEF FilesBelow
      <4>2. \A p \in moved : Rebased(Rebased(p, d, e), e, d) = p
        BY <4>1, RebasedIs
      <4> QED
        BY <2>3, <3>2, <4>1, <4>2
    <3>4. q \notin Paths(m) \ moved
      BY <2>3, <3>1 DEF FilesBelow
    <3>5. Paths(r) = (Paths(m) \ moved) \cup new
      BY <1>1, <3>1, <3>2 DEF RenamePrefix, Overlaid, Without, Paths
    <3> QED
      BY <3>3, <3>4, <3>5
  <2>4. CASE ~Below(q, e) \/ (Rebased(q, e, d) \notin Paths(m) /\ ~Below(q, d))
    <3>1. Same(r, m, q)
      BY <1>2, <1>3, <2>1, <2>4
    <3> QED
      BY <1>3, <3>1 DEF Same, Holds
  <2> QED
    BY <2>2, <2>3, <2>4
<1> QED
  BY <1>1, <1>3 DEF Holds

-----------------------------------------------------------------------------
(* The file a path opens. *)

(* It is the file of that name, or of one like it.                         *)
LEMMA EntryIs ==
  ASSUME NEW p
  PROVE  /\ \/ Entry(p) = p
            \/ CaseInsensitive /\ Entry(p) \in Paths(disk.files) /\ SameFold(p, Entry(p))
         /\ Alike(p, Entry(p))
         /\ Twinless(disk.files) =>
              \A q \in Paths(disk.files) : Alike(p, q) <=> q = Entry(p)
<1>1. PICK S : S = IF CaseInsensitive THEN Variants(p, Paths(disk.files)) ELSE {}
  OBVIOUS
<1>2. Entry(p) = IF S = {} THEN p ELSE CHOOSE q \in S : TRUE
  BY <1>1 DEF Entry
<1>3. \A q : q \in S <=> CaseInsensitive /\ q \in Paths(disk.files) /\ q # p /\ SameFold(p, q)
  BY <1>1 DEF Variants
<1>4. S # {} => Entry(p) \in S
  BY <1>2
<1>5. S = {} => Entry(p) = p
  BY <1>2
<1>6. \/ Entry(p) = p
      \/ CaseInsensitive /\ Entry(p) \in Paths(disk.files) /\ SameFold(p, Entry(p))
  BY <1>3, <1>4, <1>5
<1>7. Alike(p, Entry(p))
  BY <1>6 DEF Alike
<1>8. ASSUME Twinless(disk.files), NEW q \in Paths(disk.files), Alike(p, q)
      PROVE  q = Entry(p)
  <2>1. CASE q = p
    <3>1. S = {}
      BY <1>3, <1>8, <2>1 DEF Twinless, Alike
    <3> QED
      BY <1>5, <2>1, <3>1
  <2>2. CASE q # p
    <3>1. q \in S
      BY <1>3, <1>8, <2>2 DEF Alike
    <3>2. Entry(p) \in S
      BY <1>4, <3>1
    <3>3. Alike(q, Entry(p)) /\ Entry(p) \in Paths(disk.files)
      BY <1>3, <3>1, <3>2 DEF Alike, SameFold
    <3> QED
      BY <1>8, <3>3 DEF Twinless
  <2> QED
    BY <2>1, <2>2
<1> QED
  BY <1>6, <1>7, <1>8

(* What a path opens has a content, or is not there.                       *)
LEMMA MineIs ==
  ASSUME NEW p, Mine(p) # NoContent
  PROVE  Entry(p) \in Paths(disk.files) /\ Mine(p) = disk.files[Entry(p)]
BY DEF Mine, At

-----------------------------------------------------------------------------
(* The server. *)

(* What is known stays known.                                              *)
Remembers == Known \subseteq Known' /\ Len(log') \in Nat /\ Len(log) <= Len(log')

(* What is known are contents.                                             *)
LEMMA KnownTyped ==
  ASSUME ServerInv
  PROVE  /\ Known \subseteq Int \ {NoContent}
         /\ \A c \in Nat : c # NoContent => c \in Known
         /\ \A i \in DOMAIN log : log[i].content # NoContent => log[i].content \in Known
<1>1. \A i \in DOMAIN log : log[i] \in Entries
  BY DEF ServerInv, LogOK
<1>2. \A i \in DOMAIN log : log[i].content \in Int
  BY <1>1 DEF Entries
<1> QED
  BY <1>2 DEF Known, KnownFrom

(* The same entries, where more is known.                                  *)
LEMMA EventsGrow ==
  ASSUME NEW K, NEW L, K \subseteq L
  PROVE  /\ Events(K) \subseteq Events(L) /\ DirEvents(K) \subseteq DirEvents(L)
         /\ \A s : s \in Seq(Events(K)) => s \in Seq(Events(L))
         /\ \A s : s \in Seq(DirEvents(K)) => s \in Seq(DirEvents(L))
<1>1. Events(K) \subseteq Events(L) /\ DirEvents(K) \subseteq DirEvents(L)
  BY DEF Events, DirEvents
<1>2. ASSUME NEW A, NEW B, A \subseteq B, NEW s \in Seq(A)
      PROVE  s \in Seq(B)
  <2>1. \A i \in 1..Len(s) : s[i] \in B
    BY <1>2
  <2> QED
    BY <1>2, <2>1
<1> QED
  BY <1>1, <1>2

(* More entries at the end of the log.                                     *)
LEMMA LogConcat ==
  ASSUME NEW l, LogOK(l), NEW x \in Seq(Entries), \A i \in 1..Len(x) : EventOK(x[i])
  PROVE  /\ LogOK(l \o x) /\ KnownFrom(l) \subseteq KnownFrom(l \o x)
         /\ Len(l) \in Nat /\ Len(x) \in Nat /\ Len(l \o x) = Len(l) + Len(x)
<1>0. PICK y \in Seq(Entries) : y = l \o x
  BY ConcatProperties DEF LogOK
<1>1. PICK n \in Nat, k \in Nat : n = Len(l) /\ k = Len(x) /\ DOMAIN l = 1..n /\ DOMAIN x = 1..k
  BY DEF LogOK
<1>2. /\ Len(y) = n + k /\ DOMAIN y = 1..(n + k)
      /\ \A i \in 1..(n + k) : y[i] = IF i <= n THEN l[i] ELSE x[i - n]
  BY <1>0, <1>1, ConcatProperties DEF LogOK
<1>3. \A i \in 1..n : i \in 1..(n + k) /\ y[i] = l[i]
  BY <1>2
<1>4. ASSUME NEW i \in 1..k
      PROVE  n + i \in 1..(n + k) /\ y[n + i] = x[i]
  <2>1. n + i \in 1..(n + k) /\ ~(n + i <= n) /\ (n + i) - n = i
    OBVIOUS
  <2> QED
    BY <1>2, <2>1
<1>5. KnownFrom(l) \subseteq KnownFrom(y)
  BY <1>1, <1>2, <1>3 DEF KnownFrom
<1>6. ASSUME NEW i \in 1..k
      PROVE  x[i] \in Events(KnownFrom(y))
  <2>1. x[i] \in Entries /\ EventOK(x[i])
    BY <1>1
  <2>2. x[i].content # NoContent => x[i].content \in KnownFrom(y)
    BY <1>2, <1>4 DEF KnownFrom
  <2> QED
    BY <2>1, <2>2 DEF Events
<1>7. ASSUME NEW i \in 1..(n + k)
      PROVE  y[i] \in Events(KnownFrom(y))
  <2>1. CASE i <= n
    <3>1. i \in 1..n
      BY <2>1
    <3>2. l[i] \in Events(KnownFrom(l))
      BY <1>1, <3>1 DEF LogOK
    <3> QED
      BY <1>3, <1>5, <3>1, <3>2, EventsGrow
  <2>2. CASE i > n
    <3>1. i - n \in 1..k /\ y[i] = x[i - n]
      BY <1>2, <2>2
    <3> QED
      BY <1>6, <3>1
  <2> QED
    BY <2>1, <2>2
<1>8. y \in Seq(Events(KnownFrom(y)))
  BY <1>2, <1>7
<1> QED
  BY <1>0, <1>1, <1>2, <1>5, <1>8 DEF LogOK

(* One more entry.                                                         *)
LEMMA LogAppend ==
  ASSUME NEW l, LogOK(l), NEW ch \in Entries, EventOK(ch)
  PROVE  /\ LogOK(Append(l, ch)) /\ KnownFrom(l) \subseteq KnownFrom(Append(l, ch))
         /\ ch.content # NoContent => ch.content \in KnownFrom(Append(l, ch))
         /\ Len(l) \in Nat /\ Len(Append(l, ch)) = Len(l) + 1
<1>0. PICK y \in Seq(Entries) : y = Append(l, ch)
  BY AppendProperties DEF LogOK
<1>1. PICK n \in Nat : n = Len(l) /\ DOMAIN l = 1..n
  BY DEF LogOK
<1>2. /\ Len(y) = n + 1 /\ DOMAIN y = 1..(n + 1)
      /\ \A i \in 1..n : y[i] = l[i]
      /\ y[n + 1] = ch
  BY <1>0, <1>1, AppendProperties DEF LogOK
<1>3. \A i \in 1..n : i \in 1..(n + 1)
  OBVIOUS
<1>4. n + 1 \in 1..(n + 1)
  OBVIOUS
<1>5. KnownFrom(l) \subseteq KnownFrom(y)
  BY <1>1, <1>2, <1>3 DEF KnownFrom
<1>6. ch.content # NoContent => ch.content \in KnownFrom(y)
  BY <1>2, <1>4 DEF KnownFrom
<1>7. ASSUME NEW i \in 1..(n + 1)
      PROVE  y[i] \in Events(KnownFrom(y))
  <2>1. CASE i \in 1..n
    <3>2. l[i] \in Events(KnownFrom(l))
      BY <1>1, <2>1 DEF LogOK
    <3> QED
      BY <1>2, <1>5, <2>1, <3>2, EventsGrow
  <2>2. CASE i = n + 1
    BY <1>2, <1>6, <2>2 DEF Events
  <2> QED
    BY <2>1, <2>2
<1>8. y \in Seq(Events(KnownFrom(y)))
  BY <1>2, <1>7
<1> QED
  BY <1>0, <1>1, <1>2, <1>5, <1>6, <1>8 DEF LogOK

(* The same for the log of the server.                                     *)
LEMMA LogAppended ==
  ASSUME ServerInv, NEW ch \in Entries, log' = Append(log, ch), EventOK(ch)
  PROVE  /\ Remembers /\ LogOK(log')
         /\ ch.content # NoContent => ch.content \in Known'
<1>1. LogOK(log)
  BY DEF ServerInv
<1>2. /\ LogOK(Append(log, ch)) /\ KnownFrom(log) \subseteq KnownFrom(Append(log, ch))
      /\ ch.content # NoContent => ch.content \in KnownFrom(Append(log, ch))
      /\ Len(log) \in Nat /\ Len(Append(log, ch)) = Len(log) + 1
  BY <1>1, LogAppend
<1>3. Known = KnownFrom(log) /\ Known' = KnownFrom(log')
  BY DEF Known
<1> QED
  BY <1>2, <1>3 DEF Remembers

(* Every change to a file or a directory keeps the server's part.          *)
LEMMA FileChangeKeeps ==
  ASSUME ServerInv, FileChange
  PROVE  ServerInv' /\ Remembers
<1>1. ServerTyped'
  BY EachFileChange DEF ServerInv
<1>2. /\ tree.files \in Map /\ Paths(tree.files) \subseteq FilePaths
      /\ Holds(tree.files, Known) /\ Holds(trash.sub.files, Known) /\ TreeOK(tree)
  BY DEF ServerInv, ServerTyped, TreeOK
<1>3. ASSUME Remembers, LogOK(log'), Holds(tree'.files, Known'),
             trash' = trash
      PROVE  ServerInv' /\ Remembers
  <2>1. Holds(trash'.sub.files, Known')
    BY <1>2, <1>3 DEF Holds, Remembers
  <2> QED
    BY <1>1, <1>3, <2>1 DEF ServerInv
<1>4. ASSUME NEW p \in FilePaths, PutFile(p)
      PROVE  ServerInv' /\ Remembers
  <2>0. NewContent \in Int /\ NewContent # NoContent
    <3>1. Len(log) \in Nat
      BY DEF ServerInv, LogOK
    <3> QED
      BY <3>1 DEF NewContent, NoContent
  <2>1. /\ log' = Append(log, FilePut(p, NewContent)) /\ trash' = trash
        /\ tree' = [tree EXCEPT !.files = With(@, p, NewContent)]
    BY <1>4 DEF PutFile, Answer
  <2>2. /\ FilePut(p, NewContent) \in Entries /\ EventOK(FilePut(p, NewContent))
        /\ FilePut(p, NewContent).content = NewContent
    <3>1. p \in Names /\ p # Root /\ Root \in Names
      BY PathsAreNames, RootAbove
    <3>2. FilePut(p, NewContent) \in Entries
      BY <2>0, <3>1, EntryTyped DEF FilePut
    <3> QED
      BY <2>0, <3>1, <3>2 DEF FilePut, Change, EventOK
  <2>3. Remembers /\ LogOK(log') /\ NewContent \in Known'
    BY <2>0, <2>1, <2>2, LogAppended
  <2>4. tree'.files = With(tree.files, p, NewContent)
    BY <1>2, <2>1, TreeParts
  <2>5. Holds(tree'.files, Known')
    BY <1>2, <2>3, <2>4 DEF Holds, With, Paths, Remembers
  <2> QED
    BY <1>3, <2>1, <2>3, <2>5
<1>5. ASSUME NEW p \in FilePaths, DeleteFile(p)
      PROVE  ServerInv' /\ Remembers
  <2>1. /\ log' = Append(log, FileDelete(p)) /\ trash' = trash
        /\ tree' = [tree EXCEPT !.files = Without(@, {p})]
    BY <1>5 DEF DeleteFile, Answer
  <2>2. FileDelete(p) \in Entries /\ EventOK(FileDelete(p))
    <3>1. p \in Names /\ Root \in Names /\ NoContent \in Int
      BY PathsAreNames, RootAbove DEF NoContent
    <3> QED
      BY <3>1, EntryTyped DEF FileDelete, Change, EventOK
  <2>3. Remembers /\ LogOK(log')
    BY <2>1, <2>2, LogAppended
  <2>4. tree'.files = Without(tree.files, {p})
    BY <1>2, <2>1, TreeParts
  <2>5. Holds(tree'.files, Known')
    BY <1>2, <2>3, <2>4 DEF Holds, Without, Paths, Remembers
  <2> QED
    BY <1>3, <2>1, <2>3, <2>5
<1>6. ASSUME NEW p \in FilePaths, NEW q \in FilePaths, MoveFile(p, q)
      PROVE  ServerInv' /\ Remembers
  <2>0. PICK c \in Int : c = tree.files[p] /\ c # NoContent /\ c \in Known
    BY <1>2, <1>6, KnownTyped DEF MoveFile, Holds
  <2>1. /\ log' = Append(log, FileMove(p, q, c)) /\ trash' = trash
        /\ tree' = [tree EXCEPT !.files = With(Without(@, {p}), q, c)]
    BY <1>6, <2>0 DEF MoveFile, Answer
  <2>2. FileMove(p, q, c) \in Entries /\ EventOK(FileMove(p, q, c))
    <3>1. p \in Names /\ q \in Names /\ p # Root /\ q # Root
      BY PathsAreNames
    <3> QED
      BY <2>0, <3>1, EntryTyped DEF FileMove, Change, EventOK
  <2>3. Remembers /\ LogOK(log')
    BY <2>1, <2>2, LogAppended
  <2>4. tree'.files = With(Without(tree.files, {p}), q, c)
    BY <1>2, <2>1, TreeParts
  <2>5. Holds(tree'.files, Known')
    BY <1>2, <2>0, <2>3, <2>4 DEF Holds, Without, With, Paths, Remembers
  <2> QED
    BY <1>3, <2>1, <2>3, <2>5
<1> QED
  BY <1>4, <1>5, <1>6 DEF FileChange

(* The same for directories, which may be moved where all of them fits.    *)
LEMMA DirChangeKeeps ==
  ASSUME ServerInv,
         DirChange \/ \E d, e \in DirPaths : Fits(d, e) /\ MoveDir(d, e)
  PROVE  ServerInv' /\ Remembers
<1>1. ServerTyped'
  BY EachDirChange, EachMove DEF ServerInv
<1>2. /\ tree.files \in Map /\ Paths(tree.files) \subseteq FilePaths
      /\ Holds(tree.files, Known) /\ Holds(trash.sub.files, Known) /\ TreeOK(tree)
      /\ trash = EmptyTrash \/ Restorable(trash)
  BY DEF ServerInv, ServerTyped, TreeOK
<1>3. ASSUME NEW ch \in Entries, EventOK(ch), log' = Append(log, ch),
             Holds(tree'.files, Known), Holds(trash'.sub.files, Known)
      PROVE  ServerInv' /\ Remembers
  <2>1. Remembers /\ LogOK(log')
    BY <1>3, LogAppended
  <2>2. Holds(tree'.files, Known') /\ Holds(trash'.sub.files, Known')
    BY <1>3, <2>1 DEF Holds, Remembers
  <2> QED
    BY <1>1, <2>1, <2>2 DEF ServerInv
<1>4. Root \in Names /\ NoContent \in Int /\ DirPaths \subseteq Names
  BY PathsAreNames, EmptySeq DEF NoContent, Root, Names
<1>5. ASSUME NEW d \in DirPaths, MakeDir(d)
      PROVE  ServerInv' /\ Remembers
  <2>1. DirMake(d) \in Entries /\ EventOK(DirMake(d))
    BY <1>4, EntryTyped DEF DirMake, Change, EventOK
  <2>2. tree'.files = tree.files /\ trash' = trash /\ log' = Append(log, DirMake(d))
    BY <1>2, <1>5, TreeParts DEF MakeDir, Answer
  <2> QED
    BY <1>2, <1>3, <2>1, <2>2
<1>6. ASSUME NEW d \in DirPaths, DeleteDir(d)
      PROVE  ServerInv' /\ Remembers
  <2>1. DirDelete(d) \in Entries /\ EventOK(DirDelete(d))
    BY <1>4, EntryTyped DEF DirDelete, Change, EventOK
  <2>2. /\ tree' = Pruned(tree, d) /\ log' = Append(log, DirDelete(d))
        /\ trash' = [top |-> d, sub |-> Subtree(tree, d)]
    BY <1>6 DEF DeleteDir, Answer
  <2>3. Holds(tree'.files, Known)
    BY <1>2, <2>2 DEF Pruned, DeletePrefix, Without, Holds, Paths
  <2>4. Holds(trash'.sub.files, Known)
    BY <1>2, <2>2 DEF Subtree, Only, Holds, Paths
  <2> QED
    BY <1>3, <2>1, <2>2, <2>3, <2>4
<1>7. ASSUME RestoreDir
      PROVE  ServerInv' /\ Remembers
  <2>0. Restorable(trash) /\ trash.top \in DirPaths
    BY <1>2, <1>7 DEF RestoreDir, Restorable
  <2>1. DirPut(trash.top) \in Entries /\ EventOK(DirPut(trash.top))
    BY <1>4, <2>0, EntryTyped DEF DirPut, Change, EventOK
  <2>2. /\ tree' = Grafted(tree, trash.sub) /\ log' = Append(log, DirPut(trash.top))
        /\ trash' = EmptyTrash
    BY <1>7 DEF RestoreDir, Answer
  <2>3. Holds(tree'.files, Known)
    BY <1>2, <2>2 DEF Grafted, Overlaid, Holds, Paths
  <2>4. Holds(trash'.sub.files, Known)
    BY <2>2 DEF EmptyTrash, NoFiles, Holds, Paths
  <2> QED
    BY <1>3, <2>1, <2>2, <2>3, <2>4
<1>8. ASSUME NEW d \in DirPaths, NEW e \in DirPaths, Fits(d, e), MoveDir(d, e)
      PROVE  ServerInv' /\ Remembers
  <2>1. DirMove(d, e) \in Entries /\ EventOK(DirMove(d, e))
    BY <1>4, <1>8, EntryTyped DEF DirMove, Change, EventOK
  <2>2. tree'.files = RenamePrefix(tree.files, d, e) /\ trash' = trash
        /\ log' = Append(log, DirMove(d, e))
    BY <1>8 DEF MoveDir, Answer, Moved
  <2>3. Holds(tree'.files, Known)
    BY <1>2, <1>4, <2>2, RenamedHolds
  <2> QED
    BY <1>2, <1>3, <2>1, <2>2, <2>3
<1> QED
  BY <1>5, <1>6, <1>7, <1>8 DEF DirChange

(* An upload makes the directories that are missing, and the file.         *)
LEMMA UploadKeeps ==
  ASSUME ServerInv, NEW p \in FilePaths, NEW c \in Int \ {NoContent}, Upload(p, c)
  PROVE  ServerInv' /\ Remembers /\ c \in Known' /\ pushed' = pushed \cup {Len(log')}
         /\ Len(log') \in 1..Len(log')
<1>0. /\ TreeOK(tree) /\ Holds(tree.files, Known) /\ Holds(trash.sub.files, Known)
      /\ LogOK(log) /\ (trash = EmptyTrash \/ Restorable(trash))
  BY DEF ServerInv, ServerTyped
<1>1. p \in Names /\ p # Root /\ Root \in Names /\ NoContent \in Int
  BY PathsAreNames, EmptySeq DEF NoContent, Root, Names
<1>2. PICK k \in Nat : k = Len(p) - 1
  <2>1. Len(p) \in Nat /\ Len(p) > 0
    BY <1>1, EmptySeq DEF Root, Names
  <2> QED
    BY <2>1
<1>3. PICK s : s = [n \in 1..k |-> SubSeq(p, 1, n)]
  OBVIOUS
<1>4. s \in Seq(DirPaths)
  <2>1. \A n \in 1..k : SubSeq(p, 1, n) \in Parents(p)
    BY <1>2 DEF Parents
  <2>2. \A n \in 1..k : s[n] \in DirPaths
    BY <1>3, <2>1, ParentsFit
  <2> QED
    BY <1>3, <2>2
<1>5. PICK I : I = {i \in DOMAIN s : s[i] \notin tree.dirs}
  OBVIOUS
<1>6. PICK missing : missing = Chosen(s, I)
  OBVIOUS
<1>7. missing \in Seq(DirPaths)
  BY <1>4, <1>6, ChosenIs
<1>8. PICK x : x = [i \in DOMAIN missing |-> DirMake(missing[i])]
  OBVIOUS
<1>9. /\ tree' = WithFile(tree, p, c) /\ log' = Append(log \o x, FilePut(p, c))
      /\ pushed' = pushed \cup {Len(log')} /\ trash' = trash
  <2>1. Where([n \in 1..(Len(p) - 1) |-> SubSeq(p, 1, n)], LAMBDA d : d \notin tree.dirs) = missing
    BY <1>2, <1>3, <1>5, <1>6 DEF Where
  <2> QED
    BY <1>8, <2>1 DEF Upload
<1>10. x \in Seq(Entries) /\ \A i \in 1..Len(x) : EventOK(x[i])
  <2>1. ASSUME NEW d \in DirPaths
        PROVE  DirMake(d) \in Entries /\ EventOK(DirMake(d))
    <3>1. d \in Names
      BY PathsAreNames
    <3> QED
      BY <1>1, <3>1, EntryTyped DEF DirMake, Change, EventOK
  <2>2. PICK n \in Nat : n = Len(missing) /\ DOMAIN missing = 1..n /\ \A i \in 1..n : missing[i] \in DirPaths
    BY <1>7
  <2>3. \A i \in 1..n : x[i] \in Entries /\ EventOK(x[i])
    BY <1>8, <2>1, <2>2
  <2>4. x \in [1..n -> Entries]
    BY <1>8, <2>2, <2>3
  <2> QED
    BY <2>3, <2>4
<1>11. FilePut(p, c) \in Entries /\ EventOK(FilePut(p, c)) /\ FilePut(p, c).content = c
  <2>1. FilePut(p, c) \in Entries
    BY <1>1, EntryTyped DEF FilePut
  <2> QED
    BY <2>1 DEF FilePut, Change, EventOK
<1>12. PICK y : y = log \o x
  OBVIOUS
<1>13. /\ LogOK(y) /\ KnownFrom(log) \subseteq KnownFrom(y)
       /\ Len(log) \in Nat /\ Len(y) \in Nat /\ Len(log) <= Len(y)
  BY <1>0, <1>10, <1>12, LogConcat
<1>14. /\ LogOK(log') /\ KnownFrom(y) \subseteq KnownFrom(log')
       /\ c \in KnownFrom(log') /\ Len(log') = Len(y) + 1
  BY <1>9, <1>11, <1>12, <1>13, LogAppend
<1>15. Known \subseteq Known' /\ c \in Known'
  BY <1>13, <1>14 DEF Known
<1>16. /\ TreeOK(tree') /\ tree'.files = With(tree.files, p, c)
  BY <1>0, <1>9, WithFileOK
<1>17. Holds(tree'.files, Known') /\ Holds(trash'.sub.files, Known')
  BY <1>0, <1>9, <1>15, <1>16 DEF Holds, With, Paths
<1>18. ServerInv'
  <2>1. trash' = EmptyTrash \/ Restorable(trash')
    BY <1>0, <1>9
  <2>2. ServerTyped' <=> /\ TreeOK(tree') /\ log' \in Seq(Entries)
                         /\ trash' = EmptyTrash' \/ Restorable(trash')
    BY DEF ServerTyped, TreeOK, Restorable, EmptyTrash
  <2>3. ServerTyped'
    BY <1>14, <1>16, <2>1, <2>2 DEF LogOK, EmptyTrash
  <2> QED
    BY <1>14, <1>17, <2>3 DEF ServerInv
<1> QED
  BY <1>9, <1>13, <1>14, <1>15, <1>18 DEF Remembers

(* What the client itself deletes or moves on the server.                  *)
LEMMA RequestKeeps ==
  ASSUME ServerInv,
         \/ \E p \in FilePaths : DeleteFile(p)
         \/ \E d \in DirPaths : DeleteDir(d)
         \/ \E p \in FilePaths : \E q : MoveFile(q, p)
  PROVE  ServerInv' /\ Remembers /\ Len(log') \in 1..Len(log')
<1>1. FileChange \/ DirChange
  <2>1. \A q : q \in Paths(tree.files) => q \in FilePaths
    BY DEF ServerInv, ServerTyped, TreeOK
  <2> QED
    BY <2>1 DEF FileChange, DirChange, MoveFile
<1>2. ServerInv' /\ Remembers
  BY <1>1, FileChangeKeeps, DirChangeKeeps
<1>3. PICK ch : log' = Append(log, ch)
  BY DEF DeleteFile, DeleteDir, MoveFile, Answer
<1>4. log \in Seq(Entries) /\ log' \in Seq(Entries)
  BY <1>2 DEF ServerInv, LogOK
<1>5. Len(log') = Len(log) + 1 /\ Len(log) \in Nat
  BY <1>3, <1>4
<1> QED
  BY <1>2, <1>5

(* Nothing changes on the server.                                          *)
LEMMA ServerStill ==
  ASSUME ServerInv, UNCHANGED server
  PROVE  ServerInv' /\ Remembers /\ Known' = Known
<1>1. tree' = tree /\ log' = log /\ trash' = trash
  BY DEF server
<1>2. Known' = Known
  BY <1>1 DEF Known
<1>3. ServerTyped' <=> ServerTyped
  BY <1>1 DEF ServerTyped, TreeOK, Restorable, EmptyTrash
<1>4. Len(log) \in Nat
  BY DEF ServerInv, LogOK
<1> QED
  BY <1>1, <1>2, <1>3, <1>4 DEF ServerInv, Remembers

-----------------------------------------------------------------------------
(* What a handler leaves as it is. *)

(* The cycle's data, where nothing is added to the plans.                  *)
LEMMA CycleGrows ==
  ASSUME CycleInv, Remembers, UNCHANGED <<scan, batch, dirEvents, outcome>>,
         \A p \in Paths(plans') : p \in Paths(plans) /\ plans'[p] = plans[p]
  PROVE  CycleInv'
<1>0. Known \subseteq Known'
  BY DEF Remembers
<1>1. batch' \in Seq(Events(Known')) /\ dirEvents' \in Seq(DirEvents(Known'))
  BY <1>0, EventsGrow DEF CycleInv
<1>2. Snaps(Known) \subseteq Snaps(Known')
  BY <1>0 DEF Snaps, Holds
<1>3. outcome'.snaps \in Seq(Snaps(Known'))
  <2>1. \A i \in 1..Len(outcome.snaps) : outcome.snaps[i] \in Snaps(Known')
    BY <1>2 DEF CycleInv
  <2> QED
    BY <2>1 DEF CycleInv
<1>4. \A p, pl : PlanOK(p, pl, Known) => PlanOK(p, pl, Known')
  BY <1>0 DEF PlanOK
<1>5. /\ \A p \in Paths(outcome'.walk) :
           PlanOK(p, outcome'.walk[p], Known') /\ outcome'.walk[p].act \in WalkActs
      /\ \A p \in Paths(plans') : PlanOK(p, plans'[p], Known')
  BY <1>4 DEF CycleInv
<1> QED
  BY <1>1, <1>3, <1>5 DEF CycleInv

(* The rows, one set or some dropped.                                      *)
LEMMA RowsKept ==
  ASSUME NEW map, NEW K, NEW L, RowsOK(map, K), K \subseteq L
  PROVE  /\ RowsOK(map, L)
         /\ \A S : RowsOK(Without(map, S), L) /\ Paths(Without(map, S)) = Paths(map) \ S
         /\ \A p \in FilePaths : \A x : x.hash \in L =>
              /\ RowsOK(With(map, p, x), L)
              /\ Paths(With(map, p, x)) = Paths(map) \cup {p}
         /\ \A c, v : Row(c, v).hash = c
<1>1. RowsOK(map, L)
  BY DEF RowsOK
<1>2. \A S : RowsOK(Without(map, S), L) /\ Paths(Without(map, S)) = Paths(map) \ S
  BY <1>1 DEF RowsOK, Without, Paths
<1>3. ASSUME NEW p \in FilePaths, NEW x, x.hash \in L
      PROVE  /\ RowsOK(With(map, p, x), L)
             /\ Paths(With(map, p, x)) = Paths(map) \cup {p}
  BY <1>1, <1>3 DEF RowsOK, With, Paths
<1>4. \A c, v : Row(c, v).hash = c
  BY DEF Row
<1> QED
  BY <1>1, <1>2, <1>3, <1>4

(* The row of p has a content that is known.                               *)
LEMMA RowSetKept ==
  ASSUME RowsOK(archive, Known), Remembers, NEW p \in FilePaths, NEW c \in Known', RowSet(p, c)
  PROVE  RowsOK(archive', Known') /\ Paths(archive') = Paths(archive) \cup {p}
<1>1. PICK x : x = Row(c, c)
  OBVIOUS
<1>2. x.hash = c /\ archive' = With(archive, p, x)
  BY <1>1 DEF RowSet, Row
<1>3. PICK K, L : K = Known /\ L = Known' /\ K \subseteq L
  BY DEF Remembers
<1>4. RowsOK(archive, L) /\ x.hash \in L
  BY <1>2, <1>3, RowsKept
<1>5. RowsOK(With(archive, p, x), L) /\ Paths(With(archive, p, x)) = Paths(archive) \cup {p}
  BY <1>4, RowsKept
<1> QED
  BY <1>2, <1>3, <1>5

(* The renames that are still planned, when one plan has been executed.    *)
LEMMA MovesKept ==
  ASSUME MovesOK(plans, archive), NEW p, plans' = Without(plans, {p}),
         \A r \in PlansOf(plans, "move") \ {p} : plans[r].from \in Paths(archive')
  PROVE  MovesOK(plans', archive')
<1>1. Paths(plans') = Paths(plans) \ {p} /\ \A q \in Paths(plans') : plans'[q] = plans[q]
  BY DEF Without, Paths
<1>2. \A act : PlansOf(plans', act) = PlansOf(plans, act) \ {p}
  BY <1>1 DEF PlansOf
<1>3. ASSUME NEW r \in PlansOf(plans', "move"), NEW from, from = plans'[r].from
      PROVE  /\ from \in Paths(archive') \ Paths(plans')
             /\ \A q \in Paths(plans') \ {r} :
                  plans'[q].act \in {"move", "move_apply"} => plans'[q].from # from
             /\ \A d \in PlansOf(plans', "delete_remote_dir") : ~Below(from, d)
  <2>1. /\ r \in PlansOf(plans, "move") \ {p} /\ r \in Paths(plans) /\ r \in Paths(plans')
        /\ plans'[r] = plans[r] /\ from = plans[r].from
    BY <1>1, <1>2, <1>3 DEF PlansOf
  <2>2. /\ from \notin Paths(plans)
        /\ \A q \in Paths(plans) \ {r} :
             plans[q].act \in {"move", "move_apply"} => plans[q].from # from
        /\ \A d \in PlansOf(plans, "delete_remote_dir") : ~Below(from, d)
    BY <2>1 DEF MovesOK
  <2>3. from \in Paths(archive') \ Paths(plans')
    BY <1>1, <2>1, <2>2
  <2>4. \A q \in Paths(plans') \ {r} :
          plans'[q].act \in {"move", "move_apply"} => plans'[q].from # from
    BY <1>1, <2>2
  <2>5. \A d \in PlansOf(plans', "delete_remote_dir") : ~Below(from, d)
    BY <1>2, <2>2
  <2> QED
    BY <2>3, <2>4, <2>5
<1> QED
  BY <1>3 DEF MovesOK

(* After a handler, what it has to do with is as it must be.               *)
LEMMA HandlerKeeps ==
  ASSUME TypeInv, NEW p, NEW act, Turn(p, act), ServerInv', Remembers, DiskInv',
         RowsOK(archive', Known'), pushed' \subseteq DOMAIN log',
         \A r \in PlansOf(plans, "move") \ {p} : plans[r].from \in Paths(archive'),
         flaws' \subseteq Flaws, used' \in Counts
  PROVE  TypeInv'
<1>0. /\ plans' = Without(plans, {p}) /\ pc = "executing"
      /\ UNCHANGED <<saved, cursor, pc, scan, batch, dirEvents, outcome, target>>
  BY DEF Turn
<1>1. CycleInv'
  <2>1. \A q \in Paths(plans') : q \in Paths(plans) /\ plans'[q] = plans[q]
    BY <1>0 DEF Without, Paths
  <2> QED
    BY <1>0, <2>1, CycleGrows DEF TypeInv
<1>2. MovesOK(plans', archive')
  BY <1>0, MovesKept DEF TypeInv
<1>3. DOMAIN log \subseteq DOMAIN log' /\ Len(log) \in Nat /\ Len(log') \in Nat /\ Len(log) <= Len(log')
  <2>1. LogOK(log) /\ LogOK(log')
    BY DEF TypeInv, ServerInv
  <2>2. DOMAIN log = 1..Len(log) /\ DOMAIN log' = 1..Len(log') /\ Len(log) \in Nat /\ Len(log') \in Nat
    BY <2>1 DEF LogOK
  <2>3. Len(log) <= Len(log')
    BY DEF Remembers
  <2> QED
    BY <2>2, <2>3
<1>4. RowsOK(saved'.archive, Known')
  BY <1>0, RowsKept DEF TypeInv, StateInv, Remembers
<1>5. saved'.cursor \in 0..Len(log') /\ cursor' \in saved'.cursor..Len(log')
  BY <1>0, <1>3 DEF TypeInv, StateInv
<1>6. target' \in 0..Len(log') /\ cursor' <= target' /\ pc' = "executing"
  BY <1>0, <1>3 DEF TypeInv, StateInv
<1>7. pushed' \cup saved'.pushed \subseteq DOMAIN log'
  BY <1>0, <1>3 DEF TypeInv, StateInv
<1>8. StateInv'
  BY <1>4, <1>5, <1>6, <1>7 DEF StateInv
<1> QED
  BY <1>1, <1>2, <1>8 DEF TypeInv

(* No other rename than the one planned for p, if any, is from a path that *)
(* has a plan.                                                             *)
LEMMA MovesStay ==
  ASSUME TypeInv, NEW p \in Paths(plans), Paths(archive) \ {p} \subseteq Paths(archive')
  PROVE  \A r \in PlansOf(plans, "move") \ {p} : plans[r].from \in Paths(archive')
BY DEF TypeInv, MovesOK

-----------------------------------------------------------------------------
(* The disk. *)

(* Files are gone from it, and there may be other copies.                  *)
LEMMA DiskLess ==
  ASSUME DiskInv, NEW S, disk' = [disk EXCEPT !.files = Without(@, S)],
         \A c \in copies' : c.dir \in disk.dirs \cup {Root}
  PROVE  DiskInv'
<1>0. TreeOK(disk) /\ disk.files \in Map
  BY DEF DiskInv, TreeOK
<1>1. disk' = [dirs |-> disk.dirs, files |-> Without(disk.files, S)]
  BY <1>0, TreeParts
<1>2. Without(disk.files, S) \in Map /\ Paths(Without(disk.files, S)) \subseteq Paths(disk.files)
      /\ \A q \in Paths(Without(disk.files, S)) : Without(disk.files, S)[q] = disk.files[q]
  BY <1>0, WithoutIs DEF Without, Paths
<1>3. TreeOK(disk')
  <2>1. TreeOK([dirs |-> disk.dirs, files |-> Without(disk.files, S)])
    BY ONLY <1>0, <1>2, FewerFilesOK
  <2> QED
    BY ONLY <1>1, <2>1
<1>4. Holds(disk'.files, Int \ {NoContent}) /\ Twinless(disk'.files)
  BY <1>1, <1>2 DEF DiskInv, Holds, Twinless
<1> QED
  BY <1>1, <1>3, <1>4 DEF DiskInv

(* There are more directories.                                             *)
LEMMA DiskMore ==
  ASSUME DiskInv, NEW D \in SUBSET DirPaths, \A d \in D : Parents(d) \subseteq disk.dirs \cup D,
         disk' = [disk EXCEPT !.dirs = @ \cup D],
         \A c \in copies' : c.dir \in disk.dirs \cup D \cup {Root}
  PROVE  DiskInv' /\ disk'.files = disk.files
<1>0. TreeOK(disk)
  BY DEF DiskInv
<1>1. disk' = [dirs |-> disk.dirs \cup D, files |-> disk.files]
  BY <1>0, TreeParts
<1>2. TreeOK([dirs |-> disk.dirs \cup D, files |-> disk.files])
  BY <1>0, MoreDirsOK
<1>3. TreeOK(disk')
  BY ONLY <1>1, <1>2
<1> QED
  BY <1>1, <1>3 DEF DiskInv

(* A file is put where no other is like it, in a tree that has no others.  *)
LEMMA DiskPutIn ==
  ASSUME DiskInv, NEW t, TreeOK(t), t.dirs = disk.dirs,
         Paths(t.files) \subseteq Paths(disk.files),
         \A q \in Paths(t.files) : t.files[q] = disk.files[q],
         NEW p \in FilePaths, NEW c \in Int \ {NoContent},
         disk' = WithFile(t, p, c), \A q \in Paths(t.files) : Alike(p, q) => q = p,
         copies' = copies
  PROVE  /\ DiskInv' /\ disk'.files[p] = c
         /\ Paths(disk'.files) = Paths(t.files) \cup {p}
         /\ \A q \in Paths(disk'.files) : q # p => disk'.files[q] = disk.files[q]
<1>1. PICK m \in Map : m = t.files
  BY DEF TreeOK
<1>2. TreeOK(disk') /\ disk'.dirs = disk.dirs \cup Parents(p) /\ disk'.files = With(m, p, c)
  <2>1. TreeOK(WithFile(t, p, c)) /\ WithFile(t, p, c).dirs = t.dirs \cup Parents(p)
        /\ WithFile(t, p, c).files = With(t.files, p, c)
    BY WithFileOK
  <2> QED
    BY <1>1, <2>1
<1>3. /\ Paths(disk'.files) = Paths(m) \cup {p}
      /\ disk'.files[p] = c
      /\ \A q \in Paths(disk'.files) : q # p => disk'.files[q] = m[q]
  BY <1>2 DEF With, Paths
<1>4. \A q \in Paths(disk'.files) : q # p => q \in Paths(disk.files) /\ disk'.files[q] = disk.files[q]
  BY <1>1, <1>3
<1>5. Holds(disk'.files, Int \ {NoContent})
  BY <1>3, <1>4 DEF DiskInv, Holds
<1>6. Twinless(disk'.files)
  <2> SUFFICES ASSUME NEW q \in Paths(disk'.files), NEW r \in Paths(disk'.files), Alike(q, r)
               PROVE  q = r
    BY DEF Twinless
  <2>1. CASE q # p /\ r # p
    BY <1>4, <2>1 DEF DiskInv, Twinless
  <2>2. CASE q = p \/ r = p
    <3>1. Alike(r, q)
      BY DEF Alike, SameFold
    <3>2. q # p => q \in Paths(t.files)
      BY <1>1, <1>3
    <3>3. r # p => r \in Paths(t.files)
      BY <1>1, <1>3
    <3> QED
      BY <2>2, <3>1, <3>2, <3>3
  <2> QED
    BY <2>1, <2>2
<1>7. \A x \in copies' : x.dir \in disk'.dirs \cup {Root}
  BY <1>2 DEF DiskInv
<1> QED
  BY <1>1, <1>2, <1>3, <1>4, <1>5, <1>6, <1>7 DEF DiskInv

(* The same, in the place of some.                                         *)
LEMMA DiskPut ==
  ASSUME DiskInv, NEW S, NEW p \in FilePaths, NEW c \in Int \ {NoContent},
         disk' = WithFile([disk EXCEPT !.files = Without(@, S)], p, c),
         \A q \in Paths(disk.files) \ S : Alike(p, q) => q = p,
         copies' = copies
  PROVE  /\ DiskInv' /\ disk'.files[p] = c
         /\ Paths(disk'.files) = (Paths(disk.files) \ S) \cup {p}
         /\ \A q \in Paths(disk'.files) : q # p => disk'.files[q] = disk.files[q]
<1>0. TreeOK(disk) /\ disk.files \in Map
  BY DEF DiskInv, TreeOK
<1>1. PICK m \in Map : m = Without(disk.files, S)
  BY <1>0, WithoutIs
<1>2. Paths(m) = Paths(disk.files) \ S /\ \A q \in Paths(m) : m[q] = disk.files[q]
  BY <1>1 DEF Without, Paths
<1>3. PICK t : t = [dirs |-> disk.dirs, files |-> m]
  OBVIOUS
<1>4. TreeOK(t)
  <2>1. Paths(m) \subseteq Paths(disk.files)
    BY <1>2
  <2> QED
    BY <1>0, <1>3, <2>1, FewerFilesOK
<1>5. disk' = WithFile(t, p, c)
  <2>1. [disk EXCEPT !.files = Without(@, S)] = t
    BY <1>0, <1>1, <1>3, TreeParts
  <2>2. WithFile([disk EXCEPT !.files = Without(@, S)], p, c) = WithFile(t, p, c)
    BY ONLY <2>1
  <2> QED
    BY <2>2
<1>6. t.dirs = disk.dirs /\ t.files = m
  BY <1>3
<1>7. /\ t.dirs = disk.dirs /\ Paths(t.files) \subseteq Paths(disk.files)
      /\ \A q \in Paths(t.files) : t.files[q] = disk.files[q]
      /\ \A q \in Paths(t.files) : Alike(p, q) => q = p
  BY <1>2, <1>6
<1>8. /\ DiskInv' /\ disk'.files[p] = c
      /\ Paths(disk'.files) = Paths(t.files) \cup {p}
      /\ \A q \in Paths(disk'.files) : q # p => disk'.files[q] = disk.files[q]
  <2>1. DiskInv /\ copies' = copies /\ p \in FilePaths /\ c \in Int \ {NoContent}
    OBVIOUS
  <2> QED
    BY ONLY <1>4, <1>5, <1>7, <2>1, DiskPutIn
<1> QED
  BY <1>2, <1>6, <1>8

(* What a path opens is the only file like it.                             *)
LEMMA OnlyEntry ==
  ASSUME DiskInv, NEW p \in FilePaths
  PROVE  /\ Entry(p) \in FilePaths
         /\ \A q \in Paths(disk.files) \ {Entry(p)} : ~Alike(p, q) /\ ~Alike(Entry(p), q)
<1>1. Twinless(disk.files) /\ Paths(disk.files) \subseteq FilePaths
  BY DEF DiskInv, TreeOK
<1>2. Entry(p) \in FilePaths
  BY <1>1, EntryIs
<1>3. \A q \in Paths(disk.files) \ {Entry(p)} : ~Alike(p, q)
  BY <1>1, EntryIs
<1>4. ASSUME NEW q \in Paths(disk.files) \ {Entry(p)}
      PROVE  ~Alike(Entry(p), q)
  <2>1. CASE Entry(p) = p
    BY <1>3, <2>1
  <2>2. CASE Entry(p) \in Paths(disk.files)
    BY <1>1, <2>2 DEF Twinless
  <2> QED
    BY <2>1, <2>2, EntryIs
<1> QED
  BY <1>2, <1>3, <1>4

(* The disk is as it was.                                                  *)
LEMMA DiskStill ==
  ASSUME DiskInv, disk' = disk, copies' = copies
  PROVE  DiskInv'
BY DEF DiskInv

(* An emptied directory goes.                                              *)
LEMMA DiskRmdir ==
  ASSUME DiskInv, NEW d \in DirPaths,
         \A p \in disk.dirs \cup Paths(disk.files) : ~Below(p, d),
         \A c \in copies : ~AtOrBelow(c.dir, d),
         disk' = [disk EXCEPT !.dirs = @ \ {d}], copies' = copies
  PROVE  DiskInv' /\ disk'.files = disk.files
<1>1. disk' = [dirs |-> disk.dirs \ {d}, files |-> disk.files]
  BY TreeParts DEF DiskInv
<1>2. \A p \in disk.dirs \cup Paths(disk.files) : d \notin Parents(p)
  BY PathsAreNames, ParentsAre DEF DiskInv, TreeOK
<1>3. TreeOK(disk')
  <2>1. (disk.dirs \ {d}) \cap Paths(disk.files) = {}
    BY DEF DiskInv, TreeOK, WellFormed
  <2>2. \A p \in (disk.dirs \ {d}) \cup Paths(disk.files) : Parents(p) \subseteq disk.dirs \ {d}
    BY <1>2 DEF DiskInv, TreeOK, WellFormed
  <2> QED
    BY <1>1, <2>1, <2>2 DEF DiskInv, TreeOK, WellFormed
<1>4. \A c \in copies : c.dir # d
  <2>1. AtOrBelow(d, d)
    BY PathsAreNames, RootAbove
  <2> QED
    BY <2>1
<1>5. \A c \in copies' : c.dir \in disk'.dirs \cup {Root}
  BY <1>1, <1>4 DEF DiskInv
<1> QED
  BY <1>1, <1>3, <1>5 DEF DiskInv

-----------------------------------------------------------------------------
(* The handlers keep the type invariant. *)

(* The plan whose turn it is.                                              *)
LEMMA TurnIs ==
  ASSUME TypeInv, NEW p, NEW act, Turn(p, act)
  PROVE  /\ p \in Paths(plans) /\ p \in PlansOf(plans, act) /\ plans[p].act = act
         /\ plans[p].from \in FilePaths \cup {Root}
         /\ plans[p].content \in Known \cup {NoContent}
         /\ act = "pull" => plans[p].content # NoContent
         /\ Known \subseteq Int \ {NoContent}
<1>1. p \in Paths(plans) /\ p \in PlansOf(plans, act) /\ plans[p].act = act
  BY DEF Turn, PlansOf
<1>2. PlanOK(p, plans[p], Known)
  BY <1>1 DEF TypeInv, CycleInv
<1>3. Known \subseteq Int \ {NoContent}
  BY KnownTyped DEF TypeInv
<1> QED
  BY <1>1, <1>2, <1>3 DEF PlanOK

(* Our own sequence numbers are those of entries.                          *)
LEMMA PushedIn ==
  ASSUME TypeInv, ServerInv', Remembers
  PROVE  /\ pushed \subseteq DOMAIN log'
         /\ Len(log') \in 1..Len(log') => pushed \cup {Len(log')} \subseteq DOMAIN log'
<1>1. LogOK(log) /\ LogOK(log')
  BY DEF TypeInv, ServerInv
<1>2. DOMAIN log = 1..Len(log) /\ DOMAIN log' = 1..Len(log') /\ Len(log) \in Nat /\ Len(log') \in Nat
  BY <1>1 DEF LogOK
<1>3. Len(log) <= Len(log') /\ pushed \subseteq DOMAIN log
  BY DEF Remembers, TypeInv, StateInv
<1> QED
  BY <1>2, <1>3

(* A plan that does nothing, or fails.                                     *)
LEMMA NothingKeeps ==
  ASSUME TypeInv, NEW p, NEW act, Turn(p, act),
         UNCHANGED <<server, disk, copies, archive, pushed>>,
         flaws' \subseteq Flaws, used' \in Counts
  PROVE  TypeInv'
<1>1. ServerInv' /\ Remembers
  BY ServerStill DEF TypeInv
<1>2. DiskInv'
  BY DiskStill DEF TypeInv
<1>3. RowsOK(archive', Known')
  BY <1>1, RowsKept DEF TypeInv, StateInv, Remembers
<1>4. pushed' \subseteq DOMAIN log'
  BY <1>1, PushedIn
<1>5. \A r \in PlansOf(plans, "move") \ {p} : plans[r].from \in Paths(archive')
  BY TurnIs, MovesStay
<1> QED
  BY <1>1, <1>2, <1>3, <1>4, <1>5, HandlerKeeps

(* What the disk has at p is the file of a content.                        *)
LEMMA MineTyped ==
  ASSUME DiskInv, NEW p, Mine(p) # NoContent
  PROVE  Mine(p) \in Int \ {NoContent}
BY MineIs DEF DiskInv, Holds

(* Push.                                                                   *)
LEMMA PushKeeps ==
  ASSUME TypeInv, NEW p \in FilePaths, Push(p)
  PROVE  TypeInv'
<1>0. Turn(p, "push") /\ used' = used /\ used \in Counts /\ flaws' = flaws /\ flaws \subseteq Flaws
  BY DEF Push, Done, Inside, Fail, TypeInv, StateInv
<1>1. CASE Mine(p) # NoContent /\ Precondition(p)
  <2>1. PICK c \in Int \ {NoContent} : c = Mine(p)
    BY <1>1, MineTyped DEF TypeInv
  <2>2. Upload(p, c) /\ RowSet(p, c) /\ UNCHANGED <<disk, copies>>
    BY <1>1, <2>1 DEF Push
  <2>3. ServerInv' /\ Remembers /\ c \in Known' /\ pushed' = pushed \cup {Len(log')}
        /\ Len(log') \in 1..Len(log')
    <3>1. ServerInv /\ Upload(p, c)
      BY <2>2 DEF TypeInv
    <3> QED
      BY <3>1, UploadKeeps
  <2>4. RowsOK(archive', Known') /\ Paths(archive') = Paths(archive) \cup {p}
    BY <2>2, <2>3, RowSetKept DEF TypeInv, StateInv
  <2>5. DiskInv'
    BY <2>2, DiskStill DEF TypeInv
  <2>6. \A r \in PlansOf(plans, "move") \ {p} : plans[r].from \in Paths(archive')
    BY <1>0, <2>4, TurnIs, MovesStay
  <2>7. pushed' \subseteq DOMAIN log'
    BY <2>3, PushedIn
  <2> QED
    BY <1>0, <2>3, <2>4, <2>5, <2>6, <2>7, HandlerKeeps
<1>2. CASE ~(Mine(p) # NoContent /\ Precondition(p))
  <2>1. UNCHANGED <<server, disk, copies, archive, pushed>>
    BY <1>2 DEF Push, Fail
  <2> QED
    BY <1>0, <2>1, NothingKeeps
<1> QED
  BY <1>1, <1>2

(* Pull.                                                                   *)
LEMMA PullKeeps ==
  ASSUME TypeInv, NEW p \in FilePaths, Pull(p)
  PROVE  TypeInv'
<1>0. Turn(p, "pull") /\ used' = used /\ used \in Counts /\ flaws' \subseteq Flaws
      /\ UNCHANGED <<server, copies, pushed>>
  BY DEF Pull, Done, Inside, TypeInv, StateInv, Flaws
<1>1. PICK c \in Int \ {NoContent} : c = plans[p].content /\ c \in Known
  BY <1>0, TurnIs
<1>2. \/ UNCHANGED <<disk, archive>>
      \/ Replace(p, c) /\ RowSet(p, c)
  BY <1>1 DEF Pull
<1>3. ServerInv' /\ Remembers /\ Known' = Known
  BY <1>0, ServerStill DEF TypeInv
<1>4. CASE UNCHANGED <<disk, archive>>
  BY <1>0, <1>4, NothingKeeps
<1>5. CASE Replace(p, c) /\ RowSet(p, c)
  <2>1. PICK name \in {p, Entry(p)} :
          disk' = WithFile([disk EXCEPT !.files = Without(@, {Entry(p)})], name, c)
    BY <1>5 DEF Replace
  <2>2. name \in FilePaths /\ \A q \in Paths(disk.files) \ {Entry(p)} : ~Alike(name, q)
    BY <2>1, OnlyEntry DEF TypeInv
  <2>3. DiskInv'
    BY <1>0, <2>1, <2>2, DiskPut DEF TypeInv
  <2>4. RowsOK(archive', Known') /\ Paths(archive') = Paths(archive) \cup {p}
    BY <1>1, <1>3, <1>5, RowSetKept DEF TypeInv, StateInv
  <2>5. \A r \in PlansOf(plans, "move") \ {p} : plans[r].from \in Paths(archive')
    BY <1>0, <2>4, TurnIs, MovesStay
  <2>6. pushed' \subseteq DOMAIN log'
    BY <1>0, <1>3, PushedIn
  <2> QED
    BY <1>0, <1>3, <2>3, <2>4, <2>5, <2>6, HandlerKeeps
<1> QED
  BY <1>2, <1>4, <1>5

(* A handler that takes the file and the row of p away, and may keep a     *)
(* copy.                                                                   *)
LEMMA RemovalKeeps ==
  ASSUME TypeInv, NEW p \in FilePaths, NEW act, Turn(p, act),
         disk' = [disk EXCEPT !.files = Without(@, {Entry(p)})],
         \A c \in copies' : c.dir \in disk.dirs \cup {Root},
         RowDropped(p), UNCHANGED <<server, pushed, flaws, used>>
  PROVE  TypeInv'
<1>1. ServerInv' /\ Remembers
  BY ServerStill DEF TypeInv
<1>2. DiskInv'
  BY DiskLess DEF TypeInv
<1>3. RowsOK(archive', Known') /\ Paths(archive') = Paths(archive) \ {p}
  BY <1>1, RowsKept DEF RowDropped, TypeInv, StateInv, Remembers
<1>4. \A r \in PlansOf(plans, "move") \ {p} : plans[r].from \in Paths(archive')
  BY <1>3, TurnIs, MovesStay
<1>5. pushed' \subseteq DOMAIN log'
  BY <1>1, PushedIn
<1>6. used' \in Counts /\ flaws' \subseteq Flaws
  BY DEF TypeInv, StateInv
<1> QED
  BY <1>1, <1>2, <1>3, <1>4, <1>5, <1>6, HandlerKeeps

(* DeleteLocal.                                                            *)
LEMMA DeleteLocalKeeps ==
  ASSUME TypeInv, NEW p \in FilePaths, DeleteLocal(p)
  PROVE  TypeInv'
<1>1. Turn(p, "delete_local") /\ UNCHANGED <<server, pushed, flaws, used>> /\ RowDropped(p)
      /\ disk' = [disk EXCEPT !.files = Without(@, {Entry(p)})] /\ copies' = copies
  BY DEF DeleteLocal, Done, Inside
<1>2. \A c \in copies' : c.dir \in disk.dirs \cup {Root}
  BY <1>1 DEF TypeInv, DiskInv
<1> QED
  BY <1>1, <1>2, RemovalKeeps

(* PreserveLocalRename.                                                    *)
LEMMA PreserveKeeps ==
  ASSUME TypeInv, NEW p \in FilePaths, PreserveLocalRename(p)
  PROVE  TypeInv'
<1>1. Turn(p, "preserve") /\ UNCHANGED <<server, pushed, flaws, used>> /\ RowDropped(p)
      /\ disk' = [disk EXCEPT !.files = Without(@, {Entry(p)})]
      /\ copies' = copies \cup
           (IF Mine(p) # NoContent THEN {Copy(Parent(p), Mine(p))} ELSE {})
  BY DEF PreserveLocalRename, Done, Inside
<1>2. Mine(p) # NoContent => Parent(p) \in disk.dirs \cup {Root}
  <2>1. Parent(p) \in Parents(p) \cup {Root} /\ Parents(p) \subseteq DirPaths
    BY ParentsFit
  <2>2. CASE CaseInsensitive
    BY <2>1, <2>2, BoundsAssumption
  <2>3. CASE ~CaseInsensitive
    <3>1. Entry(p) = p
      BY <2>3, EntryIs
    <3>2. Mine(p) # NoContent => p \in Paths(disk.files)
      BY <3>1, MineIs
    <3>3. Mine(p) # NoContent => Parents(p) \subseteq disk.dirs
      BY <3>2 DEF TypeInv, DiskInv, TreeOK, WellFormed
    <3> QED
      BY <2>1, <3>3
  <2> QED
    BY <2>2, <2>3
<1>3. \A c \in copies' : c.dir \in disk.dirs \cup {Root}
  BY <1>1, <1>2 DEF TypeInv, DiskInv, Copy
<1> QED
  BY <1>1, <1>3, RemovalKeeps

(* DeleteRemote.                                                           *)
LEMMA DeleteRemoteKeeps ==
  ASSUME TypeInv, NEW p \in FilePaths, DeleteRemote(p)
  PROVE  TypeInv'
<1>0. Turn(p, "delete_remote") /\ used' = used /\ used \in Counts
      /\ flaws' = flaws /\ flaws \subseteq Flaws /\ UNCHANGED <<disk, copies>>
  BY DEF DeleteRemote, Done, Inside, Fail, TypeInv, StateInv
<1>1. CASE p \in Paths(tree.files)
  <2>1. DeleteFile(p) /\ RowDropped(p) /\ pushed' = pushed \cup {Len(log')}
    BY <1>1 DEF DeleteRemote
  <2>2. ServerInv' /\ Remembers /\ Len(log') \in 1..Len(log')
    BY <2>1, RequestKeeps DEF TypeInv
  <2>3. RowsOK(archive', Known') /\ Paths(archive') = Paths(archive) \ {p}
    BY <2>1, <2>2, RowsKept DEF RowDropped, TypeInv, StateInv, Remembers
  <2>4. DiskInv'
    BY <1>0, DiskStill DEF TypeInv
  <2>5. \A r \in PlansOf(plans, "move") \ {p} : plans[r].from \in Paths(archive')
    BY <1>0, <2>3, TurnIs, MovesStay
  <2>6. pushed' \subseteq DOMAIN log'
    BY <2>1, <2>2, PushedIn
  <2> QED
    BY <1>0, <2>2, <2>3, <2>4, <2>5, <2>6, HandlerKeeps
<1>2. CASE p \notin Paths(tree.files)
  <2>1. UNCHANGED <<server, disk, copies, archive, pushed>>
    BY <1>2 DEF DeleteRemote, Fail
  <2> QED
    BY <1>0, <2>1, NothingKeeps
<1> QED
  BY <1>1, <1>2

(* DeleteRemoteDir.                                                        *)
LEMMA DeleteRemoteDirKeeps ==
  ASSUME TypeInv, NEW d \in DirPaths, DeleteRemoteDir(d)
  PROVE  TypeInv'
<1>0. Turn(d, "delete_remote_dir") /\ used' = used /\ used \in Counts
      /\ flaws' \subseteq Flaws /\ UNCHANGED <<disk, copies>>
  BY DEF DeleteRemoteDir, Done, Inside, Fail, TypeInv, StateInv, Flaws
<1>1. CASE d \in tree.dirs
  <2>1. DeleteDir(d) /\ pushed' = pushed \cup {Len(log')}
        /\ archive' = Without(archive, FilesBelow(archive, d))
    BY <1>1 DEF DeleteRemoteDir, DeletePrefix
  <2>2. ServerInv' /\ Remembers /\ Len(log') \in 1..Len(log')
    BY <2>1, RequestKeeps DEF TypeInv
  <2>3. RowsOK(archive', Known') /\ Paths(archive') = Paths(archive) \ FilesBelow(archive, d)
    BY <2>1, <2>2, RowsKept DEF TypeInv, StateInv, Remembers
  <2>4. DiskInv'
    BY <1>0, DiskStill DEF TypeInv
  <2>5. \A r \in PlansOf(plans, "move") \ {d} : plans[r].from \in Paths(archive')
    <3>1. d \in PlansOf(plans, "delete_remote_dir")
      BY <1>0, TurnIs
    <3>2. \A r \in PlansOf(plans, "move") :
            plans[r].from \in Paths(archive) /\ ~Below(plans[r].from, d)
      BY <3>1 DEF TypeInv, MovesOK
    <3> QED
      BY <2>3, <3>2 DEF FilesBelow
  <2>6. pushed' \subseteq DOMAIN log'
    BY <2>1, <2>2, PushedIn
  <2> QED
    BY <1>0, <2>2, <2>3, <2>4, <2>5, <2>6, HandlerKeeps
<1>2. CASE d \notin tree.dirs
  <2>1. UNCHANGED <<server, disk, copies, archive, pushed>>
    BY <1>2 DEF DeleteRemoteDir, Fail
  <2> QED
    BY <1>0, <2>1, NothingKeeps
<1> QED
  BY <1>1, <1>2

(* Conflict.                                                               *)
LEMMA ConflictKeeps ==
  ASSUME TypeInv, NEW p \in FilePaths, Conflict(p)
  PROVE  TypeInv'
<1>0. Turn(p, "conflict") /\ used' = used /\ used \in Counts /\ flaws' \subseteq Flaws
  BY DEF Conflict, Done, Inside, TypeInv, StateInv, Flaws
<1>1. PICK mine : mine = Mine(p)
  OBVIOUS
<1>2. PICK theirs : theirs = IF plans[p].content # NoContent THEN plans[p].content
                             ELSE At(tree.files, p)
  OBVIOUS
<1>3. theirs # NoContent => theirs \in Known
  BY <1>0, <1>2, TurnIs DEF TypeInv, ServerInv, Holds, At
<1>4. DiskInv'
  <2>1. \/ UNCHANGED <<disk, copies>>
        \/ /\ copies' = copies \cup {Copy(Parent(p), theirs)}
           /\ disk' = [disk EXCEPT !.dirs = @ \cup Parents(p)]
    BY <1>1, <1>2 DEF Conflict
  <2>2. CASE UNCHANGED <<disk, copies>>
    BY <2>2, DiskStill DEF TypeInv
  <2>3. CASE /\ copies' = copies \cup {Copy(Parent(p), theirs)}
             /\ disk' = [disk EXCEPT !.dirs = @ \cup Parents(p)]
    <3>1. /\ Parents(p) \subseteq DirPaths /\ Parent(p) \in Parents(p) \cup {Root}
          /\ \A d \in Parents(p) : Parents(d) \subseteq disk.dirs \cup Parents(p)
      BY ParentsFit
    <3>2. \A c \in copies' : c.dir \in disk.dirs \cup Parents(p) \cup {Root}
      BY <2>3, <3>1 DEF TypeInv, DiskInv, Copy
    <3> QED
      BY <2>3, <3>1, <3>2, DiskMore DEF TypeInv
  <2> QED
    BY <2>1, <2>2, <2>3
<1>5. CASE mine = NoContent
  <2>1. RowDropped(p) /\ UNCHANGED <<server, pushed>>
    BY <1>1, <1>5 DEF Conflict
  <2>2. ServerInv' /\ Remembers
    BY <2>1, ServerStill DEF TypeInv
  <2>3. RowsOK(archive', Known') /\ Paths(archive') = Paths(archive) \ {p}
    BY <2>1, <2>2, RowsKept DEF RowDropped, TypeInv, StateInv, Remembers
  <2>4. \A r \in PlansOf(plans, "move") \ {p} : plans[r].from \in Paths(archive')
    BY <1>0, <2>3, TurnIs, MovesStay
  <2>5. pushed' \subseteq DOMAIN log'
    BY <2>1, <2>2, PushedIn
  <2> QED
    BY <1>0, <1>4, <2>2, <2>3, <2>4, <2>5, HandlerKeeps
<1>6. CASE mine # NoContent
  <2>0. PICK c \in Int \ {NoContent} : c = mine
    BY <1>1, <1>6, MineTyped DEF TypeInv
  <2>1. /\ RowSet(p, c)
        /\ IF c = theirs THEN UNCHANGED <<server, pushed>> ELSE Upload(p, c)
    BY <1>1, <1>2, <1>6, <2>0 DEF Conflict
  <2>2. ServerInv' /\ Remembers /\ c \in Known' /\ pushed' \subseteq DOMAIN log'
    <3>0. ServerInv
      BY DEF TypeInv
    <3>1. CASE c = theirs
      <4>1. ServerInv' /\ Remembers /\ Known' = Known /\ pushed' = pushed
        BY <2>1, <3>0, <3>1, ServerStill
      <4> QED
        BY <1>3, <3>1, <4>1, PushedIn
    <3>2. CASE c # theirs
      <4>1. Upload(p, c)
        BY <2>1, <3>2
      <4>2. ServerInv' /\ Remembers /\ c \in Known' /\ pushed' = pushed \cup {Len(log')}
            /\ Len(log') \in 1..Len(log')
        BY <3>0, <4>1, UploadKeeps
      <4> QED
        BY <4>2, PushedIn
    <3> QED
      BY <3>1, <3>2
  <2>3. RowsOK(archive', Known') /\ Paths(archive') = Paths(archive) \cup {p}
    BY <2>1, <2>2, RowSetKept DEF TypeInv, StateInv
  <2>4. \A r \in PlansOf(plans, "move") \ {p} : plans[r].from \in Paths(archive')
    BY <1>0, <2>3, TurnIs, MovesStay
  <2> QED
    BY <1>0, <1>4, <2>2, <2>3, <2>4, HandlerKeeps
<1> QED
  BY <1>5, <1>6

(* MoveApply.                                                              *)
LEMMA MoveApplyKeeps ==
  ASSUME TypeInv, NEW p \in FilePaths, MoveApply(p)
  PROVE  TypeInv'
<1>0. Turn(p, "move_apply") /\ used' = used /\ used \in Counts /\ flaws' \subseteq Flaws
      /\ UNCHANGED <<server, copies, pushed>>
  BY DEF MoveApply, Done, Inside, TypeInv, StateInv, Flaws
<1>1. PICK from \in FilePaths \cup {Root} : from = plans[p].from
  BY <1>0, TurnIs
<1>2. ServerInv' /\ Remembers
  BY <1>0, ServerStill DEF TypeInv
<1>3. DiskInv'
  <2>1. CASE Mine(from) = NoContent
    <3>1. disk' = [disk EXCEPT !.dirs = @ \cup Parents(p)]
      BY <1>1, <2>1 DEF MoveApply
    <3>2. /\ Parents(p) \subseteq DirPaths
          /\ \A d \in Parents(p) : Parents(d) \subseteq disk.dirs \cup Parents(p)
      BY ParentsFit
    <3>3. \A c \in copies' : c.dir \in disk.dirs \cup Parents(p) \cup {Root}
      BY <1>0 DEF TypeInv, DiskInv
    <3> QED
      BY <3>1, <3>2, <3>3, DiskMore DEF TypeInv
  <2>2. CASE Mine(from) # NoContent
    <3>1. PICK c \in Int \ {NoContent} : c = Mine(from)
      BY <2>2, MineTyped DEF TypeInv
    <3>2. PICK S : S = {Entry(from), Entry(p)}
      OBVIOUS
    <3>3. disk' = WithFile([disk EXCEPT !.files = Without(@, S)], p, c)
      BY <1>1, <2>2, <3>1, <3>2 DEF MoveApply
    <3>4. \A q \in Paths(disk.files) \ S : Alike(p, q) => q = p
      BY <3>2, OnlyEntry DEF TypeInv
    <3> QED
      BY <1>0, <3>3, <3>4, DiskPut DEF TypeInv
  <2> QED
    BY <2>1, <2>2
<1>4. RowsOK(archive', Known') /\ Paths(archive) \ {from} \subseteq Paths(archive')
  <2>0. RowsOK(archive, Known) /\ Known \subseteq Known'
    BY <1>2 DEF TypeInv, StateInv, Remembers
  <2>1. CASE from \in Paths(archive)
    <3>1. archive' = With(Without(archive, {from}), p, archive[from])
      BY <1>1, <2>1 DEF MoveApply
    <3>2. PICK a : a = Without(archive, {from})
      OBVIOUS
    <3>3. RowsOK(a, Known') /\ Paths(a) = Paths(archive) \ {from}
      BY <2>0, <3>2, RowsKept
    <3>4. archive[from].hash \in Known'
      BY <2>0, <2>1 DEF RowsOK
    <3>5. archive' = With(a, p, archive[from])
      BY <3>1, <3>2
    <3> QED
      BY <3>3, <3>4, <3>5, RowsKept
  <2>2. CASE from \notin Paths(archive)
    <3>1. archive' = archive
      BY <1>1, <2>2 DEF MoveApply
    <3> QED
      BY <2>0, <3>1, RowsKept
  <2> QED
    BY <2>1, <2>2
<1>5. \A r \in PlansOf(plans, "move") \ {p} : plans[r].from \in Paths(archive')
  <2>1. p \in Paths(plans) /\ plans[p].act = "move_apply"
    BY <1>0, TurnIs
  <2>2. \A r \in PlansOf(plans, "move") \ {p} : plans[r].from \in Paths(archive) /\ plans[r].from # from
    BY <1>1, <2>1 DEF TypeInv, MovesOK
  <2> QED
    BY <1>4, <2>2
<1>6. pushed' \subseteq DOMAIN log'
  BY <1>0, <1>2, PushedIn
<1> QED
  BY <1>0, <1>2, <1>3, <1>4, <1>5, <1>6, HandlerKeeps

(* Move.                                                                   *)
LEMMA MoveKeeps ==
  ASSUME TypeInv, NEW p \in FilePaths, Move(p)
  PROVE  TypeInv'
<1>0. Turn(p, "move") /\ used' = used /\ used \in Counts /\ flaws' \subseteq Flaws
      /\ UNCHANGED <<disk, copies>>
  BY DEF Move, Done, Inside, Fail, TypeInv, StateInv, Flaws
<1>1. PICK from : from = plans[p].from
  OBVIOUS
<1>2. p \in Paths(plans) /\ plans[p].act = "move" /\ from \in Paths(archive)
      /\ \A r \in PlansOf(plans, "move") \ {p} : plans[r].from \in Paths(archive) /\ plans[r].from # from
  <2>1. p \in Paths(plans) /\ p \in PlansOf(plans, "move") /\ plans[p].act = "move"
    BY <1>0, TurnIs
  <2> QED
    BY <1>1, <2>1 DEF TypeInv, MovesOK
<1>3. \/ UNCHANGED <<server, disk, copies, archive, pushed>>
      \/ /\ MoveFile(from, p)
         /\ pushed' = pushed \cup {Len(log')}
         /\ archive' = With(Without(archive, {from}), p,
                            Row(archive[from].hash, tree.files[from]))
  BY <1>1 DEF Move, Fail
<1>4. CASE UNCHANGED <<server, disk, copies, archive, pushed>>
  BY <1>0, <1>4, NothingKeeps
<1>5. CASE /\ MoveFile(from, p)
           /\ pushed' = pushed \cup {Len(log')}
           /\ archive' = With(Without(archive, {from}), p,
                              Row(archive[from].hash, tree.files[from]))
  <2>1. ServerInv' /\ Remembers /\ Len(log') \in 1..Len(log')
    BY <1>5, RequestKeeps DEF TypeInv
  <2>2. RowsOK(archive, Known) /\ Known \subseteq Known'
    BY <2>1 DEF TypeInv, StateInv, Remembers
  <2>3. PICK a : a = Without(archive, {from})
    OBVIOUS
  <2>4. RowsOK(a, Known') /\ Paths(a) = Paths(archive) \ {from}
    BY <2>2, <2>3, RowsKept
  <2>5. PICK x : x = Row(archive[from].hash, tree.files[from])
    OBVIOUS
  <2>6. x.hash \in Known' /\ archive' = With(a, p, x)
    <3>1. archive[from].hash \in Known'
      BY <1>2, <2>2 DEF RowsOK
    <3>2. x.hash = archive[from].hash
      BY <2>5 DEF Row
    <3>3. archive' = With(a, p, x)
      BY <1>5, <2>3, <2>5
    <3> QED
      BY <3>1, <3>2, <3>3
  <2>7. RowsOK(archive', Known') /\ Paths(archive) \ {from} \subseteq Paths(archive')
    BY <2>4, <2>6, RowsKept
  <2>8. \A r \in PlansOf(plans, "move") \ {p} : plans[r].from \in Paths(archive')
    BY <1>2, <2>7
  <2>9. DiskInv'
    BY <1>0, DiskStill DEF TypeInv
  <2>10. pushed' \subseteq DOMAIN log'
    BY <1>5, <2>1, PushedIn
  <2> QED
    BY <1>0, <2>1, <2>7, <2>8, <2>9, <2>10, HandlerKeeps
<1> QED
  BY <1>3, <1>4, <1>5

(* SkipCaseConflict, and a plan whose request fails.                       *)
LEMMA SkipKeeps ==
  ASSUME TypeInv, (\E p \in FilePaths : SkipCaseConflict(p)) \/ RequestFails
  PROVE  TypeInv'
<1>0. used \in Counts /\ flaws \subseteq Flaws
  BY DEF TypeInv, StateInv
<1>1. UNCHANGED <<server, disk, copies, archive, pushed, flaws>> /\ \E p, act : Turn(p, act)
  BY DEF SkipCaseConflict, RequestFails
<1>2. used' \in Counts
  BY <1>0 DEF SkipCaseConflict, RequestFails, Done, Inside, Spent, Counts
<1> QED
  BY <1>0, <1>1, <1>2, NothingKeeps

(* MkdirLocal and RmdirLocal.                                              *)
LEMMA LocalDirKeeps ==
  ASSUME TypeInv, NEW d \in DirPaths, MkdirLocal(d) \/ RmdirLocal(d)
  PROVE  TypeInv' /\ disk'.files = disk.files
<1>0. /\ \E act : Turn(d, act)
      /\ UNCHANGED <<server, copies, archive, pushed, flaws, used>>
  BY DEF MkdirLocal, RmdirLocal, Done, Inside
<1>1. DiskInv' /\ disk'.files = disk.files
  <2>1. CASE MkdirLocal(d)
    <3>1. PICK D : D = {d} \cup Parents(d)
      OBVIOUS
    <3>2. D \in SUBSET DirPaths /\ \A x \in D : Parents(x) \subseteq disk.dirs \cup D
      BY <3>1, ParentsFit
    <3>3. disk' = [disk EXCEPT !.dirs = disk.dirs \cup {d} \cup Parents(d)]
      BY <2>1 DEF MkdirLocal
    <3>4. disk.dirs \cup {d} \cup Parents(d) = disk.dirs \cup D
      BY <3>1
    <3>5. disk' = [disk EXCEPT !.dirs = disk.dirs \cup D]
      BY <3>3, <3>4
    <3>6. \A c \in copies' : c.dir \in disk.dirs \cup D \cup {Root}
      BY <1>0 DEF TypeInv, DiskInv
    <3> QED
      BY <3>2, <3>5, <3>6, DiskMore DEF TypeInv
  <2>2. CASE RmdirLocal(d)
    <3>1. CASE disk' = disk
      BY <1>0, <3>1, DiskStill DEF TypeInv
    <3>2. CASE disk' # disk
      <4>1. /\ \A p \in disk.dirs \cup Paths(disk.files) : ~Below(p, d)
            /\ \A c \in copies : ~AtOrBelow(c.dir, d)
            /\ disk' = [disk EXCEPT !.dirs = @ \ {d}]
        BY <2>2, <3>2 DEF RmdirLocal
      <4> QED
        BY <1>0, <4>1, DiskRmdir DEF TypeInv
    <3> QED
      BY <3>1, <3>2
  <2> QED
    BY <2>1, <2>2
<1>2. ServerInv' /\ Remembers
  BY <1>0, ServerStill DEF TypeInv
<1>3. RowsOK(archive', Known')
  BY <1>0, <1>2, RowsKept DEF TypeInv, StateInv, Remembers
<1>4. pushed' \subseteq DOMAIN log'
  BY <1>0, <1>2, PushedIn
<1>5. \A r \in PlansOf(plans, "move") \ {d} : plans[r].from \in Paths(archive')
  BY <1>0, TurnIs, MovesStay
<1>6. used' \in Counts /\ flaws' \subseteq Flaws
  BY <1>0 DEF TypeInv, StateInv
<1> QED
  BY <1>0, <1>1, <1>2, <1>3, <1>4, <1>5, <1>6, HandlerKeeps

(* Every handler.                                                          *)
LEMMA EachHandlerKeeps ==
  ASSUME TypeInv, Handler \/ RequestFails
  PROVE  TypeInv'
BY PushKeeps, PullKeeps, DeleteLocalKeeps, DeleteRemoteKeeps, ConflictKeeps, PreserveKeeps,
   MoveApplyKeeps, MoveKeeps, SkipKeeps, DeleteRemoteDirKeeps, LocalDirKeeps DEF Handler

-----------------------------------------------------------------------------
(* Between two cycles. *)

(* A cycle that is over leaves nothing behind.                             *)
LEMMA Abandoned ==
  ASSUME Abandon
  PROVE  /\ CycleInv' /\ MovesOK(plans', archive')
         /\ pc' = "idle" /\ plans' = NoPlans /\ outcome' = NoOutcome
         /\ batch' = <<>> /\ ~failed' /\ target' = 0
<1>1. /\ scan' = NoFiles /\ batch' = <<>> /\ dirEvents' = <<>> /\ outcome' = NoOutcome
      /\ plans' = NoPlans /\ pc' = "idle" /\ ~failed' /\ target' = 0
  BY DEF Abandon
<1>2. Paths(NoFiles) = {} /\ Paths(NoPlans) = {} /\ \A act : PlansOf(NoPlans, act) = {}
  BY DEF NoFiles, NoPlans, Paths, PlansOf
<1>3. \A S : <<>> \in Seq(S)
  OBVIOUS
<1>4. /\ outcome'.walk = NoPlans
      /\ outcome' \in [walk : {outcome'.walk}, snaps : Seq(Snaps(Known')), changed : BOOLEAN]
  BY <1>1, <1>3 DEF NoOutcome
<1>5. CycleInv'
  BY <1>1, <1>2, <1>3, <1>4 DEF CycleInv
<1>6. MovesOK(plans', archive')
  BY <1>1, <1>2 DEF MovesOK
<1> QED
  BY <1>1, <1>5, <1>6

(* The start.                                                              *)
LEMMA InitIs == Init => TypeInv /\ Known = Nat \ {NoContent}
<1> SUFFICES ASSUME Init PROVE TypeInv /\ Known = Nat \ {NoContent}
  OBVIOUS
<1>1. ServerTyped /\ tree \in Trees /\ log = <<>> /\ trash = EmptyTrash /\ disk = tree
      /\ copies = {} /\ archive = InSync(tree.files) /\ cursor = 0 /\ pushed = {}
      /\ saved.archive = archive /\ saved.cursor = 0 /\ saved.pushed = {}
  BY ServerTypedInit DEF Init, ServerInit
<1>2. Known = Nat \ {NoContent}
  BY <1>1 DEF Known, KnownFrom
<1>3. Holds(tree.files, Nat \ {NoContent})
  BY <1>1, PathsAssumption DEF Holds, Paths
<1>4. ServerInv
  <2>1. \A S : <<>> \in Seq(S)
    OBVIOUS
  <2>2. LogOK(log)
    BY <1>1, <2>1 DEF LogOK
  <2>3. Holds(trash.sub.files, Known)
    BY <1>1 DEF EmptyTrash, NoFiles, Holds, Paths
  <2> QED
    BY <1>1, <1>2, <1>3, <2>2, <2>3 DEF ServerInv
<1>5. DiskInv
  <2>1. Twinless(disk.files)
    <3>1. CaseInsensitive => \A p \in Paths(tree.files) : Variants(p, Paths(tree.files)) = {}
      BY <1>1, BoundsAssumption
    <3> QED
      BY <1>1, <3>1 DEF Twinless, Alike, Variants
  <2>2. Holds(disk.files, Int \ {NoContent})
    BY <1>1, <1>3 DEF Holds
  <2> QED
    BY <1>1, <2>1, <2>2 DEF DiskInv, ServerTyped
<1>6. RowsOK(archive, Known)
  BY <1>1, <1>2, <1>3 DEF RowsOK, InSync, Paths, Row, Holds, ServerTyped, TreeOK
<1>7. StateInv
  <2>1. pc = "idle" /\ plans = NoPlans /\ outcome = NoOutcome /\ batch = <<>> /\ ~failed
        /\ target = 0 /\ flaws = {} /\ used = [edits |-> 0, changes |-> 0, mishaps |-> 0]
    BY DEF Init
  <2>2. Len(log) = 0 /\ DOMAIN log = {}
    BY <1>1
  <2> QED
    BY <1>1, <1>6, <2>1, <2>2 DEF StateInv, Counts
<1>8. Paths(NoFiles) = {} /\ Paths(NoPlans) = {} /\ \A act : PlansOf(NoPlans, act) = {}
  BY DEF NoFiles, NoPlans, Paths, PlansOf
<1>9. /\ scan = NoFiles /\ batch = <<>> /\ dirEvents = <<>> /\ outcome = NoOutcome
      /\ plans = NoPlans
  BY DEF Init
<1>10. CycleInv
  <2>1. \A S : <<>> \in Seq(S)
    OBVIOUS
  <2>2. /\ outcome.walk = NoPlans
        /\ outcome \in [walk : {outcome.walk}, snaps : Seq(Snaps(Known)), changed : BOOLEAN]
    BY <1>9, <2>1 DEF NoOutcome
  <2> QED
    BY <1>8, <1>9, <2>1, <2>2 DEF CycleInv
<1>11. MovesOK(plans, archive)
  BY <1>8, <1>9 DEF MovesOK
<1> QED
  BY <1>2, <1>4, <1>5, <1>7, <1>10, <1>11 DEF TypeInv

(* The end of a cycle, well or not, and a crash.                           *)
LEMMA EndKeeps ==
  ASSUME TypeInv, Finish \/ SaveFails \/ SubtreeFails \/ Crash
  PROVE  TypeInv'
<1>1. Abandon /\ UNCHANGED <<server, disk, copies>>
  BY DEF Finish, SaveFails, SubtreeFails, Crash, local, state
<1>2. ServerInv' /\ Remembers /\ Known' = Known /\ log' = log
  BY <1>1, ServerStill DEF TypeInv, server
<1>3. DiskInv'
  BY <1>1, DiskStill DEF TypeInv
<1>4. flaws' \subseteq Flaws /\ used' \in Counts
  <2>1. flaws \subseteq Flaws /\ used \in Counts
    BY DEF TypeInv, StateInv
  <2>2. used' \in Counts
    BY <2>1 DEF Finish, SaveFails, SubtreeFails, Crash, Spent, Counts
  <2>3. flaws' \subseteq Flaws
    BY <2>1 DEF Finish, SaveFails, SubtreeFails, Crash, Flaws
  <2> QED
    BY <2>2, <2>3
<1>5. RowsOK(archive', Known') /\ RowsOK(saved'.archive, Known')
  BY <1>2 DEF Finish, SaveFails, SubtreeFails, Crash, local, state, TypeInv, StateInv
<1>6. pushed' \cup saved'.pushed \subseteq DOMAIN log'
  BY <1>2 DEF Finish, SaveFails, SubtreeFails, Crash, local, state, TypeInv, StateInv
<1>7. saved'.cursor \in 0..Len(log') /\ cursor' \in saved'.cursor..Len(log') /\ Len(log') \in Nat
  <2>1. Len(log) \in Nat
    BY DEF TypeInv, ServerInv, LogOK
  <2> QED
    BY <1>2, <2>1 DEF Finish, SaveFails, SubtreeFails, Crash, local, state, TypeInv, StateInv
<1>8. target' \in 0..Len(log')
  BY <1>1, <1>7, Abandoned
<1>9. StateInv'
  BY <1>1, <1>4, <1>5, <1>6, <1>7, <1>8, Abandoned DEF StateInv
<1> QED
  BY <1>1, <1>2, <1>3, <1>9, Abandoned DEF TypeInv

(* Where the cycle and the state stay, and nothing is forgotten.           *)
LEMMA OutsideKeeps ==
  ASSUME TypeInv, ServerInv', Remembers, DiskInv',
         UNCHANGED <<saved, state, cycle, flaws>>, used' \in Counts
  PROVE  TypeInv'
<1>0. UNCHANGED <<saved, archive, cursor, pushed, pc, scan, batch, dirEvents, outcome, plans,
                  target, failed, flaws>>
  BY DEF state, cycle
<1>1. CycleInv'
  BY <1>0, CycleGrows DEF TypeInv
<1>2. RowsOK(archive', Known') /\ RowsOK(saved'.archive, Known')
  BY <1>0, RowsKept DEF TypeInv, StateInv, Remembers
<1>3. DOMAIN log \subseteq DOMAIN log' /\ Len(log) \in Nat /\ Len(log') \in Nat /\ Len(log) <= Len(log')
  <2>1. LogOK(log) /\ LogOK(log')
    BY DEF TypeInv, ServerInv
  <2>2. DOMAIN log = 1..Len(log) /\ DOMAIN log' = 1..Len(log') /\ Len(log) \in Nat /\ Len(log') \in Nat
    BY <2>1 DEF LogOK
  <2>3. Len(log) <= Len(log')
    BY DEF Remembers
  <2> QED
    BY <2>2, <2>3
<1>4. saved'.cursor \in 0..Len(log') /\ cursor' \in saved'.cursor..Len(log')
      /\ target' \in 0..Len(log') /\ (pc' # "idle" => cursor' <= target')
  BY <1>0, <1>3 DEF TypeInv, StateInv
<1>5. pushed' \cup saved'.pushed \subseteq DOMAIN log'
  BY <1>0, <1>3 DEF TypeInv, StateInv
<1>6. StateInv'
  BY <1>0, <1>2, <1>4, <1>5 DEF TypeInv, StateInv
<1>7. MovesOK(plans', archive')
  BY <1>0 DEF TypeInv
<1> QED
  BY <1>1, <1>6, <1>7 DEF TypeInv

(* Other clients.                                                          *)
LEMMA OtherClientKeeps ==
  ASSUME TypeInv, OtherClient
  PROVE  TypeInv'
<1>1. ServerInv' /\ Remembers
  BY FileChangeKeeps, DirChangeKeeps DEF TypeInv, OtherClient
<1>2. UNCHANGED <<disk, copies, saved, state, cycle, flaws>>
  BY DEF OtherClient, local
<1>3. DiskInv'
  BY <1>2, DiskStill DEF TypeInv
<1>4. used' \in Counts
  BY DEF OtherClient, Spent, Counts, TypeInv, StateInv
<1> QED
  BY <1>1, <1>2, <1>3, <1>4, OutsideKeeps

(* The user.                                                               *)
LEMMA UserWriteKeeps ==
  ASSUME DiskInv, NEW p \in FilePaths, UserWrite(p), used.edits \in Nat
  PROVE  /\ DiskInv' /\ disk'.files[p] = -(used.edits + 1)
         /\ Paths(disk'.files) = Paths(disk.files) \cup {p}
         /\ \A q \in Paths(disk'.files) : q # p => disk'.files[q] = disk.files[q]
<1>1. PICK c \in Int \ {NoContent} : c = -(used.edits + 1)
  BY DEF NoContent
<1>2. disk' = WithFile(disk, p, c) /\ copies' = copies
  BY <1>1 DEF UserWrite, WithFile
<1>3. \A q \in Paths(disk.files) : Alike(p, q) => q = p
  BY EntryIs DEF UserWrite, DiskInv
<1>4. TreeOK(disk)
  BY DEF DiskInv
<1> QED
  BY <1>1, <1>2, <1>3, <1>4, DiskPutIn

(* A case-only rename of the user's.                                       *)
LEMMA UserRenameKeeps ==
  ASSUME DiskInv, NEW p \in FilePaths, NEW q \in FilePaths, UserRename(p, q)
  PROVE  /\ DiskInv' /\ p \in Paths(disk.files) /\ disk'.files[q] = disk.files[p]
         /\ Paths(disk'.files) = (Paths(disk.files) \ {p}) \cup {q}
         /\ \A r \in Paths(disk'.files) : r # q => disk'.files[r] = disk.files[r]
<1>0. /\ SameFold(p, q) /\ p \in Paths(disk.files) /\ q \notin Paths(disk.files)
      /\ Parents(q) \subseteq disk.dirs /\ copies' = copies
      /\ disk' = [disk EXCEPT !.files = With(Without(@, {p}), q, disk.files[p])]
  BY DEF UserRename
<1>1. TreeOK(disk) /\ disk.files \in Map
  BY DEF DiskInv, TreeOK
<1>2. PICK m \in Map : m = Without(disk.files, {p})
  BY <1>1, WithoutIs
<1>3. Paths(m) = Paths(disk.files) \ {p} /\ \A r \in Paths(m) : m[r] = disk.files[r]
  BY <1>2 DEF Without, Paths
<1>4. PICK t : t = [dirs |-> disk.dirs, files |-> m]
  OBVIOUS
<1>5. TreeOK(t) /\ t.dirs = disk.dirs /\ t.files = m
  <2>1. Paths(m) \subseteq Paths(disk.files)
    BY <1>3
  <2>2. TreeOK(t)
    BY <1>1, <1>4, <2>1, FewerFilesOK
  <2> QED
    BY <1>4, <2>2
<1>6. PICK c \in Int \ {NoContent} : c = disk.files[p]
  BY <1>0 DEF DiskInv, Holds
<1>7. disk' = WithFile(t, q, c)
  <2>1. disk' = [dirs |-> disk.dirs, files |-> With(m, q, c)]
    BY <1>0, <1>1, <1>2, <1>6, TreeParts
  <2>2. t.dirs \cup Parents(q) = disk.dirs
    BY <1>0, <1>5
  <2> QED
    BY <1>5, <2>1, <2>2 DEF WithFile
<1>8. \A r \in Paths(m) : Alike(q, r) => r = q
  <2> SUFFICES ASSUME NEW r \in Paths(m), Alike(q, r), r # q
               PROVE  FALSE
    OBVIOUS
  <2>1. Alike(p, r) /\ r \in Paths(disk.files) /\ r # p
    BY <1>0, <1>3 DEF Alike, SameFold
  <2> QED
    BY <1>0, <2>1 DEF DiskInv, Twinless
<1>9. /\ DiskInv' /\ disk'.files[q] = c
      /\ Paths(disk'.files) = Paths(t.files) \cup {q}
      /\ \A r \in Paths(disk'.files) : r # q => disk'.files[r] = disk.files[r]
  <2>1. /\ TreeOK(t) /\ t.dirs = disk.dirs /\ Paths(t.files) \subseteq Paths(disk.files)
        /\ \A r \in Paths(t.files) : t.files[r] = disk.files[r]
        /\ \A r \in Paths(t.files) : Alike(q, r) => r = q
    BY <1>3, <1>5, <1>8
  <2>2. c \in Int \ {NoContent} /\ copies' = copies
    BY <1>0, <1>6
  <2> QED
    BY <1>7, <2>1, <2>2, DiskPutIn
<1> QED
  BY <1>0, <1>3, <1>5, <1>6, <1>9

(* The user removes a directory.                                           *)
LEMMA UserRemoveDirKeeps ==
  ASSUME DiskInv, NEW d \in DirPaths, UserRemoveDir(d)
  PROVE  /\ DiskInv'
         /\ Paths(disk'.files) = Paths(disk.files) \ FilesBelow(disk.files, d)
         /\ \A q \in Paths(disk'.files) : disk'.files[q] = disk.files[q]
<1>0. /\ disk' = Pruned(disk, d) /\ copies' = copies
      /\ \A c \in copies : ~AtOrBelow(c.dir, d)
  BY DEF UserRemoveDir
<1>1. TreeOK(disk')
  BY <1>0, PathsAreNames, PrunedOK DEF DiskInv
<1>2. /\ disk'.dirs = DeleteDirs(disk.dirs, d)
      /\ disk'.files = Without(disk.files, FilesBelow(disk.files, d))
  BY <1>0 DEF Pruned, DeletePrefix
<1>3. /\ Paths(disk'.files) = Paths(disk.files) \ FilesBelow(disk.files, d)
      /\ \A q \in Paths(disk'.files) : disk'.files[q] = disk.files[q]
  BY <1>2 DEF Without, Paths
<1>4. Holds(disk'.files, Int \ {NoContent}) /\ Twinless(disk'.files)
  BY <1>3 DEF DiskInv, Holds, Twinless
<1>5. \A c \in copies' : c.dir \in disk'.dirs \cup {Root}
  BY <1>0, <1>2 DEF DiskInv, DeleteDirs
<1> QED
  BY <1>1, <1>3, <1>4, <1>5 DEF DiskInv

(* Whatever the user does keeps the types.                                 *)
LEMMA UserKeeps ==
  ASSUME TypeInv, User
  PROVE  TypeInv'
<1>0. UNCHANGED <<server, saved, state, cycle, flaws>> /\ used' \in Counts /\ used.edits \in Nat
  <2>1. UserTurn
    BY DEF User, UserWrite, UserDelete, UserRename, UserRemoveDir
  <2>2. used \in Counts
    BY DEF TypeInv, StateInv
  <2> QED
    BY <2>1, <2>2 DEF UserTurn, Spent, Counts
<1>1. DiskInv'
  <2>1. ASSUME NEW p \in FilePaths, UserDelete(p)
        PROVE  DiskInv'
    <3>1. disk' = [disk EXCEPT !.files = Without(@, {p})] /\ copies' = copies
      BY <2>1 DEF UserDelete
    <3>2. \A c \in copies' : c.dir \in disk.dirs \cup {Root}
      BY <3>1 DEF TypeInv, DiskInv
    <3> QED
      BY <3>1, <3>2, DiskLess DEF TypeInv
  <2>2. DiskInv
    BY DEF TypeInv
  <2> QED
    BY <1>0, <2>1, <2>2, UserWriteKeeps, UserRenameKeeps, UserRemoveDirKeeps DEF User
<1>2. ServerInv' /\ Remembers
  BY <1>0, ServerStill DEF TypeInv
<1> QED
  BY <1>0, <1>1, <1>2, OutsideKeeps

-----------------------------------------------------------------------------
(* The poll, and the directory events. *)

(* Walk shows a part of what is there, and everything where no two names   *)
(* are alike.                                                              *)
LEMMA WalkedIs ==
  ASSUME NEW f
  PROVE  /\ Paths(Walked(f)) \subseteq Paths(f)
         /\ \A p \in Paths(Walked(f)) : Walked(f)[p] = f[p]
         /\ (\A p, q \in Paths(f) : SameFold(p, q) => p = q) => Paths(Walked(f)) = Paths(f)
<1>1. PICK S : S = {p \in Paths(f) : \A q \in Variants(p, Paths(f)) : Precedes(p, q)}
  OBVIOUS
<1>2. Walked(f) = Only(f, S)
  BY <1>1 DEF Walked
<1>3. Paths(Walked(f)) = Paths(f) \cap S /\ \A p \in Paths(Walked(f)) : Walked(f)[p] = f[p]
  BY <1>2 DEF Only, Paths
<1>4. ASSUME \A p, q \in Paths(f) : SameFold(p, q) => p = q
      PROVE  Paths(f) \subseteq S
  <2>1. \A p \in Paths(f) : Variants(p, Paths(f)) = {}
    BY <1>4 DEF Variants
  <2> QED
    BY <1>1, <2>1
<1> QED
  BY <1>3, <1>4

(* Poll.                                                                   *)
LEMMA PollKeeps ==
  ASSUME TypeInv, Poll
  PROVE  TypeInv' /\ scan' = Walked(disk.files)
<1>0. /\ pc = "idle" /\ pc' = "dir_events" /\ scan' = Walked(disk.files) /\ target' = Len(log)
      /\ UNCHANGED <<server, disk, copies, saved, archive, cursor, pushed, outcome, plans, failed, used>>
      /\ flaws' \subseteq Flaws
  BY DEF Poll, Inside, local, state, TypeInv, StateInv, Flaws
<1>1. ServerInv' /\ Remembers /\ Known' = Known /\ log' = log
  BY <1>0, ServerStill DEF TypeInv, server
<1>2. DiskInv'
  BY <1>0, DiskStill DEF TypeInv
<1>3. PICK E : E = Events(Known)
  OBVIOUS
<1>4. log \in Seq(E)
  BY <1>3 DEF TypeInv, ServerInv, LogOK, Known
<1>5. batch' \in Seq(E)
  <2>1. \A i \in DOMAIN log : log[i] \in E
    BY <1>4
  <2>2. Chosen(log, Unpolled) \in Seq(E)
    BY <1>4, <2>1, ChosenIs
  <2> QED
    BY <2>2 DEF Poll
<1>6. dirEvents' \in Seq(DirEvents(Known))
  <2>1. PICK foreign \in Seq(E) : foreign = batch'
    BY <1>5
  <2>2. PICK I : I = {i \in DOMAIN foreign : foreign[i].isDir}
    OBVIOUS
  <2>3. dirEvents' = Chosen(foreign, I)
    BY <2>1, <2>2 DEF Poll, Where
  <2>4. \A i \in DOMAIN foreign : i \in I => foreign[i] \in DirEvents(Known)
    BY <1>3, <2>1, <2>2 DEF DirEvents
  <2> QED
    BY <2>1, <2>3, <2>4, ChosenIs
<1>7. Paths(scan') \subseteq FilePaths
  BY <1>0, WalkedIs DEF TypeInv, DiskInv, TreeOK
<1>8. CycleInv'
  BY <1>0, <1>1, <1>3, <1>5, <1>6, <1>7 DEF TypeInv, CycleInv
<1>9. StateInv'
  <2>1. Len(log) \in Nat
    BY DEF TypeInv, ServerInv, LogOK
  <2>2. target' \in 0..Len(log') /\ cursor' <= target'
    BY <1>0, <1>1, <2>1 DEF TypeInv, StateInv
  <2> QED
    BY <1>0, <1>1, <2>2 DEF TypeInv, StateInv
<1>10. MovesOK(plans', archive')
  BY <1>0 DEF TypeInv
<1> QED
  BY <1>0, <1>1, <1>2, <1>8, <1>9, <1>10 DEF TypeInv

(* What an event makes of the outcome.                                     *)
OutcomeOK(o, w, K) == o \in [walk : {w}, snaps : Seq(Snaps(K)), changed : BOOLEAN]

(* The next event.                                                         *)
LEMMA NextEvent ==
  ASSUME TypeInv, HandleDirEvent
  PROVE  /\ Head(dirEvents) \in DirEvents(Known) /\ dirEvents' \in Seq(DirEvents(Known))
         /\ pc = "dir_events" /\ plans = NoPlans /\ OutcomeOK(outcome, outcome.walk, Known)
         /\ UNCHANGED <<server, saved, cursor, pushed, pc, scan, batch, plans, target, failed, used>>
<1>1. /\ dirEvents # <<>> /\ dirEvents' = Tail(dirEvents) /\ pc = "dir_events"
      /\ UNCHANGED <<server, saved, cursor, pushed, pc, scan, batch, plans, target, failed, used>>
  BY DEF HandleDirEvent, Inside
<1>2. dirEvents \in Seq(DirEvents(Known))
  BY DEF TypeInv, CycleInv
<1>3. Head(dirEvents) \in DirEvents(Known) /\ Tail(dirEvents) \in Seq(DirEvents(Known))
  BY <1>1, <1>2, HeadTailProperties
<1>4. plans = NoPlans
  BY <1>1 DEF TypeInv, StateInv
<1> QED
  BY <1>1, <1>3, <1>4 DEF TypeInv, CycleInv, OutcomeOK

(* A directory event keeps them if what it changes is as it should be.     *)
LEMMA EventKeeps ==
  ASSUME TypeInv, HandleDirEvent, DiskInv', RowsOK(archive', Known), flaws' \subseteq Flaws,
         NEW w, OutcomeOK(outcome', w, Known),
         \A p \in Paths(w) : PlanOK(p, w[p], Known) /\ w[p].act \in WalkActs
  PROVE  TypeInv'
<1>0. /\ dirEvents' \in Seq(DirEvents(Known)) /\ pc = "dir_events" /\ plans = NoPlans
      /\ UNCHANGED <<server, saved, cursor, pushed, pc, scan, batch, plans, target, failed, used>>
  BY NextEvent
<1>1. ServerInv' /\ Remembers /\ Known' = Known /\ log' = log
  BY <1>0, ServerStill DEF TypeInv, server
<1>2. outcome'.walk = w
  BY DEF OutcomeOK
<1>3. CycleInv'
  BY <1>0, <1>1, <1>2 DEF TypeInv, CycleInv, OutcomeOK
<1>4. StateInv'
  BY <1>0, <1>1 DEF TypeInv, StateInv
<1>5. Paths(NoPlans) = {} /\ \A act : PlansOf(NoPlans, act) = {}
  BY DEF NoPlans, Paths, PlansOf
<1>6. MovesOK(plans', archive')
  BY <1>0, <1>5 DEF MovesOK
<1> QED
  BY <1>1, <1>3, <1>4, <1>6 DEF TypeInv

(* The plans of one list or of another.                                    *)
LEMMA OverlaidPlans ==
  ASSUME NEW K, NEW acts, NEW m, NEW n,
         \A p \in Paths(m) : PlanOK(p, m[p], K) /\ m[p].act \in acts,
         \A p \in Paths(n) : PlanOK(p, n[p], K) /\ n[p].act \in acts
  PROVE  \A p \in Paths(Overlaid(m, n)) :
           PlanOK(p, Overlaid(m, n)[p], K) /\ Overlaid(m, n)[p].act \in acts
BY DEF Overlaid, Paths

(* A plan with an action and nothing else.                                 *)
LEMMA BareOK ==
  ASSUME NEW K, NEW p \in FilePaths \cup DirPaths, NEW act \in PlanActs \ {"none"}, act # "pull"
  PROVE  PlanOK(p, Bare(act), K) /\ Bare(act).act = act
BY DEF PlanOK, Bare, Plan

(* A directory that is deleted.                                            *)
LEMMA DeletePlansOK ==
  ASSUME NEW K, NEW D, NEW C, NEW R, NEW d \in DirPaths,
         Paths(D.files) \subseteq FilePaths, Paths(R) \subseteq FilePaths,
         NEW m, m = DeletePlans(D, C, R, d)
  PROVE  /\ \A p \in Paths(m) : PlanOK(p, m[p], K) /\ m[p].act \in WalkActs
         /\ \A p \in PlansOf(m, "delete_local") :
              p \in Paths(D.files) => D.files[p] = At(R, p) /\ p \in Paths(R)
<1>1. PICK known : known = FilesBelow(R, d)
  OBVIOUS
<1>2. PICK gone : gone = {p \in FilesBelow(D.files, d) : D.files[p] # At(R, p)}
  OBVIOUS
<1>3. PICK rmdir : rmdir = IF gone = {} /\ {c \in C : AtOrBelow(c.dir, d)} = {} THEN {d} ELSE {}
  OBVIOUS
<1>4. m = [p \in known \cup gone \cup rmdir |->
             CASE p \in gone -> Bare("preserve")
               [] p = d      -> Bare("rmdir")
               [] OTHER      -> Bare("delete_local")]
  BY <1>1, <1>2, <1>3 DEF DeletePlans
<1>5. known \subseteq Paths(R) /\ gone \subseteq Paths(D.files) /\ rmdir \subseteq {d}
  BY <1>1, <1>2, <1>3 DEF FilesBelow
<1>6. Paths(m) = known \cup gone \cup rmdir
  BY <1>4 DEF Paths
<1>7. ASSUME NEW p \in Paths(m)
      PROVE  m[p] = IF p \in gone THEN Bare("preserve")
                    ELSE IF p = d THEN Bare("rmdir") ELSE Bare("delete_local")
  <2>1. p \in gone => p # d
    BY <1>5, PathsAreNames
  <2> QED
    BY <1>4, <1>6, <2>1
<1>8. WalkActs \subseteq PlanActs \ {"none"} /\ "pull" \notin WalkActs
  BY DEF WalkActs, PlanActs, Actions
<1>9. ASSUME NEW p \in Paths(m)
      PROVE  PlanOK(p, m[p], K) /\ m[p].act \in WalkActs
  <2>1. p \in FilePaths \cup DirPaths
    BY <1>5, <1>6
  <2>2. \A act \in WalkActs :
          PlanOK(p, Bare(act), K) /\ Bare(act).act \in WalkActs
    BY <1>8, <2>1, BareOK
  <2>3. {"preserve", "rmdir", "delete_local"} = WalkActs
    BY DEF WalkActs
  <2> QED
    BY <1>7, <2>2, <2>3
<1>10. ASSUME NEW p \in PlansOf(m, "delete_local"), p \in Paths(D.files)
       PROVE  D.files[p] = At(R, p) /\ p \in Paths(R)
  <2>1. p \in Paths(m) /\ m[p].act = "delete_local"
    BY <1>10 DEF PlansOf
  <2>2. p \notin gone /\ p # d
    BY <1>7, <2>1 DEF Bare, Plan
  <2>3. p \in known
    BY <1>5, <1>6, <2>1, <2>2
  <2>4. p \in Paths(R) /\ Below(p, d)
    BY <1>1, <2>3 DEF FilesBelow
  <2>5. D.files[p] = At(R, p)
    BY <1>2, <1>10, <2>2, <2>4 DEF FilesBelow
  <2> QED
    BY <2>4, <2>5
<1> QED
  BY <1>9, <1>10

(* What the rows say of the hashes.                                        *)
LEMMA RowsAre ==
  ASSUME TypeInv
  PROVE  /\ Paths(rows) = Paths(archive) /\ Paths(rows) \subseteq FilePaths
         /\ \A p \in Paths(rows) : rows[p] = archive[p].hash /\ rows[p] \in Known
         /\ \A p : At(rows, p) # NoContent => p \in Paths(rows) /\ At(rows, p) \in Known
<1>1. Paths(rows) = Paths(archive) /\ \A p \in Paths(rows) : rows[p] = archive[p].hash
  BY DEF rows, Hashes, Paths
<1> QED
  BY <1>1 DEF TypeInv, StateInv, RowsOK, At

(* A directory is made, deleted, or put.                                   *)
LEMMA HandleMkdirKeeps ==
  ASSUME TypeInv, HandleDirEvent, NEW d \in DirPaths, HandleMkdir(d)
  PROVE  TypeInv' /\ disk'.files = disk.files
<1>1. DiskInv' /\ disk'.files = disk.files
  <2>1. PICK D : D = {d} \cup Parents(d)
    OBVIOUS
  <2>2. D \in SUBSET DirPaths /\ \A x \in D : Parents(x) \subseteq disk.dirs \cup D
    BY <2>1, ParentsFit
  <2>3. disk' = [disk EXCEPT !.dirs = disk.dirs \cup {d} \cup Parents(d)] /\ copies' = copies
    BY DEF HandleMkdir
  <2>4. disk.dirs \cup {d} \cup Parents(d) = disk.dirs \cup D
    BY <2>1
  <2>5. disk' = [disk EXCEPT !.dirs = disk.dirs \cup D]
    BY <2>3, <2>4
  <2>6. \A c \in copies' : c.dir \in disk.dirs \cup D \cup {Root}
    BY <2>3 DEF TypeInv, DiskInv
  <2> QED
    BY <2>2, <2>5, <2>6, DiskMore DEF TypeInv
<1>2. RowsOK(archive', Known) /\ flaws' \subseteq Flaws
  BY DEF HandleMkdir, TypeInv, StateInv
<1>3. OutcomeOK(outcome', outcome.walk, Known)
  <2>1. OutcomeOK(outcome, outcome.walk, Known)
    BY NextEvent
  <2> QED
    BY <2>1 DEF HandleMkdir, OutcomeOK
<1>4. \A p \in Paths(outcome.walk) : PlanOK(p, outcome.walk[p], Known) /\ outcome.walk[p].act \in WalkActs
  BY DEF TypeInv, CycleInv
<1> QED
  BY <1>1, <1>2, <1>3, <1>4, EventKeeps

(* HandleDelete.                                                           *)
LEMMA HandleDeleteKeeps ==
  ASSUME TypeInv, HandleDirEvent, NEW d \in DirPaths, HandleDelete(d)
  PROVE  TypeInv' /\ outcome'.walk = Overlaid(outcome.walk, DeletePlans(disk, copies, rows, d))
<1>1. PICK m : m = DeletePlans(disk, copies, rows, d)
  OBVIOUS
<1>2. PICK w : w = Overlaid(outcome.walk, m)
  OBVIOUS
<1>3. Paths(disk.files) \subseteq FilePaths /\ Paths(rows) \subseteq FilePaths
  BY RowsAre DEF TypeInv, DiskInv, TreeOK
<1>4. \A p \in Paths(m) : PlanOK(p, m[p], Known) /\ m[p].act \in WalkActs
  BY <1>1, <1>3, DeletePlansOK
<1>5. \A p \in Paths(outcome.walk) : PlanOK(p, outcome.walk[p], Known) /\ outcome.walk[p].act \in WalkActs
  BY DEF TypeInv, CycleInv
<1>6. \A p \in Paths(w) : PlanOK(p, w[p], Known) /\ w[p].act \in WalkActs
  BY <1>2, <1>4, <1>5, OverlaidPlans
<1>7. OutcomeOK(outcome', w, Known)
  <2>1. OutcomeOK(outcome, outcome.walk, Known)
    BY NextEvent
  <2> QED
    BY <1>1, <1>2, <2>1 DEF HandleDelete, OutcomeOK
<1>8. DiskInv' /\ RowsOK(archive', Known) /\ flaws' \subseteq Flaws
  BY DiskStill DEF HandleDelete, TypeInv, StateInv
<1>9. TypeInv'
  BY <1>6, <1>7, <1>8, EventKeeps
<1> QED
  BY <1>1, <1>2, <1>7, <1>9 DEF OutcomeOK

(* HandlePut: the subtree fetched has contents that are known.             *)
LEMMA HandlePutKeeps ==
  ASSUME TypeInv, HandleDirEvent, NEW d \in DirPaths, HandlePut(d)
  PROVE  /\ TypeInv' /\ outcome'.walk = outcome.walk
         /\ flaws \subseteq flaws' /\ flaws' \subseteq flaws \cup {"carried"}
<1>0. flaws \subseteq flaws' /\ flaws' \subseteq flaws \cup {"carried"}
  BY DEF HandlePut
<1>1. OutcomeOK(outcome, outcome.walk, Known)
  BY NextEvent
<1>2. OutcomeOK(outcome', outcome.walk, Known)
  <2>1. CASE ~IsDir(tree, d)
    BY <1>1, <2>1 DEF HandlePut
  <2>2. CASE IsDir(tree, d)
    <3>1. PICK s : s = [prefix |-> d, sub |-> Subtree(tree, d)]
      OBVIOUS
    <3>2. tree.files \in Map /\ tree.dirs \subseteq DirPaths /\ Paths(tree.files) \subseteq FilePaths
          /\ Holds(tree.files, Known)
      BY DEF TypeInv, ServerInv, ServerTyped, TreeOK
    <3>3. PICK f : f = Only(tree.files, FilesBelow(tree.files, d))
      OBVIOUS
    <3>4. f \in Map /\ Paths(f) \subseteq FilePaths /\ Holds(f, Known)
      <4>1. f \in Map /\ Paths(f) \subseteq Paths(tree.files)
        BY <3>2, <3>3, OnlyIs
      <4>2. \A p \in Paths(f) : f[p] = tree.files[p]
        BY <3>3 DEF Only, Paths
      <4> QED
        BY <3>2, <4>1, <4>2 DEF Holds
    <3>5. s.sub \in [dirs : SUBSET DirPaths, files : Map] /\ s.sub.files = f
      BY <3>1, <3>2, <3>3, <3>4 DEF Subtree
    <3>6. s \in Snaps(Known)
      <4>1. s = [prefix |-> d, sub |-> s.sub]
        BY <3>1
      <4> QED
        BY <3>4, <3>5, <4>1 DEF Snaps
    <3>7. Append(outcome.snaps, s) \in Seq(Snaps(Known))
      BY <1>1, <3>6 DEF OutcomeOK
    <3>8. outcome' = [outcome EXCEPT !.snaps = Append(outcome.snaps, s)]
      BY <2>2, <3>1 DEF HandlePut
    <3> QED
      BY <1>1, <3>7, <3>8 DEF OutcomeOK
  <2> QED
    BY <2>1, <2>2
<1>3. \A p \in Paths(outcome.walk) : PlanOK(p, outcome.walk[p], Known) /\ outcome.walk[p].act \in WalkActs
  BY DEF TypeInv, CycleInv
<1>4. DiskInv' /\ RowsOK(archive', Known) /\ flaws' \subseteq Flaws
  BY <1>0, DiskStill DEF HandlePut, TypeInv, StateInv, Flaws
<1>5. TypeInv'
  BY <1>2, <1>3, <1>4, EventKeeps
<1> QED
  BY <1>0, <1>2, <1>5 DEF OutcomeOK

-----------------------------------------------------------------------------
(* A directory that moves. *)

(* The files on disk that move with it.                                    *)
Moving(from) == FilesBelow(disk.files, from) \ Drifted(disk, rows, from)

(* The map in which some files have their new names.                       *)
LEMMA ShiftedIs ==
  ASSUME NEW m, NEW M, M \subseteq Paths(m), NEW d \in Names, NEW e \in Names,
         \A p \in M : p \in Names /\ Below(p, d), NEW n,
         n = Overlaid(Without(m, M), [q \in {Rebased(p, d, e) : p \in M} |-> m[Rebased(q, e, d)]])
  PROVE  /\ Paths(n) = (Paths(m) \ M) \cup {Rebased(p, d, e) : p \in M}
         /\ \A p \in M : n[Rebased(p, d, e)] = m[p]
         /\ \A q \in Paths(m) \ M : q \notin {Rebased(p, d, e) : p \in M} => n[q] = m[q]
<1>1. PICK N : N = {Rebased(p, d, e) : p \in M}
  OBVIOUS
<1>2. PICK a : a = [q \in N |-> m[Rebased(q, e, d)]]
  OBVIOUS
<1>3. n = Overlaid(Without(m, M), a)
  BY <1>1, <1>2
<1>4. PICK k : k = Without(m, M)
  OBVIOUS
<1>5. Paths(k) = Paths(m) \ M /\ \A q \in Paths(m) \ M : k[q] = m[q]
  BY <1>4 DEF Without, Paths
<1>6. Paths(a) = N /\ \A q \in N : a[q] = m[Rebased(q, e, d)]
  BY <1>2 DEF Paths
<1>7. /\ Paths(n) = Paths(k) \cup Paths(a)
      /\ \A q \in Paths(a) : n[q] = a[q]
      /\ \A q \in Paths(k) \ Paths(a) : n[q] = k[q]
  BY <1>3, <1>4 DEF Overlaid, Paths
<1>8. \A p \in M : Rebased(Rebased(p, d, e), e, d) = p
  BY BelowMeans, RebasedIs
<1>9. \A p \in M : n[Rebased(p, d, e)] = m[p]
  BY <1>1, <1>6, <1>7, <1>8
<1> QED
  BY <1>1, <1>5, <1>6, <1>7, <1>9

(* What expandArchiveMove does to the disk and to the copies.              *)
LEMMA HandleMoveDisk ==
  ASSUME DiskInv, NEW from \in DirPaths, NEW to \in DirPaths, Fits(from, to),
         HandleMove(from, to)
  PROVE  /\ DiskInv'
         /\ Paths(disk'.files) =
              (Paths(disk.files) \ Moving(from)) \cup {Rebased(p, from, to) : p \in Moving(from)}
         /\ \A p \in Moving(from) : disk'.files[Rebased(p, from, to)] = disk.files[p]
         /\ \A q \in Paths(disk.files) \ Moving(from) :
              q \notin {Rebased(p, from, to) : p \in Moving(from)} => disk'.files[q] = disk.files[q]
         /\ \A c \in copies : \E x \in copies' : x.content = c.content
         /\ \A c \in copies' : \E x \in copies : x.content = c.content
<1>0. /\ TreeOK(disk) /\ disk.files \in Map /\ disk.dirs \subseteq DirPaths
      /\ Paths(disk.files) \subseteq FilePaths
      /\ from \in Names /\ to \in Names /\ from # Root /\ to # Root
      /\ ~CaseInsensitive
  BY PathsAreNames, BoundsAssumption DEF DiskInv, TreeOK
<1>1. PICK M : M = Moving(from)
  OBVIOUS
<1>2. PICK strays : strays = {c \in copies : AtOrBelow(c.dir, from)}
  OBVIOUS
<1>3. PICK N : N = {Rebased(p, from, to) : p \in M}
  OBVIOUS
<1>4. PICK arrived : arrived = [q \in N |-> disk.files[Rebased(q, to, from)]]
  OBVIOUS
<1>5. PICK moved : moved = {Copy(Rebased(c.dir, from, to), c.content) : c \in strays}
  OBVIOUS
<1>6. PICK made : made = {q \in DirPaths : \E p \in Paths(arrived) : Below(p, q)} \cup
                         {q \in DirPaths : \E c \in moved : AtOrBelow(c.dir, q)}
  OBVIOUS
<1>7. /\ disk' = [dirs |-> disk.dirs \cup made, files |-> Overlaid(Without(disk.files, M), arrived)]
      /\ copies' = (copies \ strays) \cup moved
  BY <1>1, <1>2, <1>3, <1>4, <1>5, <1>6 DEF HandleMove, Moving
<1>8. M \subseteq Paths(disk.files) /\ \A p \in M : p \in Names /\ Below(p, from)
  BY <1>0, <1>1, PathsAreNames DEF Moving, FilesBelow
<1>9. PICK n : n = disk'.files
  OBVIOUS
<1>10. n = Overlaid(Without(disk.files, M),
                    [q \in {Rebased(p, from, to) : p \in M} |-> disk.files[Rebased(q, to, from)]])
  BY <1>3, <1>4, <1>7, <1>9
<1>11. /\ Paths(n) = (Paths(disk.files) \ M) \cup {Rebased(p, from, to) : p \in M}
       /\ \A p \in M : n[Rebased(p, from, to)] = disk.files[p]
       /\ \A q \in Paths(disk.files) \ M :
            q \notin {Rebased(p, from, to) : p \in M} => n[q] = disk.files[q]
  BY <1>0, <1>8, <1>10, ShiftedIs
<1>12. N \subseteq FilePaths
  <2>1. \A p \in M : Rebased(p, from, to) \in FilePaths
    BY <1>0, <1>8 DEF Fits
  <2> QED
    BY <1>3, <2>1
<1>13. n \in Map /\ Paths(n) \subseteq FilePaths
  <2>1. arrived \in Map
    <3>1. \A q \in N : disk.files[Rebased(q, to, from)] \in Int
      <4>1. \A p \in M : Rebased(Rebased(p, from, to), to, from) = p
        BY <1>0, <1>8, BelowMeans, RebasedIs
      <4>2. \A p \in M : disk.files[p] \in Int
        BY <1>0, <1>8, MapIs
      <4> QED
        BY <1>3, <4>1, <4>2
    <3>2. arrived \in [N -> Int] /\ N \in SUBSET Names
      BY <1>4, <1>12, <3>1, PathsAreNames
    <3> QED
      BY <3>2, MapFrom
  <2>2. Without(disk.files, M) \in Map
    BY <1>0, WithoutIs
  <2>3. n = Overlaid(Without(disk.files, M), arrived)
    BY <1>7, <1>9
  <2>4. n \in Map
    BY <2>1, <2>2, <2>3, OverlaidIs
  <2> QED
    BY <1>0, <1>3, <1>11, <1>12, <2>4
<1>14. /\ disk'.dirs = disk.dirs \cup made /\ made \subseteq DirPaths
       /\ disk' = [dirs |-> disk.dirs \cup made, files |-> n]
  BY <1>6, <1>7, <1>9
<1>15. \A c \in strays : Rebased(c.dir, from, to) \in DirPaths
  <2> SUFFICES ASSUME NEW c \in strays
               PROVE  Rebased(c.dir, from, to) \in DirPaths
    OBVIOUS
  <2>1. c.dir \in disk.dirs \cup {Root} /\ AtOrBelow(c.dir, from)
    BY <1>2 DEF DiskInv
  <2>2. c.dir # Root
    <3>1. ~Below(Root, from) /\ Root \in Names
      BY <1>0, RootAbove
    <3>2. ~AtOrBelow(Root, from)
      BY <1>0, <3>1, BelowMeans
    <3> QED
      BY <2>1, <3>2
  <2>3. c.dir \in DirPaths /\ c.dir \in Names
    BY <1>0, <2>1, <2>2, PathsAreNames
  <2>4. CASE c.dir = from
    <3>1. AtOrBelow(from, from)
      BY <1>0, RootAbove
    <3>2. Rebased(from, from, to) = to
      <4>1. SubSeq(from, Len(from) + 1, Len(from)) = <<>>
        BY <1>0 DEF Names
      <4>2. to \o <<>> = to
        BY <1>0, ConcatEmptySeq DEF Names
      <4> QED
        BY <4>1, <4>2 DEF Rebased
    <3> QED
      BY <2>4, <3>2
  <2>5. CASE c.dir # from
    <3>1. Below(c.dir, from)
      BY <1>0, <2>1, <2>3, <2>5, BelowMeans
    <3> QED
      BY <2>3, <3>1 DEF Fits
  <2> QED
    BY <2>4, <2>5
<1>16. \A q \in made : Parents(q) \subseteq made
  <2> SUFFICES ASSUME NEW q \in made, NEW d \in Parents(q)
               PROVE  d \in made
    OBVIOUS
  <2>1. q \in DirPaths /\ d \in DirPaths /\ q \in Names /\ d \in Names /\ Below(q, d)
    <3>1. q \in DirPaths /\ q \in Names
      BY <1>14, PathsAreNames
    <3>2. d \in DirPaths /\ d \in Names
      BY <3>1, ParentsFit, PathsAreNames
    <3> QED
      BY <3>1, <3>2, ParentsAre
  <2>2. CASE \E p \in Paths(arrived) : Below(p, q)
    <3>1. PICK p \in Paths(arrived) : Below(p, q)
      BY <2>2
    <3>2. p \in Names
      BY <1>4, <1>12, <3>1, PathsAreNames DEF Paths
    <3>3. Below(p, d)
      BY <2>1, <3>1, <3>2, BelowMeans, BelowStrictly
    <3> QED
      BY <1>6, <2>1, <3>1, <3>3
  <2>3. CASE \E c \in moved : AtOrBelow(c.dir, q)
    <3>1. PICK c \in moved : AtOrBelow(c.dir, q)
      BY <2>3
    <3>2. c.dir \in Names
      BY <1>5, <1>15, <3>1, PathsAreNames DEF Copy
    <3>3. AtOrBelow(c.dir, d)
      BY <2>1, <3>1, <3>2, BelowStrictly, BelowMeans
    <3> QED
      BY <1>6, <2>1, <3>1, <3>3
  <2> QED
    BY <1>6, <2>2, <2>3
<1>17. \A q \in N : Parents(q) \subseteq made
  <2> SUFFICES ASSUME NEW q \in N, NEW d \in Parents(q)
               PROVE  d \in made
    OBVIOUS
  <2>1. q \in FilePaths /\ q \in Names /\ d \in DirPaths /\ d \in Names
    BY <1>12, ParentsFit, PathsAreNames
  <2>2. Below(q, d)
    BY <2>1, ParentsAre
  <2>3. q \in Paths(arrived)
    BY <1>4 DEF Paths
  <2> QED
    BY <1>6, <2>1, <2>2, <2>3
<1>18. TreeOK(disk')
  <2>1. (disk.dirs \cup made) \cap Paths(n) = {}
    BY <1>0, <1>13, <1>14, PathsAreNames
  <2>2. \A q \in disk.dirs \cup Paths(disk.files) : Parents(q) \subseteq disk.dirs
    BY <1>0 DEF TreeOK, WellFormed
  <2>3. \A q \in disk.dirs \cup made \cup Paths(n) : Parents(q) \subseteq disk.dirs \cup made
    BY <1>3, <1>11, <1>16, <1>17, <2>2
  <2> QED
    BY <1>0, <1>13, <1>14, <2>1, <2>3 DEF TreeOK, WellFormed
<1>19. Holds(n, Int \ {NoContent})
  <2>1. \A q \in Paths(disk.files) : disk.files[q] \in Int \ {NoContent}
    BY DEF DiskInv, Holds
  <2>2. \A q \in Paths(n) : n[q] \in Int \ {NoContent}
    BY <1>8, <1>11, <2>1
  <2> QED
    BY <2>2 DEF Holds
<1>20. Twinless(n)
  BY <1>0 DEF Twinless, Alike
<1>21. \A c \in copies' : c.dir \in disk'.dirs \cup {Root}
  <2>1. \A c \in copies : c.dir \in disk.dirs \cup {Root}
    BY DEF DiskInv
  <2>2. ASSUME NEW c \in moved
        PROVE  c.dir \in made
    <3>1. c.dir \in DirPaths
      BY <1>5, <1>15 DEF Copy
    <3>2. AtOrBelow(c.dir, c.dir)
      BY <3>1, PathsAreNames, RootAbove
    <3> QED
      BY <1>6, <3>1, <3>2
  <2> QED
    BY <1>7, <1>14, <2>1, <2>2
<1>22. DiskInv'
  BY <1>9, <1>18, <1>19, <1>20, <1>21 DEF DiskInv
<1>23. \A c \in copies : \E x \in copies' : x.content = c.content
  <2> SUFFICES ASSUME NEW c \in copies
               PROVE  \E x \in copies' : x.content = c.content
    OBVIOUS
  <2>1. CASE c \notin strays
    BY <1>7, <2>1
  <2>2. CASE c \in strays
    <3>1. PICK x : x = Copy(Rebased(c.dir, from, to), c.content)
      OBVIOUS
    <3>2. x \in moved /\ x.content = c.content
      BY <1>5, <2>2, <3>1 DEF Copy
    <3> QED
      BY <1>7, <3>2
  <2> QED
    BY <2>1, <2>2
<1>24. \A c \in copies' : \E x \in copies : x.content = c.content
  BY <1>2, <1>5, <1>7 DEF Copy
<1> QED
  BY <1>1, <1>9, <1>11, <1>22, <1>23, <1>24

(* Its rows, its plans, and what it notes.                                 *)
LEMMA HandleMoveKeeps ==
  ASSUME TypeInv, HandleDirEvent, NEW from \in DirPaths, NEW to \in DirPaths, Fits(from, to),
         HandleMove(from, to)
  PROVE  /\ TypeInv'
         /\ Moving(from) = {} \/ outcome'.changed
         /\ outcome.changed => outcome'.changed
         /\ PlansOf(outcome'.walk, "delete_local") \subseteq PlansOf(outcome.walk, "delete_local")
         /\ flaws \subseteq flaws'
         /\ {Rebased(p, from, to) : p \in Moving(from)} \cap Paths(disk.files) # {} =>
              "overwritten" \in flaws'
         /\ {Rebased(p, from, to) : p \in Moving(from)} \cap Paths(outcome.walk) # {} =>
              "replanned" \in flaws'
<1>0. from \in Names /\ to \in Names
  BY PathsAreNames
<1>1. PICK drifted : drifted = Drifted(disk, rows, from)
  OBVIOUS
<1>2. PICK M : M = Moving(from) /\ M = FilesBelow(disk.files, from) \ drifted
  BY <1>1 DEF Moving
<1>3. PICK tracked : tracked = FilesBelow(archive, from) \ drifted
  OBVIOUS
<1>4. PICK w : w = Overlaid(outcome.walk, [p \in drifted |-> Bare("preserve")])
  OBVIOUS
<1>5. /\ archive' = Overlaid(Without(archive, tracked),
                             [q \in {Rebased(p, from, to) : p \in tracked} |->
                                archive[Rebased(q, to, from)]])
      /\ outcome'.walk = w /\ outcome'.snaps = outcome.snaps
      /\ outcome' = [walk |-> w, snaps |-> outcome.snaps, changed |-> outcome'.changed]
  BY <1>1, <1>2, <1>3, <1>4 DEF HandleMove
<1>6. outcome'.changed = (outcome.changed \/ M # {} \/ {c \in copies : AtOrBelow(c.dir, from)} # {})
  BY <1>1, <1>2 DEF HandleMove
<1>7. RowsOK(archive', Known)
  <2>1. RowsOK(archive, Known)
    BY DEF TypeInv, StateInv
  <2>2. tracked \subseteq Paths(archive) /\ \A p \in tracked : p \in FilePaths /\ p \in Names /\ Below(p, from)
    BY <1>3, <2>1, PathsAreNames DEF FilesBelow, RowsOK
  <2>3. PICK a : a = archive'
    OBVIOUS
  <2>4. /\ Paths(a) = (Paths(archive) \ tracked) \cup {Rebased(p, from, to) : p \in tracked}
        /\ \A p \in tracked : a[Rebased(p, from, to)] = archive[p]
        /\ \A q \in Paths(archive) \ tracked :
             q \notin {Rebased(p, from, to) : p \in tracked} => a[q] = archive[q]
    <3>1. a = Overlaid(Without(archive, tracked),
                       [q \in {Rebased(p, from, to) : p \in tracked} |-> archive[Rebased(q, to, from)]])
      BY <1>5, <2>3
    <3> QED
      BY <1>0, <2>2, <3>1, ShiftedIs
  <2>5. \A p \in tracked : Rebased(p, from, to) \in FilePaths
    BY <2>2 DEF Fits
  <2>6. \A p \in Paths(archive) : p \in FilePaths /\ archive[p].hash \in Known
    BY <2>1 DEF RowsOK
  <2>7. \A q \in Paths(a) : q \in FilePaths /\ a[q].hash \in Known
    BY <2>2, <2>4, <2>5, <2>6
  <2> QED
    BY <2>3, <2>7 DEF RowsOK
<1>8. PICK m : m = [p \in drifted |-> Bare("preserve")]
  OBVIOUS
<1>9. \A p \in Paths(m) : PlanOK(p, m[p], Known) /\ m[p].act \in WalkActs /\ m[p].act = "preserve"
  <2>1. Paths(m) = drifted /\ \A p \in drifted : m[p] = Bare("preserve")
    BY <1>8 DEF Paths
  <2>2. drifted \subseteq FilePaths
    BY <1>1, RowsAre DEF Drifted, FilesBelow
  <2>3. "preserve" \in PlanActs \ {"none"} /\ "preserve" # "pull" /\ "preserve" \in WalkActs
    BY DEF PlanActs, Actions, WalkActs
  <2> QED
    BY <2>1, <2>2, <2>3, BareOK
<1>10. \A p \in Paths(w) : PlanOK(p, w[p], Known) /\ w[p].act \in WalkActs
  <2>1. \A p \in Paths(outcome.walk) : PlanOK(p, outcome.walk[p], Known) /\ outcome.walk[p].act \in WalkActs
    BY DEF TypeInv, CycleInv
  <2> QED
    BY <1>4, <1>8, <1>9, <2>1, OverlaidPlans
<1>11. OutcomeOK(outcome, outcome.walk, Known)
  BY NextEvent
<1>12. outcome'.changed \in BOOLEAN
  BY <1>6, <1>11 DEF OutcomeOK
<1>13. OutcomeOK(outcome', w, Known)
  BY <1>5, <1>11, <1>12 DEF OutcomeOK
<1>14. PlansOf(w, "delete_local") \subseteq PlansOf(outcome.walk, "delete_local")
  BY <1>4, <1>8, <1>9 DEF PlansOf, Overlaid, Paths
<1>15. PICK N : N = {Rebased(p, from, to) : p \in M}
  OBVIOUS
<1>16. /\ flaws \subseteq flaws' /\ flaws' \subseteq flaws \cup Flaws
       /\ N \cap Paths(disk.files) # {} => "overwritten" \in flaws'
       /\ N \cap Paths(outcome.walk) # {} => "replanned" \in flaws'
  <2>1. flaws' = flaws \cup (IF drifted # {} THEN {"unfetched"} ELSE {})
                       \cup (IF N \cap Paths(disk.files) # {}
                             THEN {"overwritten"} ELSE {})
                       \cup (IF \E p \in Paths(outcome.walk) : AtOrBelow(p, from)
                             THEN {"carried"} ELSE {})
                       \cup (IF {Rebased(p, from, to) : p \in M \cup tracked}
                                  \cap Paths(outcome.walk) # {}
                             THEN {"replanned"} ELSE {})
    <3>1. PICK arrived : arrived = [q \in N |-> disk.files[Rebased(q, to, from)]]
      OBVIOUS
    <3>2. Paths(arrived) = N
      BY <3>1 DEF Paths
    <3>3. flaws' = flaws \cup (IF drifted # {} THEN {"unfetched"} ELSE {})
                         \cup (IF Paths(arrived) \cap Paths(disk.files) # {}
                               THEN {"overwritten"} ELSE {})
                         \cup (IF \E p \in Paths(outcome.walk) : AtOrBelow(p, from)
                               THEN {"carried"} ELSE {})
                         \cup (IF {Rebased(p, from, to) : p \in M \cup tracked}
                                    \cap Paths(outcome.walk) # {}
                               THEN {"replanned"} ELSE {})
      BY <1>1, <1>2, <1>3, <1>15, <3>1 DEF HandleMove
    <3> QED
      BY <3>2, <3>3
  <2>2. N \subseteq {Rebased(p, from, to) : p \in M \cup tracked}
    BY <1>15
  <2>3. {"unfetched", "overwritten", "carried", "replanned"} \subseteq Flaws
    BY DEF Flaws
  <2> QED
    BY <2>1, <2>2, <2>3
<1>17. DiskInv' /\ flaws' \subseteq Flaws
  BY <1>16, HandleMoveDisk DEF TypeInv, StateInv
<1>18. TypeInv'
  BY <1>7, <1>10, <1>13, <1>17, EventKeeps
<1> QED
  BY <1>2, <1>5, <1>6, <1>14, <1>15, <1>16, <1>18

(* Every directory event.                                                  *)
LEMMA EventCases ==
  ASSUME TypeInv, HandleDirEvent
  PROVE  \/ \E d \in DirPaths : HandleMkdir(d) \/ HandleDelete(d) \/ HandlePut(d)
         \/ \E d, e \in DirPaths : Fits(d, e) /\ HandleMove(d, e)
<1>1. PICK ch : ch = Head(dirEvents)
  OBVIOUS
<1>2. EventOK(ch) /\ ch.isDir
  BY <1>1, NextEvent DEF DirEvents, Events
<1>3. /\ ch.act \in {"mkdir", "put", "move"} => ch.after \in DirPaths
      /\ ch.act \in {"delete", "move"} => ch.before \in DirPaths
      /\ ch.act = "move" => Fits(ch.before, ch.after)
  BY <1>2 DEF EventOK
<1>4. \/ ch.act = "mkdir" /\ HandleMkdir(ch.after)
      \/ ch.act = "delete" /\ HandleDelete(ch.before)
      \/ ch.act = "move" /\ HandleMove(ch.before, ch.after)
      \/ ch.act = "put" /\ HandlePut(ch.after)
  BY <1>1 DEF HandleDirEvent
<1> QED
  BY <1>3, <1>4

(* Every directory event keeps the types.                                  *)
LEMMA EachEventKeeps ==
  ASSUME TypeInv, HandleDirEvent
  PROVE  TypeInv'
BY EventCases, HandleMkdirKeeps, HandleDeleteKeeps, HandlePutKeeps, HandleMoveKeeps

-----------------------------------------------------------------------------
(* The lists of plans. *)

(* A plan made from the walk sc, the rows and the server's changes, or one *)
(* of the list w that the directory events made.                           *)
Planned(p, pl, sc, w, K) ==
  /\ PlanOK(p, pl, K) /\ pl.act \in Unmerged
  /\ pl.act = "delete_local" =>
       At(sc, p) \in K \cup {NoContent} \/ p \in PlansOf(w, "delete_local")
  /\ pl.act = "move_apply" => At(sc, pl.from) \in K
  /\ pl.act = "delete_remote" => At(sc, p) = NoContent

PlanSet(K) == [act : PlanActs \ {"none"}, from : FilePaths \cup {Root},
               content : K \cup {NoContent}]
Lists(sc, w, K) ==
  {m \in UNION {[P -> PlanSet(K)] : P \in SUBSET (FilePaths \cup DirPaths)} :
     \A p \in Paths(m) : Planned(p, m[p], sc, w, K)}

(* Such lists,                                                             *)
LEMMA ListFrom ==
  ASSUME NEW sc, NEW w, NEW K, NEW m, m = [p \in Paths(m) |-> m[p]],
         \A p \in Paths(m) : Planned(p, m[p], sc, w, K)
  PROVE  m \in Lists(sc, w, K)
<1>1. PICK P : P = Paths(m)
  OBVIOUS
<1>2. P \in SUBSET (FilePaths \cup DirPaths)
  BY <1>1 DEF Planned, PlanOK
<1>3. \A p \in P : m[p] \in PlanSet(K)
  BY <1>1 DEF Planned, PlanOK, PlanSet
<1>4. m \in [P -> PlanSet(K)]
  BY <1>1, <1>3
<1>5. m \in UNION {[Q -> PlanSet(K)] : Q \in SUBSET (FilePaths \cup DirPaths)}
  BY <1>2, <1>4
<1> QED
  BY <1>5 DEF Lists

(* and one of them laid over another.                                      *)
LEMMA ListsOverlaid ==
  ASSUME NEW sc, NEW w, NEW K, NEW m \in Lists(sc, w, K), NEW n \in Lists(sc, w, K)
  PROVE  Overlaid(m, n) \in Lists(sc, w, K)
<1>1. PICK x : x = Overlaid(m, n)
  OBVIOUS
<1>2. Paths(x) = Paths(m) \cup Paths(n)
      /\ \A p \in Paths(x) : x[p] = IF p \in Paths(n) THEN n[p] ELSE m[p]
  BY <1>1 DEF Overlaid, Paths
<1>3. x = [p \in Paths(x) |-> x[p]]
  BY <1>1 DEF Overlaid, Paths
<1>4. /\ \A p \in Paths(m) : Planned(p, m[p], sc, w, K)
      /\ \A p \in Paths(n) : Planned(p, n[p], sc, w, K)
  BY DEF Lists
<1>5. \A p \in Paths(x) : Planned(p, x[p], sc, w, K)
  BY <1>2, <1>4
<1> QED
  BY <1>1, <1>3, <1>5, ListFrom

(* The decisions of the comparisons.                                       *)
LEMMA IncrementalIs ==
  ASSUME NEW d, NEW r, NEW e, NEW a, a = IncrementalAction(d, r, e)
  PROVE  /\ a \in Actions
         /\ a = "delete_local" => d = r \/ d = NoContent
         /\ a = "delete_remote" => d = NoContent
         /\ a = "pull" => e = "put"
BY DEF IncrementalAction, LocalSame, LocalDeleted, LocalChanged, LocalNew, Actions

(* The same of the full comparison.                                        *)
LEMMA FullIs ==
  ASSUME NEW d, NEW r, NEW p, NEW S, NEW a, a = FullAction(d, r, p \in S)
  PROVE  /\ a \in Actions
         /\ a = "delete_local" => d = r \/ d = NoContent
         /\ a = "delete_remote" => d = NoContent
         /\ a = "pull" => p \in S
BY DEF FullAction, LocalDeleted, LocalChanged, Actions

(* A plan that compares a path makes.                                      *)
LEMMA ComparedOK ==
  ASSUME NEW sc, NEW r, NEW w, NEW K, \A q \in Paths(r) : r[q] \in K,
         NEW p \in FilePaths, NEW a \in Actions \ {"none"}, NEW c \in K \cup {NoContent},
         a = "delete_local" => At(sc, p) = At(r, p) \/ At(sc, p) = NoContent,
         a = "delete_remote" => At(sc, p) = NoContent,
         a = "pull" => c # NoContent
  PROVE  Planned(p, Plan(a, Root, c), sc, w, K)
<1>1. a \in PlanActs \ {"none"} /\ a \in Unmerged /\ a # "move_apply"
  BY DEF PlanActs, Actions, Unmerged
<1>2. PICK pl : pl = Plan(a, Root, c)
  OBVIOUS
<1>3. pl = [act |-> a, from |-> Root, content |-> c]
  BY <1>2 DEF Plan
<1>4. PlanOK(p, pl, K) /\ pl.act = a
  BY <1>1, <1>3 DEF PlanOK
<1>5. At(r, p) \in K \cup {NoContent}
  BY DEF At
<1> QED
  BY <1>1, <1>2, <1>4, <1>5 DEF Planned

(* The file events of a poll.                                              *)
FileEntries(K) == {ch \in Events(K) : ~ch.isDir}

(* Their parts.                                                            *)
LEMMA FileEntryIs ==
  ASSUME NEW K, NEW ch \in FileEntries(K)
  PROVE  /\ {ch.before, ch.after} \subseteq FilePaths \cup {Root}
         /\ ch.act = "move" => ch.before \in FilePaths /\ ch.after \in FilePaths
         /\ ch.act \in {"put", "move"} => ch.content # NoContent
         /\ ch.content \in K \cup {NoContent}
BY DEF FileEntries, Events, EventOK

(* classify.                                                               *)
LEMMA ClassifiedOK ==
  ASSUME NEW sc, NEW r, NEW w, NEW K, \A q \in Paths(r) : r[q] \in K,
         Paths(sc) \subseteq FilePaths, Paths(r) \subseteq FilePaths,
         NEW changes \in Seq(FileEntries(K))
  PROVE  Classified(sc, r, changes) \in Lists(sc, w, K)
<1>1. PICK event : event = [p \in FilePaths |-> IF EventsOf(changes, p) = <<>> THEN Bare("none")
                                                ELSE Last(EventsOf(changes, p))]
  OBVIOUS
<1>2. PICK named : named = {ch.after : ch \in ToSet(changes)} \cup {ch.before : ch \in ToSet(changes)}
  OBVIOUS
<1>3. PICK candidates : candidates = (Paths(sc) \cup Paths(r) \cup named)
                                       \ (MoveSources(changes) \cup {Root})
  OBVIOUS
<1>4. candidates \subseteq FilePaths
  <2>1. \A ch \in ToSet(changes) : ch \in FileEntries(K)
    BY DEF ToSet
  <2>2. named \subseteq FilePaths \cup {Root}
    BY <1>2, <2>1, FileEntryIs
  <2> QED
    BY <1>3, <2>2
<1>5. \A p \in candidates : event[p] = IF EventsOf(changes, p) = <<>> THEN Bare("none")
                                       ELSE Last(EventsOf(changes, p))
  BY <1>1, <1>4
<1>6. PICK m : m = [p \in {q \in candidates : IncrementalAction(At(sc, q), At(r, q), event[q].act) # "none"} |->
                      Plan(IncrementalAction(At(sc, p), At(r, p), event[p].act), Root, event[p].content)]
  OBVIOUS
<1>7. Classified(sc, r, changes) = m
  BY <1>2, <1>3, <1>5, <1>6 DEF Classified
<1>8. \A p \in FilePaths : event[p].content \in K \cup {NoContent}
                           /\ (event[p].act = "put" => event[p].content # NoContent)
  <2> SUFFICES ASSUME NEW p \in FilePaths
               PROVE  event[p].content \in K \cup {NoContent}
                      /\ (event[p].act = "put" => event[p].content # NoContent)
    OBVIOUS
  <2>1. EventsOf(changes, p) \in Seq(FileEntries(K))
    <3>1. PICK I : I = {i \in DOMAIN changes : \/ changes[i].act = "put" /\ changes[i].after = p
                                               \/ changes[i].act = "delete" /\ changes[i].before = p}
      OBVIOUS
    <3>2. EventsOf(changes, p) = Chosen(changes, I)
      BY <3>1 DEF EventsOf, Where
    <3> QED
      BY <3>2, ChosenIs
  <2>2. CASE EventsOf(changes, p) = <<>>
    BY <1>1, <2>2 DEF Bare, Plan
  <2>3. CASE EventsOf(changes, p) # <<>>
    <3>1. PICK ch : ch = Last(EventsOf(changes, p))
      OBVIOUS
    <3>2. ch \in FileEntries(K)
      BY <2>1, <2>3, <3>1 DEF Last
    <3>3. event[p] = ch
      BY <1>1, <2>3, <3>1
    <3> QED
      BY <3>2, <3>3, FileEntryIs
  <2> QED
    BY <2>2, <2>3
<1>9. Paths(m) \subseteq candidates /\ m = [p \in Paths(m) |-> m[p]]
  BY <1>6 DEF Paths
<1>10. ASSUME NEW p \in Paths(m)
       PROVE  Planned(p, m[p], sc, w, K)
  <2>1. PICK a : a = IncrementalAction(At(sc, p), At(r, p), event[p].act)
    OBVIOUS
  <2>2. p \in FilePaths /\ a # "none" /\ m[p] = Plan(a, Root, event[p].content)
    BY <1>4, <1>6, <1>9, <2>1 DEF Paths
  <2>3. /\ a \in Actions \ {"none"}
        /\ a = "delete_local" => At(sc, p) = At(r, p) \/ At(sc, p) = NoContent
        /\ a = "delete_remote" => At(sc, p) = NoContent
        /\ a = "pull" => event[p].act = "put"
    BY <2>1, <2>2, IncrementalIs
  <2>4. PICK c \in K \cup {NoContent} : c = event[p].content /\ (a = "pull" => c # NoContent)
    BY <1>8, <2>2, <2>3
  <2>5. Planned(p, Plan(a, Root, c), sc, w, K)
    BY <2>2, <2>3, <2>4, ComparedOK
  <2> QED
    BY <2>2, <2>4, <2>5
<1> QED
  BY <1>7, <1>9, <1>10, ListFrom

(* The fileMoves loop.                                                     *)
LEMMA MovePlansOK ==
  ASSUME NEW sc, NEW r, NEW w, NEW K, \A q \in Paths(r) : r[q] \in K,
         NEW ch \in FileEntries(K), ch.act = "move"
  PROVE  MovePlans(sc, r, ch) \in Lists(sc, w, K)
<1>1. PICK p, q, c : p = ch.before /\ q = ch.after /\ c = ch.content
  OBVIOUS
<1>2. p \in FilePaths /\ q \in FilePaths /\ c \in K \cup {NoContent} /\ c # NoContent
  BY <1>1, FileEntryIs
<1>3. PICK d, o : d = At(sc, p) /\ o = At(r, p)
  OBVIOUS
<1>4. PICK to : to = [act \in {"move_apply", "conflict", "pull"} |-> [x \in {q} |-> Plan(act, p, c)]]
  OBVIOUS
<1>5. PICK gone : gone = [x \in {p} |-> Bare("delete_local")]
  OBVIOUS
<1>6. \/ d = o /\ o # NoContent /\ MovePlans(sc, r, ch) = to["move_apply"]
      \/ MovePlans(sc, r, ch) = to["conflict"]
      \/ d = NoContent /\ MovePlans(sc, r, ch) = Overlaid(to["pull"], gone)
      \/ MovePlans(sc, r, ch) = to["pull"]
  BY <1>1, <1>3, <1>4, <1>5 DEF MovePlans, LocalChanged, LocalDeleted
<1>7. {"move_apply", "conflict", "pull", "delete_local"} \subseteq Unmerged
      /\ Unmerged \subseteq PlanActs \ {"none"}
  BY DEF Unmerged, PlanActs, Actions
<1>8. ASSUME NEW act \in {"move_apply", "conflict", "pull"}, act = "move_apply" => d \in K
      PROVE  to[act] \in Lists(sc, w, K)
  <2>1. PICK m : m = to[act]
    OBVIOUS
  <2>2. m = [x \in {q} |-> Plan(act, p, c)]
    BY <1>4, <2>1
  <2>3. Paths(m) = {q} /\ m[q] = [act |-> act, from |-> p, content |-> c] /\ m = [x \in Paths(m) |-> m[x]]
    BY <2>2 DEF Paths, Plan
  <2>4. PlanOK(q, m[q], K) /\ m[q].act = act /\ m[q].from = p
    BY <1>2, <1>7, <2>3 DEF PlanOK
  <2>5. Planned(q, m[q], sc, w, K)
    BY <1>3, <1>7, <1>8, <2>4 DEF Planned
  <2> QED
    BY <2>1, <2>3, <2>5, ListFrom
<1>9. d = NoContent => gone \in Lists(sc, w, K)
  <2>1. Paths(gone) = {p} /\ gone[p] = Bare("delete_local") /\ gone = [x \in Paths(gone) |-> gone[x]]
    BY <1>5 DEF Paths
  <2>2. PlanOK(p, gone[p], K) /\ gone[p].act = "delete_local"
    BY <1>2, <1>7, <2>1, BareOK
  <2>3. d = NoContent => Planned(p, gone[p], sc, w, K)
    BY <1>3, <1>7, <2>2 DEF Planned
  <2> QED
    BY <2>1, <2>3, ListFrom
<1>10. o # NoContent => o \in K
  BY <1>3 DEF At
<1>11. CASE d = o /\ o # NoContent /\ MovePlans(sc, r, ch) = to["move_apply"]
  BY <1>8, <1>10, <1>11
<1>12. CASE MovePlans(sc, r, ch) = to["conflict"]
  BY <1>8, <1>12
<1>13. CASE d = NoContent /\ MovePlans(sc, r, ch) = Overlaid(to["pull"], gone)
  <2>1. to["pull"] \in Lists(sc, w, K)
    BY <1>8
  <2> QED
    BY <1>9, <1>13, <2>1, ListsOverlaid
<1>14. CASE MovePlans(sc, r, ch) = to["pull"]
  BY <1>8, <1>14
<1> QED
  BY <1>6, <1>11, <1>12, <1>13, <1>14

(* CompareIncremental.                                                     *)
LEMMA FilePlansOK ==
  ASSUME NEW sc, NEW r, NEW w, NEW K, \A q \in Paths(r) : r[q] \in K,
         Paths(sc) \subseteq FilePaths, Paths(r) \subseteq FilePaths,
         NEW changes \in Seq(FileEntries(K))
  PROVE  FilePlans(sc, r, changes) \in Lists(sc, w, K)
<1>1. PICK T : T = {ch \in FileEntries(K) : ch.act = "move"}
  OBVIOUS
<1>2. PICK moves : moves = FileMoves(changes)
  OBVIOUS
<1>3. moves \in Seq(T)
  <2>1. PICK I : I = {i \in DOMAIN changes : changes[i].act = "move"}
    OBVIOUS
  <2>2. moves = Chosen(changes, I)
    BY <1>2, <2>1 DEF FileMoves, Where
  <2>3. \A i \in DOMAIN changes : i \in I => changes[i] \in T
    BY <1>1, <2>1
  <2> QED
    BY <2>2, <2>3, ChosenIs
<1>4. PICK n \in Nat : n = Len(moves) /\ DOMAIN moves = 1..n /\ \A i \in 1..n : moves[i] \in T
  BY <1>3
<1>5. PICK layers : layers = [i \in DOMAIN moves |-> MovePlans(sc, r, moves[i])]
  OBVIOUS
<1>6. DOMAIN layers = 1..n /\ Len(layers) = n /\ \A i \in 1..n : layers[i] = MovePlans(sc, r, moves[i])
  BY <1>4, <1>5
<1>7. \A i \in 1..n : layers[i] \in Lists(sc, w, K)
  BY <1>1, <1>4, <1>6, MovePlansOK
<1>8. PICK X : X = Lists(sc, w, K)
  OBVIOUS
<1>9. \A i \in 1..n : \A x \in X : Overlaid(x, layers[i]) \in X
  BY <1>7, <1>8, ListsOverlaid
<1>10. Classified(sc, r, changes) \in X
  BY <1>8, ClassifiedOK
<1>11. LaidOver(Classified(sc, r, changes), layers) \in X
  BY <1>4, <1>6, <1>9, <1>10, LaidOverIn
<1> QED
  BY <1>2, <1>5, <1>8, <1>11 DEF FilePlans

(* SubtreeComparePlans.                                                    *)
LEMMA SnapshotOK ==
  ASSUME NEW sc, NEW r, NEW w, NEW K, \A q \in Paths(r) : r[q] \in K, NoContent \notin K,
         Paths(sc) \subseteq FilePaths, Paths(r) \subseteq FilePaths,
         NEW dirs, NEW s \in Snaps(K)
  PROVE  SnapshotPlans(sc, r, dirs, s) \in Lists(sc, w, K)
<1>1. PICK files : files = s.sub.files
  OBVIOUS
<1>2. Paths(files) \subseteq FilePaths /\ (\A p \in Paths(files) : files[p] \in K)
      /\ s.sub.dirs \subseteq DirPaths
  BY <1>1 DEF Snaps, Holds
<1>3. PICK compared : compared = Paths(files) \cup FilesBelow(sc, s.prefix) \cup FilesBelow(r, s.prefix)
  OBVIOUS
<1>4. compared \subseteq FilePaths
  BY <1>2, <1>3 DEF FilesBelow
<1>5. PICK m : m = [p \in {q \in compared : FullAction(At(sc, q), At(r, q), q \in Paths(files)) # "none"} |->
                      Plan(FullAction(At(sc, p), At(r, p), p \in Paths(files)), Root, At(files, p))]
  OBVIOUS
<1>6. PICK e : e = [x \in {y \in s.sub.dirs \ dirs : FilesBelow(files, y) = {}} |-> Bare("mkdir")]
  OBVIOUS
<1>7. SnapshotPlans(sc, r, dirs, s) = Overlaid(m, e)
  BY <1>1, <1>3, <1>5, <1>6 DEF SnapshotPlans
<1>8. m \in Lists(sc, w, K)
  <2>1. Paths(m) \subseteq compared /\ m = [p \in Paths(m) |-> m[p]]
    BY <1>5 DEF Paths
  <2>2. ASSUME NEW p \in Paths(m)
        PROVE  Planned(p, m[p], sc, w, K)
    <3>1. PICK a : a = FullAction(At(sc, p), At(r, p), p \in Paths(files))
      OBVIOUS
    <3>3. p \in FilePaths /\ a # "none" /\ m[p] = Plan(a, Root, At(files, p))
      BY <1>4, <1>5, <2>1, <3>1 DEF Paths
    <3>4. /\ a \in Actions \ {"none"}
          /\ a = "delete_local" => At(sc, p) = At(r, p) \/ At(sc, p) = NoContent
          /\ a = "delete_remote" => At(sc, p) = NoContent
          /\ a = "pull" => p \in Paths(files)
      BY <3>1, <3>3, FullIs
    <3>5. PICK c \in K \cup {NoContent} : c = At(files, p) /\ (a = "pull" => c # NoContent)
      BY <1>2, <3>4 DEF At
    <3>6. Planned(p, Plan(a, Root, c), sc, w, K)
      BY <3>3, <3>4, <3>5, ComparedOK
    <3> QED
      BY <3>3, <3>5, <3>6
  <2> QED
    BY <2>1, <2>2, ListFrom
<1>9. e \in Lists(sc, w, K)
  <2>1. Paths(e) \subseteq DirPaths /\ e = [p \in Paths(e) |-> e[p]]
        /\ \A p \in Paths(e) : e[p] = Bare("mkdir")
    BY <1>2, <1>6 DEF Paths
  <2>2. "mkdir" \in PlanActs \ {"none"} /\ "mkdir" \in Unmerged
    BY DEF PlanActs, Unmerged
  <2>3. ASSUME NEW p \in Paths(e)
        PROVE  Planned(p, e[p], sc, w, K)
    <3>1. PlanOK(p, Bare("mkdir"), K) /\ Bare("mkdir").act = "mkdir"
      BY <2>1, <2>2, BareOK
    <3> QED
      BY <2>1, <2>2, <3>1 DEF Planned
  <2> QED
    BY <2>1, <2>3, ListFrom
<1> QED
  BY <1>7, <1>8, <1>9, ListsOverlaid

-----------------------------------------------------------------------------
(* The comparison and the merging. *)

(* MergeCaseOnlyRenames.                                                   *)
LEMMA RenamesAre ==
  ASSUME NEW m, NEW sc, NEW r, NEW n, n = MergeCaseOnlyRenames(m, sc, r)
  PROVE  /\ \A x \in Paths(n) :
              \/ /\ x \in Paths(m) /\ n[x] = m[x]
                 /\ \A pair \in MovePairs(sc, r) : x # pair[1] /\ x # pair[2]
              \/ \E pair \in MovePairs(sc, r) :
                   x = pair[2] /\ n[x] = Plan("move", pair[1], NoContent)
         /\ \A pair \in MovePairs(sc, r) : pair[1] \notin Paths(n)
<1>1. PICK pairs : pairs = MovePairs(sc, r)
  OBVIOUS
<1>2. PICK S : S = {pair[2] : pair \in pairs}
  OBVIOUS
<1>3. PICK f : f = [q \in S |-> Plan("move", (CHOOSE pair \in pairs : pair[2] = q)[1], NoContent)]
  OBVIOUS
<1>4. n = Overlaid(Without(m, Consumed(pairs)), f)
  BY <1>1, <1>2, <1>3 DEF MergeCaseOnlyRenames, Renames
<1>5. /\ Paths(n) = (Paths(m) \ Consumed(pairs)) \cup S
      /\ \A x \in Paths(n) : n[x] = IF x \in S THEN f[x] ELSE m[x]
  BY <1>3, <1>4 DEF Overlaid, Without, Paths
<1>6. \A x : x \in Consumed(pairs) <=> \E pair \in pairs : x = pair[1] \/ x = pair[2]
  BY DEF Consumed
<1>7. ASSUME NEW x \in S
      PROVE  \E pair \in pairs : x = pair[2] /\ f[x] = Plan("move", pair[1], NoContent)
  <2>1. PICK pair : pair = CHOOSE y \in pairs : y[2] = x
    OBVIOUS
  <2>2. pair \in pairs /\ pair[2] = x
    BY <1>2, <2>1
  <2>3. f[x] = Plan("move", pair[1], NoContent)
    BY <1>3, <2>1
  <2> QED
    BY <2>2, <2>3
<1>8. ASSUME NEW pair \in pairs
      PROVE  pair[1] \notin S
  <2>1. \A y \in pairs : y[1] \in Paths(r) /\ y[2] \notin Paths(r)
    BY <1>1 DEF MovePairs
  <2> QED
    BY <1>2, <2>1
<1>9. ASSUME NEW x \in Paths(n)
      PROVE  \/ /\ x \in Paths(m) /\ n[x] = m[x]
                /\ \A pair \in pairs : x # pair[1] /\ x # pair[2]
             \/ \E pair \in pairs : x = pair[2] /\ n[x] = Plan("move", pair[1], NoContent)
  <2>1. CASE x \in S
    BY <1>5, <1>7, <2>1
  <2>2. CASE x \notin S
    <3>1. x \in Paths(m) \ Consumed(pairs) /\ n[x] = m[x]
      BY <1>5, <2>2
    <3> QED
      BY <1>6, <3>1
  <2> QED
    BY <2>1, <2>2
<1>10. ASSUME NEW pair \in pairs
       PROVE  pair[1] \notin Paths(n)
  BY <1>5, <1>6, <1>8
<1> QED
  BY <1>1, <1>9, <1>10

(* The pairs.                                                              *)
LEMMA PairsAre ==
  ASSUME NEW sc, NEW r, NEW pair \in MovePairs(sc, r)
  PROVE  /\ pair[1] \in Paths(r) \ Paths(sc) /\ pair[2] \in Paths(sc) \ Paths(r)
         /\ SameFold(pair[1], pair[2])
         /\ \A other \in MovePairs(sc, r) : other[1] = pair[1] => other[2] = pair[2]
<1>1. PICK new : new = Paths(sc) \ Paths(r)
  OBVIOUS
<1>2. \A x \in MovePairs(sc, r) :
        /\ x[1] \in Paths(r) \ Paths(sc) /\ x[2] \in new
        /\ SameFold(x[1], x[2]) /\ Variants(x[2], new) = {}
  BY <1>1 DEF MovePairs
<1>3. ASSUME NEW other \in MovePairs(sc, r), other[1] = pair[1], other[2] # pair[2]
      PROVE  FALSE
  <2>1. SameFold(pair[2], other[2])
    BY <1>2, <1>3 DEF SameFold
  <2>2. other[2] \in Variants(pair[2], new)
    BY <1>2, <1>3, <2>1 DEF Variants
  <2> QED
    BY <1>2, <2>2
<1> QED
  BY <1>1, <1>2, <1>3

(* NeutralizeLocalRemoteCaseCollisions: what a delete leaves in its bucket *)
(* is the source of a rename.                                              *)
LEMMA NeutralizeIs ==
  ASSUME NEW m, NEW sc, NEW r, NEW n, n = Neutralize(m, sc, r)
  PROVE  /\ Paths(n) = Paths(m)
         /\ \A x \in Paths(n) : n[x] = m[x] \/ n[x] = Bare("skip")
         /\ CaseInsensitive =>
              \A x \in PlansOf(n, "delete_local") : \A y \in Paths(sc) :
                y # x /\ SameFold(x, y) =>
                  \E z \in PlansOf(m, "move") \cup PlansOf(m, "move_apply") : m[z].from = y
<1>1. PICK vulnerable : vulnerable = UNION {PlansOf(m, act) : act \in
                          {"push", "pull", "delete_local", "delete_remote", "conflict"}}
  OBVIOUS
<1>2. PICK removed : removed = PlansOf(m, "delete_local") \cup PlansOf(m, "delete_remote")
                       \cup {m[x].from : x \in PlansOf(m, "move") \cup PlansOf(m, "move_apply")}
  OBVIOUS
<1>3. PICK existing : existing = Paths(sc) \cup Paths(r)
  OBVIOUS
<1>4. PICK unsafe : unsafe = {x \in Paths(m) : \/ Variants(x, vulnerable) # {}
                                               \/ Variants(x, existing) \ removed # {}}
  OBVIOUS
<1>5. CaseInsensitive =>
        n = [x \in Paths(m) |-> IF x \in vulnerable /\ x \in unsafe THEN Bare("skip") ELSE m[x]]
  BY <1>1, <1>2, <1>3, <1>4 DEF Neutralize
<1>6. ~CaseInsensitive => n = m
  BY DEF Neutralize
<1>7. Paths(n) = Paths(m) /\ \A x \in Paths(n) : n[x] = m[x] \/ n[x] = Bare("skip")
  BY <1>5, <1>6 DEF Paths
<1>8. ASSUME CaseInsensitive, NEW x \in PlansOf(n, "delete_local"), NEW y \in Paths(sc),
             y # x, SameFold(x, y)
      PROVE  \E z \in PlansOf(m, "move") \cup PlansOf(m, "move_apply") : m[z].from = y
  <2>1. Bare("skip").act # "delete_local"
    BY DEF Bare, Plan
  <2>2. x \in Paths(m) /\ n[x] = m[x] /\ m[x].act = "delete_local"
    BY <1>7, <1>8, <2>1 DEF PlansOf
  <2>3. x \in PlansOf(m, "delete_local") /\ x \in vulnerable
    BY <1>1, <2>2 DEF PlansOf
  <2>4. x \notin unsafe
    <3>1. n[x] # Bare("skip")
      BY <2>1, <2>2
    <3> QED
      BY <1>5, <1>8, <2>2, <2>3, <3>1
  <2>5. Variants(x, vulnerable) = {} /\ Variants(x, existing) \ removed = {}
    BY <1>4, <2>2, <2>4
  <2>6. y \in removed
    BY <1>3, <1>8, <2>5 DEF Variants
  <2>7. y \notin vulnerable
    BY <1>8, <2>5 DEF Variants
  <2>8. y \notin PlansOf(m, "delete_local") /\ y \notin PlansOf(m, "delete_remote")
    BY <1>1, <2>7
  <2> QED
    BY <1>2, <2>6, <2>8
<1> QED
  BY <1>7, <1>8

(* MergeFolderDeletes.                                                     *)
LEMMA FolderDeletesAre ==
  ASSUME NEW m, NEW sc, NEW r, NEW n, n = MergeFolderDeletes(m, sc, r),
         Paths(m) \subseteq FilePaths \cup DirPaths
  PROVE  \A x \in Paths(n) :
           \/ x \in Paths(m) /\ n[x] = m[x]
           \/ /\ x \in DirPaths /\ n[x] = Bare("delete_remote_dir")
              /\ FilesBelow(r, x) \subseteq PlansOf(m, "delete_remote")
              /\ FilesBelow(sc, x) = {}
<1>1. PICK deleted : deleted = PlansOf(m, "delete_remote")
  OBVIOUS
<1>2. PICK candidates : candidates = UNION {Parents(x) : x \in deleted}
  OBVIOUS
<1>3. PICK eligible : eligible = {d \in candidates : /\ FilesBelow(r, d) \subseteq deleted
                                                    /\ FilesBelow(sc, d) = {}}
  OBVIOUS
<1>4. PICK kept : kept = {d \in eligible : Parents(d) \cap eligible = {}}
  OBVIOUS
<1>5. PICK covered : covered = {x \in deleted : Parents(x) \cap kept # {}}
  OBVIOUS
<1>6. n = Overlaid(Without(m, covered), [d \in kept |-> Bare("delete_remote_dir")])
  BY <1>1, <1>2, <1>3, <1>4, <1>5 DEF MergeFolderDeletes
<1>7. \A x \in Paths(n) : \/ x \in Paths(m) /\ n[x] = m[x]
                          \/ x \in kept /\ n[x] = Bare("delete_remote_dir")
  BY <1>6 DEF Overlaid, Without, Paths
<1>8. candidates \subseteq DirPaths
  BY <1>1, <1>2, ParentsFit DEF PlansOf
<1>9. \A x \in kept : x \in DirPaths /\ FilesBelow(r, x) \subseteq deleted /\ FilesBelow(sc, x) = {}
  BY <1>3, <1>4, <1>8
<1> QED
  BY <1>1, <1>7, <1>9

(* What Compare computes.                                                  *)
Seen == IF outcome.changed \/ outcome.snaps # <<>> THEN Walked(disk.files) ELSE scan
Subtrees == [i \in DOMAIN outcome.snaps |-> SnapshotPlans(Seen, rows, disk.dirs, outcome.snaps[i])]
FileEvents == Chosen(batch, {i \in DOMAIN batch : ~batch[i].isDir})
Merged == MergePlansByPath(FilePlans(Seen, rows, FileEvents), LaidOver(NoPlans, Subtrees), outcome.walk)
Renamed == MergeCaseOnlyRenames(Merged, Seen, rows)

(* Its parts by name, and what it leaves alone.                            *)
LEMMA ComparePlans ==
  ASSUME Compare
  PROVE  /\ plans' = MergeFolderDeletes(Neutralize(Renamed, Seen, rows), Seen, rows)
         /\ scan' = Seen
         /\ pc = "dir_events" /\ pc' = "executing"
         /\ UNCHANGED <<server, disk, copies, saved, archive, cursor, pushed, batch, dirEvents,
                        outcome, target, failed, edits, used>>
         /\ flaws \subseteq flaws' /\ flaws' \subseteq flaws \cup Flaws
         /\ \A f \in {"overwritten", "replanned"} : f \in flaws' => f \in flaws
<1>1. plans' = MergeFolderDeletes(Neutralize(Renamed, Seen, rows), Seen, rows) /\ scan' = Seen
  BY DEF Compare, Renamed, Merged, FileEvents, Where, Subtrees, Seen
<1>2. /\ pc = "dir_events" /\ pc' = "executing"
      /\ UNCHANGED <<server, disk, copies, saved, archive, cursor, pushed, batch, dirEvents,
                     outcome, target, failed, edits, used>>
  BY DEF Compare, Inside, local, state
<1>3. flaws \subseteq flaws' /\ flaws' \subseteq flaws \cup {"stranded", "superseded", "renamed", "outranked", "skipped"}
  <2>1. PICK a : a = (IF \E ch \in ToSet(FileMoves(FileEvents)) :
                           LocalChanged(At(Seen, ch.before), At(rows, ch.before))
                      THEN {"stranded"} ELSE {})
    OBVIOUS
  <2>2. PICK b : b = (IF \E i, j \in DOMAIN FileEvents :
                           /\ i # j /\ FileEvents[i].act = "move"
                           /\ Touched(FileEvents[i]) \cap Touched(FileEvents[j]) # {}
                      THEN {"superseded"} ELSE {})
    OBVIOUS
  <2>3. PICK c : c = (IF \E p \in Consumed(MovePairs(Seen, rows)) :
                           p \notin Paths(Merged) \/
                           Merged[p].act \notin {"push", "delete_remote"}
                      THEN {"renamed"} ELSE {})
    OBVIOUS
  <2>4. PICK d : d = (IF PlansOf(Neutralize(Renamed, Seen, rows), "skip") # {}
                      THEN {"skipped"} ELSE {})
    OBVIOUS
  <2>5. PICK e : e = (IF \E i \in DOMAIN outcome.snaps :
                           \E p \in Paths(outcome.walk) \cup
                                   {ch.after : ch \in ToSet(FileMoves(FileEvents))} :
                             Exists(outcome.snaps[i].sub, p)
                      THEN {"outranked"} ELSE {})
    OBVIOUS
  <2>6. flaws' = flaws \cup a \cup b \cup c \cup e \cup d
    BY <2>1, <2>2, <2>3, <2>4, <2>5 DEF Compare, Renamed, Merged, FileEvents, Where, Subtrees, Seen
  <2>7. a \subseteq {"stranded"} /\ b \subseteq {"superseded"} /\ c \subseteq {"renamed"}
        /\ d \subseteq {"skipped"} /\ e \subseteq {"outranked"}
    BY <2>1, <2>2, <2>3, <2>4, <2>5
  <2> QED
    BY <2>6, <2>7
<1>4. {"stranded", "superseded", "renamed", "outranked", "skipped"} \subseteq Flaws
  BY DEF Flaws
<1>5. \A f \in {"overwritten", "replanned"} : 
        f \notin {"stranded", "superseded", "renamed", "outranked", "skipped"}
  OBVIOUS
<1> QED
  BY <1>1, <1>2, <1>3, <1>4, <1>5

(* The walk has paths of the scope.                                        *)
LEMMA SeenIs ==
  ASSUME TypeInv
  PROVE  Paths(Seen) \subseteq FilePaths
BY WalkedIs DEF Seen, TypeInv, CycleInv, DiskInv, TreeOK

(* All lists together.                                                     *)
LEMMA MergedOK ==
  ASSUME TypeInv
  PROVE  \A p \in Paths(Merged) : Planned(p, Merged[p], Seen, outcome.walk, Known)
<1>1. PICK sc, r, w, K : sc = Seen /\ r = rows /\ w = outcome.walk /\ K = Known
  OBVIOUS
<1>2. /\ Paths(sc) \subseteq FilePaths /\ Paths(r) \subseteq FilePaths
      /\ (\A q \in Paths(r) : r[q] \in K) /\ NoContent \notin K
  BY <1>1, SeenIs, RowsAre, KnownTyped DEF TypeInv
<1>3. FileEvents \in Seq(FileEntries(K))
  <2>1. batch \in Seq(Events(K))
    BY <1>1 DEF TypeInv, CycleInv
  <2>2. PICK I : I = {i \in DOMAIN batch : ~batch[i].isDir}
    OBVIOUS
  <2>3. \A i \in DOMAIN batch : i \in I => batch[i] \in FileEntries(K)
    BY <2>1, <2>2 DEF FileEntries
  <2>4. Chosen(batch, I) \in Seq(FileEntries(K))
    BY <2>1, <2>3, ChosenIs
  <2> QED
    BY <2>2, <2>4 DEF FileEvents
<1>4. PICK X : X = Lists(sc, w, K)
  OBVIOUS
<1>5. FilePlans(sc, r, FileEvents) \in X
  BY <1>2, <1>3, <1>4, FilePlansOK
<1>6. LaidOver(NoPlans, Subtrees) \in X
  <2>1. outcome.snaps \in Seq(Snaps(K))
    BY <1>1 DEF TypeInv, CycleInv
  <2>2. PICK n \in Nat : n = Len(outcome.snaps) /\ DOMAIN outcome.snaps = 1..n
                         /\ \A i \in 1..n : outcome.snaps[i] \in Snaps(K)
    BY <2>1
  <2>3. PICK layers : layers = Subtrees
    OBVIOUS
  <2>4. /\ DOMAIN layers = 1..n /\ Len(layers) = n
        /\ \A i \in 1..n : layers[i] = SnapshotPlans(sc, r, disk.dirs, outcome.snaps[i])
    BY <1>1, <2>2, <2>3 DEF Subtrees
  <2>5. \A i \in 1..n : layers[i] \in X
    BY <1>2, <1>4, <2>2, <2>4, SnapshotOK
  <2>6. \A i \in 1..n : \A x \in X : Overlaid(x, layers[i]) \in X
    BY <1>4, <2>5, ListsOverlaid
  <2>7. NoPlans \in X
    <3>1. NoPlans = [p \in Paths(NoPlans) |-> NoPlans[p]] /\ Paths(NoPlans) = {}
      BY DEF NoPlans, Paths
    <3> QED
      BY <1>4, <3>1, ListFrom
  <2>8. LaidOver(NoPlans, layers) \in X
    BY <2>2, <2>4, <2>6, <2>7, LaidOverIn
  <2> QED
    BY <2>3, <2>8
<1>7. PICK a : a = Overlaid(FilePlans(sc, r, FileEvents), LaidOver(NoPlans, Subtrees))
  OBVIOUS
<1>8. \A p \in Paths(a) : Planned(p, a[p], sc, w, K)
  <2>1. a \in X
    BY <1>4, <1>5, <1>6, <1>7, ListsOverlaid
  <2> QED
    BY <1>4, <2>1 DEF Lists
<1>9. \A p \in Paths(w) : Planned(p, w[p], sc, w, K)
  <2>1. \A p \in Paths(w) : PlanOK(p, w[p], K) /\ w[p].act \in WalkActs
    BY <1>1 DEF TypeInv, CycleInv
  <2>2. WalkActs \subseteq Unmerged
    BY DEF WalkActs, Unmerged, PlanActs, Actions
  <2>3. \A p \in Paths(w) : w[p].act = "delete_local" => p \in PlansOf(w, "delete_local")
    BY DEF PlansOf
  <2>4. "move_apply" \notin WalkActs /\ "delete_remote" \notin WalkActs
    BY DEF WalkActs
  <2> QED
    BY <2>1, <2>2, <2>3, <2>4 DEF Planned
<1>10. Merged = Overlaid(a, w)
  BY <1>1, <1>7 DEF Merged, MergePlansByPath
<1>11. \A p \in Paths(Overlaid(a, w)) : Planned(p, Overlaid(a, w)[p], sc, w, K)
  BY <1>8, <1>9 DEF Overlaid, Paths
<1> QED
  BY <1>1, <1>10, <1>11

(* After the case-only renames.                                            *)
LEMMA RenamedPaths ==
  ASSUME TypeInv
  PROVE  /\ Paths(Renamed) \subseteq FilePaths \cup DirPaths
         /\ \A x \in Paths(Renamed) :
              \/ Planned(x, Renamed[x], Seen, outcome.walk, Known)
              \/ \E pair \in MovePairs(Seen, rows) :
                   x = pair[2] /\ Renamed[x] = Plan("move", pair[1], NoContent)
<1>1. PICK sc, r, w, K, m, n : /\ sc = Seen /\ r = rows /\ w = outcome.walk /\ K = Known
                               /\ m = Merged /\ n = MergeCaseOnlyRenames(m, sc, r)
  OBVIOUS
<1>2. n = Renamed
  BY <1>1 DEF Renamed
<1>3. \A x \in Paths(m) : Planned(x, m[x], sc, w, K)
  BY <1>1, MergedOK
<1>4. \A x \in Paths(n) :
        \/ x \in Paths(m) /\ n[x] = m[x]
        \/ \E pair \in MovePairs(sc, r) : x = pair[2] /\ n[x] = Plan("move", pair[1], NoContent)
  BY <1>1, RenamesAre
<1>5. \A pair \in MovePairs(sc, r) : pair[2] \in FilePaths
  BY <1>1, PairsAre, SeenIs
<1>6. \A x \in Paths(m) : x \in FilePaths \cup DirPaths
  BY <1>3 DEF Planned, PlanOK
<1>7. \A x \in Paths(n) :
        \/ Planned(x, n[x], sc, w, K)
        \/ \E pair \in MovePairs(sc, r) : x = pair[2] /\ n[x] = Plan("move", pair[1], NoContent)
  BY <1>3, <1>4
<1>8. Paths(n) \subseteq FilePaths \cup DirPaths
  BY <1>4, <1>5, <1>6
<1> QED
  BY <1>1, <1>2, <1>7, <1>8

(* What a plan that comes out of Compare can be.                           *)
LEMMA EachPlan ==
  ASSUME TypeInv, Compare, NEW p \in Paths(plans')
  PROVE  \/ p \in Paths(Renamed) /\ Planned(p, plans'[p], Seen, outcome.walk, Known)
         \/ /\ p \in Paths(Renamed) /\ p \in FilePaths \cup DirPaths
            /\ plans'[p] = Bare("skip")
         \/ \E pair \in MovePairs(Seen, rows) :
              p = pair[2] /\ plans'[p] = Plan("move", pair[1], NoContent)
         \/ /\ p \in DirPaths /\ plans'[p] = Bare("delete_remote_dir")
            /\ FilesBelow(rows, p) \subseteq Paths(Renamed) /\ FilesBelow(Seen, p) = {}
<1>1. PICK sc, r, w, K : sc = Seen /\ r = rows /\ w = outcome.walk /\ K = Known
  OBVIOUS
<1>2. PICK m : m = Merged
  OBVIOUS
<1>3. PICK n : n = MergeCaseOnlyRenames(m, sc, r)
  OBVIOUS
<1>4. PICK z : z = Neutralize(n, sc, r)
  OBVIOUS
<1>5. PICK f : f = MergeFolderDeletes(z, sc, r)
  OBVIOUS
<1>6. n = Renamed /\ plans' = f
  BY <1>1, <1>2, <1>3, <1>4, <1>5, ComparePlans DEF Renamed
<1>7. \A x \in Paths(n) :
        \/ Planned(x, n[x], sc, w, K)
        \/ \E pair \in MovePairs(sc, r) : x = pair[2] /\ n[x] = Plan("move", pair[1], NoContent)
  BY <1>1, <1>6, RenamedPaths
<1>9. Paths(n) \subseteq FilePaths \cup DirPaths
  BY <1>6, RenamedPaths
<1>10. Paths(z) = Paths(n) /\ \A x \in Paths(z) : z[x] = n[x] \/ z[x] = Bare("skip")
  BY <1>4, NeutralizeIs
<1>11. \A x \in Paths(f) :
         \/ x \in Paths(z) /\ f[x] = z[x]
         \/ /\ x \in DirPaths /\ f[x] = Bare("delete_remote_dir")
            /\ FilesBelow(r, x) \subseteq PlansOf(z, "delete_remote")
            /\ FilesBelow(sc, x) = {}
  <2>1. Paths(z) \subseteq FilePaths \cup DirPaths
    BY <1>9, <1>10
  <2> QED
    BY <1>5, <2>1, FolderDeletesAre
<1>12. PlansOf(z, "delete_remote") \subseteq Paths(n)
  BY <1>10 DEF PlansOf
<1>13. p \in Paths(f)
  BY <1>6
<1>14. CASE /\ p \in DirPaths /\ f[p] = Bare("delete_remote_dir")
            /\ FilesBelow(r, p) \subseteq PlansOf(z, "delete_remote")
            /\ FilesBelow(sc, p) = {}
  BY <1>1, <1>6, <1>12, <1>14
<1>15. CASE p \in Paths(z) /\ f[p] = z[p]
  <2>1. CASE z[p] = Bare("skip")
    BY <1>6, <1>9, <1>10, <1>15, <2>1
  <2>2. CASE z[p] = n[p]
    <3>1. p \in Paths(n) /\ plans'[p] = n[p]
      BY <1>6, <1>10, <1>15, <2>2
    <3>2. CASE Planned(p, n[p], sc, w, K)
      BY <1>1, <1>6, <3>1, <3>2
    <3>3. CASE \E pair \in MovePairs(sc, r) : p = pair[2] /\ n[p] = Plan("move", pair[1], NoContent)
      BY <1>1, <3>1, <3>3
    <3> QED
      BY <1>7, <3>1, <3>2, <3>3
  <2> QED
    BY <1>10, <1>15, <2>1, <2>2
<1> QED
  BY <1>11, <1>13, <1>14, <1>15

(* The same by the action of the plan.                                     *)
LEMMA PlanByAct ==
  ASSUME TypeInv, Compare, NEW p \in Paths(plans'), NEW act, act = plans'[p].act
  PROVE  /\ PlanOK(p, plans'[p], Known)
         /\ act \in {"delete_local", "move_apply", "delete_remote"} =>
              Planned(p, plans'[p], Seen, outcome.walk, Known)
         /\ act = "move" => \E pair \in MovePairs(Seen, rows) :
              p = pair[2] /\ plans'[p].from = pair[1]
         /\ act = "delete_remote_dir" =>
              /\ FilesBelow(rows, p) \subseteq Paths(Renamed) /\ FilesBelow(Seen, p) = {}
              /\ p \in DirPaths
<1>1. PICK pl : pl = plans'[p]
  OBVIOUS
<1>2. "move" \in PlanActs \ {"none"} /\ "skip" \in PlanActs \ {"none"}
      /\ "delete_remote_dir" \in PlanActs \ {"none"}
      /\ {"move", "skip", "delete_remote_dir"} \cap Unmerged = {}
  BY DEF PlanActs, Unmerged
<1>3. /\ Bare("skip").act = "skip" /\ Bare("delete_remote_dir").act = "delete_remote_dir"
      /\ \A x : Plan("move", x, NoContent) = [act |-> "move", from |-> x, content |-> NoContent]
  BY DEF Bare, Plan
<1>4. CASE p \in Paths(Renamed) /\ Planned(p, pl, Seen, outcome.walk, Known)
  BY <1>1, <1>2, <1>4 DEF Planned
<1>5. CASE p \in Paths(Renamed) /\ p \in FilePaths \cup DirPaths /\ pl = Bare("skip")
  <2>1. PlanOK(p, pl, Known)
    BY <1>2, <1>5, BareOK
  <2> QED
    BY <1>1, <1>3, <1>5, <2>1
<1>6. CASE \E pair \in MovePairs(Seen, rows) : p = pair[2] /\ pl = Plan("move", pair[1], NoContent)
  <2>1. PICK pair \in MovePairs(Seen, rows) : p = pair[2] /\ pl = Plan("move", pair[1], NoContent)
    BY <1>6
  <2>2. p \in FilePaths /\ pair[1] \in FilePaths
    BY <2>1, PairsAre, SeenIs, RowsAre
  <2>3. pl = [act |-> "move", from |-> pair[1], content |-> NoContent]
    BY <1>3, <2>1
  <2>4. PlanOK(p, pl, Known)
    BY <1>2, <2>2, <2>3 DEF PlanOK
  <2> QED
    BY <1>1, <2>1, <2>2, <2>3, <2>4
<1>7. CASE /\ p \in DirPaths /\ pl = Bare("delete_remote_dir")
           /\ FilesBelow(rows, p) \subseteq Paths(Renamed) /\ FilesBelow(Seen, p) = {}
  <2>1. PlanOK(p, pl, Known)
    BY <1>2, <1>7, BareOK
  <2> QED
    BY <1>1, <1>3, <1>7, <2>1
<1> QED
  BY <1>1, <1>4, <1>5, <1>6, <1>7, EachPlan

(* The sources of renames on the server.                                   *)
LEMMA ComparedMoves ==
  ASSUME TypeInv, Compare
  PROVE  MovesOK(plans', archive)
<1>1. PICK pairs : pairs = MovePairs(Seen, rows)
  OBVIOUS
<1>2. \A pair \in pairs :
        /\ pair[1] \in Paths(archive) /\ pair[1] \in FilePaths /\ pair[1] \notin Paths(Seen)
        /\ \A other \in pairs : other[1] = pair[1] => other[2] = pair[2]
  BY <1>1, PairsAre, RowsAre
<1>3. \A pair \in pairs : pair[1] \notin Paths(Renamed)
  BY <1>1, RenamesAre DEF Renamed
<1>4. \A pair \in pairs : pair[1] \notin Paths(plans')
  <2>1. ASSUME NEW pair \in pairs, pair[1] \in Paths(plans')
        PROVE  FALSE
    <3>1. PICK x : x = pair[1]
      OBVIOUS
    <3>2. x \in Paths(plans') /\ x \notin Paths(Renamed) /\ x \notin DirPaths /\ x \notin Paths(Seen)
      BY <1>2, <1>3, <2>1, <3>1, PathsAreNames
    <3>3. \A y \in pairs : y[2] \in Paths(Seen)
      BY <1>1, PairsAre
    <3> QED
      BY <1>1, <3>2, <3>3, EachPlan
  <2> QED
    BY <2>1
<1> SUFFICES ASSUME NEW p \in PlansOf(plans', "move")
             PROVE  LET from == plans'[p].from
                    IN  /\ from \in Paths(archive) \ Paths(plans')
                        /\ \A q \in Paths(plans') \ {p} :
                             plans'[q].act \in {"move", "move_apply"} => plans'[q].from # from
                        /\ \A d \in PlansOf(plans', "delete_remote_dir") : ~Below(from, d)
  BY DEF MovesOK
<1>5. PICK pair \in pairs : p = pair[2] /\ plans'[p].from = pair[1]
  BY <1>1, PlanByAct DEF PlansOf
<1>6. ASSUME NEW q \in Paths(plans') \ {p}, plans'[q].act \in {"move", "move_apply"}
      PROVE  plans'[q].from # pair[1]
  <2>1. CASE plans'[q].act = "move"
    <3>1. PICK other \in pairs : q = other[2] /\ plans'[q].from = other[1]
      BY <1>1, <1>6, <2>1, PlanByAct
    <3> QED
      BY <1>2, <1>5, <1>6, <3>1
  <2>2. CASE plans'[q].act = "move_apply"
    <3>1. At(Seen, plans'[q].from) \in Known /\ NoContent \notin Known
      BY <1>6, <2>2, PlanByAct, KnownTyped DEF Planned, TypeInv
    <3> QED
      BY <1>2, <3>1 DEF At
  <2> QED
    BY <1>6, <2>1, <2>2
<1>7. ASSUME NEW d \in PlansOf(plans', "delete_remote_dir")
      PROVE  ~Below(pair[1], d)
  <2>1. FilesBelow(rows, d) \subseteq Paths(Renamed)
    BY PlanByAct DEF PlansOf
  <2>2. pair[1] \in Paths(rows)
    BY <1>2, RowsAre
  <2> QED
    BY <1>3, <2>1, <2>2 DEF FilesBelow
<1> QED
  BY <1>2, <1>4, <1>5, <1>6, <1>7

(* Compare.                                                                *)
LEMMA CompareIs ==
  ASSUME TypeInv, Compare
  PROVE  /\ TypeInv'
         /\ \A p \in PlansOf(plans', "delete_local") :
              /\ At(Seen, p) \in Known \cup {NoContent} \/ p \in PlansOf(outcome.walk, "delete_local")
              /\ CaseInsensitive => \A q \in Paths(Seen) :
                   q # p /\ SameFold(p, q) => Seen[q] \in Known
         /\ \A p \in PlansOf(plans', "move_apply") : At(Seen, plans'[p].from) \in Known
<1>1. ServerInv' /\ DiskInv' /\ Known' = Known
  BY ComparePlans, ServerStill, DiskStill DEF TypeInv, server
<1>2. \A p \in Paths(plans') : PlanOK(p, plans'[p], Known')
  BY <1>1, PlanByAct
<1>3. CycleInv'
  <2>1. Paths(scan') \subseteq FilePaths
    BY SeenIs, ComparePlans
  <2>2. UNCHANGED <<batch, dirEvents, outcome>>
    BY ComparePlans DEF Compare
  <2>3. PICK K, X, Y, Z : K = Known /\ X = Seq(Events(K)) /\ Y = Seq(DirEvents(K)) /\ Z = Seq(Snaps(K))
    OBVIOUS
  <2>4. X = Seq(Events(Known')) /\ Y = Seq(DirEvents(Known')) /\ Z = Seq(Snaps(Known'))
    BY <1>1, <2>3
  <2>5. batch' \in X /\ dirEvents' \in Y /\ outcome' \in [walk : {outcome'.walk}, snaps : Z, changed : BOOLEAN]
    BY <2>2, <2>3 DEF TypeInv, CycleInv
  <2>6. \A p \in Paths(outcome'.walk) :
          PlanOK(p, outcome'.walk[p], Known') /\ outcome'.walk[p].act \in WalkActs
    BY <1>1, <2>2 DEF TypeInv, CycleInv
  <2> QED
    BY ONLY <1>2, <2>1, <2>4, <2>5, <2>6 DEF CycleInv
<1>4. StateInv'
  <2>1. /\ pc = "dir_events" /\ pc' = "executing" /\ flaws' \subseteq Flaws
        /\ archive' = archive /\ saved' = saved /\ log' = log /\ cursor' = cursor
        /\ pushed' = pushed /\ target' = target /\ used' = used
    BY ComparePlans DEF TypeInv, StateInv, server
  <2>2. RowsOK(archive', Known') /\ RowsOK(saved'.archive, Known')
    BY <1>1, <2>1 DEF TypeInv, StateInv
  <2>3. StateInv
    BY DEF TypeInv
  <2> QED
    BY ONLY <2>1, <2>2, <2>3 DEF StateInv
<1>5. MovesOK(plans', archive')
  BY ComparedMoves, ComparePlans
<1>6. ASSUME NEW p \in PlansOf(plans', "delete_local")
      PROVE  At(Seen, p) \in Known \cup {NoContent} \/ p \in PlansOf(outcome.walk, "delete_local")
  <2>1. p \in Paths(plans') /\ plans'[p].act = "delete_local"
    BY DEF PlansOf
  <2>2. Planned(p, plans'[p], Seen, outcome.walk, Known)
    BY <2>1, PlanByAct
  <2> QED
    BY <2>1, <2>2 DEF Planned
<1>7. ASSUME NEW p \in PlansOf(plans', "move_apply")
      PROVE  At(Seen, plans'[p].from) \in Known
  <2>1. p \in Paths(plans') /\ plans'[p].act = "move_apply"
    BY DEF PlansOf
  <2>2. Planned(p, plans'[p], Seen, outcome.walk, Known)
    BY <2>1, PlanByAct
  <2> QED
    BY <2>1, <2>2 DEF Planned
<1>8. ASSUME CaseInsensitive, NEW p \in PlansOf(plans', "delete_local"),
             NEW q \in Paths(Seen), q # p, SameFold(p, q)
      PROVE  Seen[q] \in Known
  <2>1. PICK n, z, K : n = Renamed /\ z = Neutralize(n, Seen, rows) /\ K = Known
    OBVIOUS
  <2>2. p \in Paths(plans') /\ plans'[p].act = "delete_local"
    BY <1>8 DEF PlansOf
  <2>3. p \in PlansOf(z, "delete_local")
    <3>1. plans' = MergeFolderDeletes(z, Seen, rows)
      BY <2>1, ComparePlans
    <3>2. Paths(z) \subseteq FilePaths \cup DirPaths
      BY <2>1, NeutralizeIs, RenamedPaths
    <3>3. Bare("delete_remote_dir").act # "delete_local"
      BY DEF Bare, Plan
    <3>4. p \in Paths(z) /\ plans'[p] = z[p]
      BY <2>2, <3>1, <3>2, <3>3, FolderDeletesAre
    <3> QED
      BY <2>2, <3>4 DEF PlansOf
  <2>4. PICK x \in PlansOf(n, "move") \cup PlansOf(n, "move_apply") : n[x].from = q
    BY <1>8, <2>1, <2>3, NeutralizeIs
  <2>5. CASE \E pair \in MovePairs(Seen, rows) : x = pair[2] /\ n[x] = Plan("move", pair[1], NoContent)
    <3>1. PICK pair \in MovePairs(Seen, rows) : n[x] = Plan("move", pair[1], NoContent)
      BY <2>5
    <3>2. n[x].from = pair[1] /\ pair[1] \notin Paths(Seen)
      BY <3>1, PairsAre DEF Plan
    <3> QED
      BY <1>8, <2>4, <3>2
  <2>6. CASE Planned(x, n[x], Seen, outcome.walk, K)
    <3>1. n[x].act = "move_apply"
      BY <2>4, <2>6 DEF PlansOf, Planned, Unmerged
    <3> QED
      BY <1>8, <2>1, <2>4, <2>6, <3>1 DEF Planned, At
  <2> QED
    BY <2>1, <2>4, <2>5, <2>6, RenamedPaths DEF PlansOf
<1> QED
  BY <1>1, <1>3, <1>4, <1>5, <1>6, <1>7, <1>8 DEF TypeInv

-----------------------------------------------------------------------------
(* The type invariant. *)

(* Nothing happens.                                                        *)
LEMMA StutterKeeps ==
  ASSUME TypeInv, UNCHANGED vars
  PROVE  TypeInv'
<1>1. UNCHANGED server /\ UNCHANGED <<saved, state, cycle, flaws, used>> /\ disk' = disk /\ copies' = copies
  BY DEF vars, local
<1>2. ServerInv' /\ Remembers /\ DiskInv'
  BY <1>1, ServerStill, DiskStill DEF TypeInv
<1>3. used' \in Counts
  BY <1>1 DEF TypeInv, StateInv
<1> QED
  BY <1>1, <1>2, <1>3, OutsideKeeps

(* Every step keeps it,                                                    *)
LEMMA TypeStep == TypeInv /\ [Next]_vars => TypeInv'
<1> SUFFICES ASSUME TypeInv, [Next]_vars
             PROVE  TypeInv'
  OBVIOUS
<1>1. CASE OtherClient
  BY <1>1, OtherClientKeeps
<1>2. CASE User
  BY <1>2, UserKeeps
<1>3. CASE Poll
  BY <1>3, PollKeeps
<1>4. CASE HandleDirEvent
  BY <1>4, EachEventKeeps
<1>5. CASE Compare
  BY <1>5, CompareIs
<1>6. CASE Handler \/ RequestFails
  BY <1>6, EachHandlerKeeps
<1>7. CASE Finish \/ SaveFails \/ SubtreeFails \/ Crash
  BY <1>7, EndKeeps
<1>8. CASE UNCHANGED vars
  BY <1>8, StutterKeeps
<1> QED
  BY <1>1, <1>2, <1>3, <1>4, <1>5, <1>6, <1>7, <1>8 DEF Next, Step, Mishap

(* and it says what TypeOK does.                                           *)
LEMMA TypesOK == TypeInv => TypeOK
<1> SUFFICES ASSUME TypeInv
             PROVE  TypeOK
  OBVIOUS
<1>1. ServerOK
  <2>1. TreeOK(tree) /\ (trash = EmptyTrash \/ Restorable(trash))
    BY DEF TypeInv, ServerInv, ServerTyped
  <2>2. Restorable(trash) => trash.top \in trash.sub.dirs
    BY DEF Restorable
  <2> QED
    BY <2>1, <2>2 DEF ServerOK, TreeOK
<1>2. disk.dirs \subseteq DirPaths /\ Rows(disk.files) /\ WellFormed(disk)
  BY DEF TypeInv, DiskInv, TreeOK, Rows
<1>3. \A p \in Paths(disk.files) : Entry(p) = p
  <2> SUFFICES ASSUME NEW p \in Paths(disk.files)
               PROVE  Entry(p) = p
    OBVIOUS
  <2>1. Twinless(disk.files)
    BY DEF TypeInv, DiskInv
  <2>2. Alike(p, p)
    BY DEF Alike
  <2> QED
    BY <2>1, <2>2, EntryIs
<1>4. \A c \in copies : c.dir \in disk.dirs \cup {Root}
  BY DEF TypeInv, DiskInv
<1>5. /\ Rows(archive) /\ Rows(saved.archive)
      /\ saved.cursor \in 0..Len(log) /\ cursor \in saved.cursor..Len(log)
      /\ pushed \subseteq DOMAIN log
      /\ pc \in {"idle", "dir_events", "executing"}
      /\ pc = "idle" => plans = NoPlans /\ batch = <<>> /\ ~failed
      /\ target \in 0..Len(log) /\ flaws \subseteq Flaws
  BY DEF TypeInv, StateInv, RowsOK, Rows
<1>6. \A p \in Paths(plans) : p \in FilePaths \cup DirPaths /\ plans[p].act \in PlanActs \ {"none"}
  BY DEF TypeInv, CycleInv, PlanOK
<1> QED
  BY <1>1, <1>2, <1>3, <1>4, <1>5, <1>6 DEF TypeOK

(* The types hold in every state of every behaviour.                       *)
THEOREM TypeInductive == Spec => []TypeInv
BY InitIs, TypeStep, PTL DEF Spec

(* However the events of a poll, the plans they turn into, what happens    *)
(* between two cycles and crashes come together: the disk stays a tree, no *)
(* two of its names open one file, the saved cursor is not ahead of the    *)
(* process and neither of the server, and a cycle leaves no plan behind.   *)
THEOREM TypeCorrect == Spec => []TypeOK
BY TypeInductive, TypesOK, PTL

-----------------------------------------------------------------------------
(* What the handlers do to the files. *)

(* The turn of the plan of p.                                              *)
Effect(p, act) ==
  /\ Turn(p, act)
  /\ flaws \subseteq flaws' /\ copies \subseteq copies'
  /\ Paths(disk'.files) \subseteq Paths(disk.files) \cup {p}
  /\ \A q \in Paths(disk'.files) :
       \/ q \in Paths(disk.files) /\ disk'.files[q] = disk.files[q]
       \/ disk'.files[q] \in Known
       \/ /\ act = "move_apply" /\ Mine(plans[p].from) # NoContent
          /\ disk'.files[q] = Mine(plans[p].from)
  /\ \A q \in Paths(disk.files) :
       \/ Saved(disk.files[q], disk'.files, copies', Known)
       \/ "overwritten" \in flaws'
       \/ act = "delete_local" /\ Alike(p, q)

(* The files stay as they are.                                             *)
LEMMA NoEffect ==
  ASSUME NEW p, NEW act, Turn(p, act), disk'.files = disk.files,
         flaws \subseteq flaws', copies \subseteq copies'
  PROVE  Effect(p, act)
<1>1. \A q \in Paths(disk.files) : disk.files[q] \in Contents(disk'.files)
  BY DEF Contents
<1> QED
  BY <1>1 DEF Effect, Saved

(* Pull: what it replaces is what the row has, or the flaw is recorded.    *)
LEMMA PullEffect ==
  ASSUME TypeInv, NEW p \in FilePaths, Pull(p)
  PROVE  Effect(p, "pull")
<1>1. Turn(p, "pull") /\ copies' = copies
  BY DEF Pull
<1>2. PICK c \in Int \ {NoContent} : c = plans[p].content /\ c \in Known
  BY <1>1, TurnIs
<1>3. PICK row, mine : row = At(rows, p) /\ mine = Mine(p)
  OBVIOUS
<1>4. \/ disk' = disk /\ flaws' = flaws
      \/ /\ Replace(p, c)
         /\ row = NoContent \/ mine \in {NoContent, row}
         /\ flaws' = flaws \cup (IF row = NoContent /\ mine \notin {NoContent, c}
                                 THEN {"overwritten"} ELSE {})
  BY <1>2, <1>3 DEF Pull
<1>5. CASE disk' = disk /\ flaws' = flaws
  BY <1>1, <1>5, NoEffect
<1>6. CASE /\ Replace(p, c)
           /\ row = NoContent \/ mine \in {NoContent, row}
           /\ flaws' = flaws \cup (IF row = NoContent /\ mine \notin {NoContent, c}
                                   THEN {"overwritten"} ELSE {})
  <2>1. PICK name \in {p, Entry(p)} :
          disk' = WithFile([disk EXCEPT !.files = Without(@, {Entry(p)})], name, c)
    BY <1>6 DEF Replace
  <2>2. name \in FilePaths /\ \A q \in Paths(disk.files) \ {Entry(p)} : ~Alike(name, q)
    BY <2>1, OnlyEntry DEF TypeInv
  <2>3. /\ disk'.files[name] = c
        /\ Paths(disk'.files) = (Paths(disk.files) \ {Entry(p)}) \cup {name}
        /\ \A q \in Paths(disk'.files) : q # name => disk'.files[q] = disk.files[q]
    <3>1. PICK S : S = {Entry(p)}
      OBVIOUS
    <3>2. DiskInv /\ copies' = copies /\ name \in FilePaths
      BY <1>1, <2>2 DEF TypeInv
    <3>3. disk' = WithFile([disk EXCEPT !.files = Without(@, S)], name, c)
      BY <2>1, <3>1
    <3>4. \A q \in Paths(disk.files) \ S : Alike(name, q) => q = name
      BY <2>2, <3>1
    <3>5. /\ disk'.files[name] = c
          /\ Paths(disk'.files) = (Paths(disk.files) \ S) \cup {name}
          /\ \A q \in Paths(disk'.files) : q # name => disk'.files[q] = disk.files[q]
      BY ONLY <3>2, <3>3, <3>4, c \in Int \ {NoContent}, DiskPut
    <3> QED
      BY <3>1, <3>5
  <2>4. name = p \/ name \in Paths(disk.files)
    BY <2>1, EntryIs
  <2>5. ASSUME NEW q \in Paths(disk.files)
        PROVE  Saved(disk.files[q], disk'.files, copies', Known) \/ "overwritten" \in flaws'
    <3>1. CASE q # Entry(p)
      <4>1. q # name
        BY <2>2, <3>1 DEF Alike
      <4>2. q \in Paths(disk'.files) /\ disk'.files[q] = disk.files[q]
        BY <2>3, <3>1, <4>1
      <4> QED
        BY <4>2 DEF Saved, Contents
    <3>2. CASE q = Entry(p)
      <4>1. mine = disk.files[q] /\ mine # NoContent
        BY <1>3, <3>2 DEF Mine, At, TypeInv, DiskInv, Holds
      <4>2. row # NoContent => row \in Known
        BY <1>3, RowsAre
      <4>3. mine \in Known \/ "overwritten" \in flaws'
        BY <1>2, <1>6, <4>1, <4>2
      <4> QED
        BY <4>1, <4>3 DEF Saved
    <3> QED
      BY <3>1, <3>2
  <2>6. \A q \in Paths(disk'.files) :
          (q \in Paths(disk.files) /\ disk'.files[q] = disk.files[q]) \/ disk'.files[q] \in Known
    BY <1>2, <2>3
  <2>7. Paths(disk'.files) \subseteq Paths(disk.files) \cup {p}
    BY <2>3, <2>4
  <2> QED
    BY <1>1, <1>6, <2>5, <2>6, <2>7 DEF Effect
<1> QED
  BY <1>4, <1>5, <1>6

(* MoveApply: the file is under its new name.                              *)
LEMMA MoveApplyEffect ==
  ASSUME TypeInv, NEW p \in FilePaths, MoveApply(p)
  PROVE  Effect(p, "move_apply")
<1>1. Turn(p, "move_apply") /\ copies' = copies
  BY DEF MoveApply
<1>2. PICK from : from = plans[p].from
  OBVIOUS
<1>3. CASE Mine(from) = NoContent
  <2>1. disk' = [disk EXCEPT !.dirs = disk.dirs \cup Parents(p)] /\ flaws' = flaws
    BY <1>2, <1>3 DEF MoveApply
  <2>2. disk'.files = disk.files
    BY <2>1, TreeParts DEF TypeInv, DiskInv
  <2> QED
    BY <1>1, <2>1, <2>2, NoEffect
<1>4. CASE Mine(from) # NoContent
  <2>1. PICK c \in Int \ {NoContent} : c = Mine(from)
    BY <1>4, MineTyped DEF TypeInv
  <2>2. PICK S : S = {Entry(from), Entry(p)}
    OBVIOUS
  <2>3. /\ disk' = WithFile([disk EXCEPT !.files = Without(@, S)], p, c)
        /\ flaws' = flaws \cup (IF Entry(p) \in Paths(disk.files) \ {Entry(from)}
                                THEN {"overwritten"} ELSE {})
    BY <1>2, <1>4, <2>1, <2>2 DEF MoveApply
  <2>4. \A q \in Paths(disk.files) \ {Entry(p)} : ~Alike(p, q)
    BY OnlyEntry DEF TypeInv
  <2>5. /\ disk'.files[p] = c
        /\ Paths(disk'.files) = (Paths(disk.files) \ S) \cup {p}
        /\ \A q \in Paths(disk'.files) : q # p => disk'.files[q] = disk.files[q]
    <3>1. \A q \in Paths(disk.files) \ S : Alike(p, q) => q = p
      BY <2>2, <2>4
    <3> QED
      BY <1>1, <2>3, <3>1, DiskPut DEF TypeInv
  <2>6. ASSUME NEW q \in Paths(disk.files)
        PROVE  Saved(disk.files[q], disk'.files, copies', Known) \/ "overwritten" \in flaws'
    <3>1. CASE q = Entry(from)
      <4>1. disk.files[q] = c /\ p \in Paths(disk'.files)
        BY <2>1, <2>5, <3>1, MineIs
      <4> QED
        BY <2>5, <4>1 DEF Saved, Contents
    <3>2. CASE q # Entry(from) /\ q = Entry(p)
      BY <2>3, <3>2
    <3>3. CASE q \notin S
      <4>1. q # p
        BY <2>2, <2>4, <3>3 DEF Alike
      <4>2. q \in Paths(disk'.files) /\ disk'.files[q] = disk.files[q]
        BY <2>5, <3>3, <4>1
      <4> QED
        BY <4>2 DEF Saved, Contents
    <3> QED
      BY <2>2, <3>1, <3>2, <3>3
  <2>7. \A q \in Paths(disk'.files) :
          (q \in Paths(disk.files) /\ disk'.files[q] = disk.files[q]) \/ disk'.files[q] = c
    BY <2>5
  <2> QED
    BY <1>1, <1>2, <1>4, <2>1, <2>3, <2>5, <2>6, <2>7 DEF Effect
<1> QED
  BY <1>3, <1>4

(* DeleteLocal and PreserveLocalRename.                                    *)
LEMMA RemovalEffect ==
  ASSUME TypeInv, NEW p \in FilePaths, DeleteLocal(p) \/ PreserveLocalRename(p)
  PROVE  \E act \in {"delete_local", "preserve"} : Effect(p, act)
<1>1. disk' = [disk EXCEPT !.files = Without(@, {Entry(p)})] /\ copies \subseteq copies'
      /\ flaws' = flaws
  BY DEF DeleteLocal, PreserveLocalRename
<1>2. /\ Paths(disk'.files) = Paths(disk.files) \ {Entry(p)}
      /\ \A q \in Paths(disk'.files) : disk'.files[q] = disk.files[q]
  <2>1. disk'.files = Without(disk.files, {Entry(p)})
    BY <1>1, TreeParts DEF TypeInv, DiskInv
  <2> QED
    BY <2>1 DEF Without, Paths
<1>3. \A q \in Paths(disk.files) \ {Entry(p)} : disk.files[q] \in Contents(disk'.files)
  BY <1>2 DEF Contents
<1>4. CASE DeleteLocal(p)
  <2>1. Turn(p, "delete_local")
    BY <1>4 DEF DeleteLocal
  <2>2. \A q \in Paths(disk.files) :
          Saved(disk.files[q], disk'.files, copies', Known) \/ Alike(p, q)
    BY <1>3, EntryIs DEF Saved
  <2> QED
    BY <1>1, <1>2, <2>1, <2>2 DEF Effect
<1>5. CASE PreserveLocalRename(p)
  <2>1. Turn(p, "preserve")
    BY <1>5 DEF PreserveLocalRename
  <2>2. Entry(p) \in Paths(disk.files) =>
          \E x \in copies' : x.content = disk.files[Entry(p)]
    <3> SUFFICES ASSUME Entry(p) \in Paths(disk.files)
                 PROVE  \E x \in copies' : x.content = disk.files[Entry(p)]
      OBVIOUS
    <3>1. Mine(p) = disk.files[Entry(p)] /\ Mine(p) # NoContent
      BY DEF Mine, At, TypeInv, DiskInv, Holds
    <3>2. Copy(Parent(p), Mine(p)) \in copies' /\ Copy(Parent(p), Mine(p)).content = Mine(p)
      BY <1>5, <3>1 DEF PreserveLocalRename, Copy
    <3> QED
      BY <3>1, <3>2
  <2>3. \A q \in Paths(disk.files) : Saved(disk.files[q], disk'.files, copies', Known)
    BY <1>3, <2>2 DEF Saved
  <2> QED
    BY <1>1, <1>2, <2>1, <2>3 DEF Effect
<1> QED
  BY <1>4, <1>5

(* The handlers that leave the files alone.                                *)
LEMMA StillEffect ==
  ASSUME TypeInv,
         \/ \E p \in FilePaths : Push(p) \/ DeleteRemote(p) \/ Conflict(p) \/ Move(p)
                                 \/ SkipCaseConflict(p)
         \/ \E d \in DirPaths : DeleteRemoteDir(d) \/ MkdirLocal(d) \/ RmdirLocal(d)
         \/ RequestFails
  PROVE  \E p, act : Effect(p, act)
<1>1. ASSUME NEW p \in FilePaths, Push(p)
      PROVE  Effect(p, "push")
  <2>1. Turn(p, "push") /\ UNCHANGED <<disk, copies, flaws>>
    BY <1>1 DEF Push, Fail
  <2> QED
    BY <2>1, NoEffect
<1>2. ASSUME NEW p \in FilePaths, DeleteRemote(p)
      PROVE  Effect(p, "delete_remote")
  <2>1. Turn(p, "delete_remote") /\ UNCHANGED <<disk, copies, flaws>>
    BY <1>2 DEF DeleteRemote, Fail
  <2> QED
    BY <2>1, NoEffect
<1>3. ASSUME NEW p \in FilePaths, Conflict(p)
      PROVE  Effect(p, "conflict")
  <2>1. Turn(p, "conflict") /\ flaws \subseteq flaws' /\ copies \subseteq copies'
    BY <1>3 DEF Conflict
  <2>2. disk' = disk \/ disk' = [disk EXCEPT !.dirs = disk.dirs \cup Parents(p)]
    BY <1>3 DEF Conflict
  <2>3. disk'.files = disk.files
    BY <2>2, TreeParts DEF TypeInv, DiskInv
  <2> QED
    BY <2>1, <2>3, NoEffect
<1>4. ASSUME NEW p \in FilePaths, Move(p)
      PROVE  Effect(p, "move")
  <2>1. Turn(p, "move") /\ UNCHANGED <<disk, copies>> /\ flaws \subseteq flaws'
    BY <1>4 DEF Move, Fail
  <2> QED
    BY <2>1, NoEffect
<1>5. ASSUME NEW p \in FilePaths, SkipCaseConflict(p)
      PROVE  Effect(p, "skip")
  BY <1>5, NoEffect DEF SkipCaseConflict
<1>6. ASSUME NEW d \in DirPaths, DeleteRemoteDir(d)
      PROVE  Effect(d, "delete_remote_dir")
  <2>1. Turn(d, "delete_remote_dir") /\ UNCHANGED <<disk, copies>> /\ flaws \subseteq flaws'
    BY <1>6 DEF DeleteRemoteDir, Fail
  <2> QED
    BY <2>1, NoEffect
<1>7. ASSUME NEW d \in DirPaths, NEW act, Turn(d, act), MkdirLocal(d) \/ RmdirLocal(d)
      PROVE  Effect(d, act)
  <2>1. copies' = copies /\ flaws' = flaws
    BY <1>7 DEF MkdirLocal, RmdirLocal
  <2> QED
    BY <1>7, <2>1, LocalDirKeeps, NoEffect
<1>8. ASSUME NEW d \in DirPaths, MkdirLocal(d) \/ RmdirLocal(d)
      PROVE  \E act : Effect(d, act)
  <2>1. Turn(d, "mkdir") \/ Turn(d, "rmdir")
    BY <1>8 DEF MkdirLocal, RmdirLocal
  <2> QED
    BY <1>7, <1>8, <2>1
<1>9. RequestFails => \E p, act : Effect(p, act)
  <2> SUFFICES ASSUME RequestFails
               PROVE  \E p, act : Effect(p, act)
    OBVIOUS
  <2>1. PICK p, act : Turn(p, act)
    BY DEF RequestFails
  <2>2. UNCHANGED <<disk, copies, flaws>>
    BY DEF RequestFails
  <2> QED
    BY <2>1, <2>2, NoEffect
<1> QED
  BY <1>1, <1>2, <1>3, <1>4, <1>5, <1>6, <1>8, <1>9

(* Every handler has such an effect.                                       *)
LEMMA EachEffect ==
  ASSUME TypeInv, Handler \/ RequestFails
  PROVE  \E p, act : Effect(p, act)
BY PullEffect, MoveApplyEffect, RemovalEffect, StillEffect DEF Handler

-----------------------------------------------------------------------------
(* The edits. *)

(* What was kept stays kept.                                               *)
LEMMA StaysKept ==
  ASSUME Keeping(edits, disk.files, copies, Known, flaws),
         edits' = edits, flaws \subseteq flaws', Known \subseteq Known',
         \A x \in copies : \E y \in copies' : y.content = x.content,
         \A q \in Paths(disk.files) :
           \/ Saved(disk.files[q], disk'.files, copies', Known')
           \/ "overwritten" \in flaws' \/ "replanned" \in flaws'
  PROVE  Keeping(edits', disk'.files, copies', Known', flaws')
<1> SUFFICES ASSUME flaws' \cap {"overwritten", "replanned"} = {}, NEW c \in edits
             PROVE  Saved(c, disk'.files, copies', Known')
  BY DEF Keeping
<1>1. Saved(c, disk.files, copies, Known)
  BY DEF Keeping
<1>2. CASE c \in Contents(disk.files)
  BY <1>2 DEF Contents
<1>3. CASE c \notin Contents(disk.files)
  BY <1>1, <1>3 DEF Saved
<1> QED
  BY <1>2, <1>3

(* Where nothing happens to the files.                                     *)
LEMMA LeftAlone ==
  ASSUME Keeping(edits, disk.files, copies, Known, flaws),
         edits' = edits, flaws \subseteq flaws', Known \subseteq Known',
         disk'.files = disk.files, copies' = copies
  PROVE  Keeping(edits', disk'.files, copies', Known', flaws')
<1>1. \A q \in Paths(disk.files) : Saved(disk.files[q], disk'.files, copies', Known')
  BY DEF Saved, Contents
<1> QED
  BY <1>1, StaysKept

(* Compare's walk.                                                         *)
LEMMA WalkedAll ==
  ASSUME Clear, TypeInv
  PROVE  Mirror(Walked(disk.files), disk.files)
<1>1. \A p, q \in Paths(disk.files) : SameFold(p, q) => p = q
  <2>1. Paths(disk.files) \subseteq FilePaths /\ Twinless(disk.files)
    BY DEF TypeInv, DiskInv, TreeOK
  <2> QED
    BY <2>1 DEF Clear, Twinless, Alike
<1> QED
  BY <1>1, WalkedIs DEF Mirror

(* Compare sees all files, by its own walk or by Poll's.                   *)
LEMMA SeenAll ==
  ASSUME Clear, TypeInv, SafeInv, pc = "dir_events"
  PROVE  Mirror(Seen, disk.files)
BY WalkedAll DEF Seen, SafeInv

(* Poll.                                                                   *)
LEMMA PollSafe ==
  ASSUME Clear, TypeInv, SafeInv, Poll
  PROVE  SafeInv'
<1>1. /\ pc' = "dir_events" /\ outcome' = NoOutcome /\ scan' = Walked(disk.files)
      /\ edits' = edits /\ flaws \subseteq flaws' /\ disk' = disk /\ copies' = copies
      /\ UNCHANGED server
  BY PollKeeps DEF Poll, local, TypeInv, StateInv
<1>2. Keeping(edits', disk'.files, copies', Known', flaws')
  BY <1>1, ServerStill, LeftAlone DEF TypeInv, SafeInv
<1>3. Mirror(scan', disk'.files)
  BY <1>1, WalkedAll
<1>4. Planning(outcome'.walk, disk'.files, Known')
  BY <1>1 DEF Planning, NoOutcome, NoPlans, PlansOf, Paths
<1> QED
  BY <1>1, <1>2, <1>3, <1>4 DEF SafeInv

(* Directory events.                                                       *)
LEMMA EventSafe ==
  ASSUME TypeInv, SafeInv, HandleDirEvent
  PROVE  SafeInv'
<1>0. /\ pc = "dir_events" /\ pc' = "dir_events" /\ edits' = edits /\ scan' = scan
      /\ UNCHANGED server
  BY NextEvent DEF HandleDirEvent
<1>1. Known' = Known
  BY <1>0, ServerStill DEF TypeInv
<1>2. /\ ~outcome.changed => Mirror(scan, disk.files)
      /\ "replanned" \notin flaws => Planning(outcome.walk, disk.files, Known)
      /\ Keeping(edits, disk.files, copies, Known, flaws)
  BY <1>0 DEF SafeInv
<1>3. ASSUME disk'.files = disk.files, copies' = copies, flaws \subseteq flaws',
             outcome.changed => outcome'.changed,
             "replanned" \notin flaws => Planning(outcome'.walk, disk.files, Known)
      PROVE  SafeInv'
  <2>1. Keeping(edits', disk'.files, copies', Known', flaws')
    BY <1>0, <1>1, <1>2, <1>3, LeftAlone
  <2> QED
    BY <1>0, <1>1, <1>2, <1>3, <2>1 DEF SafeInv
<1>4. ASSUME NEW d \in DirPaths, HandleMkdir(d)
      PROVE  SafeInv'
  <2>1. disk'.files = disk.files
    BY <1>4, HandleMkdirKeeps
  <2>2. outcome' = [outcome EXCEPT !.changed = TRUE] /\ copies' = copies /\ flaws' = flaws
    BY <1>4 DEF HandleMkdir
  <2>3. outcome'.walk = outcome.walk /\ outcome'.changed
    BY <2>2 DEF TypeInv, CycleInv
  <2> QED
    BY <1>2, <1>3, <2>1, <2>2, <2>3
<1>5. ASSUME NEW d \in DirPaths, HandlePut(d)
      PROVE  SafeInv'
  <2>1. outcome'.walk = outcome.walk
    BY <1>5, HandlePutKeeps
  <2>2. outcome'.changed = outcome.changed
    BY <1>5 DEF HandlePut, TypeInv, CycleInv
  <2>3. disk' = disk /\ copies' = copies /\ flaws \subseteq flaws'
    BY <1>5, HandlePutKeeps DEF HandlePut
  <2> QED
    BY <1>2, <1>3, <2>1, <2>2, <2>3
<1>6. ASSUME NEW d \in DirPaths, HandleDelete(d)
      PROVE  SafeInv'
  <2>1. PICK m, w : m = DeletePlans(disk, copies, rows, d) /\ w = outcome.walk
    OBVIOUS
  <2>2. outcome'.walk = Overlaid(w, m)
    BY <1>6, <2>1, HandleDeleteKeeps
  <2>3. outcome'.changed = outcome.changed
    BY <1>6 DEF HandleDelete, TypeInv, CycleInv
  <2>4. disk' = disk /\ copies' = copies /\ flaws' = flaws
    BY <1>6 DEF HandleDelete
  <2>5. \A p \in PlansOf(m, "delete_local") : p \in Paths(disk.files) => disk.files[p] \in Known
    <3>1. Paths(disk.files) \subseteq FilePaths /\ Paths(rows) \subseteq FilePaths
      BY RowsAre DEF TypeInv, DiskInv, TreeOK
    <3>2. \A p \in PlansOf(m, "delete_local") :
            p \in Paths(disk.files) => disk.files[p] = At(rows, p) /\ p \in Paths(rows)
      BY <2>1, <3>1, DeletePlansOK
    <3>3. \A p \in Paths(rows) : At(rows, p) \in Known
      BY RowsAre DEF At
    <3> QED
      BY <3>2, <3>3
  <2>6. PlansOf(Overlaid(w, m), "delete_local") \subseteq
          PlansOf(w, "delete_local") \cup PlansOf(m, "delete_local")
    BY DEF PlansOf, Overlaid, Paths
  <2>7. "replanned" \notin flaws => Planning(outcome'.walk, disk.files, Known)
    BY <1>2, <2>1, <2>2, <2>5, <2>6 DEF Planning
  <2> QED
    BY <1>3, <2>3, <2>4, <2>7
<1>7. ASSUME NEW from \in DirPaths, NEW to \in DirPaths, Fits(from, to), HandleMove(from, to)
      PROVE  SafeInv'
  <2>1. PICK M, N : M = Moving(from) /\ N = {Rebased(p, from, to) : p \in M}
    OBVIOUS
  <2>2. /\ Paths(disk'.files) = (Paths(disk.files) \ M) \cup N
        /\ \A p \in M : disk'.files[Rebased(p, from, to)] = disk.files[p]
        /\ \A q \in Paths(disk.files) \ M : q \notin N => disk'.files[q] = disk.files[q]
        /\ \A c \in copies : \E x \in copies' : x.content = c.content
    BY <1>7, <2>1, HandleMoveDisk DEF TypeInv
  <2>3. /\ M = {} \/ outcome'.changed
        /\ outcome.changed => outcome'.changed
        /\ PlansOf(outcome'.walk, "delete_local") \subseteq PlansOf(outcome.walk, "delete_local")
        /\ flaws \subseteq flaws'
        /\ N \cap Paths(disk.files) # {} => "overwritten" \in flaws'
        /\ N \cap Paths(outcome.walk) # {} => "replanned" \in flaws'
    BY <1>7, <2>1, HandleMoveKeeps
  <2>4. ~outcome'.changed => Mirror(scan', disk'.files)
    <3> SUFFICES ASSUME ~outcome'.changed
                 PROVE  Mirror(scan', disk'.files)
      OBVIOUS
    <3>1. M = {} /\ N = {} /\ Mirror(scan, disk.files)
      BY <1>2, <2>1, <2>3
    <3>2. Paths(disk'.files) = Paths(disk.files)
          /\ \A q \in Paths(disk.files) : disk'.files[q] = disk.files[q]
      BY <2>2, <3>1
    <3> QED
      BY <1>0, <3>1, <3>2 DEF Mirror
  <2>5. "replanned" \notin flaws' => Planning(outcome'.walk, disk'.files, Known')
    <3> SUFFICES ASSUME "replanned" \notin flaws', NEW p \in PlansOf(outcome'.walk, "delete_local"),
                        p \in Paths(disk'.files)
                 PROVE  disk'.files[p] \in Known
      BY <1>1 DEF Planning
    <3>1. p \in PlansOf(outcome.walk, "delete_local") /\ p \in Paths(outcome.walk)
      BY <2>3 DEF PlansOf
    <3>2. p \notin N
      BY <2>3, <3>1
    <3>3. p \in Paths(disk.files) \ M /\ disk'.files[p] = disk.files[p]
      BY <2>2, <3>2
    <3> QED
      BY <1>2, <2>3, <3>1, <3>3 DEF Planning
  <2>6. ASSUME NEW q \in Paths(disk.files)
        PROVE  Saved(disk.files[q], disk'.files, copies', Known') \/ "overwritten" \in flaws'
    <3>1. CASE q \in M
      <4>1. Rebased(q, from, to) \in Paths(disk'.files)
        BY <2>1, <2>2, <3>1
      <4> QED
        BY <2>2, <3>1, <4>1 DEF Saved, Contents
    <3>2. CASE q \in N
      BY <2>3, <3>2
    <3>3. CASE q \notin M /\ q \notin N
      <4>1. q \in Paths(disk'.files) /\ disk'.files[q] = disk.files[q]
        BY <2>2, <3>3
      <4> QED
        BY <4>1 DEF Saved, Contents
    <3> QED
      BY <3>1, <3>2, <3>3
  <2>7. Keeping(edits', disk'.files, copies', Known', flaws')
    BY <1>0, <1>1, <1>2, <2>2, <2>3, <2>6, StaysKept
  <2> QED
    BY <1>0, <2>4, <2>5, <2>7 DEF SafeInv
<1> QED
  BY <1>4, <1>5, <1>6, <1>7, EventCases

(* Compare: what a delete or a rename will touch is known.                 *)
LEMMA CompareSafe ==
  ASSUME Clear, TypeInv, SafeInv, Compare
  PROVE  SafeInv'
<1>1. /\ pc = "dir_events" /\ pc' = "executing" /\ edits' = edits /\ UNCHANGED server
      /\ disk' = disk /\ copies' = copies /\ flaws \subseteq flaws'
      /\ "replanned" \in flaws' => "replanned" \in flaws
  BY ComparePlans DEF server
<1>2. PICK f, K : f = disk.files /\ K = Known
  OBVIOUS
<1>3. f = disk'.files /\ K = Known' /\ Twinless(f)
  BY <1>1, <1>2, ServerStill DEF TypeInv, DiskInv
<1>4. Mirror(Seen, f) /\ NoContent \notin K
  BY <1>1, <1>2, SeenAll, KnownTyped DEF TypeInv
<1>5. \A c \in Paths(f) : f[c] # NoContent
  BY <1>2 DEF TypeInv, DiskInv, Holds
<1>6. "replanned" \notin flaws => Planning(outcome.walk, f, K)
  BY <1>1, <1>2 DEF SafeInv
<1>7. ASSUME "replanned" \notin flaws', NEW p \in PlansOf(plans', "delete_local"),
             NEW q \in Paths(f), Alike(p, q)
      PROVE  f[q] \in K
  <2>1. /\ At(Seen, p) \in K \cup {NoContent} \/ p \in PlansOf(outcome.walk, "delete_local")
        /\ CaseInsensitive => \A x \in Paths(Seen) : x # p /\ SameFold(p, x) => Seen[x] \in K
    BY <1>2, CompareIs
  <2>2. CASE q = p
    <3>1. At(Seen, p) = f[p]
      BY <1>4, <1>7, <2>2 DEF Mirror, At
    <3> QED
      BY <1>1, <1>5, <1>6, <1>7, <2>1, <2>2, <3>1 DEF Planning
  <2>3. CASE q # p
    <3>1. CaseInsensitive /\ SameFold(p, q) /\ q \in Paths(Seen) /\ Seen[q] = f[q]
      BY <1>4, <1>7, <2>3 DEF Alike, Mirror
    <3> QED
      BY <2>1, <2>3, <3>1
  <2> QED
    BY <2>2, <2>3
<1>8. ASSUME NEW p \in PlansOf(plans', "move_apply"), NEW q \in Paths(f), Alike(plans'[p].from, q)
      PROVE  f[q] \in K
  <2>1. PICK x : x = plans'[p].from
    OBVIOUS
  <2>2. At(Seen, x) \in K
    BY <1>2, <2>1, CompareIs
  <2>3. x \in Paths(f) /\ f[x] \in K
    BY <1>4, <2>2 DEF At, Mirror
  <2>4. q = x
    BY <1>3, <1>8, <2>1, <2>3 DEF Twinless
  <2> QED
    BY <2>3, <2>4
<1>9. Executing(plans', disk'.files, Known', flaws')
  BY <1>3, <1>7, <1>8 DEF Executing, Safe
<1>10. Keeping(edits', disk'.files, copies', Known', flaws')
  BY <1>1, <1>2, <1>3, LeftAlone DEF SafeInv
<1> QED
  BY <1>1, <1>9, <1>10 DEF SafeInv

(* No handler takes from what is known.                                    *)
LEMMA HandlersRemember ==
  ASSUME TypeInv, Handler \/ RequestFails
  PROVE  Remembers
<1>1. ServerInv /\ DiskInv
  BY DEF TypeInv
<1>2. ASSUME NEW p \in FilePaths, Push(p) \/ Conflict(p)
      PROVE  Remembers
  <2>1. UNCHANGED server \/ (Mine(p) # NoContent /\ Upload(p, Mine(p)))
    BY <1>2 DEF Push, Conflict, Fail
  <2>2. Mine(p) # NoContent => Mine(p) \in Int \ {NoContent}
    BY <1>1, MineTyped
  <2> QED
    BY <1>1, <2>1, <2>2, ServerStill, UploadKeeps
<1>3. ASSUME NEW p \in FilePaths, DeleteRemote(p) \/ Move(p)
      PROVE  Remembers
  <2>1. UNCHANGED server \/ DeleteFile(p) \/ \E q : MoveFile(q, p)
    BY <1>3 DEF DeleteRemote, Move, Fail
  <2> QED
    BY <1>1, <2>1, ServerStill, RequestKeeps
<1>4. ASSUME NEW d \in DirPaths, DeleteRemoteDir(d)
      PROVE  Remembers
  <2>1. UNCHANGED server \/ DeleteDir(d)
    BY <1>4 DEF DeleteRemoteDir, Fail
  <2> QED
    BY <1>1, <2>1, ServerStill, RequestKeeps
<1>5. ASSUME NEW p \in FilePaths,
             Pull(p) \/ DeleteLocal(p) \/ PreserveLocalRename(p) \/ MoveApply(p) \/ SkipCaseConflict(p)
      PROVE  Remembers
  <2>1. UNCHANGED server
    BY <1>5 DEF Pull, DeleteLocal, PreserveLocalRename, MoveApply, SkipCaseConflict
  <2> QED
    BY <1>1, <2>1, ServerStill
<1>6. ASSUME RequestFails \/ \E d \in DirPaths : MkdirLocal(d) \/ RmdirLocal(d)
      PROVE  Remembers
  <2>1. UNCHANGED server
    BY <1>6 DEF RequestFails, MkdirLocal, RmdirLocal
  <2> QED
    BY <1>1, <2>1, ServerStill
<1> QED
  BY <1>2, <1>3, <1>4, <1>5, <1>6 DEF Handler

(* A handler, and a request that fails.                                    *)
LEMMA HandlerSafe ==
  ASSUME TypeInv, SafeInv, Handler \/ RequestFails
  PROVE  SafeInv'
<1>1. PICK p, act : Effect(p, act)
  BY EachEffect
<1>2. /\ pc = "executing" /\ pc' = "executing" /\ edits' = edits
      /\ p \in Paths(plans) /\ plans[p].act = act /\ plans' = Without(plans, {p})
  BY <1>1 DEF Effect, Turn, PlansOf
<1>3. Known \subseteq Known'
  BY HandlersRemember DEF Remembers
<1>4. PICK f, g, K : f = disk.files /\ g = disk'.files /\ K = Known
  OBVIOUS
<1>5. Executing(plans, f, K, flaws) /\ Keeping(edits, f, copies, K, flaws)
  BY <1>2, <1>4 DEF SafeInv
<1>6. act = "move_apply" /\ Mine(plans[p].from) # NoContent => Mine(plans[p].from) \in K
  <2>1. act = "move_apply" => Safe(plans[p].from, f, K)
    BY <1>2, <1>5 DEF Executing, PlansOf
  <2>2. Mine(plans[p].from) # NoContent =>
          /\ Entry(plans[p].from) \in Paths(f) /\ Mine(plans[p].from) = f[Entry(plans[p].from)]
          /\ Alike(plans[p].from, Entry(plans[p].from))
    BY <1>4, MineIs, EntryIs
  <2> QED
    BY <2>1, <2>2 DEF Safe
<1>7. \A q \in Paths(g) : (q \in Paths(f) /\ g[q] = f[q]) \/ g[q] \in K
  BY <1>1, <1>4, <1>6 DEF Effect
<1>8. \A r : Safe(r, f, K) => Safe(r, g, Known')
  BY <1>3, <1>4, <1>7 DEF Safe
<1>9. \A r \in Paths(plans') : r \in Paths(plans) /\ plans'[r] = plans[r]
  BY <1>2 DEF Without, Paths
<1>10. flaws \subseteq flaws' /\ copies \subseteq copies'
  BY <1>1 DEF Effect
<1>11. Executing(plans', g, Known', flaws')
  BY <1>5, <1>8, <1>9, <1>10 DEF Executing, PlansOf
<1>12. ASSUME NEW q \in Paths(f)
       PROVE  \/ Saved(f[q], g, copies', Known')
              \/ "overwritten" \in flaws' \/ "replanned" \in flaws'
  <2>1. CASE Saved(f[q], g, copies', K)
    BY <1>3, <1>4, <2>1 DEF Saved
  <2>2. CASE act = "delete_local" /\ Alike(p, q)
    <3>1. "replanned" \notin flaws => Safe(p, f, K)
      BY <1>2, <1>5, <2>2 DEF Executing, PlansOf
    <3>2. "replanned" \notin flaws => f[q] \in Known'
      BY <1>3, <1>4, <2>2, <3>1 DEF Safe
    <3> QED
      BY <1>10, <3>2 DEF Saved
  <2> QED
    BY <1>1, <1>4, <2>1, <2>2 DEF Effect
<1>13. Keeping(edits', g, copies', Known', flaws')
  BY <1>2, <1>3, <1>4, <1>5, <1>10, <1>12, StaysKept
<1> QED
  BY <1>2, <1>4, <1>11, <1>13 DEF SafeInv

(* The end of a cycle.                                                     *)
LEMMA EndSafe ==
  ASSUME TypeInv, SafeInv, Finish \/ SaveFails \/ SubtreeFails \/ Crash
  PROVE  SafeInv'
<1>1. /\ pc' = "idle" /\ edits' = edits /\ disk' = disk /\ copies' = copies
      /\ flaws \subseteq flaws' /\ UNCHANGED server
  BY DEF Finish, SaveFails, SubtreeFails, Crash, Abandon, local
<1>2. Keeping(edits', disk'.files, copies', Known', flaws')
  BY <1>1, ServerStill, LeftAlone DEF TypeInv, SafeInv
<1> QED
  BY <1>1, <1>2 DEF SafeInv

(* The other clients.                                                      *)
LEMMA OtherClientSafe ==
  ASSUME TypeInv, SafeInv, OtherClient
  PROVE  SafeInv'
<1>1. /\ pc' = "idle" /\ edits' = edits /\ disk' = disk /\ copies' = copies /\ flaws' = flaws
  BY DEF OtherClient, local, cycle
<1>2. Known \subseteq Known'
  BY FileChangeKeeps, DirChangeKeeps DEF TypeInv, OtherClient, Remembers
<1>3. Keeping(edits', disk'.files, copies', Known', flaws')
  BY <1>1, <1>2, LeftAlone DEF SafeInv
<1> QED
  BY <1>1, <1>3 DEF SafeInv

(* What the user does to the files and the edits.                          *)
LEMMA UserKept ==
  ASSUME Keeping(edits, disk.files, copies, Known, flaws), flaws' = flaws,
         Known' = Known, copies' = copies, NEW c, c \in Int /\ c < 0,
         \A e \in edits' : e \in edits \/ e = c,
         c \in edits' => c \in Contents(disk'.files),
         \A q \in Paths(disk.files) :
           disk.files[q] \in edits' => disk.files[q] \in Contents(disk'.files)
  PROVE  Keeping(edits', disk'.files, copies', Known', flaws')
<1>1. \A e \in edits' : e \in Int /\ e < 0
  BY DEF Keeping
<1>2. ASSUME flaws' \cap {"overwritten", "replanned"} = {}, NEW e \in edits'
      PROVE  Saved(e, disk'.files, copies', Known')
  <2>1. CASE e = c
    BY <2>1 DEF Saved
  <2>2. CASE e # c
    <3>1. Saved(e, disk.files, copies, Known)
      BY <1>2, <2>2 DEF Keeping
    <3>2. e \in Contents(disk.files) => e \in Contents(disk'.files)
      BY DEF Contents
    <3> QED
      BY <3>1, <3>2 DEF Saved
  <2> QED
    BY <2>1, <2>2
<1> QED
  BY <1>1, <1>2 DEF Keeping

(* The user, between two cycles.                                           *)
LEMMA UserSafe ==
  ASSUME TypeInv, SafeInv, User
  PROVE  SafeInv'
<1>1. DiskInv /\ used.edits \in Nat /\ Keeping(edits, disk.files, copies, Known, flaws)
  BY DEF TypeInv, StateInv, Counts, SafeInv
<1>2. UserTurn /\ copies' = copies
  BY DEF User, UserWrite, UserDelete, UserRename, UserRemoveDir
<1>3. pc' = "idle" /\ flaws' = flaws /\ Known' = Known
  BY <1>2, ServerStill DEF UserTurn, cycle, TypeInv
<1>4. ASSUME Keeping(edits', disk'.files, copies', Known', flaws')
      PROVE  SafeInv'
  BY <1>3, <1>4 DEF SafeInv
<1>5. ASSUME NEW p \in FilePaths, UserWrite(p)
      PROVE  SafeInv'
  <2>1. PICK c : c = -(used.edits + 1)
    OBVIOUS
  <2>2. c \in Int /\ c < 0
    BY <1>1, <2>1
  <2>3. /\ disk'.files[p] = c /\ Paths(disk'.files) = Paths(disk.files) \cup {p}
        /\ \A q \in Paths(disk'.files) : q # p => disk'.files[q] = disk.files[q]
    BY <1>1, <1>5, <2>1, UserWriteKeeps
  <2>4. edits' = (edits \ {At(disk.files, p)}) \cup {c}
    BY <1>5, <2>1 DEF UserWrite
  <2>5. c \in Contents(disk'.files)
    BY <2>3 DEF Contents
  <2>6. ASSUME NEW q \in Paths(disk.files), disk.files[q] \in edits'
        PROVE  disk.files[q] \in Contents(disk'.files)
    <3>1. CASE q # p
      <4>1. q \in Paths(disk'.files) /\ disk'.files[q] = disk.files[q]
        BY <2>3, <3>1
      <4> QED
        BY <4>1 DEF Contents
    <3>2. CASE q = p
      <4>1. disk.files[q] = c
        BY <2>4, <2>6, <3>2 DEF At
      <4> QED
        BY <2>5, <4>1
    <3> QED
      BY <3>1, <3>2
  <2>7. \A e \in edits' : e \in edits \/ e = c
    BY <2>4
  <2>8. Keeping(edits', disk'.files, copies', Known', flaws')
    BY <1>1, <1>2, <1>3, <2>2, <2>5, <2>6, <2>7, UserKept
  <2> QED
    BY <1>4, <2>8
<1>6. ASSUME edits' \subseteq edits,
             \A q \in Paths(disk.files) :
               disk.files[q] \in edits' => disk.files[q] \in Contents(disk'.files)
      PROVE  SafeInv'
  <2>1. edits' \subseteq {e \in Int : e < 0}
    BY <1>1, <1>6 DEF Keeping
  <2>2. ASSUME flaws' \cap {"overwritten", "replanned"} = {}, NEW e \in edits'
        PROVE  Saved(e, disk'.files, copies', Known')
    <3>1. Saved(e, disk.files, copies, Known)
      BY <1>1, <1>3, <1>6, <2>2 DEF Keeping
    <3>2. e \in Contents(disk.files) => e \in Contents(disk'.files)
      BY <1>6 DEF Contents
    <3> QED
      BY <1>2, <1>3, <3>1, <3>2 DEF Saved
  <2>3. Keeping(edits', disk'.files, copies', Known', flaws')
    BY <2>1, <2>2 DEF Keeping
  <2> QED
    BY <1>4, <2>3
<1>7. ASSUME NEW p \in FilePaths, UserDelete(p)
      PROVE  SafeInv'
  <2>1. disk' = [disk EXCEPT !.files = Without(disk.files, {p})] /\ edits' = edits \ {disk.files[p]}
    BY <1>7 DEF UserDelete
  <2>2. disk'.files = Without(disk.files, {p})
    BY <1>1, <2>1, TreeParts DEF DiskInv
  <2>3. \A q \in Paths(disk.files) \ {p} : disk.files[q] \in Contents(disk'.files)
    BY <2>2 DEF Without, Paths, Contents
  <2> QED
    BY <1>6, <2>1, <2>3
<1>8. ASSUME NEW p \in FilePaths, NEW q \in FilePaths, UserRename(p, q)
      PROVE  SafeInv'
  <2>1. /\ p \in Paths(disk.files) /\ disk'.files[q] = disk.files[p]
        /\ Paths(disk'.files) = (Paths(disk.files) \ {p}) \cup {q}
        /\ \A r \in Paths(disk'.files) : r # q => disk'.files[r] = disk.files[r]
    BY <1>1, <1>8, UserRenameKeeps
  <2>2. edits' = edits /\ q \notin Paths(disk.files)
    BY <1>8 DEF UserRename
  <2>3. ASSUME NEW r \in Paths(disk.files)
        PROVE  disk.files[r] \in Contents(disk'.files)
    <3>1. CASE r = p
      BY <2>1, <3>1 DEF Contents
    <3>2. CASE r # p
      <4>1. r \in Paths(disk'.files) /\ disk'.files[r] = disk.files[r]
        BY <2>1, <2>2, <3>2
      <4> QED
        BY <4>1 DEF Contents
    <3> QED
      BY <3>1, <3>2
  <2> QED
    BY <1>6, <2>2, <2>3
<1>9. ASSUME NEW d \in DirPaths, UserRemoveDir(d)
      PROVE  SafeInv'
  <2>1. /\ Paths(disk'.files) = Paths(disk.files) \ FilesBelow(disk.files, d)
        /\ \A q \in Paths(disk'.files) : disk'.files[q] = disk.files[q]
    BY <1>1, <1>9, UserRemoveDirKeeps
  <2>2. edits' = edits \ Contents(Subtree(disk, d).files)
    BY <1>9 DEF UserRemoveDir
  <2>3. \A q \in FilesBelow(disk.files, d) : disk.files[q] \in Contents(Subtree(disk, d).files)
    BY DEF Subtree, Only, Contents, FilesBelow, Paths
  <2>4. \A q \in Paths(disk.files) \ FilesBelow(disk.files, d) :
          disk.files[q] \in Contents(disk'.files)
    BY <2>1 DEF Contents
  <2> QED
    BY <1>6, <2>2, <2>3, <2>4
<1> QED
  BY <1>5, <1>7, <1>8, <1>9 DEF User

(* Nothing happens.                                                        *)
LEMMA StutterSafe ==
  ASSUME TypeInv, SafeInv, UNCHANGED vars
  PROVE  SafeInv'
<1>1. /\ edits' = edits /\ disk' = disk /\ copies' = copies /\ flaws' = flaws /\ UNCHANGED server
      /\ pc' = pc /\ outcome' = outcome /\ scan' = scan /\ plans' = plans
  BY DEF vars, local, cycle
<1>2. Known' = Known
  BY <1>1, ServerStill DEF TypeInv
<1> QED
  BY <1>1, <1>2 DEF SafeInv

(* Every step keeps the invariant,                                         *)
LEMMA SafeStep ==
  ASSUME Clear
  PROVE  TypeInv /\ SafeInv /\ [Next]_vars => SafeInv'
<1> SUFFICES ASSUME TypeInv, SafeInv, [Next]_vars
             PROVE  SafeInv'
  OBVIOUS
<1>1. CASE OtherClient
  BY <1>1, OtherClientSafe
<1>2. CASE User
  BY <1>2, UserSafe
<1>3. CASE Poll
  BY <1>3, PollSafe
<1>4. CASE HandleDirEvent
  BY <1>4, EventSafe
<1>5. CASE Compare
  BY <1>5, CompareSafe
<1>6. CASE Handler \/ RequestFails
  BY <1>6, HandlerSafe
<1>7. CASE Finish \/ SaveFails \/ SubtreeFails \/ Crash
  BY <1>7, EndSafe
<1>8. CASE UNCHANGED vars
  BY <1>8, StutterSafe
<1> QED
  BY <1>1, <1>2, <1>3, <1>4, <1>5, <1>6, <1>7, <1>8 DEF Next, Step, Mishap

(* and there are no edits at first.                                        *)
LEMMA SafeInit == Init => SafeInv
BY DEF Init, SafeInv, Keeping

(* A content of the user's that is known has been on the server.           *)
LEMMA SafeKeeps == SafeInv => KeepsEditsUnlessFlawed
<1> SUFFICES ASSUME SafeInv, flaws \cap {"overwritten", "replanned"} = {}, NEW c \in edits
             PROVE  Kept(c)
  BY DEF KeepsEditsUnlessFlawed, KeepsEdits, Unmet
<1>1. c \in Int /\ c < 0 /\ Saved(c, disk.files, copies, Known)
  BY DEF SafeInv, Keeping
<1>2. c \in Known => \E i \in DOMAIN log : log[i].content = c
  BY <1>1 DEF Known, KnownFrom
<1> QED
  BY <1>1, <1>2 DEF Saved, Kept

(* While Compare sees every file, no edit is lost.                         *)
THEOREM SafeInductive ==
  ASSUME Clear
  PROVE  Spec => []SafeInv
<1>1. TypeInv /\ SafeInv /\ [Next]_vars => SafeInv'
  BY SafeStep
<1> QED
  BY SafeInit, TypeInductive, <1>1, PTL DEF Spec

(* What the user wrote and has neither replaced nor deleted is never lost, *)
(* whatever others do to the file and the directories above it, wherever   *)
(* requests fail and the process dies: it is on this disk, in a conflict   *)
(* copy, or has been on the server.  The exceptions are the file that a    *)
(* rename of another client takes the place of, and the one that a rename  *)
(* brings to where a folder delete of the same poll is at work.            *)
THEOREM EditsKeptInDirs ==
  ASSUME Clear
  PROVE  Spec => []KeepsEditsUnlessFlawed
BY SafeInductive, SafeKeeps, PTL

-----------------------------------------------------------------------------
(* What is deleted on the server. *)

(* A plan for a directory goes before those for what is below it.          *)
LEMMA GoesDown ==
  ASSUME NEW p \in Names, NEW d \in Names, Goes(p, d), plans[d].act # "rmdir"
  PROVE  ~Below(p, d)
<1>1. Precedes(p, d)
  BY DEF Goes
<1>2. Len(p) \in Nat /\ Len(d) \in Nat /\ (\A i \in 1..Len(p) : p[i] \in Nat)
      /\ (\A i \in 1..Len(d) : d[i] \in Nat)
  BY DEF Names
<1>3. Below(p, d) => Len(d) < Len(p) /\ \A i \in 1..Len(d) : p[i] = d[i]
  BY BelowMeans
<1>4. Below(d, p) => Len(p) < Len(d)
  BY BelowMeans
<1>5. Below(d, p) \/ \E n \in 1..Len(p) : n <= Len(d) /\ p[n] < d[n]
  BY <1>1 DEF Precedes, Below
<1> SUFFICES ASSUME Below(p, d)
             PROVE  FALSE
  OBVIOUS
<1>6. PICK n \in 1..Len(p) : n <= Len(d) /\ p[n] < d[n]
  BY <1>2, <1>3, <1>4, <1>5
<1>7. n \in 1..Len(d) /\ p[n] = d[n] /\ p[n] \in Nat
  BY <1>2, <1>3, <1>6
<1> QED
  BY <1>6, <1>7

(* Compare deletes on the server only what it has not seen.                *)
LEMMA CompareGone ==
  ASSUME Clear, TypeInv, SafeInv, Compare
  PROVE  GoneInv'
<1>1. pc = "dir_events" /\ disk' = disk
  BY ComparePlans
<1>2. Mirror(Seen, disk.files) /\ Holds(disk.files, Int \ {NoContent})
  BY <1>1, SeenAll DEF TypeInv, DiskInv
<1>3. Paths(Seen) = Paths(disk'.files)
  BY <1>1, <1>2 DEF Mirror
<1>4. ASSUME NEW p \in PlansOf(plans', "delete_remote")
      PROVE  p \notin Paths(Seen)
  <2>1. p \in Paths(plans') /\ plans'[p].act = "delete_remote"
    BY DEF PlansOf
  <2>2. Planned(p, plans'[p], Seen, outcome.walk, Known)
    BY <2>1, PlanByAct
  <2>3. At(Seen, p) = NoContent
    BY <2>1, <2>2 DEF Planned
  <2> QED
    BY <1>2, <2>3 DEF At, Mirror, Holds
<1>5. ASSUME NEW p \in PlansOf(plans', "move")
      PROVE  plans'[p].from \notin Paths(Seen)
  <2>1. p \in Paths(plans') /\ plans'[p].act = "move"
    BY DEF PlansOf
  <2> QED
    BY <2>1, PlanByAct, PairsAre
<1>6. ASSUME NEW d \in PlansOf(plans', "delete_remote_dir")
      PROVE  FilesBelow(Seen, d) = {}
  <2>1. d \in Paths(plans') /\ plans'[d].act = "delete_remote_dir"
    BY DEF PlansOf
  <2> QED
    BY <2>1, PlanByAct
<1>7. Gone(plans', disk'.files)
  BY <1>3, <1>4, <1>5, <1>6 DEF Gone, FilesBelow
<1> QED
  BY <1>7 DEF GoneInv

(* A handler brings no file back below a plan that is still to come.       *)
LEMMA HandlerGone ==
  ASSUME TypeInv, GoneInv, Handler \/ RequestFails
  PROVE  GoneInv'
<1>1. PICK p, act : Effect(p, act)
  BY EachEffect
<1>2. /\ pc = "executing" /\ p \in Paths(plans) /\ plans' = Without(plans, {p})
      /\ \A q \in Paths(plans) \ {p} : Goes(p, q)
  BY <1>1 DEF Effect, Turn, PlansOf
<1>3. Paths(disk'.files) \subseteq Paths(disk.files) \cup {p}
  BY <1>1 DEF Effect
<1>4. \A q \in Paths(plans') : q \in Paths(plans) \ {p} /\ plans'[q] = plans[q]
  BY <1>2 DEF Without, Paths
<1>5. Gone(plans, disk.files)
  BY <1>2 DEF GoneInv
<1>6. \A q \in PlansOf(plans', "delete_remote") : q \notin Paths(disk'.files)
  BY <1>3, <1>4, <1>5 DEF Gone, PlansOf
<1>7. ASSUME NEW q \in PlansOf(plans', "move")
      PROVE  plans'[q].from \notin Paths(disk'.files)
  <2>1. q \in PlansOf(plans, "move") /\ plans'[q].from = plans[q].from
    BY <1>4 DEF PlansOf
  <2>2. plans[q].from # p
    BY <1>2, <2>1 DEF TypeInv, MovesOK
  <2> QED
    BY <1>3, <1>5, <2>1, <2>2 DEF Gone
<1>8. ASSUME NEW d \in PlansOf(plans', "delete_remote_dir")
      PROVE  FilesBelow(disk'.files, d) = {}
  <2>1. d \in PlansOf(plans, "delete_remote_dir") /\ d \in Paths(plans) \ {p}
        /\ plans[d].act = "delete_remote_dir"
    BY <1>4 DEF PlansOf
  <2>2. p \in Names /\ d \in Names
    BY <1>2, <2>1, PathsAreNames DEF TypeInv, CycleInv, PlanOK
  <2>3. ~Below(p, d)
    BY <1>2, <2>1, <2>2, GoesDown
  <2>4. FilesBelow(disk.files, d) = {}
    BY <1>5, <2>1 DEF Gone
  <2> QED
    BY <1>3, <2>3, <2>4 DEF FilesBelow
<1>9. Gone(plans', disk'.files)
  BY <1>6, <1>7, <1>8 DEF Gone
<1> QED
  BY <1>9 DEF GoneInv

(* Every step keeps it.                                                    *)
LEMMA GoneStep ==
  ASSUME Clear
  PROVE  TypeInv /\ SafeInv /\ GoneInv /\ [Next]_vars => GoneInv'
<1> SUFFICES ASSUME TypeInv, SafeInv, GoneInv, [Next]_vars
             PROVE  GoneInv'
  OBVIOUS
<1>1. CASE Compare
  BY <1>1, CompareGone
<1>2. CASE Handler \/ RequestFails
  BY <1>2, HandlerGone
<1>3. CASE OtherClient \/ User \/ Poll \/ HandleDirEvent \/ Finish \/ SaveFails
             \/ SubtreeFails \/ Crash
  <2>1. pc' # "executing"
    BY <1>3 DEF OtherClient, User, UserWrite, UserDelete, UserRename, UserRemoveDir, UserTurn,
                Poll, HandleDirEvent, Finish, SaveFails, SubtreeFails, Crash, Abandon, cycle
  <2> QED
    BY <2>1 DEF GoneInv
<1>4. CASE UNCHANGED vars
  BY <1>4 DEF vars, local, cycle, GoneInv
<1> QED
  BY <1>1, <1>2, <1>3, <1>4 DEF Next, Step, Mishap

(* The files a step of the cycle takes from the server.                    *)
LEMMA StepGone ==
  ASSUME TypeInv, GoneInv, Next, pc # "idle"
  PROVE  (Paths(tree.files) \ Paths(tree'.files)) \cap Paths(disk.files) = {}
<1>1. TreeOK(tree)
  BY DEF TypeInv, ServerInv, ServerTyped
<1>2. ASSUME tree' = tree
      PROVE  (Paths(tree.files) \ Paths(tree'.files)) \cap Paths(disk.files) = {}
  BY <1>2
<1>3. ASSUME NEW p, NEW c, Upload(p, c)
      PROVE  (Paths(tree.files) \ Paths(tree'.files)) \cap Paths(disk.files) = {}
  <2>1. tree'.files = With(tree.files, p, c)
    BY <1>3 DEF Upload, WithFile
  <2> QED
    BY <2>1 DEF With, Paths
<1>4. ASSUME NEW p \in FilePaths, DeleteRemote(p), tree' # tree
      PROVE  (Paths(tree.files) \ Paths(tree'.files)) \cap Paths(disk.files) = {}
  <2>1. DeleteFile(p) /\ pc = "executing" /\ p \in PlansOf(plans, "delete_remote")
    BY <1>4 DEF DeleteRemote, Turn, Fail, server
  <2>2. tree'.files = Without(tree.files, {p})
    BY <1>1, <2>1, TreeParts DEF DeleteFile, Answer
  <2>3. p \notin Paths(disk.files)
    BY <2>1 DEF GoneInv, Gone
  <2> QED
    BY <2>2, <2>3 DEF Without, Paths
<1>5. ASSUME NEW d \in DirPaths, DeleteRemoteDir(d), tree' # tree
      PROVE  (Paths(tree.files) \ Paths(tree'.files)) \cap Paths(disk.files) = {}
  <2>1. DeleteDir(d) /\ pc = "executing" /\ d \in PlansOf(plans, "delete_remote_dir")
    BY <1>5 DEF DeleteRemoteDir, Turn, Fail, server
  <2>2. tree'.files = DeletePrefix(tree.files, d)
    BY <2>1 DEF DeleteDir, Answer, Pruned
  <2>3. FilesBelow(disk.files, d) = {}
    BY <2>1 DEF GoneInv, Gone
  <2> QED
    BY <2>2, <2>3 DEF DeletePrefix, Without, Paths, FilesBelow
<1>6. ASSUME NEW p \in FilePaths, Move(p), tree' # tree
      PROVE  (Paths(tree.files) \ Paths(tree'.files)) \cap Paths(disk.files) = {}
  <2>1. PICK from : from = plans[p].from
    OBVIOUS
  <2>2. MoveFile(from, p) /\ pc = "executing" /\ p \in PlansOf(plans, "move")
    BY <1>6, <2>1 DEF Move, Turn, Fail, server
  <2>3. tree'.files = With(Without(tree.files, {from}), p, tree.files[from])
    BY <1>1, <2>2, TreeParts DEF MoveFile, Answer
  <2>4. from \notin Paths(disk.files)
    BY <2>1, <2>2 DEF GoneInv, Gone
  <2> QED
    BY <2>3, <2>4 DEF With, Without, Paths
<1>7. ASSUME NEW p \in FilePaths, Push(p) \/ Conflict(p)
      PROVE  (Paths(tree.files) \ Paths(tree'.files)) \cap Paths(disk.files) = {}
  <2>1. tree' = tree \/ Upload(p, Mine(p))
    BY <1>7 DEF Push, Conflict, Fail, server
  <2> QED
    BY <1>2, <1>3, <2>1
<1>8. ASSUME NEW p \in FilePaths,
             Pull(p) \/ DeleteLocal(p) \/ PreserveLocalRename(p) \/ MoveApply(p) \/ SkipCaseConflict(p)
      PROVE  tree' = tree
  BY <1>8 DEF Pull, DeleteLocal, PreserveLocalRename, MoveApply, SkipCaseConflict, server
<1>9. ASSUME NEW d \in DirPaths, MkdirLocal(d) \/ RmdirLocal(d)
      PROVE  tree' = tree
  BY <1>9 DEF MkdirLocal, RmdirLocal, server
<1>10. ASSUME Poll \/ HandleDirEvent \/ Compare \/ Finish \/ Mishap
       PROVE  tree' = tree
  BY <1>10 DEF Poll, HandleDirEvent, Compare, Finish, Mishap, RequestFails, SubtreeFails,
              SaveFails, Crash, server
<1>11. ~OtherClient /\ ~User
  BY DEF OtherClient, User, UserWrite, UserDelete, UserRename, UserRemoveDir, UserTurn
<1> QED
  BY <1>2, <1>4, <1>5, <1>6, <1>7, <1>8, <1>9, <1>10, <1>11 DEF Next, Step, Mishap, Handler

(* While Compare sees every file, no cycle deletes on the server a file    *)
(* that is still on this disk, neither by itself nor with its directory    *)
(* nor by renaming it there.                                               *)
THEOREM OnlyWhatIsGone ==
  ASSUME Clear
  PROVE  Spec => DeletesOnlyWhatIsGone
<1>1. Init => GoneInv
  BY DEF Init, GoneInv
<1>2. TypeInv /\ SafeInv /\ GoneInv /\ [Next]_vars => GoneInv'
  BY GoneStep
<1>3. TypeInv /\ GoneInv /\ [Next]_vars =>
        [pc # "idle" => (Paths(tree.files) \ Paths(tree'.files)) \cap Paths(disk.files) = {}]_vars
  BY StepGone
<1> QED
  BY TypeInductive, SafeInductive, <1>1, <1>2, <1>3, PTL DEF Spec, DeletesOnlyWhatIsGone
=============================================================================
