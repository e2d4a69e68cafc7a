--------------------------- MODULE BootstrapProofs ---------------------------
(***************************************************************************)
(* The bootstrap takes an atomic snapshot, for any paths and bounds, as    *)
(* long as no directory moves out of what is yet to be fetched.            *)
(***************************************************************************)
EXTENDS Bootstrap, ScopeTheorems

-----------------------------------------------------------------------------
(* The changes of a poll, applied one after the other. *)

(* A queue without the directories at or below a deleted one.              *)
StillThereStep(d, queue) ==
  [i \in 1..Len(queue) |-> [kept \in Seq(Names) |->
     IF AtOrBelow(queue[i], d) THEN kept ELSE Append(kept, queue[i])]]

(* The elements of a queue.                                                *)
LEMMA ToSetIs ==
  ASSUME NEW s \in Seq(Names)
  PROVE  /\ ToSet(s) \subseteq Names
         /\ \A x : x \in ToSet(s) <=> \E i \in 1..Len(s) : x = s[i]
         /\ \A x \in Names : ToSet(Append(s, x)) = ToSet(s) \cup {x}
<1>1. \A x : x \in ToSet(s) <=> \E i \in 1..Len(s) : x = s[i]
  BY DEF ToSet
<1>2. ToSet(s) \subseteq Names
  BY <1>1
<1>3. ASSUME NEW x \in Names
      PROVE  ToSet(Append(s, x)) = ToSet(s) \cup {x}
  <2>1. PICK t \in Seq(Names) : t = Append(s, x)
    BY AppendProperties
  <2>2. Len(t) = Len(s) + 1 /\ Len(s) \in Nat /\ t[Len(s) + 1] = x
        /\ \A i \in 1..Len(s) : t[i] = s[i]
    BY <2>1, AppendProperties
  <2>3. \A y : y \in ToSet(t) <=> \E i \in 1..Len(t) : y = t[i]
    BY DEF ToSet
  <2>4. ASSUME NEW y \in ToSet(t)
        PROVE  y \in ToSet(s) \cup {x}
    <3>1. PICK i \in 1..Len(t) : y = t[i]
      BY <2>3
    <3>2. CASE i = Len(s) + 1
      BY <2>2, <3>1, <3>2
    <3>3. CASE i # Len(s) + 1
      <4>1. i \in 1..Len(s)
        BY <2>2, <3>3
      <4> QED
        BY <1>1, <2>2, <3>1, <4>1
    <3> QED
      BY <3>2, <3>3
  <2>5. x \in ToSet(t)
    <3>1. Len(s) + 1 \in 1..Len(t)
      BY <2>2
    <3> QED
      BY <2>2, <2>3, <3>1
  <2>6. ASSUME NEW y \in ToSet(s)
        PROVE  y \in ToSet(t)
    <3>1. PICK i \in 1..Len(s) : y = s[i]
      BY <1>1
    <3>2. i \in 1..Len(t) /\ y = t[i]
      BY <2>2, <3>1
    <3> QED
      BY <2>3, <3>2
  <2> QED
    BY <2>1, <2>4, <2>5, <2>6
<1> QED
  BY <1>1, <1>2, <1>3

(* coalesceDirDelete, as a chain over the queue.                           *)
LEMMA StillThereChain ==
  ASSUME NEW queue \in Seq(Names), NEW d \in Names
  PROVE  \E f : /\ Chain(f, Len(queue), Seq(Names), <<>>, StillThereStep(d, queue))
                /\ StillThere(queue, d) = f[Len(queue)]
<1>0. PICK n \in Nat : n = Len(queue) /\ DOMAIN queue = 1..n
  OBVIOUS
<1>1. PICK X : X = Seq(Names)
  OBVIOUS
<1>2. PICK F : F = StillThereStep(d, queue)
  OBVIOUS
<1>3. \A i \in 1..n : queue[i] \in Names
  BY <1>0
<1>4. \A i \in 1..n : \A x \in X :
        Do(F, i, x) = IF AtOrBelow(queue[i], d) THEN x ELSE Append(x, queue[i])
  BY <1>0, <1>1, <1>2 DEF Do, StillThereStep
<1>5. PICK b \in X : b = <<>>
  BY <1>1, EmptySeq
<1>14. Steps(F, n, X)
  <2> SUFFICES ASSUME NEW i \in 1..n, NEW x \in X
               PROVE  Do(F, i, x) \in X
    BY DEF Steps
  <2>1. Append(x, queue[i]) \in X
    BY <1>1, <1>3, AppendProperties
  <2> QED
    BY <1>4, <2>1
<1>15. PICK g : Iterate(g, n, X, b, F)
  BY <1>14, IterateExists
<1>6. /\ g \in [SUBSET (1..n) -> X]
      /\ \A S \in SUBSET (1..n) :
           g[S] = IF S = {} THEN b ELSE Do(F, Max(S), g[S \ {Max(S)}])
  BY <1>15 DEF Iterate
<1>7. \A S \in SUBSET (1..n) : S # {} => Max(S) \in 1..n /\ S \ {Max(S)} \in SUBSET (1..n)
  BY MaxMember
<1>8. g = [S \in SUBSET (1..n) |->
             IF S = {} THEN b
             ELSE IF AtOrBelow(queue[Max(S)], d) THEN g[S \ {Max(S)}]
                  ELSE Append(g[S \ {Max(S)}], queue[Max(S)])]
  BY <1>4, <1>6, <1>7
<1>9. PICK iter : iter = CHOOSE h : h = [S \in SUBSET (1..n) |->
             IF S = {} THEN b
             ELSE IF AtOrBelow(queue[Max(S)], d) THEN h[S \ {Max(S)}]
                  ELSE Append(h[S \ {Max(S)}], queue[Max(S)])]
  OBVIOUS
<1>10. iter = [S \in SUBSET (1..n) |->
             IF S = {} THEN b
             ELSE IF AtOrBelow(queue[Max(S)], d) THEN iter[S \ {Max(S)}]
                  ELSE Append(iter[S \ {Max(S)}], queue[Max(S)])]
  BY <1>8, <1>9
<1>11. Iterates(iter, n, X, b, F)
  <2> SUFFICES ASSUME NEW S \in SUBSET (1..n)
               PROVE  /\ S = {} => iter[S] = b
                      /\ S # {} /\ iter[S \ {Max(S)}] \in X =>
                           iter[S] = Do(F, Max(S), iter[S \ {Max(S)}])
    BY DEF Iterates
  <2> QED
    BY <1>4, <1>7, <1>10
<1>12. StillThere(queue, d) = iter[1..n]
  BY <1>0, <1>5, <1>9 DEF StillThere, FoldLeft, MapThenFoldSet
<1>13. \E f : Chain(f, n, X, b, F) /\ iter[1..n] = f[n]
  BY <1>11, <1>14, IterateIs
<1> QED
  BY <1>0, <1>1, <1>2, <1>5, <1>12, <1>13

(* It has exactly those of the queue that are not at or below d.           *)
LEMMA StillThereIs ==
  ASSUME NEW queue \in Seq(Names), NEW d \in Names
  PROVE  /\ StillThere(queue, d) \in Seq(Names)
         /\ ToSet(StillThere(queue, d)) = {q \in ToSet(queue) : ~AtOrBelow(q, d)}
<1>0. PICK n \in Nat : n = Len(queue)
  OBVIOUS
<1>1. PICK X : X = Seq(Names)
  OBVIOUS
<1>2. PICK F : F = StillThereStep(d, queue)
  OBVIOUS
<1>3. PICK f : Chain(f, n, X, <<>>, F) /\ StillThere(queue, d) = f[n]
  BY <1>0, <1>1, <1>2, StillThereChain
<1>4. \A i \in 1..n : \A x \in X :
        Do(F, i, x) = IF AtOrBelow(queue[i], d) THEN x ELSE Append(x, queue[i])
  BY <1>0, <1>1, <1>2 DEF Do, StillThereStep
<1>5. /\ f \in [0..n -> X] /\ f[0] = <<>>
      /\ \A i \in 1..n : f[i] = Do(F, i, f[i - 1])
  BY <1>3 DEF Chain
<1> DEFINE T == {k \in Nat : k <= n =>
                   ToSet(f[k]) = {q \in Names : \E i \in 1..k : q = queue[i] /\ ~AtOrBelow(q, d)}}
<1>6. 0 \in T
  <2>1. ToSet(f[0]) = {} /\ 1..0 = {}
    BY <1>5 DEF ToSet
  <2> QED
    BY <2>1
<1>7. ASSUME NEW k \in Nat, k \in T
      PROVE  k + 1 \in T
  <2> SUFFICES ASSUME k + 1 <= n
               PROVE  ToSet(f[k + 1]) = {q \in Names : \E i \in 1..(k + 1) : q = queue[i] /\ ~AtOrBelow(q, d)}
    OBVIOUS
  <2>1. k + 1 \in 1..n /\ (k + 1) - 1 = k /\ k \in 0..n
    OBVIOUS
  <2>2. PICK x \in Seq(Names) : x = f[k]
    BY <1>1, <1>5, <2>1
  <2>3. PICK y \in Names : y = queue[k + 1]
    BY <1>0, <2>1
  <2>4. f[k + 1] = IF AtOrBelow(y, d) THEN x ELSE Append(x, y)
    BY <1>1, <1>4, <1>5, <2>1, <2>2, <2>3
  <2>5. ToSet(x) = {q \in Names : \E i \in 1..k : q = queue[i] /\ ~AtOrBelow(q, d)}
    BY <1>7, <2>1, <2>2
  <2>6. \A i : i \in 1..(k + 1) <=> i \in 1..k \/ i = k + 1
    OBVIOUS
  <2>7. ToSet(f[k + 1]) = IF AtOrBelow(y, d) THEN ToSet(x) ELSE ToSet(x) \cup {y}
    BY <2>4, ToSetIs
  <2> HIDE DEF T
  <2> QED
    BY <2>3, <2>5, <2>6, <2>7
<1>8. n \in T
  <2> HIDE DEF T
  <2> QED
    BY <1>6, <1>7, SetInduction
<1>9. ToSet(f[n]) = {q \in Names : \E i \in 1..n : q = queue[i] /\ ~AtOrBelow(q, d)}
  BY <1>8
<1>10. \A q : q \in ToSet(queue) <=> q \in Names /\ \E i \in 1..n : q = queue[i]
  BY <1>0, ToSetIs
<1>11. f[n] \in Seq(Names)
  BY <1>1, <1>5
<1> QED
  BY <1>3, <1>9, <1>10, <1>11

(* Applying a change to a map, to directories or to the queue gives one.   *)
LEMMA AppliedTyped ==
  ASSUME NEW m \in Map, NEW ch \in Entries
  PROVE  Applied(m, ch) \in Map
<1>1. /\ ch.act \in {"put", "delete", "move", "mkdir"} /\ ch.isDir \in BOOLEAN
      /\ ch.before \in Names /\ ch.after \in Names /\ ch.content \in Int
  BY DEF Entries
<1>2. DeletePrefix(m, ch.before) \in Map
  BY <1>1, DeletePrefixIs
<1>3. RenamePrefix(m, ch.before, ch.after) \in Map
  BY <1>1, RenamePrefixIs
<1>4. Without(m, {ch.before}) \in Map
  BY WithoutIs
<1>5. /\ With(m, ch.after, ch.content) \in Map
      /\ With(Without(m, {ch.before}), ch.after, ch.content) \in Map
  BY <1>1, <1>4, WithIs
<1> QED
  BY <1>2, <1>3, <1>4, <1>5 DEF Applied

(* Directories stay directories,                                           *)
LEMMA AppliedToDirsTyped ==
  ASSUME NEW D \in SUBSET Names, NEW ch \in Entries
  PROVE  AppliedToDirs(D, ch) \in SUBSET Names
<1>1. ch.before \in Names /\ ch.after \in Names
  BY DEF Entries
<1>2. RenameDirs(D, ch.before, ch.after) \in SUBSET Names
  BY <1>1, RenameDirsIs
<1>3. DeleteDirs(D, ch.before) \in SUBSET Names /\ D \cup {ch.after} \in SUBSET Names
  BY <1>1 DEF DeleteDirs
<1> QED
  BY <1>2, <1>3 DEF AppliedToDirs

(* and the queue a queue of names.                                         *)
LEMMA QueuedTyped ==
  ASSUME NEW queue \in Seq(Names), NEW ch \in Entries
  PROVE  Queued(queue, ch) \in Seq(Names)
<1>1. ch.before \in Names /\ ch.after \in Names
  BY DEF Entries
<1>2. StillThere(queue, ch.before) \in Seq(Names)
  BY <1>1, StillThereIs
<1>3. Append(queue, ch.after) \in Seq(Names)
  BY <1>1, AppendProperties
<1>4. [i \in DOMAIN queue |-> IF AtOrBelow(queue[i], ch.before)
                              THEN Rebased(queue[i], ch.before, ch.after) ELSE queue[i]]
        \in Seq(Names)
  <2>1. PICK n \in Nat : n = Len(queue) /\ DOMAIN queue = 1..n
    OBVIOUS
  <2>2. \A i \in 1..n : queue[i] \in Names
    BY <2>1
  <2>3. \A q \in Names : AtOrBelow(q, ch.before) => Rebased(q, ch.before, ch.after) \in Names
    BY <1>1, RebasedIs
  <2>4. [i \in 1..n |-> IF AtOrBelow(queue[i], ch.before)
                        THEN Rebased(queue[i], ch.before, ch.after) ELSE queue[i]]
          \in [1..n -> Names]
    BY <2>2, <2>3
  <2> QED
    BY <2>1, <2>4, IsASeq
<1> QED
  BY <1>2, <1>3, <1>4 DEF Queued

AppliedStep(s) ==
  [i \in 1..Len(s) |-> [x \in Map |-> Applied(x, s[i])]]

(* The changes s of the map, as a chain.                                   *)
LEMMA AppliedChain ==
  ASSUME NEW s \in Seq(Entries), NEW b \in Map
  PROVE  \E f : /\ Chain(f, Len(s), Map, b, AppliedStep(s))
                /\ FoldLeft(Applied, b, s) = f[Len(s)]
<1>0. PICK n \in Nat : n = Len(s) /\ DOMAIN s = 1..n
  OBVIOUS
<1>1. PICK X : X = Map
  OBVIOUS
<1>2. PICK F : F = AppliedStep(s)
  OBVIOUS
<1>3. \A i \in 1..n : s[i] \in Entries
  BY <1>0
<1>4. \A i \in 1..n : \A x \in X : Do(F, i, x) = Applied(x, s[i])
  BY <1>0, <1>1, <1>2 DEF Do, AppliedStep
<1>5. b \in X
  BY <1>1
<1>6. Steps(F, n, X)
  <2> SUFFICES ASSUME NEW i \in 1..n, NEW x \in X
               PROVE  Do(F, i, x) \in X
    BY DEF Steps
  <2>1. Applied(x, s[i]) \in X
    BY <1>1, <1>3, AppliedTyped
  <2> QED
    BY <1>4, <2>1
<1>7. PICK g : Iterate(g, n, X, b, F)
  BY <1>5, <1>6, IterateExists
<1>8. /\ g \in [SUBSET (1..n) -> X]
      /\ \A S \in SUBSET (1..n) :
           g[S] = IF S = {} THEN b ELSE Do(F, Max(S), g[S \ {Max(S)}])
  BY <1>7 DEF Iterate
<1>9. \A S \in SUBSET (1..n) : S # {} => Max(S) \in 1..n /\ S \ {Max(S)} \in SUBSET (1..n)
  BY MaxMember
<1>10. g = [S \in SUBSET (1..n) |->
              IF S = {} THEN b ELSE Applied(g[S \ {Max(S)}], s[Max(S)])]
  BY <1>4, <1>8, <1>9
<1>11. PICK iter : iter = CHOOSE h : h = [S \in SUBSET (1..n) |->
              IF S = {} THEN b ELSE Applied(h[S \ {Max(S)}], s[Max(S)])]
  OBVIOUS
<1>12. iter = [S \in SUBSET (1..n) |->
              IF S = {} THEN b ELSE Applied(iter[S \ {Max(S)}], s[Max(S)])]
  BY <1>10, <1>11
<1>13. Iterates(iter, n, X, b, F)
  <2> SUFFICES ASSUME NEW S \in SUBSET (1..n)
               PROVE  /\ S = {} => iter[S] = b
                      /\ S # {} /\ iter[S \ {Max(S)}] \in X =>
                           iter[S] = Do(F, Max(S), iter[S \ {Max(S)}])
    BY DEF Iterates
  <2> QED
    BY <1>4, <1>9, <1>12
<1>14. FoldLeft(Applied, b, s) = iter[1..n]
  BY <1>0, <1>11 DEF FoldLeft, MapThenFoldSet
<1>15. \E f : Chain(f, n, X, b, F) /\ iter[1..n] = f[n]
  BY <1>5, <1>6, <1>13, IterateIs
<1> QED
  BY <1>0, <1>1, <1>2, <1>14, <1>15

(* So the map is typed, and a change that comes last is applied last.      *)
LEMMA AppliedFold ==
  ASSUME NEW s \in Seq(Entries), NEW b \in Map
  PROVE  /\ FoldLeft(Applied, b, s) \in Map
         /\ s = <<>> => FoldLeft(Applied, b, s) = b
         /\ \A ch \in Entries :
              FoldLeft(Applied, b, Append(s, ch)) = Applied(FoldLeft(Applied, b, s), ch)
<1>0. PICK n \in Nat : n = Len(s)
  OBVIOUS
<1>1. PICK X : X = Map
  OBVIOUS
<1>2. PICK f : Chain(f, n, X, b, AppliedStep(s)) /\ FoldLeft(Applied, b, s) = f[n]
  BY <1>0, <1>1, AppliedChain
<1>3. f[n] \in X /\ f[0] = b
  BY <1>2 DEF Chain
<1>4. s = <<>> => n = 0
  BY <1>0
<1>5. ASSUME NEW ch \in Entries
      PROVE  FoldLeft(Applied, b, Append(s, ch)) = Applied(FoldLeft(Applied, b, s), ch)
  <2>1. PICK t \in Seq(Entries) : t = Append(s, ch)
    BY AppendProperties
  <2>2. Len(t) = n + 1 /\ t[n + 1] = ch /\ \A i \in 1..n : t[i] = s[i]
    BY <1>0, <2>1, AppendProperties
  <2>3. PICK F : F = AppliedStep(s)
    OBVIOUS
  <2>4. PICK G : G = AppliedStep(t)
    OBVIOUS
  <2>5. PICK g : Chain(g, n + 1, X, b, G) /\ FoldLeft(Applied, b, t) = g[n + 1]
    BY <1>1, <2>2, <2>4, AppliedChain
  <2>6. \A i \in 1..n : \A x \in X : Do(F, i, x) = Do(G, i, x)
    BY <1>0, <1>1, <2>2, <2>3, <2>4 DEF Do, AppliedStep
  <2>7. g[n + 1] = Do(G, n + 1, f[n])
    BY <1>1, <1>2, <2>3, <2>5, <2>6, ChainAppend
  <2>8. Do(G, n + 1, f[n]) = Applied(f[n], ch)
    <3>1. n + 1 \in 1..Len(t)
      BY <2>2
    <3> QED
      BY <1>1, <1>3, <2>2, <2>4, <3>1 DEF Do, AppliedStep
  <2> QED
    BY <1>2, <2>1, <2>5, <2>7, <2>8
<1> QED
  BY <1>1, <1>2, <1>3, <1>4, <1>5

DirsAppliedStep(s) ==
  [i \in 1..Len(s) |-> [x \in (SUBSET Names) |-> AppliedToDirs(x, s[i])]]

(* The same for the directories,                                           *)
LEMMA DirsAppliedChain ==
  ASSUME NEW s \in Seq(Entries), NEW b \in (SUBSET Names)
  PROVE  \E f : /\ Chain(f, Len(s), (SUBSET Names), b, DirsAppliedStep(s))
                /\ FoldLeft(AppliedToDirs, b, s) = f[Len(s)]
<1>0. PICK n \in Nat : n = Len(s) /\ DOMAIN s = 1..n
  OBVIOUS
<1>1. PICK X : X = (SUBSET Names)
  OBVIOUS
<1>2. PICK F : F = DirsAppliedStep(s)
  OBVIOUS
<1>3. \A i \in 1..n : s[i] \in Entries
  BY <1>0
<1>4. \A i \in 1..n : \A x \in X : Do(F, i, x) = AppliedToDirs(x, s[i])
  BY <1>0, <1>1, <1>2 DEF Do, DirsAppliedStep
<1>5. b \in X
  BY <1>1
<1>6. Steps(F, n, X)
  <2> SUFFICES ASSUME NEW i \in 1..n, NEW x \in X
               PROVE  Do(F, i, x) \in X
    BY DEF Steps
  <2>1. AppliedToDirs(x, s[i]) \in X
    BY <1>1, <1>3, AppliedToDirsTyped
  <2> QED
    BY <1>4, <2>1
<1>7. PICK g : Iterate(g, n, X, b, F)
  BY <1>5, <1>6, IterateExists
<1>8. /\ g \in [SUBSET (1..n) -> X]
      /\ \A S \in SUBSET (1..n) :
           g[S] = IF S = {} THEN b ELSE Do(F, Max(S), g[S \ {Max(S)}])
  BY <1>7 DEF Iterate
<1>9. \A S \in SUBSET (1..n) : S # {} => Max(S) \in 1..n /\ S \ {Max(S)} \in SUBSET (1..n)
  BY MaxMember
<1>10. g = [S \in SUBSET (1..n) |->
              IF S = {} THEN b ELSE AppliedToDirs(g[S \ {Max(S)}], s[Max(S)])]
  BY <1>4, <1>8, <1>9
<1>11. PICK iter : iter = CHOOSE h : h = [S \in SUBSET (1..n) |->
              IF S = {} THEN b ELSE AppliedToDirs(h[S \ {Max(S)}], s[Max(S)])]
  OBVIOUS
<1>12. iter = [S \in SUBSET (1..n) |->
              IF S = {} THEN b ELSE AppliedToDirs(iter[S \ {Max(S)}], s[Max(S)])]
  BY <1>10, <1>11
<1>13. Iterates(iter, n, X, b, F)
  <2> SUFFICES ASSUME NEW S \in SUBSET (1..n)
               PROVE  /\ S = {} => iter[S] = b
                      /\ S # {} /\ iter[S \ {Max(S)}] \in X =>
                           iter[S] = Do(F, Max(S), iter[S \ {Max(S)}])
    BY DEF Iterates
  <2> QED
    BY <1>4, <1>9, <1>12
<1>14. FoldLeft(AppliedToDirs, b, s) = iter[1..n]
  BY <1>0, <1>11 DEF FoldLeft, MapThenFoldSet
<1>15. \E f : Chain(f, n, X, b, F) /\ iter[1..n] = f[n]
  BY <1>5, <1>6, <1>13, IterateIs
<1> QED
  BY <1>0, <1>1, <1>2, <1>14, <1>15

(* So is the set of directories.                                           *)
LEMMA DirsAppliedFold ==
  ASSUME NEW s \in Seq(Entries), NEW b \in (SUBSET Names)
  PROVE  /\ FoldLeft(AppliedToDirs, b, s) \in (SUBSET Names)
         /\ s = <<>> => FoldLeft(AppliedToDirs, b, s) = b
         /\ \A ch \in Entries :
              FoldLeft(AppliedToDirs, b, Append(s, ch)) = AppliedToDirs(FoldLeft(AppliedToDirs, b, s), ch)
<1>0. PICK n \in Nat : n = Len(s)
  OBVIOUS
<1>1. PICK X : X = (SUBSET Names)
  OBVIOUS
<1>2. PICK f : Chain(f, n, X, b, DirsAppliedStep(s)) /\ FoldLeft(AppliedToDirs, b, s) = f[n]
  BY <1>0, <1>1, DirsAppliedChain
<1>3. f[n] \in X /\ f[0] = b
  BY <1>2 DEF Chain
<1>4. s = <<>> => n = 0
  BY <1>0
<1>5. ASSUME NEW ch \in Entries
      PROVE  FoldLeft(AppliedToDirs, b, Append(s, ch)) = AppliedToDirs(FoldLeft(AppliedToDirs, b, s), ch)
  <2>1. PICK t \in Seq(Entries) : t = Append(s, ch)
    BY AppendProperties
  <2>2. Len(t) = n + 1 /\ t[n + 1] = ch /\ \A i \in 1..n : t[i] = s[i]
    BY <1>0, <2>1, AppendProperties
  <2>3. PICK F : F = DirsAppliedStep(s)
    OBVIOUS
  <2>4. PICK G : G = DirsAppliedStep(t)
    OBVIOUS
  <2>5. PICK g : Chain(g, n + 1, X, b, G) /\ FoldLeft(AppliedToDirs, b, t) = g[n + 1]
    BY <1>1, <2>2, <2>4, DirsAppliedChain
  <2>6. \A i \in 1..n : \A x \in X : Do(F, i, x) = Do(G, i, x)
    BY <1>0, <1>1, <2>2, <2>3, <2>4 DEF Do, DirsAppliedStep
  <2>7. g[n + 1] = Do(G, n + 1, f[n])
    BY <1>1, <1>2, <2>3, <2>5, <2>6, ChainAppend
  <2>8. Do(G, n + 1, f[n]) = AppliedToDirs(f[n], ch)
    <3>1. n + 1 \in 1..Len(t)
      BY <2>2
    <3> QED
      BY <1>1, <1>3, <2>2, <2>4, <3>1 DEF Do, DirsAppliedStep
  <2> QED
    BY <1>2, <2>1, <2>5, <2>7, <2>8
<1> QED
  BY <1>1, <1>2, <1>3, <1>4, <1>5

QueuedStep(s) ==
  [i \in 1..Len(s) |-> [x \in Seq(Names) |-> Queued(x, s[i])]]

(* and for the queue.                                                      *)
LEMMA QueuedChain ==
  ASSUME NEW s \in Seq(Entries), NEW b \in Seq(Names)
  PROVE  \E f : /\ Chain(f, Len(s), Seq(Names), b, QueuedStep(s))
                /\ FoldLeft(Queued, b, s) = f[Len(s)]
<1>0. PICK n \in Nat : n = Len(s) /\ DOMAIN s = 1..n
  OBVIOUS
<1>1. PICK X : X = Seq(Names)
  OBVIOUS
<1>2. PICK F : F = QueuedStep(s)
  OBVIOUS
<1>3. \A i \in 1..n : s[i] \in Entries
  BY <1>0
<1>4. \A i \in 1..n : \A x \in X : Do(F, i, x) = Queued(x, s[i])
  BY <1>0, <1>1, <1>2 DEF Do, QueuedStep
<1>5. b \in X
  BY <1>1
<1>6. Steps(F, n, X)
  <2> SUFFICES ASSUME NEW i \in 1..n, NEW x \in X
               PROVE  Do(F, i, x) \in X
    BY DEF Steps
  <2>1. Queued(x, s[i]) \in X
    BY <1>1, <1>3, QueuedTyped
  <2> QED
    BY <1>4, <2>1
<1>7. PICK g : Iterate(g, n, X, b, F)
  BY <1>5, <1>6, IterateExists
<1>8. /\ g \in [SUBSET (1..n) -> X]
      /\ \A S \in SUBSET (1..n) :
           g[S] = IF S = {} THEN b ELSE Do(F, Max(S), g[S \ {Max(S)}])
  BY <1>7 DEF Iterate
<1>9. \A S \in SUBSET (1..n) : S # {} => Max(S) \in 1..n /\ S \ {Max(S)} \in SUBSET (1..n)
  BY MaxMember
<1>10. g = [S \in SUBSET (1..n) |->
              IF S = {} THEN b ELSE Queued(g[S \ {Max(S)}], s[Max(S)])]
  BY <1>4, <1>8, <1>9
<1>11. PICK iter : iter = CHOOSE h : h = [S \in SUBSET (1..n) |->
              IF S = {} THEN b ELSE Queued(h[S \ {Max(S)}], s[Max(S)])]
  OBVIOUS
<1>12. iter = [S \in SUBSET (1..n) |->
              IF S = {} THEN b ELSE Queued(iter[S \ {Max(S)}], s[Max(S)])]
  BY <1>10, <1>11
<1>13. Iterates(iter, n, X, b, F)
  <2> SUFFICES ASSUME NEW S \in SUBSET (1..n)
               PROVE  /\ S = {} => iter[S] = b
                      /\ S # {} /\ iter[S \ {Max(S)}] \in X =>
                           iter[S] = Do(F, Max(S), iter[S \ {Max(S)}])
    BY DEF Iterates
  <2> QED
    BY <1>4, <1>9, <1>12
<1>14. FoldLeft(Queued, b, s) = iter[1..n]
  BY <1>0, <1>11 DEF FoldLeft, MapThenFoldSet
<1>15. \E f : Chain(f, n, X, b, F) /\ iter[1..n] = f[n]
  BY <1>5, <1>6, <1>13, IterateIs
<1> QED
  BY <1>0, <1>1, <1>2, <1>14, <1>15

(* And the queue.                                                          *)
LEMMA QueuedFold ==
  ASSUME NEW s \in Seq(Entries), NEW b \in Seq(Names)
  PROVE  /\ FoldLeft(Queued, b, s) \in Seq(Names)
         /\ s = <<>> => FoldLeft(Queued, b, s) = b
         /\ \A ch \in Entries :
              FoldLeft(Queued, b, Append(s, ch)) = Queued(FoldLeft(Queued, b, s), ch)
<1>0. PICK n \in Nat : n = Len(s)
  OBVIOUS
<1>1. PICK X : X = Seq(Names)
  OBVIOUS
<1>2. PICK f : Chain(f, n, X, b, QueuedStep(s)) /\ FoldLeft(Queued, b, s) = f[n]
  BY <1>0, <1>1, QueuedChain
<1>3. f[n] \in X /\ f[0] = b
  BY <1>2 DEF Chain
<1>4. s = <<>> => n = 0
  BY <1>0
<1>5. ASSUME NEW ch \in Entries
      PROVE  FoldLeft(Queued, b, Append(s, ch)) = Queued(FoldLeft(Queued, b, s), ch)
  <2>1. PICK t \in Seq(Entries) : t = Append(s, ch)
    BY AppendProperties
  <2>2. Len(t) = n + 1 /\ t[n + 1] = ch /\ \A i \in 1..n : t[i] = s[i]
    BY <1>0, <2>1, AppendProperties
  <2>3. PICK F : F = QueuedStep(s)
    OBVIOUS
  <2>4. PICK G : G = QueuedStep(t)
    OBVIOUS
  <2>5. PICK g : Chain(g, n + 1, X, b, G) /\ FoldLeft(Queued, b, t) = g[n + 1]
    BY <1>1, <2>2, <2>4, QueuedChain
  <2>6. \A i \in 1..n : \A x \in X : Do(F, i, x) = Do(G, i, x)
    BY <1>0, <1>1, <2>2, <2>3, <2>4 DEF Do, QueuedStep
  <2>7. g[n + 1] = Do(G, n + 1, f[n])
    BY <1>1, <1>2, <2>3, <2>5, <2>6, ChainAppend
  <2>8. Do(G, n + 1, f[n]) = Queued(f[n], ch)
    <3>1. n + 1 \in 1..Len(t)
      BY <2>2
    <3> QED
      BY <1>1, <1>3, <2>2, <2>4, <3>1 DEF Do, QueuedStep
  <2> QED
    BY <1>2, <2>1, <2>5, <2>7, <2>8
<1> QED
  BY <1>1, <1>2, <1>3, <1>4, <1>5

-----------------------------------------------------------------------------
(* One change, at one path. *)

(* What each kind of change does.                                          *)
LEMMA AppliedIs ==
  /\ \A m, p, c : Applied(m, FilePut(p, c)) = With(m, p, c)
  /\ \A m, p : Applied(m, FileDelete(p)) = Without(m, {p})
  /\ \A m, p, q, c : Applied(m, FileMove(p, q, c)) = With(Without(m, {p}), q, c)
  /\ \A m, d : Applied(m, DirMake(d)) = m
  /\ \A m, d : Applied(m, DirDelete(d)) = DeletePrefix(m, d)
  /\ \A m, d : Applied(m, DirPut(d)) = m
  /\ \A m, d, e : Applied(m, DirMove(d, e)) = RenamePrefix(m, d, e)
BY DEF Applied, Change, FilePut, FileDelete, FileMove, DirMake, DirDelete, DirPut, DirMove

(* The same for the directories,                                           *)
LEMMA AppliedToDirsIs ==
  /\ \A D, p, c : AppliedToDirs(D, FilePut(p, c)) = D
  /\ \A D, p : AppliedToDirs(D, FileDelete(p)) = D
  /\ \A D, p, q, c : AppliedToDirs(D, FileMove(p, q, c)) = D
  /\ \A D, d : AppliedToDirs(D, DirMake(d)) = D \cup {d}
  /\ \A D, d : AppliedToDirs(D, DirDelete(d)) = DeleteDirs(D, d)
  /\ \A D, d : AppliedToDirs(D, DirPut(d)) = D
  /\ \A D, d, e : AppliedToDirs(D, DirMove(d, e)) = RenameDirs(D, d, e)
BY DEF AppliedToDirs, Change, FilePut, FileDelete, FileMove, DirMake, DirDelete, DirPut, DirMove

(* and for the queue.                                                      *)
LEMMA QueuedIs ==
  /\ \A queue, p, c : Queued(queue, FilePut(p, c)) = queue
  /\ \A queue, p : Queued(queue, FileDelete(p)) = queue
  /\ \A queue, p, q, c : Queued(queue, FileMove(p, q, c)) = queue
  /\ \A queue, d : Queued(queue, DirMake(d)) = queue
  /\ \A queue, d : Queued(queue, DirDelete(d)) = StillThere(queue, d)
  /\ \A queue, d : Queued(queue, DirPut(d)) = Append(queue, d)
  /\ \A queue, d, e : Queued(queue, DirMove(d, e)) =
       [i \in DOMAIN queue |-> IF AtOrBelow(queue[i], d)
                               THEN Rebased(queue[i], d, e) ELSE queue[i]]
BY DEF Queued, Change, FilePut, FileDelete, FileMove, DirMake, DirDelete, DirPut, DirMove

(* A change that deletes or restores a directory is no other.              *)
LEMMA KindsDiffer ==
  /\ \A p, c, d : FilePut(p, c) # DirDelete(d) /\ FilePut(p, c) # DirPut(d)
  /\ \A p, d : FileDelete(p) # DirDelete(d) /\ FileDelete(p) # DirPut(d)
  /\ \A p, q, c, d : FileMove(p, q, c) # DirDelete(d) /\ FileMove(p, q, c) # DirPut(d)
  /\ \A p, d : DirMake(p) # DirDelete(d) /\ DirMake(p) # DirPut(d)
<1>1. \A p, q, c : /\ ~FilePut(p, c).isDir /\ ~FileDelete(p).isDir /\ ~FileMove(p, q, c).isDir
                   /\ DirMake(p).act = "mkdir"
  BY DEF Change, FilePut, FileDelete, FileMove, DirMake
<1>2. \A d : /\ DirDelete(d).isDir /\ DirPut(d).isDir
             /\ DirDelete(d).act = "delete" /\ DirPut(d).act = "put"
  BY DEF Change, DirDelete, DirPut
<1>3. \A p, c, d : FilePut(p, c) # DirDelete(d) /\ FilePut(p, c) # DirPut(d)
  BY <1>1, <1>2
<1>4. \A p, d : FileDelete(p) # DirDelete(d) /\ FileDelete(p) # DirPut(d)
  BY <1>1, <1>2
<1>5. \A p, q, c, d : FileMove(p, q, c) # DirDelete(d) /\ FileMove(p, q, c) # DirPut(d)
  BY <1>1, <1>2
<1>6. \A p, d : DirMake(p) # DirDelete(d) /\ DirMake(p) # DirPut(d)
  BY <1>1, <1>2
<1> QED
  BY <1>3, <1>4, <1>5, <1>6

(* The queue loses only what is deleted, and gains what is restored.       *)
LEMMA QueueAfter ==
  ASSUME NEW t, NEW u, NEW ch, Evolves(t, u, ch), TreeOK(t), NEW queue \in Seq(Names)
  PROVE  /\ \A q \in ToSet(queue) :
              \/ q \in ToSet(Queued(queue, ch))
              \/ \E d \in t.dirs : ch = DirDelete(d) /\ AtOrBelow(q, d)
         /\ \A q \in ToSet(Queued(queue, ch)) :
              \/ q \in ToSet(queue) /\ \A d \in t.dirs : ch = DirDelete(d) => ~AtOrBelow(q, d)
              \/ \E s : Restorable(s) /\ Vacant(t, s.top) /\ u = Grafted(t, s.sub) /\ q = s.top
         /\ \A s : ch = DirPut(s) /\ s \in Names => s \in ToSet(Queued(queue, ch))
<1>0. t.dirs \subseteq Names
  BY PathsAreNames DEF TreeOK
<1>1. ASSUME \/ \E p \in FilePaths, c \in Int : ch = FilePut(p, c)
             \/ \E p \in Paths(t.files) : ch = FileDelete(p)
             \/ \E p \in Paths(t.files), q \in FilePaths : ch = FileMove(p, q, t.files[p])
             \/ \E d \in DirPaths : ch = DirMake(d)
      PROVE  /\ Queued(queue, ch) = queue
             /\ \A d : ch # DirDelete(d) /\ ch # DirPut(d)
  BY <1>1, QueuedIs, KindsDiffer
<1>2. ASSUME NEW d \in t.dirs, ch = DirDelete(d)
      PROVE  /\ Queued(queue, ch) = StillThere(queue, d)
             /\ ToSet(StillThere(queue, d)) = {q \in ToSet(queue) : ~AtOrBelow(q, d)}
             /\ \A s : ch # DirPut(s)
             /\ \A x : ch = DirDelete(x) => x = d
  <2>1. Queued(queue, ch) = StillThere(queue, d)
    BY <1>2, QueuedIs
  <2>2. ToSet(StillThere(queue, d)) = {q \in ToSet(queue) : ~AtOrBelow(q, d)}
    BY <1>0, StillThereIs
  <2>3. \A s : ch # DirPut(s)
    BY <1>2 DEF Change, DirDelete, DirPut
  <2>4. \A x : ch = DirDelete(x) => x = d
    BY <1>2 DEF Change, DirDelete
  <2> QED
    BY <2>1, <2>2, <2>3, <2>4
<1>3. ASSUME NEW s, Restorable(s), Vacant(t, s.top), ch = DirPut(s.top), u = Grafted(t, s.sub)
      PROVE  /\ ToSet(Queued(queue, ch)) = ToSet(queue) \cup {s.top}
             /\ \A d : ch # DirDelete(d)
             /\ \A x : ch = DirPut(x) => x = s.top
  <2>1. s.top \in Names
    BY <1>3, PathsAreNames DEF Restorable
  <2>2. Queued(queue, ch) = Append(queue, s.top)
    BY <1>3, QueuedIs
  <2>3. \A d : ch # DirDelete(d)
    BY <1>3 DEF Change, DirDelete, DirPut
  <2>4. \A x : ch = DirPut(x) => x = s.top
    BY <1>3 DEF Change, DirPut
  <2> QED
    BY <2>1, <2>2, <2>3, <2>4, ToSetIs
<1>4. CASE \/ \E p \in FilePaths, c \in Int : ch = FilePut(p, c)
           \/ \E p \in Paths(t.files) : ch = FileDelete(p)
           \/ \E p \in Paths(t.files), q \in FilePaths : ch = FileMove(p, q, t.files[p])
           \/ \E d \in DirPaths : ch = DirMake(d)
  BY <1>1, <1>4
<1>5. CASE \E d \in t.dirs : ch = DirDelete(d)
  BY <1>2, <1>5
<1>6. CASE \E s : Restorable(s) /\ Vacant(t, s.top) /\ ch = DirPut(s.top) /\ u = Grafted(t, s.sub)
  BY <1>3, <1>6
<1> QED
  BY <1>4, <1>5, <1>6 DEF Evolves

(* Whatever the map has at p, the change makes it what the tree u has.     *)
Decides(u, ch, p) == \A m \in Map : Same(Applied(m, ch), u.files, p)
Leaves(ch, p) == \A m \in Map : Same(Applied(m, ch), m, p)

(* A change decides p, or it leaves p as it is in the map and in the tree, *)
(* or it restores p together with a directory.                             *)
LEMMA FileAt ==
  ASSUME NEW t, NEW u, NEW ch, Evolves(t, u, ch), TreeOK(t), NEW p \in Names
  PROVE  \/ Decides(u, ch, p)
         \/ /\ Leaves(ch, p) /\ Same(u.files, t.files, p)
            /\ \A d \in t.dirs : ch = DirDelete(d) => ~Below(p, d)
         \/ /\ Leaves(ch, p) /\ p \notin Paths(t.files)
            /\ \E s \in Names : ch = DirPut(s) /\ Below(p, s)
<1>0. t.files \in Map /\ t.dirs \subseteq Names /\ FilePaths \subseteq Names
      /\ Paths(t.files) \subseteq Names
  BY PathsAreNames DEF TreeOK
<1>1. \A x \in Map : \A q \in Names : Same(x, x, q)
  BY DEF Same
<1>2. ASSUME NEW q \in FilePaths, NEW c \in Int, ch = FilePut(q, c),
             u = [dirs |-> t.dirs, files |-> With(t.files, q, c)]
      PROVE  \/ Decides(u, ch, p)
             \/ /\ Leaves(ch, p) /\ Same(u.files, t.files, p)
                /\ \A d \in t.dirs : ch # DirDelete(d)
  <2>0. q \in Names /\ u.files = With(t.files, q, c) /\ \A m : Applied(m, ch) = With(m, q, c)
    <3>1. \A m : Applied(m, ch) = With(m, q, c)
      BY <1>2, AppliedIs
    <3> QED
      BY <1>0, <1>2, <3>1
  <2>1. CASE p = q
    BY <1>0, <2>0, <2>1, WithIs DEF Decides, Same
  <2>2. CASE p # q
    <3>1. \A d : ch # DirDelete(d)
      BY <1>2 DEF Change, FilePut, DirDelete
    <3> QED
      BY <1>0, <2>0, <2>2, <3>1, WithIs DEF Leaves
  <2> QED
    BY <2>1, <2>2
<1>3. ASSUME NEW q \in Paths(t.files), ch = FileDelete(q),
             u = [dirs |-> t.dirs, files |-> Without(t.files, {q})]
      PROVE  \/ Decides(u, ch, p)
             \/ /\ Leaves(ch, p) /\ Same(u.files, t.files, p)
                /\ \A d \in t.dirs : ch # DirDelete(d)
  <2>0. q \in Names /\ u.files = Without(t.files, {q}) /\ \A m : Applied(m, ch) = Without(m, {q})
    BY <1>0, <1>3, AppliedIs
  <2>1. CASE p = q
    <3>1. \A m \in Map : p \notin Paths(Without(m, {q}))
      BY <2>1, WithoutIs
    <3> QED
      BY <1>0, <2>0, <3>1 DEF Decides, Same
  <2>2. CASE p # q
    <3>1. \A d : ch # DirDelete(d)
      <4>1. q # Root
        BY PathsAreNames DEF TreeOK
      <4> QED
        BY <1>3 DEF Change, FileDelete, DirDelete
    <3> QED
      BY <1>0, <2>0, <2>2, <3>1, WithoutIs DEF Leaves
  <2> QED
    BY <2>1, <2>2
<1>4. ASSUME NEW x \in Paths(t.files), NEW q \in FilePaths, ch = FileMove(x, q, t.files[x]),
             u = [dirs |-> t.dirs, files |-> With(Without(t.files, {x}), q, t.files[x])]
      PROVE  \/ Decides(u, ch, p)
             \/ /\ Leaves(ch, p) /\ Same(u.files, t.files, p)
                /\ \A d \in t.dirs : ch # DirDelete(d)
  <2>0. PICK c \in Int : c = t.files[x]
    BY <1>0, MapIs
  <2>1. /\ q \in Names /\ x \in Names /\ u.files = With(Without(t.files, {x}), q, c)
        /\ \A m : Applied(m, ch) = With(Without(m, {x}), q, c)
    <3>1. \A m : Applied(m, ch) = With(Without(m, {x}), q, c)
      BY <1>4, <2>0, AppliedIs
    <3> QED
      BY <1>0, <1>4, <2>0, <3>1
  <2>2. \A m \in Map : /\ Without(m, {x}) \in Map /\ x \notin Paths(Without(m, {x}))
                       /\ \A y \in Names : y # x => Same(Without(m, {x}), m, y)
    BY WithoutIs
  <2>3. ASSUME NEW m \in Map
        PROVE  LET w == With(Without(m, {x}), q, c)
               IN  /\ q \in Paths(w) /\ w[q] = c
                   /\ \A y \in Names : y # q => Same(w, Without(m, {x}), y)
    <3>1. PICK v \in Map : v = Without(m, {x})
      BY <2>2
    <3> QED
      BY <2>1, <3>1, WithIs, ZenonT(40)
  <2>4. CASE p = q
    <3>1. \A m \in Map : /\ q \in Paths(With(Without(m, {x}), q, c))
                         /\ With(Without(m, {x}), q, c)[q] = c
      BY <2>3
    <3>2. /\ q \in Paths(With(Without(t.files, {x}), q, c))
          /\ With(Without(t.files, {x}), q, c)[q] = c
      BY <1>0, <3>1
    <3>3. \A m \in Map : Same(With(Without(m, {x}), q, c),
                               With(Without(t.files, {x}), q, c), q)
      BY <3>1, <3>2 DEF Same
    <3> QED
      BY <2>1, <2>4, <3>3 DEF Decides
  <2>5. CASE p # q /\ p = x
    <3>1. \A m \in Map : p \notin Paths(With(Without(m, {x}), q, c))
      BY <2>2, <2>3, <2>5 DEF Same
    <3> QED
      BY <1>0, <2>1, <3>1 DEF Decides, Same
  <2>6. CASE p # q /\ p # x
    <3>1. \A m \in Map : Same(With(Without(m, {x}), q, c), m, p)
      <4> SUFFICES ASSUME NEW m \in Map
                   PROVE  Same(With(Without(m, {x}), q, c), m, p)
        OBVIOUS
      <4>1. Same(With(Without(m, {x}), q, c), Without(m, {x}), p)
        BY <2>3, <2>6
      <4>2. Same(Without(m, {x}), m, p)
        BY <2>2, <2>6
      <4> QED
        BY <4>1, <4>2 DEF Same
    <3>2. \A d : ch # DirDelete(d)
      BY <1>4 DEF Change, FileMove, DirDelete
    <3> QED
      BY <1>0, <2>1, <3>1, <3>2 DEF Leaves
  <2> QED
    BY <2>4, <2>5, <2>6
<1>5. ASSUME NEW d \in DirPaths, ch = DirMake(d),
             u = [dirs |-> t.dirs \cup {d}, files |-> t.files]
      PROVE  /\ Leaves(ch, p) /\ Same(u.files, t.files, p)
             /\ \A x \in t.dirs : ch # DirDelete(x)
  <2>1. u.files = t.files /\ \A m : Applied(m, ch) = m
    BY <1>5, AppliedIs
  <2>2. \A x : ch # DirDelete(x)
    BY <1>5 DEF Change, DirMake, DirDelete
  <2> QED
    BY <1>0, <1>1, <2>1, <2>2 DEF Leaves
<1>6. ASSUME NEW d \in t.dirs, ch = DirDelete(d), u = Pruned(t, d)
      PROVE  \/ Decides(u, ch, p)
             \/ /\ Leaves(ch, p) /\ Same(u.files, t.files, p)
                /\ \A x \in t.dirs : ch = DirDelete(x) => ~Below(p, x)
  <2>0. d \in Names /\ u.files = DeletePrefix(t.files, d) /\ \A m : Applied(m, ch) = DeletePrefix(m, d)
    BY <1>0, <1>6, AppliedIs DEF Pruned
  <2>1. CASE Below(p, d)
    <3>1. \A m \in Map : p \notin Paths(DeletePrefix(m, d))
      BY <2>0, <2>1, DeletePrefixIs
    <3> QED
      BY <1>0, <2>0, <3>1 DEF Decides, Same
  <2>2. CASE ~Below(p, d)
    <3>1. \A m \in Map : Same(DeletePrefix(m, d), m, p)
      BY <2>0, <2>2, DeletePrefixIs
    <3>2. \A x : ch = DirDelete(x) => x = d
      BY <1>6 DEF Change, DirDelete
    <3> QED
      BY <1>0, <2>0, <2>2, <3>1, <3>2 DEF Leaves
  <2> QED
    BY <2>1, <2>2
<1>7. ASSUME NEW s, Restorable(s), Vacant(t, s.top), ch = DirPut(s.top), u = Grafted(t, s.sub)
      PROVE  \/ /\ Leaves(ch, p) /\ Same(u.files, t.files, p)
                /\ \A d \in t.dirs : ch # DirDelete(d)
             \/ /\ Leaves(ch, p) /\ p \notin Paths(t.files)
                /\ \E x \in Names : ch = DirPut(x) /\ Below(p, x)
  <2>0. /\ s.top \in Names /\ u.files = Overlaid(t.files, s.sub.files) /\ s.sub.files \in Map
        /\ \A m : Applied(m, ch) = m
    BY <1>7, AppliedIs, PathsAreNames DEF Grafted, Restorable
  <2>1. Leaves(ch, p)
    BY <1>1, <2>0 DEF Leaves
  <2>2. CASE Below(p, s.top)
    <3>1. p \notin Paths(t.files)
      <4>1. AtOrBelow(p, s.top)
        BY <2>0, <2>2, BelowMeans
      <4> QED
        BY <1>7, <2>0, <4>1, VacantIs
    <3> QED
      BY <1>7, <2>0, <2>1, <2>2, <3>1
  <2>3. CASE ~Below(p, s.top)
    <3>1. p \notin Paths(s.sub.files)
      BY <1>7, <2>3 DEF Restorable
    <3>2. Same(u.files, t.files, p)
      BY <1>0, <2>0, <3>1, OverlaidIs
    <3>3. \A d : ch # DirDelete(d)
      BY <1>7 DEF Change, DirPut, DirDelete
    <3> QED
      BY <2>1, <3>2, <3>3
  <2> QED
    BY <2>2, <2>3
<1> QED
  BY <1>2, <1>3, <1>4, <1>5, <1>6, <1>7 DEF Evolves

(* The same for a directory x.                                             *)
DecidesDir(u, ch, x) == \A D \in SUBSET Names : x \in AppliedToDirs(D, ch) <=> x \in u.dirs
LeavesDir(ch, x) == \A D \in SUBSET Names : x \in AppliedToDirs(D, ch) <=> x \in D

(* A change decides x, leaves it, or restores a directory at or above it.  *)
LEMMA DirAt ==
  ASSUME NEW t, NEW u, NEW ch, Evolves(t, u, ch), TreeOK(t), NEW x \in Names
  PROVE  \/ DecidesDir(u, ch, x)
         \/ /\ LeavesDir(ch, x) /\ (x \in u.dirs <=> x \in t.dirs)
            /\ \A d \in t.dirs : ch = DirDelete(d) => ~AtOrBelow(x, d)
         \/ /\ LeavesDir(ch, x) /\ x \notin t.dirs
            /\ \E s \in Names : ch = DirPut(s) /\ AtOrBelow(x, s)
<1>0. t.dirs \subseteq Names /\ DirPaths \subseteq Names
  BY PathsAreNames DEF TreeOK
<1>1. ASSUME NEW p, NEW q, NEW c, u.dirs = t.dirs,
             \/ ch = FilePut(p, c)
             \/ ch = FileDelete(p)
             \/ ch = FileMove(p, q, c)
      PROVE  /\ LeavesDir(ch, x) /\ (x \in u.dirs <=> x \in t.dirs)
             /\ \A d \in t.dirs : ch # DirDelete(d)
  <2>1. \A D : AppliedToDirs(D, ch) = D
    BY <1>1, AppliedToDirsIs
  <2>2. \A d : ch # DirDelete(d)
    BY <1>1, KindsDiffer
  <2> QED
    BY <1>1, <2>1, <2>2 DEF LeavesDir
<1>5. CASE \E p \in FilePaths, c \in Int :
             /\ ch = FilePut(p, c)
             /\ u = [dirs |-> t.dirs, files |-> With(t.files, p, c)]
  <2>1. PICK p \in FilePaths, c \in Int :
          /\ ch = FilePut(p, c)
          /\ u = [dirs |-> t.dirs, files |-> With(t.files, p, c)]
    BY <1>5
  <2>2. u.dirs = t.dirs
    BY <2>1
  <2> QED
    BY <1>1, <2>1, <2>2
<1>6. CASE \E p \in Paths(t.files) :
             /\ ch = FileDelete(p)
             /\ u = [dirs |-> t.dirs, files |-> Without(t.files, {p})]
  <2>1. PICK p : ch = FileDelete(p) /\ u.dirs = t.dirs
    BY <1>6
  <2> QED
    BY <1>1, <2>1
<1>7. CASE \E p \in Paths(t.files), q \in FilePaths :
             /\ ch = FileMove(p, q, t.files[p])
             /\ u = [dirs |-> t.dirs, files |-> With(Without(t.files, {p}), q, t.files[p])]
  <2>1. PICK p, q : ch = FileMove(p, q, t.files[p]) /\ u.dirs = t.dirs
    BY <1>7
  <2> QED
    BY <1>1, <2>1
<1>2. ASSUME NEW d \in DirPaths, ch = DirMake(d),
             u = [dirs |-> t.dirs \cup {d}, files |-> t.files]
      PROVE  \/ DecidesDir(u, ch, x)
             \/ /\ LeavesDir(ch, x) /\ (x \in u.dirs <=> x \in t.dirs)
                /\ \A y \in t.dirs : ch # DirDelete(y)
  <2>1. u.dirs = t.dirs \cup {d} /\ \A D : AppliedToDirs(D, ch) = D \cup {d}
    BY <1>2, AppliedToDirsIs
  <2>2. \A y : ch # DirDelete(y)
    BY <1>2, KindsDiffer
  <2>3. CASE x = d
    BY <2>1, <2>3 DEF DecidesDir
  <2>4. CASE x # d
    BY <2>1, <2>2, <2>4 DEF LeavesDir
  <2> QED
    BY <2>3, <2>4
<1>3. ASSUME NEW d \in t.dirs, ch = DirDelete(d), u = Pruned(t, d)
      PROVE  \/ DecidesDir(u, ch, x)
             \/ /\ LeavesDir(ch, x) /\ (x \in u.dirs <=> x \in t.dirs)
                /\ \A y \in t.dirs : ch = DirDelete(y) => ~AtOrBelow(x, y)
  <2>1. /\ u.dirs = {y \in t.dirs : ~AtOrBelow(y, d)}
        /\ \A D : AppliedToDirs(D, ch) = {y \in D : ~AtOrBelow(y, d)}
    BY <1>3, AppliedToDirsIs DEF Pruned, DeleteDirs
  <2>2. \A y : ch = DirDelete(y) => y = d
    BY <1>3 DEF Change, DirDelete
  <2>3. CASE AtOrBelow(x, d)
    BY <2>1, <2>3 DEF DecidesDir
  <2>4. CASE ~AtOrBelow(x, d)
    BY <2>1, <2>2, <2>4 DEF LeavesDir
  <2> QED
    BY <2>3, <2>4
<1>4. ASSUME NEW s, Restorable(s), Vacant(t, s.top), ch = DirPut(s.top), u = Grafted(t, s.sub)
      PROVE  \/ /\ LeavesDir(ch, x) /\ (x \in u.dirs <=> x \in t.dirs)
                /\ \A d \in t.dirs : ch # DirDelete(d)
             \/ /\ LeavesDir(ch, x) /\ x \notin t.dirs
                /\ \E y \in Names : ch = DirPut(y) /\ AtOrBelow(x, y)
  <2>1. s.top \in Names /\ u.dirs = t.dirs \cup s.sub.dirs
    BY <1>4, PathsAreNames DEF Grafted, Restorable
  <2>2. \A D : AppliedToDirs(D, ch) = D
    BY <1>4, AppliedToDirsIs
  <2>3. CASE AtOrBelow(x, s.top)
    BY <1>4, <2>1, <2>2, <2>3, VacantIs DEF LeavesDir
  <2>4. CASE ~AtOrBelow(x, s.top)
    <3>1. x \notin s.sub.dirs
      BY <1>4, <2>4 DEF Restorable
    <3>2. \A d : ch # DirDelete(d)
      BY <1>4 DEF Change, DirPut, DirDelete
    <3> QED
      BY <2>1, <2>2, <3>1, <3>2 DEF LeavesDir
  <2> QED
    BY <2>3, <2>4
<1> QED
  BY <1>2, <1>3, <1>4, <1>5, <1>6, <1>7 DEF Evolves

-----------------------------------------------------------------------------
(* What the replay of the changes since the cursor will make of a map, of  *)
(* the directories, and of the dirty queue.                                *)
AfterAll(m, changes) == FoldLeft(Applied, m, changes)
DirsAfterAll(D, changes) == FoldLeft(AppliedToDirs, D, changes)
QueueAfterAll(changes) == FoldLeft(Queued, <<>>, changes)

Replayed(m) == AfterAll(m, Since(cursor))
ReplayedDirs(D) == DirsAfterAll(D, Since(cursor))
Queue == QueueAfterAll(Since(cursor))

(* The directories yet to be fetched, now or after the next poll.          *)
Waiting == ToSet(todo) \cup ToSet(Queue)

(* After the replay the map has at p what the server has, or nothing and p *)
(* is yet to be fetched.                                                   *)
FileMirrored(p) ==
  \/ Same(Replayed(files), tree.files, p)
  \/ p \notin Paths(Replayed(files)) /\ \E d \in Waiting : Below(p, d)
DirMirrored(x) ==
  \/ x \in ReplayedDirs(dirs) <=> x \in tree.dirs
  \/ x \notin ReplayedDirs(dirs) /\ \E d \in Waiting : AtOrBelow(x, d)

(* Whatever the map, the replay leaves p alone, or makes it what the       *)
(* server has, or takes it out and p is in the queue: so what is fetched   *)
(* now may be added to the map before the replay.                          *)
FilePredicted(p) ==
  \/ \A m \in Map : Same(Replayed(m), m, p)
  \/ \A m \in Map : Same(Replayed(m), tree.files, p)
  \/ (\A m \in Map : p \notin Paths(Replayed(m))) /\ \E q \in ToSet(Queue) : Below(p, q)
DirPredicted(x) ==
  \/ \A D \in SUBSET Names : x \in ReplayedDirs(D) <=> x \in D
  \/ \A D \in SUBSET Names : x \in ReplayedDirs(D) <=> x \in tree.dirs
  \/ /\ \A D \in SUBSET Names : x \notin ReplayedDirs(D)
     /\ \E q \in ToSet(Queue) : AtOrBelow(x, q)

(* The types of the client's part; a listing always has something to do.   *)
ClientTyped ==
  /\ pc \in {"idle", "listing", "replaying", "done", "failed"}
  /\ cursor \in 0..Len(log)
  /\ files \in Map /\ Paths(files) \subseteq FilePaths
  /\ dirs \in SUBSET DirPaths
  /\ todo \in Seq({Root} \cup DirPaths)
  /\ pc \in {"idle", "done", "failed"} => todo = <<>>
  /\ pc = "listing" => Fetching
  /\ rounds \in 0..MaxRounds /\ faults \in 0..MaxFaults

(* A bootstrap runs: the map mirrors the tree, and as long as there is     *)
(* something to fetch, every path is predicted.                            *)
Active == pc \in {"listing", "replaying"}

Mirrored == Active => /\ ToSet(Queue) \subseteq tree.dirs
                      /\ \A p \in Names : FileMirrored(p) /\ DirMirrored(p)
Predicted == Active /\ Fetching => \A p \in Names : FilePredicted(p) /\ DirPredicted(p)

(* The replay invariant.                                                   *)
ReplayInv == ServerTyped /\ ClientTyped /\ Mirrored /\ Predicted

(* One change more is replayed last.                                       *)
LEMMA Replays ==
  ASSUME NEW s \in Seq(Entries)
  PROVE  /\ \A m \in Map : /\ AfterAll(m, s) \in Map
                           /\ \A ch \in Entries : AfterAll(m, Append(s, ch)) = Applied(AfterAll(m, s), ch)
         /\ \A D \in SUBSET Names :
              /\ DirsAfterAll(D, s) \in SUBSET Names
              /\ \A ch \in Entries :
                   DirsAfterAll(D, Append(s, ch)) = AppliedToDirs(DirsAfterAll(D, s), ch)
         /\ QueueAfterAll(s) \in Seq(Names)
         /\ \A ch \in Entries : QueueAfterAll(Append(s, ch)) = Queued(QueueAfterAll(s), ch)
<1>1. <<>> \in Seq(Names)
  BY EmptySeq
<1>2. \A m \in Map : /\ AfterAll(m, s) \in Map
                     /\ \A ch \in Entries : AfterAll(m, Append(s, ch)) = Applied(AfterAll(m, s), ch)
  BY AppliedFold DEF AfterAll
<1>3. \A D \in SUBSET Names :
         /\ DirsAfterAll(D, s) \in SUBSET Names
         /\ \A ch \in Entries :
              DirsAfterAll(D, Append(s, ch)) = AppliedToDirs(DirsAfterAll(D, s), ch)
  BY DirsAppliedFold DEF DirsAfterAll
<1>4. /\ QueueAfterAll(s) \in Seq(Names)
      /\ \A ch \in Entries : QueueAfterAll(Append(s, ch)) = Queued(QueueAfterAll(s), ch)
  BY <1>1, QueuedFold DEF QueueAfterAll
<1> QED
  BY <1>2, <1>3, <1>4

(* They are a map, directories and a queue.                                *)
LEMMA ReplayTyped ==
  ASSUME log \in Seq(Entries), cursor \in 0..Len(log)
  PROVE  /\ Since(cursor) \in Seq(Entries)
         /\ \A m \in Map : Replayed(m) \in Map
         /\ \A D \in SUBSET Names : ReplayedDirs(D) \in SUBSET Names
         /\ Queue \in Seq(Names) /\ ToSet(Queue) \subseteq Names
<1>1. Since(cursor) \in Seq(Entries)
  BY DEF Since
<1> QED
  BY <1>1, Replays, ToSetIs DEF Replayed, ReplayedDirs, Queue

(* Without a change the replay changes nothing.                            *)
LEMMA NothingReplayed ==
  /\ \A m \in Map : AfterAll(m, <<>>) = m
  /\ \A D \in SUBSET Names : DirsAfterAll(D, <<>>) = D
  /\ QueueAfterAll(<<>>) = <<>>
<1>1. <<>> \in Seq(Entries) /\ <<>> \in Seq(Names)
  BY EmptySeq
<1>2. \A m \in Map : AfterAll(m, <<>>) = m
  BY <1>1, AppliedFold DEF AfterAll
<1>3. \A D \in SUBSET Names : DirsAfterAll(D, <<>>) = D
  BY <1>1, DirsAppliedFold DEF DirsAfterAll
<1>4. QueueAfterAll(<<>>) = <<>>
  BY <1>1, QueuedFold DEF QueueAfterAll
<1> QED
  BY <1>2, <1>3, <1>4

(* A part of a sequence.                                                   *)
LEMMA PartOf ==
  ASSUME NEW S, NEW s \in Seq(S), NEW k \in Nat, NEW n \in Nat, k <= n, n <= Len(s)
  PROVE  LET t == SubSeq(s, k + 1, n)
         IN  t \in Seq(S) /\ Len(t) = n - k /\ \A i \in 1..Len(t) : t[i] = s[k + i]
OBVIOUS

(* The part from k on of a sequence that gets one more element.            *)
LEMMA PartAppended ==
  ASSUME NEW S, NEW seq \in Seq(S), NEW k \in 0..Len(seq), NEW e \in S
  PROVE  LET longer == Append(seq, e)
         IN  SubSeq(longer, k + 1, Len(longer)) = Append(SubSeq(seq, k + 1, Len(seq)), e)
<1>1. PICK n \in Nat : n = Len(seq) /\ k \in Nat /\ k <= n
  OBVIOUS
<1>2. PICK w \in Nat : w = n - k
  <2>1. n - k \in Nat
    BY <1>1
  <2> QED
    BY <2>1
<1>3. PICK s \in Seq(S) : s = SubSeq(seq, k + 1, n)
  <2>1. SubSeq(seq, k + 1, n) \in Seq(S)
    BY <1>1, PartOf
  <2> QED
    BY <2>1
<1>4. Len(s) = w /\ \A i \in 1..w : s[i] = seq[k + i]
  BY <1>1, <1>2, <1>3, PartOf
<1>5. PICK l \in Seq(S) : l = Append(seq, e)
  BY AppendProperties
<1>6. Len(l) = n + 1 /\ l[n + 1] = e /\ \A i \in 1..n : l[i] = seq[i]
  BY <1>1, <1>5, AppendProperties
<1>7. PICK r : r = SubSeq(l, k + 1, n + 1)
  OBVIOUS
<1>8. r \in Seq(S) /\ Len(r) = w + 1 /\ \A i \in 1..(w + 1) : r[i] = l[k + i]
  <2>1. k \in Nat /\ n + 1 \in Nat /\ k <= n + 1 /\ n + 1 <= Len(l) /\ (n + 1) - k = w + 1
    BY <1>1, <1>2, <1>6
  <2> QED
    BY <1>7, <2>1, PartOf
<1>9. PICK a \in Seq(S) : a = Append(s, e)
  BY AppendProperties
<1>10. Len(a) = w + 1 /\ a[w + 1] = e /\ \A i \in 1..w : a[i] = s[i]
  BY <1>4, <1>9, AppendProperties
<1>11. ASSUME NEW i \in 1..(w + 1)
       PROVE  r[i] = a[i]
  <2>1. CASE i = w + 1
    <3>1. k + i = n + 1
      BY <1>1, <1>2, <2>1
    <3>2. r[i] = l[n + 1] /\ a[i] = e
      BY <1>8, <1>10, <2>1, <3>1
    <3> QED
      BY <1>6, <3>2
  <2>2. CASE i # w + 1
    <3>1. i \in 1..w /\ k + i \in 1..n
      <4>1. i \in Nat /\ 1 <= i /\ i <= w + 1
        BY <1>2, <1>11
      <4>2. i <= w
        BY <1>2, <2>2, <4>1
      <4>3. k \in Nat /\ n \in Nat /\ w \in Nat /\ n = k + w
        BY <1>1, <1>2
      <4>4. k + i <= n /\ 1 <= k + i
        BY <4>1, <4>2, <4>3
      <4> QED
        BY <4>1, <4>2, <4>3, <4>4
    <3> QED
      BY <1>4, <1>6, <1>8, <1>10, <3>1
  <2> QED
    BY <2>1, <2>2
<1>12. r = a
  BY <1>8, <1>10, <1>11, SeqEqual
<1> QED
  BY <1>1, <1>3, <1>5, <1>6, <1>7, <1>9, <1>12

(* A change that is added to the log is replayed last.                     *)
LEMMA ReplayLast ==
  ASSUME log \in Seq(Entries), cursor \in 0..Len(log), NEW ch \in Entries,
         log' = Append(log, ch), cursor' = cursor
  PROVE  /\ \A m \in Map : Replayed(m)' = Applied(Replayed(m), ch)
         /\ \A D \in SUBSET Names : ReplayedDirs(D)' = AppliedToDirs(ReplayedDirs(D), ch)
         /\ Queue' = Queued(Queue, ch)
<1>1. Since(cursor) \in Seq(Entries)
  BY DEF Since
<1>2. Since(cursor)' = Append(Since(cursor), ch)
  BY PartAppended DEF Since
<1> QED
  BY <1>1, <1>2, Replays, ZenonT(40) DEF Replayed, ReplayedDirs, Queue

-----------------------------------------------------------------------------
(* A change that moves no directory. *)

(* Same is an equivalence.                                                 *)
LEMMA SameRules ==
  /\ \A m, p : Same(m, m, p)
  /\ \A m, n, p : Same(m, n, p) => Same(n, m, p)
  /\ \A m, n, l, p : Same(m, n, p) /\ Same(n, l, p) => Same(m, l, p)
  /\ \A m, n, p : Same(m, n, p) => (p \in Paths(m) <=> p \in Paths(n))
  /\ \A m, n, p : p \notin Paths(m) /\ p \notin Paths(n) => Same(m, n, p)
BY DEF Same

(* What is above a path that is not deleted stays in the queue.            *)
LEMMA StaysQueued ==
  ASSUME NEW t, NEW u, NEW ch, Evolves(t, u, ch), TreeOK(t), NEW queue \in Seq(Names),
         NEW p \in Names, NEW q \in ToSet(queue)
  PROVE  /\ Below(p, q) /\ (\A d \in t.dirs : ch = DirDelete(d) => ~Below(p, d))
              => q \in ToSet(Queued(queue, ch))
         /\ AtOrBelow(p, q) /\ (\A d \in t.dirs : ch = DirDelete(d) => ~AtOrBelow(p, d))
              => q \in ToSet(Queued(queue, ch))
<1>1. q \in Names /\ t.dirs \subseteq Names
  BY ToSetIs, PathsAreNames DEF TreeOK
<1>2. \A d \in t.dirs : AtOrBelow(q, d) => /\ Below(p, q) => Below(p, d)
                                           /\ AtOrBelow(p, q) => AtOrBelow(p, d)
  BY <1>1, BelowTransitive
<1>3. \/ q \in ToSet(Queued(queue, ch))
      \/ \E d \in t.dirs : ch = DirDelete(d) /\ AtOrBelow(q, d)
  BY QueueAfter
<1> QED
  BY <1>2, <1>3

(* What is restored is in the queue, and nothing is deleted.               *)
LEMMA RestoredQueued ==
  ASSUME NEW t, NEW u, NEW ch, Evolves(t, u, ch), TreeOK(t), NEW queue \in Seq(Names),
         NEW s \in Names, ch = DirPut(s)
  PROVE  /\ s \in ToSet(Queued(queue, ch))
         /\ \A d : ch # DirDelete(d)
<1>1. s \in ToSet(Queued(queue, ch))
  BY QueueAfter
<1>2. \A d : ch # DirDelete(d)
  <2>1. \A d : DirDelete(d).act = "delete" /\ DirPut(s).act = "put"
    BY DEF Change, DirDelete, DirPut
  <2> QED
    BY <2>1
<1> QED
  BY <1>1, <1>2

(* The queue has only directories that are there.                          *)
LEMMA QueueThere ==
  ASSUME NEW t, NEW u, NEW ch, Evolves(t, u, ch), TreeOK(t), NEW queue \in Seq(Names),
         ToSet(queue) \subseteq t.dirs
  PROVE  ToSet(Queued(queue, ch)) \subseteq u.dirs
<1> SUFFICES ASSUME NEW q \in ToSet(Queued(queue, ch))
             PROVE  q \in u.dirs
  OBVIOUS
<1>0. q \in Names
  <2>1. q \in t.dirs \/ \E s : Restorable(s) /\ q = s.top
    BY QueueAfter
  <2> QED
    BY <2>1, PathsAreNames DEF TreeOK, Restorable
<1>1. CASE \E s : Restorable(s) /\ Vacant(t, s.top) /\ u = Grafted(t, s.sub) /\ q = s.top
  BY <1>1 DEF Grafted, Restorable
<1>2. CASE q \in ToSet(queue) /\ \A d \in t.dirs : ch = DirDelete(d) => ~AtOrBelow(q, d)
  <2>0. q \in t.dirs
    BY <1>2
  <2>1. CASE \E d \in t.dirs : ch = DirDelete(d) /\ u = Pruned(t, d)
    <3>1. PICK d \in t.dirs : ch = DirDelete(d) /\ u = Pruned(t, d)
      BY <2>1
    <3>2. ~AtOrBelow(q, d)
      BY <1>2, <3>1
    <3> QED
      BY <2>0, <3>1, <3>2 DEF Pruned, DeleteDirs
  <2>2. CASE t.dirs \subseteq u.dirs
    BY <2>0, <2>2
  <2>3. (\E d \in t.dirs : ch = DirDelete(d) /\ u = Pruned(t, d)) \/ t.dirs \subseteq u.dirs
    <3>1. CASE \E s : Restorable(s) /\ ch = DirPut(s.top) /\ u = Grafted(t, s.sub)
      BY <3>1 DEF Grafted
    <3>2. CASE \E p \in FilePaths, c \in Int :
                 /\ ch = FilePut(p, c)
                 /\ u = [dirs |-> t.dirs, files |-> With(t.files, p, c)]
      BY <3>2
    <3>3. CASE \E p \in Paths(t.files), y \in FilePaths :
                 /\ ch = FileMove(p, y, t.files[p])
                 /\ u = [dirs |-> t.dirs, files |-> With(Without(t.files, {p}), y, t.files[p])]
      BY <3>3
    <3>4. CASE \E p \in Paths(t.files) :
                 /\ ch = FileDelete(p)
                 /\ u = [dirs |-> t.dirs, files |-> Without(t.files, {p})]
      BY <3>4
    <3>5. CASE \E d \in DirPaths :
                 /\ ch = DirMake(d)
                 /\ u = [dirs |-> t.dirs \cup {d}, files |-> t.files]
      BY <3>5
    <3>6. CASE \E d \in t.dirs : ch = DirDelete(d) /\ u = Pruned(t, d)
      BY <3>6
    <3> QED
      BY <3>1, <3>2, <3>3, <3>4, <3>5, <3>6 DEF Evolves
  <2> QED
    BY <2>1, <2>2, <2>3
<1> QED
  BY <1>1, <1>2, QueueAfter

(* What is mirrored at p stays so.                                         *)
LEMMA FileStaysMirrored ==
  ASSUME NEW t, NEW u, NEW ch, Evolves(t, u, ch), TreeOK(t), NEW queue \in Seq(Names),
         NEW r \in Map, NEW T, NEW p \in Names,
         \/ Same(r, t.files, p)
         \/ p \notin Paths(r) /\ \E d \in T \cup ToSet(queue) : Below(p, d)
  PROVE  \/ Same(Applied(r, ch), u.files, p)
         \/ /\ p \notin Paths(Applied(r, ch))
            /\ \E d \in T \cup ToSet(Queued(queue, ch)) : Below(p, d)
<1>1. CASE Decides(u, ch, p)
  BY <1>1 DEF Decides
<1>2. CASE /\ Leaves(ch, p) /\ Same(u.files, t.files, p)
           /\ \A d \in t.dirs : ch = DirDelete(d) => ~Below(p, d)
  <2>0. Same(Applied(r, ch), r, p)
    BY <1>2 DEF Leaves
  <2>1. CASE Same(r, t.files, p)
    BY <1>2, <2>0, <2>1, SameRules
  <2>2. CASE p \notin Paths(r) /\ \E d \in T \cup ToSet(queue) : Below(p, d)
    <3>1. PICK d \in T \cup ToSet(queue) : Below(p, d)
      BY <2>2
    <3>2. d \in T \cup ToSet(Queued(queue, ch))
      BY <1>2, <3>1, StaysQueued
    <3>3. p \notin Paths(Applied(r, ch))
      BY <2>0, <2>2, SameRules
    <3> QED
      BY <3>1, <3>2, <3>3
  <2> QED
    BY <2>1, <2>2
<1>3. CASE /\ Leaves(ch, p) /\ p \notin Paths(t.files)
           /\ \E s \in Names : ch = DirPut(s) /\ Below(p, s)
  <2>1. PICK s \in Names : ch = DirPut(s) /\ Below(p, s)
    BY <1>3
  <2>2. s \in ToSet(Queued(queue, ch))
    BY <2>1, RestoredQueued
  <2>3. p \notin Paths(r)
    BY <1>3, SameRules
  <2>4. p \notin Paths(Applied(r, ch))
    BY <1>3, <2>3, SameRules DEF Leaves
  <2> QED
    BY <2>1, <2>2, <2>4
<1> QED
  BY <1>1, <1>2, <1>3, FileAt

(* The same for a directory.                                               *)
LEMMA DirStaysMirrored ==
  ASSUME NEW t, NEW u, NEW ch, Evolves(t, u, ch), TreeOK(t), NEW queue \in Seq(Names),
         NEW R \in SUBSET Names, NEW T, NEW x \in Names,
         \/ x \in R <=> x \in t.dirs
         \/ x \notin R /\ \E d \in T \cup ToSet(queue) : AtOrBelow(x, d)
  PROVE  \/ x \in AppliedToDirs(R, ch) <=> x \in u.dirs
         \/ /\ x \notin AppliedToDirs(R, ch)
            /\ \E d \in T \cup ToSet(Queued(queue, ch)) : AtOrBelow(x, d)
<1>1. CASE DecidesDir(u, ch, x)
  BY <1>1 DEF DecidesDir
<1>2. CASE /\ LeavesDir(ch, x) /\ (x \in u.dirs <=> x \in t.dirs)
           /\ \A d \in t.dirs : ch = DirDelete(d) => ~AtOrBelow(x, d)
  <2>0. x \in AppliedToDirs(R, ch) <=> x \in R
    BY <1>2 DEF LeavesDir
  <2>1. CASE x \in R <=> x \in t.dirs
    BY <1>2, <2>0, <2>1
  <2>2. CASE x \notin R /\ \E d \in T \cup ToSet(queue) : AtOrBelow(x, d)
    <3>1. PICK d \in T \cup ToSet(queue) : AtOrBelow(x, d)
      BY <2>2
    <3>2. d \in T \cup ToSet(Queued(queue, ch))
      BY <1>2, <3>1, StaysQueued
    <3> QED
      BY <2>0, <2>2, <3>1, <3>2
  <2> QED
    BY <2>1, <2>2
<1>3. CASE /\ LeavesDir(ch, x) /\ x \notin t.dirs
           /\ \E s \in Names : ch = DirPut(s) /\ AtOrBelow(x, s)
  <2>1. PICK s \in Names : ch = DirPut(s) /\ AtOrBelow(x, s)
    BY <1>3
  <2>2. s \in ToSet(Queued(queue, ch))
    BY <2>1, RestoredQueued
  <2>3. x \notin AppliedToDirs(R, ch)
    BY <1>3 DEF LeavesDir
  <2> QED
    BY <2>1, <2>2, <2>3
<1> QED
  BY <1>1, <1>2, <1>3, DirAt

(* A change leaves the client's invariant as it is.                        *)
LEMMA EvolvesMirrored ==
  ASSUME ServerTyped, ClientTyped, Mirrored, NEW ch \in Entries, log' = Append(log, ch),
         UNCHANGED client, Evolves(tree, tree', ch)
  PROVE  Mirrored'
<1> SUFFICES ASSUME Active
             PROVE  /\ (ToSet(Queue) \subseteq tree.dirs)'
                    /\ \A p \in Names : FileMirrored(p)' /\ DirMirrored(p)'
  BY DEF Mirrored, Active, client
<1>0. TreeOK(tree) /\ log \in Seq(Entries) /\ cursor \in 0..Len(log) /\ cursor' = cursor
      /\ files' = files /\ dirs' = dirs /\ todo' = todo
      /\ files \in Map /\ dirs \in SUBSET Names
  BY PathsAreNames DEF ServerTyped, ClientTyped, client
<1>1. /\ Queue \in Seq(Names) /\ Replayed(files) \in Map /\ ReplayedDirs(dirs) \in SUBSET Names
  BY <1>0, ReplayTyped
<1>2. /\ Replayed(files)' = Applied(Replayed(files), ch)
      /\ ReplayedDirs(dirs)' = AppliedToDirs(ReplayedDirs(dirs), ch)
      /\ Queue' = Queued(Queue, ch)
  <2>1. /\ \A m \in Map : Replayed(m)' = Applied(Replayed(m), ch)
        /\ \A D \in SUBSET Names : ReplayedDirs(D)' = AppliedToDirs(ReplayedDirs(D), ch)
        /\ Queue' = Queued(Queue, ch)
    BY <1>0, ReplayLast
  <2>2. PICK m \in Map : m = files
    BY <1>0
  <2>3. PICK D \in SUBSET Names : D = dirs
    BY <1>0
  <2>4. Replayed(files)' = Replayed(m)' /\ Replayed(files) = Replayed(m)
    BY <1>0, <2>2 DEF Replayed
  <2>5. ReplayedDirs(dirs)' = ReplayedDirs(D)' /\ ReplayedDirs(dirs) = ReplayedDirs(D)
    BY <1>0, <2>3 DEF ReplayedDirs
  <2> QED
    BY <2>1, <2>4, <2>5
<1>3. /\ ToSet(Queue) \subseteq tree.dirs
      /\ \A p \in Names : FileMirrored(p) /\ DirMirrored(p)
  BY DEF Mirrored
<1>4. (ToSet(Queue) \subseteq tree.dirs)'
  BY <1>0, <1>1, <1>2, <1>3, QueueThere
<1>5. ASSUME NEW p \in Names
      PROVE  FileMirrored(p)'
  <2>1. \/ Same(Replayed(files), tree.files, p)
        \/ /\ p \notin Paths(Replayed(files))
           /\ \E d \in ToSet(todo) \cup ToSet(Queue) : Below(p, d)
    BY <1>3 DEF FileMirrored, Waiting
  <2>2. \/ Same(Applied(Replayed(files), ch), tree'.files, p)
        \/ /\ p \notin Paths(Applied(Replayed(files), ch))
           /\ \E d \in ToSet(todo) \cup ToSet(Queued(Queue, ch)) : Below(p, d)
    <3>1. PICK r \in Map : r = Replayed(files)
      BY <1>1
    <3>2. PICK queue \in Seq(Names) : queue = Queue
      BY <1>1
    <3>3. PICK T : T = ToSet(todo)
      OBVIOUS
    <3>4. PICK t, u : t = tree /\ u = tree'
      OBVIOUS
    <3>5. \/ Same(r, t.files, p)
          \/ p \notin Paths(r) /\ \E d \in T \cup ToSet(queue) : Below(p, d)
      BY <2>1, <3>1, <3>2, <3>3, <3>4
    <3>6. Evolves(t, u, ch) /\ TreeOK(t)
      BY <1>0, <3>4
    <3>7. \/ Same(Applied(r, ch), u.files, p)
          \/ /\ p \notin Paths(Applied(r, ch))
             /\ \E d \in T \cup ToSet(Queued(queue, ch)) : Below(p, d)
      BY <3>5, <3>6, FileStaysMirrored
    <3> QED
      BY <3>1, <3>2, <3>3, <3>4, <3>7
  <2>3. FileMirrored(p)' <=>
          \/ Same(Replayed(files)', tree'.files, p)
          \/ /\ p \notin Paths(Replayed(files)')
             /\ \E d \in ToSet(todo') \cup ToSet(Queue') : Below(p, d)
    BY DEF FileMirrored, Waiting
  <2> QED
    BY <1>0, <1>2, <2>2, <2>3
<1>6. ASSUME NEW p \in Names
      PROVE  DirMirrored(p)'
  BY <1>0, <1>1, <1>2, <1>3, DirStaysMirrored, SMTT(30) DEF DirMirrored, Waiting
<1> QED
  BY <1>4, <1>5, <1>6

(* It also leaves every path predicted.                                    *)
LEMMA EvolvesPredicted ==
  ASSUME ServerTyped, ClientTyped, Predicted, NEW ch \in Entries, log' = Append(log, ch),
         UNCHANGED client, Evolves(tree, tree', ch)
  PROVE  Predicted'
<1> SUFFICES ASSUME Active, Fetching
             PROVE  \A p \in Names : FilePredicted(p)' /\ DirPredicted(p)'
  BY DEF Predicted, Active, Fetching, client
<1>0. TreeOK(tree) /\ log \in Seq(Entries) /\ cursor \in 0..Len(log) /\ cursor' = cursor
  BY DEF ServerTyped, ClientTyped, client
<1>1. /\ \A m \in Map : Replayed(m) \in Map /\ Replayed(m)' = Applied(Replayed(m), ch)
      /\ \A D \in SUBSET Names : /\ ReplayedDirs(D) \in SUBSET Names
                                 /\ ReplayedDirs(D)' = AppliedToDirs(ReplayedDirs(D), ch)
      /\ Queue \in Seq(Names) /\ Queue' = Queued(Queue, ch)
  BY <1>0, ReplayTyped, ReplayLast
<1>2. \A p \in Names : FilePredicted(p) /\ DirPredicted(p)
  BY DEF Predicted
<1>3. PICK t, u : t = tree /\ u = tree' /\ Evolves(t, u, ch) /\ TreeOK(t)
  BY <1>0
<1>4. PICK queue \in Seq(Names) : queue = Queue
  BY <1>1
<1>5. PICK next : next = Queued(queue, ch) /\ next = Queue'
  BY <1>1, <1>4
<1>6. ASSUME NEW p \in Names
      PROVE  FilePredicted(p)'
  <2>1. FilePredicted(p)' <=>
          \/ \A m \in Map : Same(Replayed(m)', m, p)
          \/ \A m \in Map : Same(Replayed(m)', u.files, p)
          \/ (\A m \in Map : p \notin Paths(Replayed(m)')) /\ \E q \in ToSet(next) : Below(p, q)
    BY <1>3, <1>5 DEF FilePredicted
  <2>2. \/ \A m \in Map : Same(Replayed(m), m, p)
        \/ \A m \in Map : Same(Replayed(m), t.files, p)
        \/ (\A m \in Map : p \notin Paths(Replayed(m))) /\ \E q \in ToSet(queue) : Below(p, q)
    BY <1>2, <1>3, <1>4 DEF FilePredicted
  <2>3. CASE Decides(u, ch, p)
    <3>1. \A m \in Map : Same(Replayed(m)', u.files, p)
      BY <1>1, <2>3 DEF Decides
    <3> QED
      BY <2>1, <3>1
  <2>4. CASE /\ Leaves(ch, p) /\ Same(u.files, t.files, p)
             /\ \A d \in t.dirs : ch = DirDelete(d) => ~Below(p, d)
    <3>1. \A m \in Map : Same(Replayed(m)', Replayed(m), p)
      BY <1>1, <2>4 DEF Leaves
    <3>2. ASSUME \A m \in Map : Same(Replayed(m), m, p)
          PROVE  \A m \in Map : Same(Replayed(m)', m, p)
      BY <3>1, <3>2, SameRules
    <3>3. ASSUME \A m \in Map : Same(Replayed(m), t.files, p)
          PROVE  \A m \in Map : Same(Replayed(m)', u.files, p)
      BY <2>4, <3>1, <3>3, SameRules
    <3>4. ASSUME \A m \in Map : p \notin Paths(Replayed(m)),
                 NEW q \in ToSet(queue), Below(p, q)
          PROVE  (\A m \in Map : p \notin Paths(Replayed(m)')) /\ \E y \in ToSet(next) : Below(p, y)
      <4>1. \A m \in Map : p \notin Paths(Replayed(m)')
        BY <3>1, <3>4, SameRules
      <4>2. q \in ToSet(next)
        BY <1>3, <1>5, <2>4, <3>4, StaysQueued
      <4> QED
        BY <3>4, <4>1, <4>2
    <3> QED
      BY <2>1, <2>2, <3>2, <3>3, <3>4
  <2>5. CASE /\ Leaves(ch, p) /\ p \notin Paths(t.files)
             /\ \E s \in Names : ch = DirPut(s) /\ Below(p, s)
    <3>0. PICK s \in Names : ch = DirPut(s) /\ Below(p, s)
      BY <2>5
    <3>1. \A m \in Map : Same(Replayed(m)', Replayed(m), p)
      BY <1>1, <2>5 DEF Leaves
    <3>2. ASSUME \A m \in Map : Same(Replayed(m), m, p)
          PROVE  \A m \in Map : Same(Replayed(m)', m, p)
      BY <3>1, <3>2, SameRules
    <3>3. s \in ToSet(next)
      BY <1>3, <1>5, <3>0, RestoredQueued
    <3>4. ASSUME \/ \A m \in Map : Same(Replayed(m), t.files, p)
                 \/ \A m \in Map : p \notin Paths(Replayed(m))
          PROVE  \A m \in Map : p \notin Paths(Replayed(m)')
      BY <2>5, <3>1, <3>4, SameRules
    <3> QED
      BY <2>1, <2>2, <3>0, <3>2, <3>3, <3>4
  <2> QED
    BY <1>3, <2>3, <2>4, <2>5, FileAt
<1>7. ASSUME NEW x \in Names
      PROVE  DirPredicted(x)'
  <2>1. DirPredicted(x)' <=>
          \/ \A D \in SUBSET Names : x \in ReplayedDirs(D)' <=> x \in D
          \/ \A D \in SUBSET Names : x \in ReplayedDirs(D)' <=> x \in u.dirs
          \/ /\ \A D \in SUBSET Names : x \notin ReplayedDirs(D)'
             /\ \E q \in ToSet(next) : AtOrBelow(x, q)
    BY <1>3, <1>5 DEF DirPredicted
  <2>2. \/ \A D \in SUBSET Names : x \in ReplayedDirs(D) <=> x \in D
        \/ \A D \in SUBSET Names : x \in ReplayedDirs(D) <=> x \in t.dirs
        \/ /\ \A D \in SUBSET Names : x \notin ReplayedDirs(D)
           /\ \E q \in ToSet(queue) : AtOrBelow(x, q)
    BY <1>2, <1>3, <1>4 DEF DirPredicted
  <2>3. CASE DecidesDir(u, ch, x)
    <3>1. \A D \in SUBSET Names : x \in ReplayedDirs(D)' <=> x \in u.dirs
      BY <1>1, <2>3 DEF DecidesDir
    <3> QED
      BY <2>1, <3>1
  <2>4. CASE /\ LeavesDir(ch, x) /\ (x \in u.dirs <=> x \in t.dirs)
             /\ \A d \in t.dirs : ch = DirDelete(d) => ~AtOrBelow(x, d)
    <3>1. \A D \in SUBSET Names : x \in ReplayedDirs(D)' <=> x \in ReplayedDirs(D)
      BY <1>1, <2>4 DEF LeavesDir
    <3>2. ASSUME NEW q \in ToSet(queue), AtOrBelow(x, q)
          PROVE  \E y \in ToSet(next) : AtOrBelow(x, y)
      <4>1. q \in ToSet(next)
        BY <1>3, <1>5, <2>4, <3>2, StaysQueued
      <4> QED
        BY <3>2, <4>1
    <3> QED
      BY <2>1, <2>2, <2>4, <3>1, <3>2
  <2>5. CASE /\ LeavesDir(ch, x) /\ x \notin t.dirs
             /\ \E s \in Names : ch = DirPut(s) /\ AtOrBelow(x, s)
    <3>0. PICK s \in Names : ch = DirPut(s) /\ AtOrBelow(x, s)
      BY <2>5
    <3>1. \A D \in SUBSET Names : x \in ReplayedDirs(D)' <=> x \in ReplayedDirs(D)
      BY <1>1, <2>5 DEF LeavesDir
    <3>2. s \in ToSet(next)
      BY <1>3, <1>5, <3>0, RestoredQueued
    <3> QED
      BY <2>1, <2>2, <2>5, <3>0, <3>1, <3>2
  <2> QED
    BY <1>3, <2>3, <2>4, <2>5, DirAt
<1> QED
  BY <1>6, <1>7

-----------------------------------------------------------------------------
(* A directory that moves. *)

(* The queue follows it.                                                   *)
LEMMA QueueMoved ==
  ASSUME NEW queue \in Seq(Names), NEW d \in Names, NEW e \in Names
  PROVE  /\ \A q \in ToSet(queue) :
              IF AtOrBelow(q, d) THEN Rebased(q, d, e) \in ToSet(Queued(queue, DirMove(d, e)))
              ELSE q \in ToSet(Queued(queue, DirMove(d, e)))
         /\ \A y \in ToSet(Queued(queue, DirMove(d, e))) :
              \E q \in ToSet(queue) : y = IF AtOrBelow(q, d) THEN Rebased(q, d, e) ELSE q
<1>1. PICK n \in Nat : n = Len(queue) /\ DOMAIN queue = 1..n
  OBVIOUS
<1>2. PICK r : r = Queued(queue, DirMove(d, e))
  OBVIOUS
<1>3. /\ DOMAIN r = 1..n
      /\ \A i \in 1..n : r[i] = IF AtOrBelow(queue[i], d) THEN Rebased(queue[i], d, e) ELSE queue[i]
  BY <1>1, <1>2, QueuedIs
<1>4. \A y : y \in ToSet(r) <=> \E i \in 1..n : y = r[i]
  BY <1>3 DEF ToSet
<1>5. \A y : y \in ToSet(queue) <=> \E i \in 1..n : y = queue[i]
  BY <1>1 DEF ToSet
<1> QED
  BY <1>2, <1>3, <1>4, <1>5

(* Nothing of the queue is above what moves, so that what is in the queue  *)
(* moves as a whole or not at all.                                         *)
LEMMA FileMovesMirrored ==
  ASSUME NEW t, TreeOK(t), NEW u, NEW ch, NEW d, NEW e, Moves(t, u, ch, d, e),
         NEW r \in Map, NEW queue \in Seq(Names), \A q \in ToSet(queue) : ~Below(d, q),
         \A p \in Names : \/ Same(r, t.files, p)
                          \/ p \notin Paths(r) /\ \E q \in ToSet(queue) : Below(p, q),
         NEW p \in Names
  PROVE  \/ Same(Applied(r, ch), u.files, p)
         \/ /\ p \notin Paths(Applied(r, ch))
            /\ \E q \in ToSet(Queued(queue, ch)) : Below(p, q)
<1>0. /\ d \in Names /\ e \in Names /\ d \in t.dirs /\ Vacant(t, e) /\ ~AtOrBelow(e, d)
      /\ t.files \in Map /\ Paths(t.files) \subseteq Names
      /\ ch = DirMove(d, e)
  BY PathsAreNames DEF Moves, TreeOK
<1>1. PICK R \in Map : R = RenamePrefix(r, d, e) /\ Applied(r, ch) = R
  BY <1>0, RenamePrefixIs, AppliedIs
<1>2. PICK U \in Map : U = RenamePrefix(t.files, d, e) /\ u.files = U
  BY <1>0, RenamePrefixIs DEF Moves, Moved
<1>3. PICK next : next = Queued(queue, ch)
  OBVIOUS
<1>4. ToSet(queue) \subseteq Names
  BY ToSetIs
<1>5. CASE ~Below(p, d) /\ ~Below(p, e)
  <2>1. Same(R, r, p) /\ Same(U, t.files, p)
    BY <1>0, <1>1, <1>2, <1>5, RenamePrefixIs
  <2>2. CASE Same(r, t.files, p)
    BY <1>1, <1>2, <2>1, <2>2, SameRules
  <2>3. CASE p \notin Paths(r) /\ \E q \in ToSet(queue) : Below(p, q)
    <3>1. PICK q \in ToSet(queue) : Below(p, q)
      BY <2>3
    <3>2. ~AtOrBelow(q, d)
      BY <1>0, <1>4, <1>5, <3>1, BelowTransitive
    <3>3. q \in ToSet(next)
      BY <1>0, <1>3, <3>2, QueueMoved
    <3>4. p \notin Paths(R)
      BY <2>1, <2>3, SameRules
    <3> QED
      BY <1>1, <1>3, <3>1, <3>3, <3>4
  <2> QED
    BY <2>2, <2>3
<1>6. CASE Below(p, d) /\ ~Below(p, e)
  <2>1. p \notin Paths(R) /\ p \notin Paths(U)
    BY <1>0, <1>1, <1>2, <1>6, RenamePrefixIs
  <2> QED
    BY <1>1, <1>2, <2>1, SameRules
<1>7. CASE Below(p, e)
  <2>0. AtOrBelow(p, e)
    BY <1>0, <1>7, BelowMeans
  <2>1. PICK o \in Names : /\ o = Rebased(p, e, d) /\ AtOrBelow(o, d) /\ Below(o, d)
                           /\ Rebased(o, d, e) = p
    BY <1>0, <1>7, <2>0, RebasedIs
  <2>2. p \notin Paths(t.files)
    BY <1>0, <2>0, VacantIs
  <2>3. p \notin Paths(r)
    BY <2>2, SameRules
  <2>4. ~Below(p, d)
    <3>1. ~AtOrBelow(d, e)
      BY <1>0, VacantIs
    <3>2. Below(d, e) => AtOrBelow(d, e)
      BY <1>0, BelowMeans
    <3>3. AtOrBelow(p, d) => AtOrBelow(e, d) \/ Below(d, e)
      BY <1>0, <2>0, BelowLinear
    <3>4. Below(p, d) => AtOrBelow(p, d)
      BY <1>0, BelowMeans
    <3> QED
      BY <1>0, <3>1, <3>2, <3>3, <3>4
  <2>5. ASSUME NEW m \in Map, NEW M, M = RenamePrefix(m, d, e), p \notin Paths(m)
        PROVE  /\ p \in Paths(M) <=> o \in Paths(m)
               /\ o \in Paths(m) => M[p] = m[o]
    <3>1. IF o \in Paths(m)
          THEN p \in Paths(RenamePrefix(m, d, e)) /\ RenamePrefix(m, d, e)[p] = m[o]
          ELSE Same(RenamePrefix(m, d, e), m, p)
      BY <1>0, <1>7, <2>1, <2>4, RenamePrefixIs
    <3> QED
      BY <2>5, <3>1, SameRules
  <2>6. /\ p \in Paths(R) <=> o \in Paths(r)
        /\ o \in Paths(r) => R[p] = r[o]
    BY <1>1, <2>3, <2>5
  <2>7. /\ p \in Paths(U) <=> o \in Paths(t.files)
        /\ o \in Paths(t.files) => U[p] = t.files[o]
    BY <1>0, <1>2, <2>2, <2>5
  <2>8. CASE Same(r, t.files, o)
    BY <1>1, <1>2, <2>6, <2>7, <2>8 DEF Same
  <2>9. CASE o \notin Paths(r) /\ \E q \in ToSet(queue) : Below(o, q)
    <3>1. PICK q \in ToSet(queue) : Below(o, q) /\ q \in Names
      BY <1>4, <2>9
    <3>2. AtOrBelow(q, d)
      <4>1. AtOrBelow(o, q)
        BY <3>1, BelowMeans
      <4> QED
        BY <1>0, <2>1, <3>1, <4>1, BelowLinear
    <3>3. Rebased(q, d, e) \in ToSet(next)
      BY <1>0, <1>3, <3>1, <3>2, QueueMoved
    <3>4. Below(p, Rebased(q, d, e))
      <4>1. AtOrBelow(o, q)
        BY <3>1, BelowMeans
      <4> QED
        BY <1>0, <2>1, <3>1, <3>2, <4>1, RebasedBelow
    <3> QED
      BY <1>1, <1>3, <2>6, <2>9, <3>3, <3>4
  <2> QED
    BY <2>1, <2>8, <2>9
<1> QED
  BY <1>5, <1>6, <1>7

(* The same for a directory.                                               *)
LEMMA DirMovesMirrored ==
  ASSUME NEW t, TreeOK(t), NEW u, NEW ch, NEW d, NEW e, Moves(t, u, ch, d, e),
         NEW r \in SUBSET Names, NEW queue \in Seq(Names), \A q \in ToSet(queue) : ~Below(d, q),
         \A x \in Names : \/ x \in r <=> x \in t.dirs
                          \/ x \notin r /\ \E q \in ToSet(queue) : AtOrBelow(x, q),
         NEW x \in Names
  PROVE  \/ x \in AppliedToDirs(r, ch) <=> x \in u.dirs
         \/ /\ x \notin AppliedToDirs(r, ch)
            /\ \E q \in ToSet(Queued(queue, ch)) : AtOrBelow(x, q)
<1>0. /\ d \in Names /\ e \in Names /\ d \in t.dirs /\ Vacant(t, e) /\ ~AtOrBelow(e, d)
      /\ t.dirs \in SUBSET Names /\ ch = DirMove(d, e)
  BY PathsAreNames DEF Moves, TreeOK
<1>1. PICK R : R = RenameDirs(r, d, e) /\ AppliedToDirs(r, ch) = R
  BY <1>0, AppliedToDirsIs
<1>2. PICK U : U = RenameDirs(t.dirs, d, e) /\ u.dirs = U
  BY DEF Moves, Moved
<1>3. PICK next : next = Queued(queue, ch)
  OBVIOUS
<1>4. ToSet(queue) \subseteq Names
  BY ToSetIs
<1>5. PICK o : o = Rebased(x, e, d)
  OBVIOUS
<1>6. /\ x \in R <=> (x \in r /\ ~AtOrBelow(x, d)) \/ (AtOrBelow(x, e) /\ o \in r)
      /\ x \in U <=> (x \in t.dirs /\ ~AtOrBelow(x, d)) \/ (AtOrBelow(x, e) /\ o \in t.dirs)
  BY <1>0, <1>1, <1>2, <1>5, RenameDirsIs
<1>7. CASE AtOrBelow(x, e)
  <2>1. x \notin t.dirs
    BY <1>0, <1>7, VacantIs
  <2>2. x \notin r
    BY <2>1
  <2>3. o \in Names /\ AtOrBelow(o, d) /\ Rebased(o, d, e) = x
    BY <1>0, <1>5, <1>7, RebasedIs
  <2>4. CASE o \in r <=> o \in t.dirs
    BY <1>1, <1>2, <1>6, <2>1, <2>2, <2>4
  <2>5. CASE o \notin r /\ \E q \in ToSet(queue) : AtOrBelow(o, q)
    <3>1. PICK q \in ToSet(queue) : AtOrBelow(o, q) /\ q \in Names
      BY <1>4, <2>5
    <3>2. AtOrBelow(q, d)
      BY <1>0, <2>3, <3>1, BelowLinear
    <3>3. Rebased(q, d, e) \in ToSet(next)
      BY <1>0, <1>3, <3>1, <3>2, QueueMoved
    <3>4. AtOrBelow(x, Rebased(q, d, e))
      BY <1>0, <2>3, <3>1, <3>2, RebasedBelow
    <3> QED
      BY <1>1, <1>3, <1>6, <2>2, <2>5, <3>3, <3>4
  <2> QED
    BY <2>3, <2>4, <2>5
<1>8. CASE ~AtOrBelow(x, e) /\ AtOrBelow(x, d)
  BY <1>1, <1>2, <1>6, <1>8
<1>9. CASE ~AtOrBelow(x, e) /\ ~AtOrBelow(x, d)
  <2>1. CASE x \in r <=> x \in t.dirs
    BY <1>1, <1>2, <1>6, <1>9, <2>1
  <2>2. CASE x \notin r /\ \E q \in ToSet(queue) : AtOrBelow(x, q)
    <3>1. PICK q \in ToSet(queue) : AtOrBelow(x, q) /\ q \in Names
      BY <1>4, <2>2
    <3>2. ~AtOrBelow(q, d)
      BY <1>0, <1>9, <3>1, BelowTransitive
    <3>3. q \in ToSet(next)
      BY <1>0, <1>3, <3>1, <3>2, QueueMoved
    <3> QED
      BY <1>1, <1>3, <1>6, <1>9, <2>2, <3>1, <3>3
  <2> QED
    BY <2>1, <2>2
<1> QED
  BY <1>7, <1>8, <1>9

(* A move that takes nothing out of what is fetched keeps the mirror       *)
(* (coalesceDirMove).                                                      *)
LEMMA MovesMirrored ==
  ASSUME ServerTyped, ClientTyped, Mirrored, NEW ch \in Entries, log' = Append(log, ch),
         UNCHANGED client, NEW d, NEW e, Moves(tree, tree', ch, d, e), ~MovesWhatIsFetched(d)
  PROVE  Mirrored'
<1> SUFFICES ASSUME Active
             PROVE  /\ (ToSet(Queue) \subseteq tree.dirs)'
                    /\ \A p \in Names : FileMirrored(p)' /\ DirMirrored(p)'
  BY DEF Mirrored, Active, client
<1>0. TreeOK(tree) /\ log \in Seq(Entries) /\ cursor \in 0..Len(log) /\ cursor' = cursor
      /\ files' = files /\ dirs' = dirs /\ todo' = todo
      /\ files \in Map /\ dirs \in SUBSET Names
  BY PathsAreNames DEF ServerTyped, ClientTyped, client
<1>1. /\ todo = <<>> /\ ToSet(todo) = {}
      /\ \A q \in ToSet(Queue) : ~Below(d, q)
  <2>1. ~Fetching /\ pc = "replaying"
    BY DEF MovesWhatIsFetched, Active, ClientTyped
  <2>2. \A q \in ToSet(Queue) : ~Below(d, q)
    BY <2>1 DEF MovesWhatIsFetched, Queue, QueueAfterAll
  <2> QED
    BY <2>1, <2>2 DEF Fetching, ToSet
<1>2. PICK t, u : t = tree /\ u = tree' /\ Moves(t, u, ch, d, e) /\ TreeOK(t)
  BY <1>0
<1>3. PICK m \in Map, D \in SUBSET Names : m = files /\ D = dirs
  BY <1>0
<1>4. PICK r \in Map, R \in SUBSET Names, queue \in Seq(Names) :
        r = Replayed(files) /\ R = ReplayedDirs(dirs) /\ queue = Queue
  BY <1>0, ReplayTyped
<1>5. /\ Replayed(m)' = Applied(Replayed(m), ch)
      /\ ReplayedDirs(D)' = AppliedToDirs(ReplayedDirs(D), ch)
      /\ Queue' = Queued(Queue, ch)
  BY <1>0, ReplayLast
<1>6. /\ Replayed(files)' = Applied(r, ch)
      /\ ReplayedDirs(dirs)' = AppliedToDirs(R, ch)
      /\ Queue' = Queued(queue, ch)
  BY <1>0, <1>3, <1>4, <1>5 DEF Replayed, ReplayedDirs
<1>7. /\ \A q \in ToSet(queue) : ~Below(d, q) /\ q \in t.dirs
      /\ \A p \in Names : \/ Same(r, t.files, p)
                          \/ p \notin Paths(r) /\ \E q \in ToSet(queue) : Below(p, q)
      /\ \A p \in Names : \/ p \in R <=> p \in t.dirs
                          \/ p \notin R /\ \E q \in ToSet(queue) : AtOrBelow(p, q)
  BY <1>1, <1>2, <1>4 DEF Mirrored, FileMirrored, DirMirrored, Waiting
<1>8. /\ d \in Names /\ e \in Names /\ t.dirs \in SUBSET Names /\ ch = DirMove(d, e)
      /\ u.dirs = RenameDirs(t.dirs, d, e)
  BY <1>2, PathsAreNames DEF Moves, Moved, TreeOK
<1>9. \A y \in ToSet(Queued(queue, ch)) : y \in u.dirs
  <2> SUFFICES ASSUME NEW y \in ToSet(Queued(queue, ch))
               PROVE  y \in u.dirs
    OBVIOUS
  <2>1. PICK q \in ToSet(queue) : y = IF AtOrBelow(q, d) THEN Rebased(q, d, e) ELSE q
    BY <1>8, QueueMoved
  <2>2. q \in t.dirs
    BY <1>7
  <2> QED
    BY <1>8, <2>1, <2>2 DEF RenameDirs
<1>10. \A p \in Names :
         \/ Same(Applied(r, ch), u.files, p)
         \/ p \notin Paths(Applied(r, ch)) /\ \E q \in ToSet(Queued(queue, ch)) : Below(p, q)
  BY <1>2, <1>7, FileMovesMirrored
<1>11. \A p \in Names :
         \/ p \in AppliedToDirs(R, ch) <=> p \in u.dirs
         \/ p \notin AppliedToDirs(R, ch) /\ \E q \in ToSet(Queued(queue, ch)) : AtOrBelow(p, q)
  BY <1>2, <1>7, DirMovesMirrored
<1>12. ASSUME NEW p \in Names
       PROVE  FileMirrored(p)' /\ DirMirrored(p)'
  <2>1. FileMirrored(p)' <=>
          \/ Same(Replayed(files)', tree'.files, p)
          \/ /\ p \notin Paths(Replayed(files)')
             /\ \E q \in ToSet(todo') \cup ToSet(Queue') : Below(p, q)
    BY DEF FileMirrored, Waiting
  <2>2. DirMirrored(p)' <=>
          \/ p \in ReplayedDirs(dirs)' <=> p \in tree'.dirs
          \/ /\ p \notin ReplayedDirs(dirs)'
             /\ \E q \in ToSet(todo') \cup ToSet(Queue') : AtOrBelow(p, q)
    BY DEF DirMirrored, Waiting
  <2> QED
    BY <1>2, <1>6, <1>10, <1>11, <2>1, <2>2
<1>13. (ToSet(Queue) \subseteq tree.dirs)'
  BY <1>2, <1>6, <1>9
<1> QED
  BY <1>12, <1>13

-----------------------------------------------------------------------------
(* A fetch. *)

(* Every order of a finite set has its elements.                           *)
LEMMA OrderIs ==
  ASSUME NEW S, IsFiniteSet(S), NEW order \in SetToSeqs(S)
  PROVE  order \in Seq(S) /\ ToSet(order) = S
<1>1. Cardinality(S) \in Nat
  BY FS_CardinalityType
<1>2. PICK n \in Nat : n = Cardinality(S)
  BY <1>1
<1>3. IsFiniteSet(1..n) /\ Cardinality(1..n) = n
  <2>1. 1 \in Int /\ n \in Int
    OBVIOUS
  <2>2. /\ IsFiniteSet(1..n)
        /\ Cardinality(1..n) = IF 1 > n THEN 0 ELSE n - 1 + 1
    BY <2>1, FS_Interval
  <2> QED
    BY <2>2
<1>4. order \in [1..n -> S] /\ \A i, j \in 1..n : i # j => order[i] # order[j]
  BY <1>2 DEF SetToSeqs
<1>5. order \in Injection(1..n, S)
  BY <1>4 DEF Injection, IsInjective
<1>6. order \in Surjection(1..n, S)
  BY <1>2, <1>3, <1>5, FS_Injection
<1>7. \A x \in S : \E i \in 1..n : order[i] = x
  BY <1>6 DEF Surjection
<1>8. order \in Seq(S) /\ DOMAIN order = 1..n
  BY <1>4
<1> QED
  BY <1>4, <1>7, <1>8 DEF ToSet

(* The head of a queue and the rest of it.                                 *)
LEMMA HeadAndTail ==
  ASSUME NEW S, NEW queue \in Seq(S), queue # <<>>
  PROVE  /\ Head(queue) \in S /\ Tail(queue) \in Seq(S)
         /\ ToSet(queue) = {Head(queue)} \cup ToSet(Tail(queue))
<1>1. PICK n \in Nat : n = Len(queue) /\ n > 0 /\ DOMAIN queue = 1..n
  BY EmptySeq
<1>2. PICK rest : rest = Tail(queue)
  OBVIOUS
<1>3. rest \in Seq(S) /\ Len(rest) = n - 1 /\ \A i \in 1..(n - 1) : rest[i] = queue[i + 1]
  BY <1>1, <1>2, HeadTailProperties
<1>4. Head(queue) = queue[1] /\ queue[1] \in S
  BY <1>1
<1>5. \A x : x \in ToSet(queue) <=> \E i \in 1..n : x = queue[i]
  BY <1>1 DEF ToSet
<1>6. \A x : x \in ToSet(rest) <=> \E i \in 1..(n - 1) : x = rest[i]
  <2>1. n - 1 \in Nat
    BY <1>1
  <2>2. DOMAIN rest = 1..(n - 1)
    BY <1>3, <2>1
  <2> QED
    BY <2>2 DEF ToSet
<1>7. ASSUME NEW x \in ToSet(queue)
      PROVE  x \in {Head(queue)} \cup ToSet(rest)
  <2>1. PICK i \in 1..n : x = queue[i]
    BY <1>5
  <2>2. CASE i = 1
    BY <1>4, <2>1, <2>2
  <2>3. CASE i # 1
    <3>1. i - 1 \in 1..(n - 1) /\ (i - 1) + 1 = i
      BY <2>3
    <3> QED
      BY <1>3, <1>6, <2>1, <3>1
  <2> QED
    BY <2>2, <2>3
<1>8. ASSUME NEW x \in ToSet(rest)
      PROVE  x \in ToSet(queue)
  <2>1. PICK i \in 1..(n - 1) : x = rest[i]
    BY <1>6
  <2>2. i + 1 \in 1..n /\ x = queue[i + 1]
    BY <1>3, <2>1
  <2> QED
    BY <1>5, <2>2
<1>9. Head(queue) \in ToSet(queue)
  BY <1>1, <1>4, <1>5
<1> QED
  BY <1>2, <1>3, <1>4, <1>7, <1>8, <1>9

(* Two queues, one after the other.                                        *)
LEMMA Joined ==
  ASSUME NEW S, NEW a \in Seq(S), NEW b \in Seq(S)
  PROVE  a \o b \in Seq(S) /\ ToSet(a \o b) = ToSet(a) \cup ToSet(b)
<1>1. PICK n \in Nat, k \in Nat : n = Len(a) /\ k = Len(b) /\ DOMAIN a = 1..n /\ DOMAIN b = 1..k
  OBVIOUS
<1>2. PICK c : c = a \o b
  OBVIOUS
<1>3. /\ c \in Seq(S) /\ Len(c) = n + k
      /\ \A i \in 1..(n + k) : c[i] = IF i <= n THEN a[i] ELSE b[i - n]
  BY <1>1, <1>2, ConcatProperties
<1>4. /\ \A x : x \in ToSet(a) <=> \E i \in 1..n : x = a[i]
      /\ \A x : x \in ToSet(b) <=> \E i \in 1..k : x = b[i]
      /\ \A x : x \in ToSet(c) <=> \E i \in 1..(n + k) : x = c[i]
  <2>1. DOMAIN c = 1..(n + k)
    BY <1>3
  <2>2. \A x : x \in ToSet(a) <=> \E i \in 1..n : x = a[i]
    BY <1>1 DEF ToSet
  <2>3. \A x : x \in ToSet(b) <=> \E i \in 1..k : x = b[i]
    BY <1>1 DEF ToSet
  <2>4. \A x : x \in ToSet(c) <=> \E i \in 1..(n + k) : x = c[i]
    BY <2>1 DEF ToSet
  <2> QED
    BY <2>2, <2>3, <2>4
<1>5. ASSUME NEW x \in ToSet(c)
      PROVE  x \in ToSet(a) \cup ToSet(b)
  <2>1. PICK i \in 1..(n + k) : x = c[i]
    BY <1>4
  <2>2. CASE i <= n
    BY <1>3, <1>4, <2>1, <2>2
  <2>3. CASE i > n
    <3>1. i - n \in 1..k /\ x = b[i - n]
      BY <1>3, <2>1, <2>3
    <3> QED
      BY <1>4, <3>1
  <2> QED
    BY <2>2, <2>3
<1>6. ASSUME NEW x \in ToSet(a)
      PROVE  x \in ToSet(c)
  <2>1. PICK i \in 1..n : x = a[i]
    BY <1>4
  <2>2. i \in 1..(n + k) /\ x = c[i]
    BY <1>3, <2>1
  <2> QED
    BY <1>4, <2>2
<1>7. ASSUME NEW x \in ToSet(b)
      PROVE  x \in ToSet(c)
  <2>1. PICK i \in 1..k : x = b[i]
    BY <1>4
  <2>2. n + i \in 1..(n + k) /\ ~(n + i <= n) /\ (n + i) - n = i
    OBVIOUS
  <2>3. x = c[n + i]
    BY <1>3, <2>1, <2>2
  <2> QED
    BY <1>4, <2>2, <2>3
<1> QED
  BY <1>2, <1>3, <1>5, <1>6, <1>7

(* What a fetch of d makes of the map m, the directories D and the queue:  *)
(* what is at or below d in the tree is there, or is yet to be fetched.    *)
FetchesFiles(d, m, g, next) ==
  \A p \in Names :
    /\ Same(g, m, p) \/ Same(g, tree.files, p)
    /\ p \in Paths(tree.files) /\ Below(p, d) =>
         Same(g, tree.files, p) \/ \E w \in ToSet(next) : Below(p, w)
FetchesDirs(d, D, E, next) ==
  \A x \in Names :
    /\ (x \in E <=> x \in D) \/ (x \in E <=> x \in tree.dirs)
    /\ x \in tree.dirs /\ AtOrBelow(x, d) =>
         x \in E \/ \E w \in ToSet(next) : AtOrBelow(x, w)

(* 404: nothing is at or below a directory that is gone.                   *)
LEMMA FetchGone ==
  ASSUME TreeOK(tree), NEW d \in {Root} \cup DirPaths, ~IsDir(tree, d),
         NEW m \in Map, NEW D \in SUBSET Names, NEW next
  PROVE  FetchesFiles(d, m, m, next) /\ FetchesDirs(d, D, D, next)
<1>1. d \in Names /\ d # Root /\ d \notin tree.dirs
  BY PathsAreNames, RootAbove DEF IsDir
<1>2. \A p \in tree.dirs \cup Paths(tree.files) : p \in Names /\ ~Below(p, d)
  BY <1>1, Hangs, PathsAreNames DEF TreeOK
<1>3. \A x \in tree.dirs : ~AtOrBelow(x, d)
  BY <1>1, <1>2, BelowMeans
<1> QED
  BY <1>2, <1>3, SameRules DEF FetchesFiles, FetchesDirs

(* The whole subtree in one answer.                                        *)
LEMMA FetchSubtree ==
  ASSUME TreeOK(tree), NEW d \in {Root} \cup DirPaths, IsDir(tree, d),
         NEW m \in Map, NEW D \in SUBSET Names, Paths(m) \subseteq FilePaths,
         D \subseteq DirPaths, NEW next \in Seq({Root} \cup DirPaths)
  PROVE  LET g == Overlaid(m, Only(tree.files, FilesBelow(tree.files, d)))
             E == D \cup {e \in tree.dirs : AtOrBelow(e, d)} \cup ({d} \ {Root})
         IN  /\ g \in Map /\ Paths(g) \subseteq FilePaths /\ E \subseteq DirPaths
             /\ FetchesFiles(d, m, g, next) /\ FetchesDirs(d, D, E, next)
<1>0. /\ d \in Names /\ tree.files \in Map /\ Paths(tree.files) \subseteq FilePaths
      /\ tree.dirs \subseteq DirPaths
  <2>1. d \in Names
    BY PathsAreNames, EmptySeq DEF Root, Names
  <2>2. tree \in [dirs : SUBSET DirPaths, files : Map] /\ Paths(tree.files) \subseteq FilePaths
    BY DEF TreeOK
  <2>3. tree.files \in Map /\ tree.dirs \subseteq DirPaths
    BY <2>2
  <2> QED
    BY <2>1, <2>2, <2>3
<1>1. PICK s : s = Only(tree.files, FilesBelow(tree.files, d))
  OBVIOUS
<1>2. PICK V : V = {e \in tree.dirs : AtOrBelow(e, d)}
  OBVIOUS
<1>4. /\ s \in Map /\ Paths(s) \subseteq Paths(tree.files)
      /\ \A p \in Names : p \in Paths(s) <=> p \in Paths(tree.files) /\ Below(p, d)
      /\ \A p \in Names : p \in Paths(s) => Same(s, tree.files, p)
  <2>1. \A p \in Names : p \in FilesBelow(tree.files, d) <=> p \in Paths(tree.files) /\ Below(p, d)
    BY DEF FilesBelow
  <2> QED
    BY <1>0, <1>1, <2>1, OnlyIs
<1>3. PICK g : g = Overlaid(m, s)
  OBVIOUS
<1>5. /\ g \in Map /\ Paths(g) = Paths(m) \cup Paths(s)
      /\ \A p \in Names : p \in Paths(s) => Same(g, s, p)
      /\ \A p \in Names : p \notin Paths(s) => Same(g, m, p)
  BY <1>4, <1>3, OverlaidIs
<1>6. PICK E : E = D \cup V \cup ({d} \ {Root})
  OBVIOUS
<1>7. Paths(g) \subseteq FilePaths /\ E \subseteq DirPaths
  BY <1>0, <1>2, <1>4, <1>5, <1>6
<1>8. \A p \in Names : p \in Paths(s) => Same(g, tree.files, p)
  BY <1>4, <1>5, SameRules
<1>9. FetchesFiles(d, m, g, next)
  BY <1>4, <1>5, <1>8 DEF FetchesFiles
<1>10. FetchesDirs(d, D, E, next)
  BY <1>2, <1>6 DEF FetchesDirs, IsDir
<1> QED
  BY <1>1, <1>2, <1>3, <1>5, <1>6, <1>7, <1>9, <1>10

(* 413: the files of d are there, and its subdirectories are fetched next. *)
LEMMA FetchListing ==
  ASSUME TreeOK(tree), NEW d \in {Root} \cup DirPaths, IsDir(tree, d),
         NEW m \in Map, NEW D \in SUBSET Names, Paths(m) \subseteq FilePaths,
         D \subseteq DirPaths, NEW rest \in Seq({Root} \cup DirPaths),
         NEW order \in SetToSeqs({e \in tree.dirs : Parent(e) = d})
  PROVE  LET children == {e \in tree.dirs : Parent(e) = d}
             here == {p \in Paths(tree.files) : Parent(p) = d}
             g == Overlaid(m, Only(tree.files, here))
             E == D \cup children \cup ({d} \ {Root})
             next == order \o rest
         IN  /\ g \in Map /\ Paths(g) \subseteq FilePaths /\ E \subseteq DirPaths
             /\ next \in Seq({Root} \cup DirPaths) /\ ToSet(rest) \subseteq ToSet(next)
             /\ FetchesFiles(d, m, g, next) /\ FetchesDirs(d, D, E, next)
<1>0. /\ d \in Names /\ tree.files \in Map /\ Paths(tree.files) \subseteq FilePaths
      /\ tree.dirs \subseteq DirPaths /\ FilePaths \subseteq Names /\ DirPaths \subseteq Names
  <2>1. d \in Names
    BY PathsAreNames, EmptySeq DEF Root, Names
  <2>2. tree \in [dirs : SUBSET DirPaths, files : Map] /\ Paths(tree.files) \subseteq FilePaths
    BY DEF TreeOK
  <2>3. tree.files \in Map /\ tree.dirs \subseteq DirPaths
    BY <2>2
  <2> QED
    BY <2>1, <2>2, <2>3, PathsAreNames
<1>1. PICK C : C = {e \in tree.dirs : Parent(e) = d}
  OBVIOUS
<1>2. PICK H : H = {p \in Paths(tree.files) : Parent(p) = d}
  OBVIOUS
<1>3. PICK s : s = Only(tree.files, H)
  OBVIOUS
<1>4. /\ s \in Map /\ Paths(s) = H
      /\ \A p \in Names : p \in H => Same(s, tree.files, p)
  BY <1>0, <1>2, <1>3, OnlyIs
<1>5. PICK g : g = Overlaid(m, s)
  OBVIOUS
<1>6. /\ g \in Map /\ Paths(g) = Paths(m) \cup Paths(s)
      /\ \A p \in Names : p \in H => Same(g, tree.files, p)
      /\ \A p \in Names : p \notin H => Same(g, m, p)
  BY <1>4, <1>5, OverlaidIs, SameRules
<1>7. PICK E : E = D \cup C \cup ({d} \ {Root})
  OBVIOUS
<1>8. Paths(g) \subseteq FilePaths /\ E \subseteq DirPaths
  BY <1>0, <1>1, <1>2, <1>4, <1>6, <1>7
<1>9. order \in Seq({Root} \cup DirPaths) /\ ToSet(order) = C
  <2>1. C \in SUBSET DirPaths
    BY <1>0, <1>1
  <2>2. IsFiniteSet(C)
    BY <2>1, PathsAssumption, FS_Subset
  <2>3. order \in Seq(C) /\ ToSet(order) = C
    BY <1>1, <2>2, OrderIs
  <2>4. order \in Seq({Root} \cup DirPaths)
    <3>1. PICK n \in Nat : order \in [1..n -> C]
      BY <2>3, SeqDef
    <3>2. order \in [1..n -> {Root} \cup DirPaths]
      BY <2>1, <3>1
    <3> QED
      BY <3>2, IsASeq
  <2> QED
    BY <2>3, <2>4
<1>10. PICK next : next = order \o rest
  OBVIOUS
<1>11. next \in Seq({Root} \cup DirPaths) /\ ToSet(next) = C \cup ToSet(rest)
  BY <1>9, <1>10, Joined
<1>12. ASSUME NEW p \in Names, Below(p, d), p \in tree.dirs \cup Paths(tree.files)
       PROVE  Parent(p) = d \/ \E w \in C : Below(p, w)
  <2>1. \/ Parent(p) = d
        \/ \E e \in Parents(p) : e \in Names /\ Parent(e) = d /\ Below(p, e)
    BY <1>0, <1>12, BelowChild
  <2>2. ASSUME NEW e \in Parents(p), e \in Names
        PROVE  e \in tree.dirs
    BY <1>12, <2>2 DEF TreeOK, WellFormed
  <2> QED
    BY <1>1, <2>1, <2>2
<1>13. FetchesFiles(d, m, g, next)
  <2> SUFFICES ASSUME NEW p \in Names
               PROVE  /\ Same(g, m, p) \/ Same(g, tree.files, p)
                      /\ p \in Paths(tree.files) /\ Below(p, d) =>
                           Same(g, tree.files, p) \/ \E w \in ToSet(next) : Below(p, w)
    BY DEF FetchesFiles
  <2> QED
    BY <1>2, <1>6, <1>11, <1>12
<1>14. FetchesDirs(d, D, E, next)
  <2> SUFFICES ASSUME NEW x \in Names
               PROVE  /\ (x \in E <=> x \in D) \/ (x \in E <=> x \in tree.dirs)
                      /\ x \in tree.dirs /\ AtOrBelow(x, d) =>
                           x \in E \/ \E w \in ToSet(next) : AtOrBelow(x, w)
    BY DEF FetchesDirs
  <2>1. (x \in E <=> x \in D) \/ (x \in E <=> x \in tree.dirs)
    BY <1>1, <1>7 DEF IsDir
  <2>2. ASSUME x \in tree.dirs, AtOrBelow(x, d)
        PROVE  x \in E \/ \E w \in ToSet(next) : AtOrBelow(x, w)
    <3>1. CASE x = d
      <4>1. x # Root
        BY <1>0, <2>2, PathsAreNames
      <4> QED
        BY <1>7, <3>1, <4>1
    <3>2. CASE x # d
      <4>1. Below(x, d)
        BY <1>0, <2>2, <3>2, BelowMeans
      <4>2. Parent(x) = d \/ \E w \in C : Below(x, w)
        BY <1>12, <2>2, <4>1
      <4>3. \A w \in C : w \in Names /\ (Below(x, w) => AtOrBelow(x, w))
        BY <1>0, <1>1, BelowMeans
      <4> QED
        BY <1>1, <1>7, <1>11, <2>2, <4>2, <4>3
    <3> QED
      BY <3>1, <3>2
  <2> QED
    BY <2>1, <2>2
<1> QED
  BY <1>1, <1>2, <1>3, <1>5, <1>6, <1>7, <1>8, <1>10, <1>11, <1>13, <1>14

(* A fetch of d adds to the map what the tree has, or leaves it to what is *)
(* fetched next: the map and the queue still mirror the tree.              *)
LEMMA FetchMirrored ==
  ASSUME ServerTyped, ClientTyped, Mirrored, Predicted, Active, Fetching,
         UNCHANGED <<server, cursor>>, files' \in Map, dirs' \in SUBSET Names,
         NEW d, FetchesFiles(d, files, files', todo'), FetchesDirs(d, dirs, dirs', todo'),
         ToSet(todo) \subseteq {d} \cup ToSet(todo')
  PROVE  Mirrored' /\ Predicted'
<1>0. /\ files \in Map /\ dirs \in SUBSET Names /\ tree' = tree /\ log' = log /\ cursor' = cursor
      /\ log \in Seq(Entries) /\ cursor \in 0..Len(log)
  BY PathsAreNames DEF ServerTyped, ClientTyped, server
<1>1. Since(cursor)' = Since(cursor)
  BY <1>0 DEF Since
<1>2. Queue' = Queue
  BY <1>1 DEF Queue
<1>3. /\ \A m \in Map : Replayed(m)' = Replayed(m)
      /\ \A D \in SUBSET Names : ReplayedDirs(D)' = ReplayedDirs(D)
  BY <1>1 DEF Replayed, ReplayedDirs
<1>4. PICK g \in Map, E \in SUBSET Names : g = files' /\ E = dirs'
  BY <1>0
<1>5. Replayed(files)' = Replayed(g) /\ ReplayedDirs(dirs)' = ReplayedDirs(E)
  BY <1>1, <1>4 DEF Replayed, ReplayedDirs
<1>6. PICK f, t, Q, T : f = files /\ t = tree.files /\ Q = ToSet(Queue) /\ T = ToSet(todo)
  OBVIOUS
<1>7. /\ \A p \in Names : FileMirrored(p) /\ DirMirrored(p) /\ FilePredicted(p) /\ DirPredicted(p)
      /\ Q \subseteq tree.dirs
  BY <1>6 DEF Mirrored, Predicted
<1>8. ASSUME NEW p \in Names
      PROVE  FileMirrored(p)'
  <2>1. FileMirrored(p)' <=>
          \/ Same(Replayed(g), t, p)
          \/ p \notin Paths(Replayed(g)) /\ \E w \in ToSet(todo') \cup Q : Below(p, w)
    BY <1>0, <1>2, <1>4, <1>5, <1>6 DEF FileMirrored, Waiting
  <2>2. \/ Same(Replayed(f), t, p)
        \/ p \notin Paths(Replayed(f)) /\ \E w \in T \cup Q : Below(p, w)
    BY <1>6, <1>7 DEF FileMirrored, Waiting
  <2>3. \/ Same(Replayed(g), g, p) /\ Same(Replayed(f), f, p)
        \/ Same(Replayed(g), t, p)
        \/ p \notin Paths(Replayed(g)) /\ \E w \in Q : Below(p, w)
    BY <1>0, <1>6, <1>7 DEF FilePredicted
  <2>4. /\ Same(g, f, p) \/ Same(g, t, p)
        /\ p \in Paths(t) /\ Below(p, d) => Same(g, t, p) \/ \E w \in ToSet(todo') : Below(p, w)
        /\ T \subseteq {d} \cup ToSet(todo')
    BY <1>4, <1>6 DEF FetchesFiles
  <2>5. CASE Same(Replayed(g), g, p) /\ Same(Replayed(f), f, p)
    <3>1. CASE Same(g, t, p)
      BY <2>1, <2>5, <3>1, SameRules
    <3>2. CASE Same(g, f, p) /\ Same(Replayed(f), t, p)
      BY <2>1, <2>5, <3>2, SameRules
    <3>3. CASE Same(g, f, p) /\ p \notin Paths(Replayed(f))
      <4>1. p \notin Paths(g) /\ p \notin Paths(Replayed(g))
        BY <2>5, <3>3, SameRules
      <4>2. CASE p \notin Paths(t)
        BY <2>1, <4>1, <4>2, SameRules
      <4>3. CASE p \in Paths(t)
        <5>1. ~Same(Replayed(f), t, p) /\ ~Same(g, t, p)
          BY <3>3, <4>1, <4>3, SameRules
        <5> QED
          BY <2>1, <2>2, <2>4, <4>1, <4>3, <5>1
      <4> QED
        BY <4>2, <4>3
    <3> QED
      BY <2>2, <2>4, <3>1, <3>2, <3>3
  <2> QED
    BY <2>1, <2>3, <2>5
<1>9. ASSUME NEW x \in Names
      PROVE  DirMirrored(x)'
  <2>1. DirMirrored(x)' <=>
          \/ x \in ReplayedDirs(E) <=> x \in tree.dirs
          \/ x \notin ReplayedDirs(E) /\ \E w \in ToSet(todo') \cup Q : AtOrBelow(x, w)
    BY <1>0, <1>2, <1>4, <1>5, <1>6 DEF DirMirrored, Waiting
  <2>2. \/ x \in ReplayedDirs(dirs) <=> x \in tree.dirs
        \/ x \notin ReplayedDirs(dirs) /\ \E w \in T \cup Q : AtOrBelow(x, w)
    BY <1>6, <1>7 DEF DirMirrored, Waiting
  <2>3. \/ (x \in ReplayedDirs(E) <=> x \in E) /\ (x \in ReplayedDirs(dirs) <=> x \in dirs)
        \/ x \in ReplayedDirs(E) <=> x \in tree.dirs
        \/ x \notin ReplayedDirs(E) /\ \E w \in Q : AtOrBelow(x, w)
    BY <1>0, <1>6, <1>7 DEF DirPredicted
  <2>4. /\ (x \in E <=> x \in dirs) \/ (x \in E <=> x \in tree.dirs)
        /\ x \in tree.dirs /\ AtOrBelow(x, d) =>
             x \in E \/ \E w \in ToSet(todo') : AtOrBelow(x, w)
        /\ T \subseteq {d} \cup ToSet(todo')
    BY <1>4, <1>6 DEF FetchesDirs
  <2> QED
    BY <2>1, <2>2, <2>3, <2>4
<1>10. ASSUME NEW p \in Names
       PROVE  FilePredicted(p)' /\ DirPredicted(p)'
  <2>1. FilePredicted(p)' <=>
          \/ \A m \in Map : Same(Replayed(m)', m, p)
          \/ \A m \in Map : Same(Replayed(m)', tree'.files, p)
          \/ /\ \A m \in Map : p \notin Paths(Replayed(m)')
             /\ \E q \in ToSet(Queue') : Below(p, q)
    BY DEF FilePredicted
  <2>2. \/ \A m \in Map : Same(Replayed(m), m, p)
        \/ \A m \in Map : Same(Replayed(m), tree.files, p)
        \/ (\A m \in Map : p \notin Paths(Replayed(m))) /\ \E q \in ToSet(Queue) : Below(p, q)
    BY <1>7 DEF FilePredicted
  <2>3. FilePredicted(p)'
    BY <1>0, <1>2, <1>3, <2>1, <2>2
  <2>4. DirPredicted(p)' <=>
          \/ \A D \in SUBSET Names : p \in ReplayedDirs(D)' <=> p \in D
          \/ \A D \in SUBSET Names : p \in ReplayedDirs(D)' <=> p \in tree'.dirs
          \/ /\ \A D \in SUBSET Names : p \notin ReplayedDirs(D)'
             /\ \E q \in ToSet(Queue') : AtOrBelow(p, q)
    BY DEF DirPredicted
  <2>5. \/ \A D \in SUBSET Names : p \in ReplayedDirs(D) <=> p \in D
        \/ \A D \in SUBSET Names : p \in ReplayedDirs(D) <=> p \in tree.dirs
        \/ /\ \A D \in SUBSET Names : p \notin ReplayedDirs(D)
           /\ \E q \in ToSet(Queue) : AtOrBelow(p, q)
    BY <1>7 DEF DirPredicted
  <2>6. DirPredicted(p)'
    BY <1>0, <1>2, <1>3, <2>4, <2>5
  <2> QED
    BY <2>3, <2>6
<1>11. (ToSet(Queue) \subseteq tree.dirs)'
  BY <1>0, <1>2, <1>6, <1>7
<1>12. Mirrored'
  BY <1>8, <1>9, <1>11 DEF Mirrored
<1>13. Predicted'
  BY <1>10 DEF Predicted
<1> QED
  BY <1>12, <1>13

(* Each fetch keeps the invariant.                                         *)
LEMMA FetchKeeps ==
  ASSUME ReplayInv, Fetch
  PROVE  ReplayInv'
<1>0. ServerTyped /\ ClientTyped /\ Mirrored /\ Predicted /\ Fetching
  BY DEF ReplayInv, Fetch
<1>1. /\ TreeOK(tree) /\ files \in Map /\ Paths(files) \subseteq FilePaths
      /\ dirs \in SUBSET DirPaths /\ dirs \in SUBSET Names /\ todo \in Seq({Root} \cup DirPaths)
      /\ Active /\ UNCHANGED <<server, cursor>> /\ rounds' = rounds /\ faults' = faults
  <2>1. UNCHANGED <<server, cursor>> /\ rounds' = rounds /\ faults' = faults
    BY DEF Fetch
  <2>2. Active
    BY <1>0 DEF ClientTyped, Fetching, Active
  <2> QED
    BY <1>0, <2>1, <2>2, PathsAreNames DEF ServerTyped, ClientTyped
<1>2. PICK d, rest : d = Head(todo) /\ rest = Tail(todo)
  OBVIOUS
<1>3. /\ d \in {Root} \cup DirPaths /\ rest \in Seq({Root} \cup DirPaths)
      /\ ToSet(todo) = {d} \cup ToSet(rest)
  BY <1>0, <1>1, <1>2, HeadAndTail DEF Fetching
<1>4. /\ files' \in Map /\ Paths(files') \subseteq FilePaths /\ dirs' \subseteq DirPaths
      /\ todo' \in Seq({Root} \cup DirPaths) /\ ToSet(rest) \subseteq ToSet(todo')
      /\ FetchesFiles(d, files, files', todo') /\ FetchesDirs(d, dirs, dirs', todo')
  <2>1. CASE ~IsDir(tree, d)
    <3>1. files' = files /\ dirs' = dirs /\ todo' = rest
      BY <1>2, <2>1 DEF Fetch
    <3>2. PICK m \in Map, D \in SUBSET Names : m = files /\ D = dirs
      BY <1>1
    <3>3. FetchesFiles(d, m, m, rest) /\ FetchesDirs(d, D, D, rest)
      BY <1>1, <1>3, <2>1, FetchGone
    <3> QED
      BY <1>1, <1>3, <3>1, <3>2, <3>3
  <2>2. CASE IsDir(tree, d) /\ Snapshot(d, rest)
    <3>1. todo' = rest
      BY <2>2 DEF Snapshot
    <3>2. /\ files' = Overlaid(files, Only(tree.files, FilesBelow(tree.files, d)))
          /\ dirs' = dirs \cup {e \in tree.dirs : AtOrBelow(e, d)} \cup ({d} \ {Root})
      BY <2>2 DEF Snapshot, Subtree
    <3>3. PICK m \in Map, D \in SUBSET Names : m = files /\ D = dirs
      BY <1>1
    <3>4. PICK g, E, next :
            /\ g = Overlaid(m, Only(tree.files, FilesBelow(tree.files, d)))
            /\ E = D \cup {e \in tree.dirs : AtOrBelow(e, d)} \cup ({d} \ {Root})
            /\ next = rest
      OBVIOUS
    <3>5. /\ g \in Map /\ Paths(g) \subseteq FilePaths /\ E \subseteq DirPaths
          /\ FetchesFiles(d, m, g, next) /\ FetchesDirs(d, D, E, next)
      <4>1. g \in Map /\ Paths(g) \subseteq FilePaths
        BY <1>1, <1>3, <2>2, <3>3, <3>4, FetchSubtree, ZenonT(40)
      <4>2. E \subseteq DirPaths
        <5>1. tree.dirs \subseteq DirPaths
          BY <1>1 DEF TreeOK
        <5> QED
          BY <1>1, <1>3, <3>3, <3>4, <5>1
      <4>3. FetchesFiles(d, m, g, next)
        BY <1>1, <1>3, <2>2, <3>3, <3>4, FetchSubtree
      <4>4. FetchesDirs(d, D, E, next)
        BY <1>1, <1>3, <2>2, <3>3, <3>4, FetchSubtree
      <4> QED
        BY <4>1, <4>2, <4>3, <4>4
    <3> QED
      BY <1>3, <3>1, <3>2, <3>3, <3>4, <3>5
  <2>3. CASE IsDir(tree, d) /\ ListDir(d, rest)
    <3>1. PICK order \in SetToSeqs({e \in tree.dirs : Parent(e) = d}) : todo' = order \o rest
      BY <2>3 DEF ListDir
    <3>2. /\ files' = Overlaid(files, Only(tree.files, {p \in Paths(tree.files) : Parent(p) = d}))
          /\ dirs' = dirs \cup {e \in tree.dirs : Parent(e) = d} \cup ({d} \ {Root})
      BY <2>3 DEF ListDir
    <3>3. PICK m \in Map, D \in SUBSET Names : m = files /\ D = dirs
      BY <1>1
    <3>4. PICK g, E, next :
            /\ g = Overlaid(m, Only(tree.files, {p \in Paths(tree.files) : Parent(p) = d}))
            /\ E = D \cup {e \in tree.dirs : Parent(e) = d} \cup ({d} \ {Root})
            /\ next = order \o rest
      OBVIOUS
    <3>5. /\ g \in Map /\ Paths(g) \subseteq FilePaths /\ E \subseteq DirPaths
          /\ next \in Seq({Root} \cup DirPaths) /\ ToSet(rest) \subseteq ToSet(next)
          /\ FetchesFiles(d, m, g, next) /\ FetchesDirs(d, D, E, next)
      BY <1>1, <1>3, <2>3, <3>3, <3>4, FetchListing
    <3> QED
      BY <3>1, <3>2, <3>3, <3>4, <3>5
  <2> QED
    BY <1>2, <2>1, <2>2, <2>3 DEF Fetch
<1>5. Mirrored' /\ Predicted'
  <2>1. ToSet(todo) \subseteq {d} \cup ToSet(todo') /\ dirs' \in SUBSET Names
    BY <1>3, <1>4, PathsAreNames
  <2> QED
    BY <1>0, <1>1, <1>4, <2>1, FetchMirrored
<1>6. ServerTyped'
  BY <1>0, <1>1 DEF ServerTyped, server, TreeOK, Restorable
<1>7. ClientTyped'
  <2>1. pc' = IF todo' = <<>> THEN "replaying" ELSE pc
    BY DEF Fetch, Listed
  <2>2. cursor' \in 0..Len(log')
    BY <1>0, <1>1 DEF ClientTyped, server
  <2> QED
    BY <1>0, <1>1, <1>4, <2>1, <2>2 DEF ClientTyped, Fetching, Active
<1> QED
  BY <1>5, <1>6, <1>7 DEF ReplayInv

-----------------------------------------------------------------------------
(* The steps of the bootstrap. *)

(* Right after the pin or a poll there is nothing to replay.               *)
LEMMA AllReplayed ==
  ASSUME Since(cursor)' = <<>>
  PROVE  /\ \A m \in Map : Replayed(m)' = m
         /\ \A D \in SUBSET Names : ReplayedDirs(D)' = D
         /\ Queue' = <<>> /\ ToSet(Queue') = {}
         /\ Predicted'
<1>1. \A m \in Map : Replayed(m)' = m
  BY NothingReplayed DEF Replayed
<1>2. \A D \in SUBSET Names : ReplayedDirs(D)' = D
  BY NothingReplayed DEF ReplayedDirs
<1>3. Queue' = <<>>
  BY NothingReplayed DEF Queue
<1>4. \A p \in Names : FilePredicted(p)' /\ DirPredicted(p)'
  BY <1>1, <1>2, SameRules DEF FilePredicted, DirPredicted
<1> QED
  BY <1>1, <1>2, <1>3, <1>4 DEF Predicted, ToSet

(* The pin starts with an empty map; everything is below the root.         *)
LEMMA PinKeeps ==
  ASSUME ReplayInv, Pin
  PROVE  ReplayInv'
<1>0. /\ ServerTyped /\ ClientTyped /\ log \in Seq(Entries) /\ Len(log) \in Nat
      /\ pc' = "listing" /\ cursor' = Len(log) /\ files' = NoFiles /\ dirs' = {}
      /\ todo' = <<Root>> /\ rounds' = 0 /\ UNCHANGED <<server, faults>>
      /\ tree' = tree /\ log' = log /\ trash' = trash
  BY DEF ReplayInv, ServerTyped, Pin, server
<1>1. Since(cursor)' = <<>>
  BY <1>0 DEF Since
<1>2. NoFiles \in Map /\ Paths(NoFiles) = {}
  <2>1. NoFiles \in [{} -> Int]
    BY DEF NoFiles
  <2> QED
    BY <2>1, MapFrom
<1>3. ToSet(<<Root>>) = {Root} /\ <<Root>> \in Seq({Root} \cup DirPaths) /\ <<Root>> # <<>>
  BY DEF ToSet
<1>4. Root \notin Paths(tree.files) /\ Root \notin tree.dirs
  BY <1>0, PathsAreNames DEF ServerTyped, TreeOK
<1>5. ServerTyped'
  BY <1>0 DEF ServerTyped, TreeOK, Restorable
<1>6. ClientTyped'
  BY <1>0, <1>2, <1>3, BoundsAssumption DEF ClientTyped, Fetching
<1>7. PICK N \in Map : N = NoFiles
  BY <1>2
<1>8. /\ Replayed(files)' = N /\ ReplayedDirs(dirs)' = {}
      /\ Queue' = <<>> /\ ToSet(Queue') = {} /\ Predicted'
  <2>1. Replayed(files)' = Replayed(N)' /\ ReplayedDirs(dirs)' = ReplayedDirs({})'
    BY <1>0, <1>7 DEF Replayed, ReplayedDirs
  <2> QED
    BY <1>1, <1>7, <2>1, AllReplayed
<1>9. ASSUME NEW p \in Names
      PROVE  FileMirrored(p)' /\ DirMirrored(p)'
  <2>1. FileMirrored(p)' <=>
          \/ Same(Replayed(files)', tree'.files, p)
          \/ p \notin Paths(Replayed(files)') /\ \E d \in ToSet(todo') \cup ToSet(Queue') : Below(p, d)
    BY DEF FileMirrored, Waiting
  <2>2. DirMirrored(p)' <=>
          \/ p \in ReplayedDirs(dirs)' <=> p \in tree'.dirs
          \/ p \notin ReplayedDirs(dirs)' /\ \E d \in ToSet(todo') \cup ToSet(Queue') : AtOrBelow(p, d)
    BY DEF DirMirrored, Waiting
  <2>3. AtOrBelow(p, Root) /\ (p # Root => Below(p, Root))
    BY RootAbove
  <2>4. p \notin Paths(N)
    BY <1>2, <1>7
  <2>5. FileMirrored(p)'
    BY <1>0, <1>3, <1>4, <1>8, <2>1, <2>3, <2>4, SameRules
  <2>6. DirMirrored(p)'
    BY <1>0, <1>3, <1>8, <2>2, <2>3
  <2> QED
    BY <2>5, <2>6
<1>10. Mirrored'
  BY <1>8, <1>9 DEF Mirrored
<1> QED
  BY <1>5, <1>6, <1>8, <1>10 DEF ReplayInv

(* A poll replays what there is to replay; the queue is fetched next.      *)
LEMMA PollKeeps ==
  ASSUME ReplayInv, Poll
  PROVE  ReplayInv'
<1>0. /\ ServerTyped /\ ClientTyped /\ Mirrored /\ Active /\ todo = <<>> /\ ToSet(todo) = {}
      /\ log \in Seq(Entries) /\ cursor \in 0..Len(log) /\ files \in Map
      /\ dirs \in SUBSET Names
      /\ tree \in [dirs : SUBSET DirPaths, files : Map] /\ Paths(tree.files) \subseteq FilePaths
  BY PathsAreNames DEF ReplayInv, Poll, Active, Fetching, ToSet, ServerTyped, ClientTyped, TreeOK
<1>1. /\ cursor' = Len(log) /\ rounds < MaxRounds /\ rounds' = rounds + 1
      /\ UNCHANGED <<server, faults>> /\ tree' = tree /\ log' = log /\ trash' = trash
      /\ pc' = IF Since(cursor) = <<>> THEN "done" ELSE "replaying"
  BY DEF Poll, server
<1>2. files' = Replayed(files) /\ dirs' = ReplayedDirs(dirs) /\ todo' = Queue
  BY DEF Poll, Replayed, ReplayedDirs, Queue, AfterAll, DirsAfterAll, QueueAfterAll
<1>3. PICK g \in Map, E \in SUBSET Names, queue \in Seq(Names) :
        g = Replayed(files) /\ E = ReplayedDirs(dirs) /\ queue = Queue
  BY <1>0, ReplayTyped
<1>4. /\ ToSet(queue) \subseteq tree.dirs
      /\ \A p \in Names : \/ Same(g, tree.files, p)
                          \/ p \notin Paths(g) /\ \E d \in ToSet(queue) : Below(p, d)
      /\ \A p \in Names : \/ p \in E <=> p \in tree.dirs
                          \/ p \notin E /\ \E d \in ToSet(queue) : AtOrBelow(p, d)
  BY <1>0, <1>3 DEF Mirrored, FileMirrored, DirMirrored, Waiting
<1>5. Since(cursor)' = <<>>
  BY <1>0, <1>1 DEF Since
<1>6. /\ Replayed(files)' = g /\ ReplayedDirs(dirs)' = E
      /\ Queue' = <<>> /\ ToSet(Queue') = {} /\ Predicted'
  <2>1. Replayed(files)' = Replayed(g)' /\ ReplayedDirs(dirs)' = ReplayedDirs(E)'
    BY <1>2, <1>3 DEF Replayed, ReplayedDirs
  <2> QED
    BY <1>3, <1>5, <2>1, AllReplayed
<1>7. ASSUME NEW p \in Names
      PROVE  FileMirrored(p)' /\ DirMirrored(p)'
  <2>1. FileMirrored(p)' <=>
          \/ Same(Replayed(files)', tree'.files, p)
          \/ p \notin Paths(Replayed(files)') /\ \E d \in ToSet(todo') \cup ToSet(Queue') : Below(p, d)
    BY DEF FileMirrored, Waiting
  <2>2. DirMirrored(p)' <=>
          \/ p \in ReplayedDirs(dirs)' <=> p \in tree'.dirs
          \/ p \notin ReplayedDirs(dirs)' /\ \E d \in ToSet(todo') \cup ToSet(Queue') : AtOrBelow(p, d)
    BY DEF DirMirrored, Waiting
  <2> QED
    BY <1>1, <1>2, <1>3, <1>4, <1>6, <2>1, <2>2
<1>8. Mirrored'
  BY <1>6, <1>7 DEF Mirrored
<1>9. ServerTyped'
  BY <1>0, <1>1 DEF ServerTyped, TreeOK, Restorable
<1>10. Paths(files') \subseteq FilePaths /\ dirs' \in SUBSET DirPaths
  <2>1. ASSUME NEW p \in Paths(g)
        PROVE  p \in FilePaths
    <3>1. p \in Names
      BY <1>3, MapIs
    <3> QED
      BY <1>0, <1>4, <3>1, SameRules
  <2>2. ASSUME NEW x \in E
        PROVE  x \in DirPaths
    BY <1>0, <1>3, <1>4
  <2> QED
    BY <1>2, <1>3, <2>1, <2>2
<1>11. todo' \in Seq({Root} \cup DirPaths)
  <2>1. PICK n \in Nat : n = Len(queue) /\ queue \in [1..n -> Names]
    BY SeqDef
  <2>2. \A i \in 1..n : queue[i] \in DirPaths
    BY <1>0, <1>4, <2>1 DEF ToSet
  <2>3. queue \in [1..n -> {Root} \cup DirPaths]
    BY <2>1, <2>2
  <2> QED
    BY <1>2, <1>3, <2>3, IsASeq
<1>12. pc' = "done" => todo' = <<>>
  <2>1. Since(cursor) = <<>> => Queue = <<>>
    BY NothingReplayed DEF Queue
  <2> QED
    BY <1>1, <1>2, <2>1
<1>13. ClientTyped'
  <2>1. rounds' \in 0..MaxRounds /\ cursor' \in 0..Len(log') /\ faults' \in 0..MaxFaults
    BY <1>0, <1>1, BoundsAssumption DEF ClientTyped
  <2>2. pc' \in {"done", "replaying"}
    BY <1>1
  <2> QED
    BY <1>2, <1>3, <1>10, <1>11, <1>12, <2>1, <2>2 DEF ClientTyped
<1> QED
  BY <1>6, <1>8, <1>9, <1>13 DEF ReplayInv

(* A failure leaves nothing that is still fetched.                         *)
LEMMA FailKeeps ==
  ASSUME ReplayInv, Fail, faults' \in 0..MaxFaults, UNCHANGED server
  PROVE  ReplayInv'
<1>1. /\ tree' = tree /\ log' = log /\ trash' = trash
      /\ pc' = "failed" /\ todo' = <<>> /\ UNCHANGED <<cursor, files, dirs, rounds>>
  BY DEF Fail, server
<1>2. ServerTyped'
  BY <1>1 DEF ReplayInv, ServerTyped, TreeOK, Restorable
<1>3. ClientTyped'
  <2>1. todo' \in Seq({Root} \cup DirPaths)
    BY <1>1, EmptySeq
  <2> QED
    BY <1>1, <2>1 DEF ReplayInv, ClientTyped, Fetching
<1>4. Mirrored' /\ Predicted'
  BY <1>1 DEF Mirrored, Predicted, Active
<1> QED
  BY <1>2, <1>3, <1>4 DEF ReplayInv

(* Another client's change.                                                *)
LEMMA OtherClientKeeps ==
  ASSUME ReplayInv, OtherClient, MovesWhileFetching = FALSE
  PROVE  ReplayInv'
<1>0. /\ ServerTyped /\ ClientTyped /\ Mirrored /\ Predicted /\ UNCHANGED client /\ faults' = faults
      /\ log \in Seq(Entries)
  BY DEF ReplayInv, OtherClient, ServerTyped
<1>1. ASSUME NEW ch \in Entries, log' = Append(log, ch)
      PROVE  ClientTyped'
  <2>1. Len(log') = Len(log) + 1
    BY <1>0, <1>1, AppendProperties
  <2>2. cursor' \in 0..Len(log')
    BY <1>0, <2>1 DEF ClientTyped, client
  <2> QED
    BY <1>0, <2>2 DEF ClientTyped, client, Fetching
<1>2. CASE FileChange \/ DirChange
  <2>1. ServerTyped' /\ \E ch \in Entries : log' = Append(log, ch) /\ Evolves(tree, tree', ch)
    BY <1>0, <1>2, EachFileChange, EachDirChange
  <2>2. PICK ch \in Entries : log' = Append(log, ch) /\ Evolves(tree, tree', ch)
    BY <2>1
  <2>3. Mirrored' /\ Predicted'
    BY <1>0, <2>2, EvolvesMirrored, EvolvesPredicted
  <2> QED
    BY <1>1, <2>1, <2>2, <2>3 DEF ReplayInv
<1>3. ASSUME NEW d \in DirPaths, NEW e \in DirPaths, MoveDir(d, e), ~MovesWhatIsFetched(d)
      PROVE  ReplayInv'
  <2>1. ServerTyped' /\ \E ch \in Entries : log' = Append(log, ch) /\ Moves(tree, tree', ch, d, e)
    BY <1>0, <1>3, EachMove
  <2>2. PICK ch \in Entries : log' = Append(log, ch) /\ Moves(tree, tree', ch, d, e)
    BY <2>1
  <2>3. Mirrored'
    BY <1>0, <1>3, <2>2, MovesMirrored
  <2>4. Predicted'
    BY <1>0, <1>3 DEF Predicted, Fetching, MovesWhatIsFetched, client
  <2> QED
    BY <1>1, <2>1, <2>2, <2>3, <2>4 DEF ReplayInv
<1> QED
  BY <1>2, <1>3 DEF OtherClient

-----------------------------------------------------------------------------
(* The theorems. *)

(* The first state: no bootstrap runs.                                     *)
LEMMA ReplayInvInit == Init => ReplayInv
<1> SUFFICES ASSUME Init
             PROVE  ReplayInv
  OBVIOUS
<1>1. ServerTyped /\ log = <<>>
  BY ServerTypedInit DEF Init, ServerInit
<1>2. NoFiles \in Map /\ Paths(NoFiles) = {}
  <2>1. NoFiles \in [{} -> Int]
    BY DEF NoFiles
  <2> QED
    BY <2>1, MapFrom
<1>3. ClientTyped
  <2>1. todo \in Seq({Root} \cup DirPaths) /\ Len(log) = 0
    BY <1>1, EmptySeq DEF Init
  <2> QED
    BY <1>2, <2>1, BoundsAssumption DEF Init, ClientTyped, Fetching
<1> QED
  BY <1>1, <1>3 DEF Init, ReplayInv, Mirrored, Predicted, Active

(* Every step keeps the replay invariant.                                  *)
LEMMA ReplayInvStep ==
  ASSUME ReplayInv, [Next]_vars, MovesWhileFetching = FALSE
  PROVE  ReplayInv'
<1>1. CASE OtherClient
  BY <1>1, OtherClientKeeps
<1>2. CASE Pin
  BY <1>2, PinKeeps
<1>3. CASE Fetch
  BY <1>3, FetchKeeps
<1>4. CASE Poll
  BY <1>4, PollKeeps
<1>5. CASE GiveUp
  BY <1>5, FailKeeps DEF GiveUp, ReplayInv, ClientTyped
<1>6. CASE RequestFails
  <2>1. faults' \in 0..MaxFaults
    BY <1>6, BoundsAssumption DEF RequestFails, ReplayInv, ClientTyped
  <2> QED
    BY <1>6, <2>1, FailKeeps DEF RequestFails
<1>7. CASE UNCHANGED vars
  <2>1. /\ tree' = tree /\ log' = log /\ trash' = trash /\ pc' = pc /\ cursor' = cursor
        /\ files' = files /\ dirs' = dirs /\ todo' = todo /\ rounds' = rounds /\ faults' = faults
    BY <1>7 DEF vars, server, client
  <2>2. ServerTyped' /\ ClientTyped'
    BY <2>1 DEF ReplayInv, ServerTyped, TreeOK, Restorable, ClientTyped, Fetching
  <2>3. Since(cursor)' = Since(cursor)
    BY <2>1 DEF Since
  <2>4. Queue' = Queue
    BY <2>3 DEF Queue
  <2>5. \A m : Replayed(m)' = Replayed(m)
    BY <2>3 DEF Replayed
  <2>6. \A D : ReplayedDirs(D)' = ReplayedDirs(D)
    BY <2>3 DEF ReplayedDirs
  <2>7. Mirrored' /\ Predicted'
    BY <2>1, <2>3, <2>4, <2>5, <2>6 DEF ReplayInv, Mirrored, Predicted, Active, Fetching,
       FileMirrored, DirMirrored, FilePredicted, DirPredicted, Waiting, Replayed, ReplayedDirs
  <2> QED
    BY <2>2, <2>7 DEF ReplayInv
<1> QED
  BY <1>1, <1>2, <1>3, <1>4, <1>5, <1>6, <1>7 DEF Next, Step

(* The replay invariant has the types.                                     *)
LEMMA ReplayInvTypes == ReplayInv => TypeOK
<1> SUFFICES ASSUME ReplayInv
             PROVE  TypeOK
  OBVIOUS
<1>1. ServerTyped /\ ClientTyped
  BY DEF ReplayInv
<1>2. ServerOK
  <2>1. /\ tree \in [dirs : SUBSET DirPaths, files : Map] /\ Paths(tree.files) \subseteq FilePaths
        /\ WellFormed(tree)
    BY <1>1 DEF ServerTyped, TreeOK
  <2>2. trash = EmptyTrash \/ trash.top \in trash.sub.dirs
    BY <1>1 DEF ServerTyped, Restorable
  <2> QED
    BY <2>1, <2>2 DEF ServerOK
<1> QED
  BY <1>1, <1>2 DEF ClientTyped, TypeOK

(* In every state the replay of the changes since the cursor brings the    *)
(* map that is being built to the server's tree, but for what is yet to be *)
(* fetched (bootstrap.go, fetchRemoteMapWithListing and                    *)
(* replayUntilConvergedWithDirs).                                          *)
THEOREM Inductive ==
  ASSUME MovesWhileFetching = FALSE
  PROVE  Spec => []ReplayInv
<1>1. ReplayInv /\ [Next]_vars => ReplayInv'
  BY ReplayInvStep
<1> QED
  BY ReplayInvInit, <1>1, PTL DEF Spec

(* Every variable of a bootstrap has its type, whatever other clients do   *)
(* meanwhile; nothing is queued when no bootstrap runs.                    *)
THEOREM TypeCorrect ==
  ASSUME MovesWhileFetching = FALSE
  PROVE  Spec => []TypeOK
BY Inductive, ReplayInvTypes, PTL

(* A poll that brings no change finds the map and the directories equal to *)
(* the server's.                                                           *)
LEMMA ConvergedIsTree ==
  ASSUME ReplayInv, Poll, Since(cursor) = <<>>
  PROVE  files' = tree.files /\ dirs' = tree.dirs /\ pc' = "done" /\ cursor' = Len(log)
<1>0. /\ todo = <<>> /\ ToSet(todo) = {} /\ files \in Map /\ dirs \in SUBSET Names
      /\ tree \in [dirs : SUBSET DirPaths, files : Map] /\ Active
      /\ \A p \in Names : FileMirrored(p) /\ DirMirrored(p)
  BY PathsAreNames DEF ReplayInv, Poll, Active, Fetching, ToSet, ServerTyped, ClientTyped,
     TreeOK, Mirrored
<1>1. Replayed(files) = files /\ ReplayedDirs(dirs) = dirs /\ Queue = <<>> /\ ToSet(Queue) = {}
  BY <1>0, NothingReplayed DEF Replayed, ReplayedDirs, Queue, ToSet
<1>2. files' = Replayed(files) /\ dirs' = ReplayedDirs(dirs)
  BY DEF Poll, Replayed, ReplayedDirs, AfterAll, DirsAfterAll
<1>3. \A p \in Names : Same(files, tree.files, p) /\ (p \in dirs <=> p \in tree.dirs)
  BY <1>0, <1>1 DEF FileMirrored, DirMirrored, Waiting
<1>4. files = tree.files
  BY <1>0, <1>3, MapEqual
<1>5. dirs = tree.dirs
  BY <1>0, <1>3, PathsAreNames
<1>6. pc' = "done" /\ cursor' = Len(log)
  BY DEF Poll
<1> QED
  BY <1>1, <1>2, <1>4, <1>5, <1>6

(* Every step of the bootstrap is a step of the atomic snapshot.           *)
LEMMA StepIsAtomic ==
  ASSUME ReplayInv, [Next]_vars
  PROVE  [Atomic!Next]_<<tree, log, pc = "done", Result>>
<1>1. CASE OtherClient \/ UNCHANGED vars
  BY <1>1 DEF OtherClient, vars, client, Result, Atomic!Evolve, Atomic!Next
<1>2. CASE Pin
  <2>1. pc' # "done" /\ tree' = tree /\ log' = log
    BY <1>2 DEF Pin, server
  <2>2. CASE pc = "done"
    BY <2>1, <2>2 DEF Atomic!Drop, Atomic!Next
  <2>3. CASE pc # "done"
    BY <2>1, <2>3 DEF Result, Atomic!Evolve, Atomic!Next
  <2> QED
    BY <2>2, <2>3
<1>3. CASE (Fetch \/ GiveUp \/ RequestFails) \/ (Poll /\ Since(cursor) # <<>>)
  <2>1. pc # "done"
    BY <1>3 DEF ReplayInv, ClientTyped, Fetch, Fetching, GiveUp, RequestFails, Poll
  <2>2. pc' # "done"
    BY <1>3, <2>1 DEF Fetch, Listed, GiveUp, RequestFails, Fail, Poll
  <2> QED
    BY <2>1, <2>2 DEF Result, Atomic!Evolve, Atomic!Next
<1>4. CASE Poll /\ Since(cursor) = <<>>
  <2>1. pc # "done" /\ tree' = tree /\ log' = log
    BY <1>4 DEF Poll, server
  <2>2. files' = tree.files /\ dirs' = tree.dirs /\ pc' = "done" /\ cursor' = Len(log)
    BY <1>4, ConvergedIsTree
  <2>3. Result' = [dirs |-> tree.dirs, files |-> tree.files, cursor |-> Len(log)]
    BY <2>2 DEF Result
  <2> QED
    BY <2>1, <2>2, <2>3 DEF Atomic!Take, Atomic!Next
<1> QED
  BY <1>1, <1>2, <1>3, <1>4 DEF Next, Step

(* Pinned cursor, listing and replay together are one atomic snapshot      *)
(* (docs/overview.md, "Large subtree (>100k) blowing up snapshot"): the    *)
(* map a bootstrap hands out is the server's tree at one moment.           *)
THEOREM SnapshotIsAtomic ==
  ASSUME MovesWhileFetching = FALSE
  PROVE  Spec => TakesAtomicSnapshot
<1>1. Init => Atomic!Init
  BY DEF Init, Atomic!Init
<1>2. ReplayInv /\ [Next]_vars => [Atomic!Next]_<<tree, log, pc = "done", Result>>
  BY StepIsAtomic
<1> QED
  BY Inductive, <1>1, <1>2, PTL DEF Spec, TakesAtomicSnapshot, Atomic!Spec
=============================================================================
