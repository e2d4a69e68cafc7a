-------------------------- MODULE StateStoreProofs --------------------------
(***************************************************************************)
(* Proofs about StateStore, for any number of paths, scopes and sequence   *)
(* numbers: its type invariant, that the dirty tracking is exact, that     *)
(* token scopes never mix, and that the store implements ArchiveStore.     *)
(***************************************************************************)
EXTENDS StateStore, TLAPS

(* The empty database is an image, and the empty memory is typed.          *)
LEMMA ConstantImages ==
  /\ NoFiles \in [Paths -> Rows \cup {NoRow}]
  /\ NoSkips \in [SkipKeys -> Nat]
  /\ EmptyDB \in Images
BY DEF EmptyDB, Images, NoFiles, NoSkips

(* The type invariant.                                                     *)
LEMMA InitType == Init => TypeOK
<1> SUFFICES ASSUME Init PROVE TypeOK
  OBVIOUS
<1> USE ConstantImages DEF Init
<1>1. phase \in {"none"} /\ identity \in {NoIdentity}
  OBVIOUS
<1>2. clearAll \in BOOLEAN /\ skipDirty \in BOOLEAN
  OBVIOUS
<1>3. pruneBelow \in Nat
  OBVIOUS
<1>4. pushed \subseteq Seqs /\ dirty \subseteq Paths /\ addSeqs \subseteq Seqs
  OBVIOUS
<1>5. files \in [Paths -> Rows \cup {NoRow}] /\ skipped \in [SkipKeys -> Nat] /\ db \in Images
  OBVIOUS
<1> QED
  BY <1>1, <1>2, <1>3, <1>4, <1>5 DEF TypeOK

(* Every step keeps the type invariant.                                    *)
LEMMA NextType == TypeOK /\ [Next]_vars => TypeOK'
<1> SUFFICES ASSUME TypeOK, [Next]_vars PROVE TypeOK'
  OBVIOUS
<1> USE ConstantImages DEF TypeOK
<1>1. ASSUME NEW id \in Identities, LoadState(id) PROVE TypeOK'
  BY <1>1 DEF LoadState, Untracked, Images
<1>2. ASSUME NEW id \in Identities, LoadOtherIdentity(id) PROVE TypeOK'
  BY <1>2 DEF LoadOtherIdentity, Untracked
<1>3. ASSUME NEW id \in Identities, LoadCorrupt(id) PROVE TypeOK'
  BY <1>3 DEF LoadCorrupt, Untracked
<1>4. CASE LoadFails
  BY <1>4 DEF LoadFails, Forget, Untracked
<1>5. ASSUME NEW p \in Paths, NEW v \in Versions, RecordFile(p, v)
      PROVE  TypeOK'
  BY <1>5 DEF RecordFile, Rows
<1>6. ASSUME NEW p \in Paths, DeleteFile(p) PROVE TypeOK'
  BY <1>6 DEF DeleteFile
<1>7. ASSUME NEW p \in Paths, NEW q \in Paths, MoveFile(p, q) PROVE TypeOK'
  BY <1>7 DEF MoveFile
<1>8. ASSUME NEW d \in Dirs, DeletePrefix(d) PROVE TypeOK'
  BY <1>8, UnderAssumption DEF DeletePrefix, Present
<1>9. CASE ClearFiles
  BY <1>9 DEF ClearFiles
<1>10. ASSUME NEW c \in Cursors, SetCursor(c) PROVE TypeOK'
  BY <1>10 DEF SetCursor, tracking
<1>11. ASSUME NEW s \in Seqs, AddPushedSeq(s) PROVE TypeOK'
  BY <1>11 DEF AddPushedSeq
<1>12. ASSUME NEW s \in Seqs, PrunePushedSeqs(s) PROVE TypeOK'
  <2>1. s \in Nat
    BY BoundsAssumption DEF Seqs
  <2>2. pushed' \subseteq Seqs /\ addSeqs' \subseteq Seqs
    BY <1>12 DEF PrunePushedSeqs, AtLeast
  <2> QED
    BY <1>12, <2>1, <2>2 DEF PrunePushedSeqs
<1>13. ASSUME NEW events \in SUBSET SkipKeys, RecordSkippedRevisions(events)
       PROVE  TypeOK'
  BY <1>13 DEF RecordSkippedRevisions
<1>14. CASE Save
  <2>1. FlushedFiles \in [Paths -> Rows \cup {NoRow}]
    BY DEF FlushedFiles, Images
  <2>2. FlushedSeqs \subseteq Seqs /\ FlushedSkips \in [SkipKeys -> Nat]
    BY DEF FlushedSeqs, FlushedSkips, AtLeast, Images
  <2>3. Flushed \in Images
    BY <1>14, <2>1, <2>2 DEF Flushed, Images, Save
  <2> QED
    BY <1>14, <2>3 DEF Save, memory, Untracked
<1>15. CASE Close
  BY <1>15 DEF Close, memory, tracking
<1>16. CASE Crash
  BY <1>16 DEF Crash, Forget, Untracked
<1>17. CASE UNCHANGED vars
  BY <1>17 DEF vars, memory, tracking
<1> QED
  BY <1>1, <1>2, <1>3, <1>4, <1>5, <1>6, <1>7, <1>8, <1>9, <1>10, <1>11, <1>12,
     <1>13, <1>14, <1>15, <1>16, <1>17
     DEF Next, Load, MutateFiles, SaveFails

(* Every value a State or its database ever holds has its type: a row of   *)
(* the archive is a row or absent, sequence numbers are the server's.      *)
THEOREM TypeCorrect == Spec => []TypeOK
BY InitType, NextType, PTL DEF Spec
-----------------------------------------------------------------------------
(* The inductive form of SaveWritesMemory: row by row, what the tracking   *)
(* variables promise.  A row nobody marked dirty equals the database's, or *)
(* is absent once the table is to be cleared; and nothing waiting to be    *)
(* inserted is about to be pruned, so the order of the two statements of   *)
(* flush does not matter.                                                  *)
RowsExact == \A p \in Paths \ dirty :
               files[p] = IF clearAll THEN NoRow ELSE db.files[p]
SeqsExact == pushed = AtLeast(db.pushed \cup addSeqs, pruneBelow)
SkipsExact == skipDirty \/ skipped = db.skipped

TrackingExact == phase # "none" => RowsExact /\ SeqsExact /\ SkipsExact

(* A database nobody has saved to is empty: any scope may adopt it.        *)
FreshIsEmpty == db.identity = NoIdentity => db = EmptyDB

IInv == TypeOK /\ TrackingExact /\ FreshIsEmpty

(* Pruning below zero removes nothing.                                     *)
LEMMA AtLeastAll ==
  ASSUME NEW S \in SUBSET Seqs PROVE AtLeast(S, 0) = S
<1>1. \A s \in Seqs : s >= 0
  BY BoundsAssumption DEF Seqs
<1> QED
  BY <1>1 DEF AtLeast

(* Of two prunings the higher one counts.                                  *)
LEMMA AtLeastTwice ==
  ASSUME NEW S \in SUBSET Seqs, NEW m \in Nat, NEW n \in Nat, n >= m
  PROVE  AtLeast(AtLeast(S, m), n) = AtLeast(S, n)
<1> SUFFICES ASSUME NEW s \in S, s >= n PROVE s >= m
  BY DEF AtLeast
<1> QED
  BY BoundsAssumption DEF Seqs

(* While the tracking is exact, the transaction of Save leaves on disk     *)
(* exactly what memory holds.                                              *)
LEMMA FlushIsMemory ==
  ASSUME TypeOK, TrackingExact, phase # "none"
  PROVE  FlushedFiles = files /\ FlushedSeqs = pushed /\ FlushedSkips = skipped
<1>1. FlushedFiles = files
  <2>1. ASSUME NEW p \in Paths
        PROVE  files[p] = IF p \in dirty THEN files[p]
                          ELSE (IF clearAll THEN NoFiles ELSE db.files)[p]
    BY DEF TrackingExact, RowsExact, NoFiles
  <2> QED
    BY <2>1 DEF FlushedFiles, TypeOK
<1>2. FlushedSeqs = pushed
  BY DEF TrackingExact, SeqsExact, FlushedSeqs
<1>3. FlushedSkips = skipped
  BY DEF TrackingExact, SkipsExact, FlushedSkips
<1> QED
  BY <1>1, <1>2, <1>3

(* The inductive invariant holds at the start.                             *)
LEMMA InitIInv == Init => IInv
BY InitType DEF Init, IInv, TrackingExact, FreshIsEmpty

(* A database without an identity stays empty.                             *)
LEMMA NextFresh == TypeOK /\ FreshIsEmpty /\ [Next]_vars => FreshIsEmpty'
<1> SUFFICES ASSUME TypeOK, FreshIsEmpty, [Next]_vars PROVE FreshIsEmpty'
  OBVIOUS
<1>1. CASE Save
  <2>1. db'.identity = identity /\ identity \in Identities
    BY <1>1 DEF Save, Flushed, TypeOK
  <2> QED
    BY <2>1, IdentityAssumption DEF FreshIsEmpty
<1>2. CASE db' \in {db, EmptyDB}
  BY <1>2 DEF FreshIsEmpty
<1>3. Save \/ db' \in {db, EmptyDB}
  BY DEF Next, vars, Load, LoadState, LoadOtherIdentity, LoadCorrupt, LoadFails,
     MutateFiles, RecordFile, DeleteFile, MoveFile, DeletePrefix, ClearFiles,
     SetCursor, AddPushedSeq, PrunePushedSeqs, RecordSkippedRevisions,
     SaveFails, Close, Crash
<1> QED
  BY <1>1, <1>2, <1>3

(* Every step keeps the tracking exact.  The steps that leave no store     *)
(* object need nothing; Load and Save make it exact anew; a mutator        *)
(* disturbs one of the three parts.                                        *)
LEMMA NextTracking ==
  TypeOK /\ TrackingExact /\ [Next]_vars => TrackingExact'
<1> SUFFICES ASSUME TypeOK, TrackingExact, [Next]_vars PROVE TrackingExact'
  OBVIOUS
<1> USE DEF TrackingExact
<1>0. /\ db.pushed \subseteq Seqs /\ EmptyDB.pushed \subseteq Seqs
      /\ EmptyDB.files = NoFiles /\ EmptyDB.skipped = NoSkips
      /\ EmptyDB.pushed = {}
  BY DEF TypeOK, Images, EmptyDB
<1>1. ASSUME NEW id \in Identities, LoadState(id) PROVE TrackingExact'
  BY <1>0, <1>1, AtLeastAll
     DEF LoadState, Untracked, RowsExact, SeqsExact, SkipsExact
<1>2. ASSUME NEW id \in Identities, LoadOtherIdentity(id) \/ LoadCorrupt(id)
      PROVE  TrackingExact'
  BY <1>0, <1>2, AtLeastAll DEF LoadOtherIdentity, LoadCorrupt, Untracked,
     RowsExact, SeqsExact, SkipsExact
<1>3. CASE LoadFails \/ Crash
  BY <1>3 DEF LoadFails, Crash
<1>4. ASSUME phase # "none", UNCHANGED <<phase, db, clearAll>>,
             UNCHANGED <<pushed, addSeqs, pruneBelow, skipped, skipDirty>>,
             dirty \subseteq dirty',
             \A p \in Paths \ dirty' : files'[p] = files[p]
      PROVE  TrackingExact'
  BY <1>4 DEF RowsExact, SeqsExact, SkipsExact
<1>5. ASSUME NEW p \in Paths, NEW v \in Versions, RecordFile(p, v)
      PROVE  TrackingExact'
  BY <1>4, <1>5 DEF RecordFile, TypeOK
<1>6. ASSUME NEW p \in Paths, DeleteFile(p) PROVE TrackingExact'
  BY <1>4, <1>6 DEF DeleteFile, TypeOK
<1>7. ASSUME NEW p \in Paths, NEW q \in Paths, MoveFile(p, q)
      PROVE  TrackingExact'
  BY <1>4, <1>7 DEF MoveFile, TypeOK
<1>8. ASSUME NEW d \in Dirs, DeletePrefix(d) PROVE TrackingExact'
  <2>1. \A p \in Paths \ dirty' : files'[p] = files[p]
    BY <1>8, UnderAssumption DEF DeletePrefix, Present, TypeOK
  <2> QED
    BY <1>4, <1>8, <2>1 DEF DeletePrefix
<1>9. CASE ClearFiles
  BY <1>9 DEF ClearFiles, RowsExact, SeqsExact, SkipsExact, NoFiles
<1>10. ASSUME NEW c \in Cursors, SetCursor(c) PROVE TrackingExact'
  BY <1>4, <1>10 DEF SetCursor, tracking
<1>11. ASSUME NEW s \in Seqs, AddPushedSeq(s) PROVE TrackingExact'
  <2>1. SeqsExact'
    BY <1>11 DEF AddPushedSeq, SeqsExact, AtLeast
  <2> QED
    BY <1>11, <2>1 DEF AddPushedSeq, RowsExact, SkipsExact
<1>12. ASSUME NEW s \in Seqs, PrunePushedSeqs(s) PROVE TrackingExact'
  <2>1. \A t \in Seqs : t >= s => t >= pruneBelow
    BY <1>12, BoundsAssumption DEF PrunePushedSeqs, Seqs, TypeOK
  <2>2. SeqsExact'
    BY <1>0, <1>12, <2>1 DEF PrunePushedSeqs, SeqsExact, AtLeast, TypeOK
  <2> QED
    BY <1>12, <2>2 DEF PrunePushedSeqs, RowsExact, SkipsExact
<1>13. ASSUME NEW events \in SUBSET SkipKeys, RecordSkippedRevisions(events)
       PROVE  TrackingExact'
  BY <1>13 DEF RecordSkippedRevisions, RowsExact, SeqsExact, SkipsExact
<1>14. CASE Save
  <2>1. /\ db'.files = files /\ db'.pushed = pushed /\ db'.skipped = skipped
        /\ phase' = phase /\ phase # "none"
    BY <1>14, FlushIsMemory DEF Save, Flushed
  <2> QED
    BY <1>14, <2>1, AtLeastAll
       DEF Save, Untracked, memory, RowsExact, SeqsExact, SkipsExact, TypeOK
<1>15. CASE Close \/ UNCHANGED vars
  BY <1>15 DEF Close, vars, memory, tracking, RowsExact, SeqsExact, SkipsExact
<1> QED
  BY <1>1, <1>2, <1>3, <1>5, <1>6, <1>7, <1>8, <1>9, <1>10, <1>11, <1>12, <1>13,
     <1>14, <1>15
     DEF Next, Load, MutateFiles, SaveFails

(* The inductive invariant always holds.                                   *)
THEOREM Inductive == Spec => []IInv
<1>1. IInv /\ [Next]_vars => IInv'
  BY NextType, NextTracking, NextFresh DEF IInv
<1> QED
  BY InitIInv, <1>1, PTL DEF Spec

(* At every moment, in every order of calls, failed saves and restarts, a  *)
(* Save would write exactly what memory holds (State.Save, flush).         *)
THEOREM SaveWritesMemoryAlways == Spec => []SaveWritesMemory
<1>1. IInv => SaveWritesMemory
  BY FlushIsMemory DEF IInv, SaveWritesMemory
<1> QED
  BY Inductive, <1>1, PTL
-----------------------------------------------------------------------------
(* Token scopes never mix.                                                 *)
LEMMA NextScope ==
  TypeOK /\ TrackingExact /\ FreshIsEmpty /\ ScopeIsolation /\ [Next]_vars
    => ScopeIsolation'
<1> SUFFICES ASSUME TypeOK, TrackingExact, FreshIsEmpty, ScopeIsolation,
                    [Next]_vars
             PROVE  ScopeIsolation'
  OBVIOUS
<1>0. /\ \A p \in Paths : EmptyDB.files[p] = NoRow
      /\ EmptyDB.cursor = NoCursor
      /\ \A p \in Paths : NoFiles[p] = NoRow
  BY DEF EmptyDB, NoFiles
<1>1. ASSUME NEW id \in Identities, LoadState(id) PROVE ScopeIsolation'
  <2>1. CASE db.identity = id
    BY <1>1, <2>1 DEF LoadState, ScopeIsolation
  <2>2. CASE db.identity = NoIdentity
    <3>1. db = EmptyDB
      BY <2>2 DEF FreshIsEmpty
    <3> QED
      BY <1>0, <1>1, <3>1 DEF LoadState, ScopeIsolation
  <2> QED
    BY <1>1, <2>1, <2>2 DEF LoadState
<1>2. ASSUME NEW id \in Identities, LoadOtherIdentity(id) \/ LoadCorrupt(id)
      PROVE  ScopeIsolation'
  BY <1>0, <1>2 DEF LoadOtherIdentity, LoadCorrupt, ScopeIsolation
<1>3. CASE LoadFails \/ Crash
  BY <1>0, <1>3 DEF LoadFails, Crash, Forget, ScopeIsolation
<1>4. ASSUME NEW p \in Paths, NEW v \in Versions, RecordFile(p, v)
      PROVE  ScopeIsolation'
  BY <1>4 DEF RecordFile, ScopeIsolation, TypeOK
<1>5. ASSUME NEW p \in Paths, DeleteFile(p) PROVE ScopeIsolation'
  BY <1>5 DEF DeleteFile, ScopeIsolation, TypeOK
<1>6. ASSUME NEW p \in Paths, NEW q \in Paths, MoveFile(p, q)
      PROVE  ScopeIsolation'
  BY <1>6 DEF MoveFile, ScopeIsolation, TypeOK
<1>7. ASSUME NEW d \in Dirs, DeletePrefix(d) PROVE ScopeIsolation'
  BY <1>7 DEF DeletePrefix, ScopeIsolation, TypeOK
<1>8. CASE ClearFiles
  BY <1>0, <1>8 DEF ClearFiles, ScopeIsolation
<1>9. ASSUME NEW c \in Cursors, SetCursor(c) PROVE ScopeIsolation'
  BY <1>9 DEF SetCursor, ScopeIsolation
<1>10. CASE Save
  <2>1. /\ db'.files = files /\ db'.cursor = cursor /\ db'.identity = identity
        /\ UNCHANGED memory
    BY <1>10, FlushIsMemory DEF Save, Flushed
  <2> QED
    BY <2>1 DEF ScopeIsolation, memory
<1>11. CASE UNCHANGED <<files, cursor, identity, db>>
  BY <1>11 DEF ScopeIsolation
<1>12. ASSUME NEW s \in Seqs, AddPushedSeq(s) \/ PrunePushedSeqs(s)
       PROVE  ScopeIsolation'
  BY <1>11, <1>12 DEF AddPushedSeq, PrunePushedSeqs
<1>13. ASSUME NEW events \in SUBSET SkipKeys, RecordSkippedRevisions(events)
       PROVE  ScopeIsolation'
  BY <1>11, <1>13 DEF RecordSkippedRevisions
<1>14. CASE Close \/ UNCHANGED vars
  BY <1>11, <1>14 DEF Close, vars, memory
<1> QED
  BY <1>1, <1>2, <1>3, <1>4, <1>5, <1>6, <1>7, <1>8, <1>9, <1>10, <1>12, <1>13,
     <1>14
     DEF Next, Load, MutateFiles, SaveFails

(* Rows and cursors of one (endpoint, user, token) are never used or saved *)
(* under another, however often the token of a directory changes and       *)
(* whatever was or was not saved in between (openAndLoad).                 *)
THEOREM ScopesNeverMix == Spec => []ScopeIsolation
<1>1. Init => ScopeIsolation
  BY DEF Init, ScopeIsolation, EmptyDB, NoFiles
<1>2. IInv /\ ScopeIsolation /\ [Next]_vars => ScopeIsolation'
  BY NextScope DEF IInv
<1> QED
  BY Inductive, <1>1, <1>2, PTL DEF Spec
-----------------------------------------------------------------------------
(* Refinement.                                                             *)

(* The memory of a typed store is an image.                                *)
LEMMA MemoryType == TypeOK => MemoryImage \in Images
BY DEF TypeOK, MemoryImage, Images

(* Every step of the store is a step of ArchiveStore or a stutter.         *)
LEMMA StepImplements ==
  TypeOK /\ TypeOK' /\ TrackingExact /\ [Next]_vars
    => [Abstract!Next]_(Abstract!vars)
<1> SUFFICES ASSUME TypeOK, TypeOK', TrackingExact, [Next]_vars
             PROVE  [Abstract!Next]_(Abstract!vars)
  OBVIOUS
<1>0. EmptyDB = [files |-> NoFiles, cursor |-> NoCursor, pushed |-> {},
                 skipped |-> NoSkips, identity |-> NoIdentity]
  BY DEF EmptyDB
<1>1. ASSUME NEW id \in Identities, LoadState(id) PROVE Abstract!Open(id)
  <2>1. MemoryImage' = [db EXCEPT !.identity = id]
    BY <1>1 DEF LoadState, MemoryImage, TypeOK, Images
  <2> QED
    BY <1>1, <2>1 DEF LoadState, Abstract!Open
<1>2. ASSUME NEW id \in Identities, LoadOtherIdentity(id) \/ LoadCorrupt(id)
      PROVE  Abstract!Open(id)
  <2>1. MemoryImage' = [EmptyDB EXCEPT !.identity = id]
    BY <1>0, <1>2 DEF LoadOtherIdentity, LoadCorrupt, MemoryImage
  <2> QED
    BY <1>2, <2>1 DEF LoadOtherIdentity, LoadCorrupt, Abstract!Open
<1>3. CASE LoadFails
  BY <1>0, <1>3 DEF LoadFails, Forget, MemoryImage, Abstract!OpenFails,
     Abstract!Next
<1>4. CASE phase # "none" /\ UNCHANGED <<phase, identity, db>>
  <2>1. MemoryImage' \in Images /\ MemoryImage'.identity = MemoryImage.identity
    BY <1>4 DEF MemoryImage, TypeOK, Images
  <2> QED
    BY <1>4, <2>1 DEF Abstract!Next, Abstract!Mutate
<1>5. CASE Save
  <2>1. db' = MemoryImage
    BY <1>5, FlushIsMemory DEF Save, Flushed, MemoryImage
  <2> QED
    BY <1>5, <2>1 DEF Save, memory, MemoryImage, Abstract!Next, Abstract!Commit
<1>6. CASE Close
  BY <1>6 DEF Close, memory, MemoryImage, Abstract!Next, Abstract!Close
<1>7. CASE Crash
  BY <1>0, <1>7 DEF Crash, Forget, MemoryImage, Abstract!Next, Abstract!Crash
<1>8. CASE UNCHANGED vars
  BY <1>8 DEF vars, memory, MemoryImage, Abstract!vars
<1>9. ASSUME \/ MutateFiles \/ ClearFiles
             \/ \E d \in Dirs : DeletePrefix(d)
             \/ \E c \in Cursors : SetCursor(c)
             \/ \E s \in Seqs : AddPushedSeq(s) \/ PrunePushedSeqs(s)
             \/ \E events \in SUBSET SkipKeys : RecordSkippedRevisions(events)
      PROVE  phase # "none" /\ UNCHANGED <<phase, identity, db>>
  BY <1>9 DEF MutateFiles, RecordFile, DeleteFile, MoveFile, DeletePrefix,
     ClearFiles, SetCursor, AddPushedSeq, PrunePushedSeqs,
     RecordSkippedRevisions
<1> QED
  BY <1>1, <1>2, <1>3, <1>4, <1>5, <1>6, <1>7, <1>8, <1>9
     DEF Next, Load, SaveFails, Abstract!Next

(* A restart finds exactly the image last saved, or nothing: state.go and  *)
(* statedb.go implement the store the engine is written against.           *)
THEOREM Implements == Spec => ImplementsArchiveStore
<1>1. Init => Abstract!Init
  BY DEF Init, Abstract!Init, MemoryImage, EmptyDB
<1>2. IInv /\ IInv' /\ [Next]_vars => [Abstract!Next]_(Abstract!vars)
  BY StepImplements DEF IInv
<1> QED
  BY Inductive, <1>1, <1>2, PTL DEF Spec, ImplementsArchiveStore, Abstract!Spec
=============================================================================
