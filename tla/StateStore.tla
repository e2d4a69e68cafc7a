----------------------------- MODULE StateStore -----------------------------
(***************************************************************************)
(* internal/sync/state.go and statedb.go: the archive, cursor, pushed      *)
(* sequence numbers and skip counters the engine keeps in memory, and the  *)
(* minimal flush that makes them durable.                                  *)
(*                                                                         *)
(* Memory is written through RecordFile, DeleteFile, ...; each remembers   *)
(* only WHAT changed (dirty, clearAll, addSeqs, pruneBelow, skipDirty).    *)
(* Save turns that into one SQLite transaction.  The hazard is that the    *)
(* memory of what changed and the change itself drift apart over a long    *)
(* sequence of calls, failed saves and restarts, so that a later restart   *)
(* resumes from an archive that never existed.                             *)
(*                                                                         *)
(* A path, a directory, a skip key and an identity are model values.  A    *)
(* row and a cursor carry the identity (token scope) they were recorded    *)
(* under.  ReportedCollisions, which only debounces a warning, is left     *)
(* out.                                                                    *)
(***************************************************************************)
EXTENDS Naturals, FiniteSets

CONSTANTS Paths,       \* archive keys
          Dirs,        \* directory prefixes DeletePrefix is called with
          Under,       \* Under[d]: the paths that start with d/
          SkipKeys,    \* SkippedEvent.Key() values
          Identities,  \* non-empty fingerprints
          NoIdentity,  \* the empty fingerprint of a fresh state_meta row
          NoRow,       \* "no archive entry"
          Versions,    \* what distinguishes two rows of one path and scope
          Cursors,     \* change-log positions
          NoCursor,    \* the empty cursor string
          MaxSeq,      \* bound: highest sequence number of the run
          MaxSkips     \* bound: highest skip counter of the run

ASSUME UnderAssumption == Under \in [Dirs -> SUBSET Paths]
ASSUME IdentityAssumption == NoIdentity \notin Identities
ASSUME NoRowAssumption == NoRow \notin Identities \X Versions
ASSUME NoCursorAssumption == NoCursor \notin Identities \X Cursors
ASSUME BoundsAssumption == MaxSeq \in Nat /\ MaxSkips \in Nat

VARIABLES
  \* the State object
  phase,       \* "none", "open" (db # nil), "closed" (after Close)
  files,       \* State.Files
  cursor,      \* State.Cursor
  pushed,      \* State.pushedSeqs
  skipped,     \* State.skippedRevisions: 0 is "not tracked"
  identity,    \* State.identity
  dirty, clearAll, addSeqs, skipDirty,
  pruneBelow,  \* State.pruneBelow; 0 is nil (no sequence number is below it)
  \* the SQLite file
  db           \* [files, cursor, pushed, skipped, identity]

memory == <<files, cursor, pushed, skipped, identity>>
tracking == <<dirty, clearAll, addSeqs, pruneBelow, skipDirty>>
vars == <<phase, memory, tracking, db>>

Rows == Identities \X Versions
Seqs == 1..MaxSeq
NoFiles == [p \in Paths |-> NoRow]
NoSkips == [k \in SkipKeys |-> 0]

EmptyDB == [files |-> NoFiles, cursor |-> NoCursor, pushed |-> {},
            skipped |-> NoSkips, identity |-> NoIdentity]

(* What a database, and the memory of a State, can hold.                  *)
Images == [files : [Paths -> Rows \cup {NoRow}],
           cursor : (Identities \X Cursors) \cup {NoCursor},
           pushed : SUBSET Seqs, skipped : [SkipKeys -> Nat],
           identity : Identities \cup {NoIdentity}]

TypeOK ==
  /\ phase \in {"none", "open", "closed"}
  /\ files \in [Paths -> Rows \cup {NoRow}]
  /\ cursor \in (Identities \X Cursors) \cup {NoCursor}
  /\ pushed \subseteq Seqs
  /\ skipped \in [SkipKeys -> Nat]
  /\ identity \in IF phase = "none" THEN {NoIdentity} ELSE Identities
  /\ dirty \subseteq Paths
  /\ clearAll \in BOOLEAN
  /\ addSeqs \subseteq Seqs
  /\ pruneBelow \in Nat
  /\ skipDirty \in BOOLEAN
  /\ db \in Images

Untracked ==
  /\ dirty' = {} /\ clearAll' = FALSE /\ addSeqs' = {}
  /\ pruneBelow' = 0 /\ skipDirty' = FALSE

Forget ==
  /\ files' = NoFiles /\ cursor' = NoCursor
  /\ pushed' = {} /\ skipped' = NoSkips /\ identity' = NoIdentity
  /\ Untracked

Init ==
  /\ phase = "none"
  /\ files = NoFiles /\ cursor = NoCursor
  /\ pushed = {} /\ skipped = NoSkips /\ identity = NoIdentity
  /\ dirty = {} /\ clearAll = FALSE /\ addSeqs = {}
  /\ pruneBelow = 0 /\ skipDirty = FALSE
  /\ db = EmptyDB

-----------------------------------------------------------------------------
(* LoadState, openAndLoad, quarantineAndReopen.  The lock is free whenever *)
(* no other State object is open (phase # "open").                         *)

(* Mutant: the stored identity is not compared.                            *)
LoadState_AnyIdentity(id) ==
  /\ phase # "open"
  /\ phase' = "open"
  /\ files' = db.files /\ cursor' = db.cursor
  /\ pushed' = db.pushed /\ skipped' = db.skipped /\ identity' = id
  /\ Untracked
  /\ UNCHANGED db

(* Mutant: the identity of a fresh file is not set (state.go:188).         *)
LoadState_KeepsStored(id) ==
  /\ phase # "open"
  /\ db.identity \in {NoIdentity, id}
  /\ phase' = "open"
  /\ files' = db.files /\ cursor' = db.cursor
  /\ pushed' = db.pushed /\ skipped' = db.skipped /\ identity' = db.identity
  /\ Untracked
  /\ UNCHANGED db

(* The file opens, and belongs to id or to nobody.                         *)
LoadState(id) ==
  /\ phase # "open"
  /\ db.identity \in {NoIdentity, id}
  /\ phase' = "open"
  /\ files' = db.files /\ cursor' = db.cursor
  /\ pushed' = db.pushed /\ skipped' = db.skipped /\ identity' = id
  /\ Untracked
  /\ UNCHANGED db

(* Another scope's archive: the file is set aside and an empty one opened. *)
LoadOtherIdentity(id) ==
  /\ phase # "open"
  /\ db.identity \notin {NoIdentity, id}
  /\ phase' = "open"
  /\ db' = EmptyDB
  /\ files' = NoFiles /\ cursor' = NoCursor
  /\ pushed' = {} /\ skipped' = NoSkips /\ identity' = id
  /\ Untracked

(* An unreadable file or another schema version: quarantined before        *)
(* anything of it reaches memory.                                          *)
LoadCorrupt(id) ==
  /\ phase # "open"
  /\ phase' = "open"
  /\ db' = EmptyDB
  /\ files' = NoFiles /\ cursor' = NoCursor
  /\ pushed' = {} /\ skipped' = NoSkips /\ identity' = id
  /\ Untracked

(* LoadState returns an error, before or after it moved the file away; the *)
(* lock is released and the caller has no State.                           *)
LoadFails ==
  /\ phase # "open"
  /\ phase' = "none"
  /\ db' \in {db, EmptyDB}
  /\ Forget

-----------------------------------------------------------------------------
(* Mutators.  None of them looks at the database handle, so they are also  *)
(* enabled after Close.                                                    *)

SetCursor(c) ==
  /\ phase # "none"
  /\ cursor' \in {<<identity, c>>, NoCursor}
  /\ UNCHANGED <<phase, files, pushed, skipped, identity,
                 tracking, db>>

RecordFile(p, v) ==
  /\ phase # "none"
  /\ files' = [files EXCEPT ![p] = <<identity, v>>]
  /\ dirty' = dirty \cup {p}
  /\ UNCHANGED <<phase, cursor, pushed, skipped, identity,
                 clearAll, addSeqs, pruneBelow, skipDirty, db>>

DeleteFile(p) ==
  /\ phase # "none"
  /\ files' = [files EXCEPT ![p] = NoRow]
  /\ dirty' = dirty \cup {p}
  /\ UNCHANGED <<phase, cursor, pushed, skipped, identity,
                 clearAll, addSeqs, pruneBelow, skipDirty, db>>

Present(S) == {p \in S : files[p] # NoRow}

(* Mutant: the rows are dropped from memory only.                          *)
DeletePrefix_NotDirty(d) ==
  /\ phase # "none"
  /\ files' = [p \in Paths |-> IF p \in Under[d] THEN NoRow ELSE files[p]]
  /\ UNCHANGED <<phase, cursor, pushed, skipped, identity,
                 tracking, db>>

DeletePrefix(d) ==
  /\ phase # "none"
  /\ files' = [p \in Paths |-> IF p \in Under[d] THEN NoRow ELSE files[p]]
  /\ dirty' = dirty \cup Present(Under[d])
  /\ UNCHANGED <<phase, cursor, pushed, skipped, identity,
                 clearAll, addSeqs, pruneBelow, skipDirty, db>>

(* Mutant: only the destination is marked.                                 *)
MoveFile_SourceNotDirty(old, new) ==
  /\ phase # "none"
  /\ files[old] # NoRow
  /\ files' = [files EXCEPT ![old] = NoRow, ![new] = files[old]]
  /\ dirty' = dirty \cup {new}
  /\ UNCHANGED <<phase, cursor, pushed, skipped, identity,
                 clearAll, addSeqs, pruneBelow, skipDirty, db>>

MoveFile(old, new) ==
  /\ phase # "none"
  /\ files[old] # NoRow
  /\ files' = [files EXCEPT ![old] = NoRow, ![new] = files[old]]
  /\ dirty' = dirty \cup {old, new}
  /\ UNCHANGED <<phase, cursor, pushed, skipped, identity,
                 clearAll, addSeqs, pruneBelow, skipDirty, db>>

ClearFiles ==
  /\ phase # "none"
  /\ files' = NoFiles
  /\ dirty' = {}
  /\ clearAll' = TRUE
  /\ UNCHANGED <<phase, cursor, pushed, skipped, identity,
                 addSeqs, pruneBelow, skipDirty, db>>

(* The server hands out sequence numbers in order: the seq of a push is    *)
(* never below the first change of a poll already answered, which is what  *)
(* the engine prunes to.                                                   *)
AddPushedSeq(s) ==
  /\ phase # "none"
  /\ s >= pruneBelow
  /\ s \notin pushed
  /\ pushed' = pushed \cup {s}
  /\ addSeqs' = addSeqs \cup {s}
  /\ UNCHANGED <<phase, files, cursor, skipped, identity,
                 dirty, clearAll, pruneBelow, skipDirty, db>>

AtLeast(S, min) == {s \in S : s >= min}

(* Like AddPushedSeq's, the first guard is an assumption on the caller and *)
(* not the code's (pruneBelow is overwritten whatever it was): min is the  *)
(* first sequence number of a poll (runner.go:185), polls start after the  *)
(* cursor, and between two loads the cursor never goes back to an earlier  *)
(* one than a poll has answered (SyncCycle!AdvanceCursor).  With a smaller *)
(* min the next flush would leave rows in the database that the larger one *)
(* had dropped from memory.                                                *)
PrunePushedSeqs(min) ==
  /\ phase # "none"
  /\ min >= pruneBelow
  /\ pushed' = AtLeast(pushed, min)
  /\ addSeqs' = AtLeast(addSeqs, min)
  /\ pruneBelow' = min
  /\ UNCHANGED <<phase, files, cursor, skipped, identity,
                 dirty, clearAll, skipDirty, db>>

(* events is the set of keys this sync skipped: their counters grow, every *)
(* other one is dropped.                                                   *)
RecordSkippedRevisions(events) ==
  LET next == [k \in SkipKeys |-> IF k \in events THEN skipped[k] + 1 ELSE 0]
  IN  /\ phase # "none"
      /\ \A k \in events : skipped[k] < MaxSkips
      /\ skipped' = next
      /\ skipDirty' = (skipDirty \/ next # skipped)
      /\ UNCHANGED <<phase, files, cursor, pushed, identity,
                     dirty, clearAll, addSeqs, pruneBelow, db>>
-----------------------------------------------------------------------------
(* Save.  flush runs its statements in this order in one transaction:      *)
(* meta, DELETE FROM files, deletes, upserts, sequence numbers, prune,     *)
(* skip table.                                                             *)

FlushedFiles ==
  LET base == IF clearAll THEN NoFiles ELSE db.files
  IN  [p \in Paths |-> IF p \in dirty THEN files[p] ELSE base[p]]

FlushedSeqs == AtLeast(db.pushed \cup addSeqs, pruneBelow)

FlushedSkips == IF skipDirty THEN skipped ELSE db.skipped

Flushed == [files |-> FlushedFiles, cursor |-> cursor, pushed |-> FlushedSeqs,
            skipped |-> FlushedSkips, identity |-> identity]

Save ==
  /\ phase = "open"
  /\ db' = Flushed
  /\ Untracked
  /\ UNCHANGED <<phase, memory>>

(* The transaction rolls back, or the store is closed: an error, and all   *)
(* tracking is kept for the next attempt.                                  *)
SaveFails ==
  /\ phase # "none"
  /\ UNCHANGED vars

Close ==
  /\ phase # "none"
  /\ phase' = "closed"
  /\ UNCHANGED <<memory, tracking, db>>

(* The process dies; the operating system releases the lock.               *)
Crash ==
  /\ phase # "none"
  /\ phase' = "none"
  /\ Forget
  /\ UNCHANGED db

Load == \E id \in Identities :
          LoadState(id) \/ LoadOtherIdentity(id) \/ LoadCorrupt(id)

MutateFiles ==
  \E p \in Paths :
    \/ \E v \in Versions : RecordFile(p, v)
    \/ DeleteFile(p)
    \/ \E q \in Paths : MoveFile(p, q)

Next ==
  \/ Load \/ LoadFails
  \/ MutateFiles
  \/ \E d \in Dirs : DeletePrefix(d)
  \/ ClearFiles
  \/ \E c \in Cursors : SetCursor(c)
  \/ \E s \in Seqs : AddPushedSeq(s)
  \/ \E s \in Seqs : PrunePushedSeqs(s)
  \/ \E events \in SUBSET SkipKeys : RecordSkippedRevisions(events)
  \/ Save \/ SaveFails \/ Close \/ Crash

Spec == Init /\ [][Next]_vars
-----------------------------------------------------------------------------
(* Properties *)

(* A Save issued now would leave on disk exactly what is in memory: the    *)
(* dirty set, the clear flag, the added and pruned sequence numbers and    *)
(* the skip flag together describe every difference between the two.       *)
SaveWritesMemory ==
  phase # "none" =>
    /\ FlushedFiles = files
    /\ FlushedSeqs = pushed
    /\ FlushedSkips = skipped

(* No row and no cursor recorded under one token scope is ever used, or    *)
(* saved, under another (LoadState, step 4).                               *)
ScopeIsolation ==
  /\ \A p \in Paths : files[p] # NoRow => files[p][1] = identity
  /\ cursor # NoCursor => cursor[1] = identity
  /\ \A p \in Paths : db.files[p] # NoRow => db.files[p][1] = db.identity
  /\ db.cursor # NoCursor => db.cursor[1] = db.identity

(* The abstract store this one implements.                                 *)
MemoryImage == [files |-> files, cursor |-> cursor, pushed |-> pushed,
                skipped |-> skipped, identity |-> identity]

Abstract == INSTANCE ArchiveStore
              WITH working <- MemoryImage, durable <- db, Empty <- EmptyDB

(* StateStore implements ArchiveStore: every Save is all of memory or      *)
(* nothing, and a restart finds exactly the last image saved.              *)
ImplementsArchiveStore == Abstract!Spec
=============================================================================
