------------------------------ MODULE SyncCycle ------------------------------
(***************************************************************************)
(* One sync root kept in step with one server scope: the cycle of          *)
(* internal/sync/runner.go (walk, poll, compare, execute, save) with the   *)
(* per-plan handlers of executor*.go broken into the steps between which a *)
(* user's edit, another client's write, a failing request or a crash can   *)
(* fall.  File-level events only; directories and file moves are not here. *)
(*                                                                         *)
(* A path is its rank in the order plans are sorted by.  A content stands  *)
(* for its hash; every write creates a new one.  The server is its change  *)
(* log: entry i is one revision, whose sequence number, content version    *)
(* and revision id are all i.                                              *)
(***************************************************************************)
EXTENDS Integers, Sequences, FiniteSets

CONSTANTS
  Paths,          \* a set of naturals
  LargePaths,     \* those above ChunkedUploadThreshold: uploaded without CAS
  MaxUserOps,     \* bound: edits and deletions by the user of this directory
  MaxRemoteOps,   \* bound: changes other clients make on the server
  MaxCrashes,     \* bound: crashes of the process
  MaxFaults,      \* bound: failed requests, lost replies, failed saves
  MaxGone,        \* bound: expired cursors and pruned revisions
  UserDeletes,    \* may the user delete files?
  UserMidCycle,   \* may the user edit while a cycle runs?
  RemoteMidCycle, \* may other clients write while a cycle runs?
  MaxDeletePct    \* SyncOptions.MaxDeletePct; 0 is off

ASSUME PathsAssumption == Paths \subseteq Nat /\ LargePaths \subseteq Paths
ASSUME BoundsAssumption ==
  /\ {MaxUserOps, MaxRemoteOps, MaxCrashes, MaxFaults, MaxGone} \subseteq Nat
  /\ MaxDeletePct \in 0..100
ASSUME FlagsAssumption ==
  {UserDeletes, UserMidCycle, RemoteMidCycle} \subseteq BOOLEAN

Absent == 0         \* content of a file that is not there
NoCursor == -1      \* the empty cursor
NoVersion == 0      \* no content version, no revision id

INSTANCE ThreeWayMerge

VARIABLES
  \* this machine's disk
  local,     \* the synced files: path -> content
  copies,    \* contents of .sync-conflict-* files (never synced)
  saved,     \* what state.db holds: [archive, cursor, pushed]
  \* the server
  log,       \* sequence of [path, content, own]
  pruned,    \* revisions the server no longer serves by id
  \* the process
  archive,   \* State.Files
  cursor,    \* State.Cursor
  pushed,    \* State.pushedSeqs
  pc,        \* "starting", "idle", "polling", "bootstrapping", "executing"
  scan,      \* what Walk saw
  plan,      \* path -> the plan not yet executed
  step,      \* the handler in progress
  target,    \* the cursor this cycle advances to
  pruneTo,   \* first sequence number of the poll, 0 if it was empty
  failed,    \* did some plan end in an error?
  \* bookkeeping of the run
  troubled,  \* has any plan ended in an error so far?
  wanted,    \* path -> the user's last edit not since deleted by the user
  used       \* how often each bounded event has happened

disk == <<local, copies, saved>>
server == <<log, pruned>>
state == <<archive, cursor, pushed>>
cycle == <<pc, scan, plan, step, target, pruneTo, failed, troubled>>
vars == <<disk, server, state, cycle, wanted, used>>

-----------------------------------------------------------------------------
(* The server. *)

Entries(p) == {i \in DOMAIN log : log[i].path = p}
Latest(S) == IF S = {} THEN NoVersion ELSE CHOOSE i \in S : \A j \in S : j <= i
Tip(p) == Latest(Entries(p))
ContentOf(i) == IF i = NoVersion THEN Absent ELSE log[i].content
TipContent(p) == ContentOf(Tip(p))
Entry(p, c, own) == [path |-> p, content |-> c, own |-> own]

(* The last change of p after the cursor that PollChanges returned and     *)
(* IsPushedSeq did not filter out.                                         *)
Event(p) == Latest({i \in Entries(p) : i > cursor /\ i \notin pushed})
EventKind(i) == IF i = NoVersion THEN "none"
                ELSE IF log[i].content = Absent THEN "delete" ELSE "put"

-----------------------------------------------------------------------------
(* The client's records. *)

NoRow == [hash |-> Absent, cv |-> NoVersion, rev |-> NoVersion]
Row(h, cv, rev) == [hash |-> h, cv |-> cv, rev |-> rev]
HasRow(p) == archive[p] # NoRow

NoPlan == [act |-> "none", rev |-> NoVersion]
Plan(a, rev) == [act |-> a, rev |-> rev]
NoPlans == [p \in Paths |-> NoPlan]
NoStep == [at |-> "none", path |-> 0, pre |-> Absent, got |-> Absent,
           cv |-> NoVersion, rev |-> NoVersion]

Planned == {p \in Paths : plan[p].act # "none"}
(* Plans run one at a time, sorted by path.                                *)
Turn(p) == /\ pc = "executing"
           /\ step = NoStep
           /\ p \in Planned
           /\ \A q \in Planned : p <= q

Spent(what) == used' = [used EXCEPT ![what] = @ + 1]
MayFault == used.faults < MaxFaults

LogEntry == [path : Paths, content : Nat, own : BOOLEAN]
Version == Nat
Rows == [hash : Nat, cv : Version, rev : Version]
Downloading == {"pull_check", "pull_rename", "conflict_compare"}
Steps == [at : {"none", "record", "conflict_push"} \cup Downloading,
          path : Paths \cup {0}, pre : Nat, got : Nat,
          cv : Version, rev : Version]
Counters == [user : Nat, remote : Nat, crashes : Nat, faults : Nat, gone : Nat]

DiskOK ==
  /\ local \in [Paths -> Nat]
  /\ copies \subseteq Nat \ {Absent}
  /\ saved \in [archive : [Paths -> Rows], cursor : Version \cup {NoCursor},
                pushed : SUBSET Nat]
ServerOK == log \in Seq(LogEntry) /\ pruned \subseteq Nat
StateOK ==
  /\ archive \in [Paths -> Rows]
  /\ cursor \in Version \cup {NoCursor}
  /\ pushed \subseteq Nat
StepOK ==
  /\ step \in Steps
  /\ step.at # "none" => step.path \in Paths
  /\ step.at \in Downloading => step.got # Absent
PlanOK == plan \in [Paths -> [act : Actions, rev : Version]]
CycleOK ==
  /\ pc \in {"starting", "idle", "polling", "bootstrapping", "executing"}
  /\ scan \in [Paths -> Nat]
  /\ target \in Version /\ pruneTo \in Version
  /\ failed \in BOOLEAN /\ troubled \in BOOLEAN
BookkeepingOK == wanted \in [Paths -> Nat] /\ used \in Counters

TypeOK == /\ DiskOK /\ ServerOK /\ StateOK
          /\ StepOK /\ PlanOK /\ CycleOK /\ BookkeepingOK

Init ==
  /\ local = [p \in Paths |-> Absent] /\ copies = {}
  /\ archive = [p \in Paths |-> NoRow] /\ cursor = NoCursor /\ pushed = {}
  /\ saved = [archive |-> archive, cursor |-> cursor, pushed |-> pushed]
  /\ log = <<>> /\ pruned = {}
  /\ pc = "starting" /\ scan = local /\ plan = NoPlans /\ step = NoStep
  /\ target = 0 /\ pruneTo = 0 /\ failed = FALSE /\ troubled = FALSE
  /\ wanted = local
  /\ used = [user |-> 0, remote |-> 0, crashes |-> 0, faults |-> 0, gone |-> 0]

-----------------------------------------------------------------------------
(* The environment. *)

Quiet == pc \in {"starting", "idle"}

FreshContent == used.user + used.remote + 1

UserTurn == /\ Quiet \/ UserMidCycle
            /\ used.user < MaxUserOps
            /\ Spent("user")
            /\ UNCHANGED <<copies, saved, server, state, cycle>>

UserWrite(p) ==
  /\ UserTurn
  /\ local' = [local EXCEPT ![p] = FreshContent]
  /\ wanted' = [wanted EXCEPT ![p] = FreshContent]

UserDelete(p) ==
  /\ UserDeletes
  /\ UserTurn
  /\ local[p] # Absent
  /\ local' = [local EXCEPT ![p] = Absent]
  /\ wanted' = [wanted EXCEPT ![p] = Absent]

RemoteTurn == /\ Quiet \/ RemoteMidCycle
              /\ used.remote < MaxRemoteOps
              /\ Spent("remote")
              /\ UNCHANGED <<disk, pruned, state, cycle, wanted>>

RemotePut(p) ==
  /\ RemoteTurn
  /\ log' = Append(log, Entry(p, FreshContent, FALSE))

RemoteDelete(p) ==
  /\ RemoteTurn
  /\ TipContent(p) # Absent
  /\ log' = Append(log, Entry(p, Absent, FALSE))

(* The server may drop any revision that is not the current one.           *)
PruneRevision(i) ==
  /\ used.gone < MaxGone
  /\ Spent("gone")
  /\ i \notin pruned /\ i # Tip(log[i].path)
  /\ pruned' = pruned \cup {i}
  /\ UNCHANGED <<disk, log, state, cycle, wanted>>

-----------------------------------------------------------------------------
(* A cycle: RunIncrementalSync and RunInitialSync up to executePlans. *)

Leave(where) == /\ pc' = where
                /\ plan' = NoPlans /\ step' = NoStep /\ failed' = FALSE
                /\ target' = 0 /\ pruneTo' = 0
                /\ UNCHANGED troubled
Abandon == Leave("idle")

(* Walk.  The caller picks the initial sync when there is no cursor; that  *)
(* one clears the archive first.                                           *)
Walk ==
  /\ Quiet
  /\ scan' = local
  /\ IF cursor = NoCursor
     THEN pc' = "bootstrapping" /\ archive' = [p \in Paths |-> NoRow]
     ELSE pc' = "polling" /\ UNCHANGED archive
  /\ UNCHANGED <<disk, server, cursor, pushed, plan, step, target, pruneTo,
                 failed, troubled, wanted, used>>

Deletes(plans) ==
  Cardinality({p \in Paths : plans[p].act \in {"delete_local", "delete_remote"}})

(* The --max-delete check: the cycle ends with an error, nothing is saved. *)
TooManyDeletes(plans, rows) ==
  LET tracked == Cardinality({p \in Paths : rows[p] # NoRow})
  IN  /\ MaxDeletePct > 0 /\ tracked > 0
      /\ (Deletes(plans) * 100) \div tracked > MaxDeletePct

Execute(plans, to, first, rows) ==
  IF TooManyDeletes(plans, rows)
  THEN Abandon
  ELSE /\ pc' = "executing" /\ plan' = plans /\ target' = to /\ pruneTo' = first
       /\ UNCHANGED <<step, failed, troubled>>

(* PollChanges and CompareIncremental.  A delete event carries no revision *)
(* id.                                                                     *)
Poll ==
  LET plans == [p \in Paths |->
                  Plan(IncrementalAction(scan[p], archive[p].hash,
                                         EventKind(Event(p))),
                       IF EventKind(Event(p)) = "put" THEN Event(p)
                       ELSE NoVersion)]
      first == IF cursor < Len(log) THEN cursor + 1 ELSE 0
  IN  /\ pc = "polling"
      /\ Execute(plans, Len(log), first, archive)
      /\ UNCHANGED <<disk, server, state, scan, wanted, used>>

(* ErrCursorGone: fall back to the initial sync, in memory.                *)
PollCursorGone ==
  /\ pc = "polling"
  /\ used.gone < MaxGone
  /\ Spent("gone")
  /\ cursor' = NoCursor
  /\ archive' = [p \in Paths |-> NoRow]
  /\ scan' = local
  /\ pc' = "bootstrapping"
  /\ UNCHANGED <<disk, server, pushed, plan, step, target, pruneTo, failed,
                 troubled, wanted>>

(* Mutant: a path both sides have is taken to be in sync.                  *)
Bootstrap_PrefillsByName ==
  LET remote(p) == TipContent(p) # Absent
      rows == [p \in Paths |-> IF scan[p] # Absent /\ remote(p)
                               THEN Row(scan[p], Tip(p), Tip(p)) ELSE NoRow]
      plans == [p \in Paths |->
                  Plan(FullAction(scan[p], rows[p].hash, remote(p)),
                       IF remote(p) THEN Tip(p) ELSE NoVersion)]
  IN  /\ pc = "bootstrapping"
      /\ archive' = rows
      /\ Execute(plans, Len(log), 0, rows)
      /\ UNCHANGED <<disk, server, cursor, pushed, scan, wanted, used>>

(* The snapshot of the scope, PrefillArchiveForIdempotentApply, Compare.   *)
Bootstrap ==
  LET identical(p) == scan[p] # Absent /\ scan[p] = TipContent(p)
      rows == [p \in Paths |-> IF identical(p)
                               THEN Row(scan[p], Tip(p), Tip(p)) ELSE NoRow]
      remote(p) == TipContent(p) # Absent
      plans == [p \in Paths |->
                  Plan(FullAction(scan[p], rows[p].hash, remote(p)),
                       IF remote(p) THEN Tip(p) ELSE NoVersion)]
  IN  /\ pc = "bootstrapping"
      /\ archive' = rows
      /\ Execute(plans, Len(log), 0, rows)
      /\ UNCHANGED <<disk, server, cursor, pushed, scan, wanted, used>>

(* The poll or the snapshot fails: the cycle ends, nothing is saved.       *)
PollFails ==
  /\ pc \in {"polling", "bootstrapping"}
  /\ MayFault /\ Spent("faults")
  /\ Abandon
  /\ UNCHANGED <<disk, server, state, scan, wanted>>

-----------------------------------------------------------------------------
(* Handlers.  A handler ends by removing its plan; an error is remembered  *)
(* and the next plan runs.                                                 *)

Done(p) == /\ plan' = [plan EXCEPT ![p] = NoPlan]
           /\ step' = NoStep
           /\ UNCHANGED <<failed, troubled>>
Fail(p) == /\ plan' = [plan EXCEPT ![p] = NoPlan]
           /\ step' = NoStep
           /\ failed' = TRUE /\ troubled' = TRUE
Continue(s) == step' = s /\ UNCHANGED <<plan, failed, troubled>>

At(where) == pc = "executing" /\ step.at = where
Begins(p, act) == Turn(p) /\ plan[p].act = act

UnchangedCycle == UNCHANGED <<pc, scan, target, pruneTo>>

(* A request of the plan whose turn it is fails without reaching the       *)
(* server.                                                                 *)
RequestFails ==
  /\ MayFault /\ Spent("faults")
  /\ \/ \E p \in Paths : Turn(p) /\ plan[p].act # "delete_local" /\ Fail(p)
     \/ At("conflict_push") /\ Fail(step.path)
  /\ UnchangedCycle
  /\ UNCHANGED <<disk, server, state, wanted>>

(* Mutant: a file without a row is uploaded without If-None-Match.         *)
Precondition_NewUnchecked(p) ==
  \/ p \in LargePaths
  \/ archive[p].cv = NoVersion
  \/ Tip(p) = archive[p].cv /\ TipContent(p) # Absent

(* executePush.  The file is read when the request is sent, which is not   *)
(* when it was scanned.  If-Match is the archive's content version, or     *)
(* If-None-Match when the archive has none; a chunked upload has neither.  *)
Precondition(p) ==
  IF p \in LargePaths THEN TRUE
  ELSE IF archive[p].cv > NoVersion
       THEN Tip(p) = archive[p].cv /\ TipContent(p) # Absent
       ELSE TipContent(p) = Absent

(* Mutant: the version of before the upload is recorded.                   *)
RecordStep_StaleVersion(p) == [NoStep EXCEPT !.at = "record", !.path = p,
                                             !.cv = archive[p].cv]

RecordStep(p) == [NoStep EXCEPT !.at = "record", !.path = p,
                                !.cv = Len(log) + 1]

PushUpload(p) ==
  /\ Begins(p, "push")
  /\ IF local[p] # Absent /\ Precondition(p)
     THEN /\ log' = Append(log, Entry(p, local[p], TRUE))
          /\ pushed' = pushed \cup {Len(log')}
          /\ Continue(RecordStep(p))
     ELSE UNCHANGED <<log, pushed>> /\ Fail(p)
  /\ UnchangedCycle
  /\ UNCHANGED <<disk, pruned, archive, cursor, wanted, used>>

(* The upload reached the server but no reply reached us; a retry of the   *)
(* HTTP client meets 412.  The plan ends in an error.                      *)
PushReplyLost(p) ==
  /\ Begins(p, "push")
  /\ MayFault /\ Spent("faults")
  /\ local[p] # Absent /\ Precondition(p)
  /\ log' = Append(log, Entry(p, local[p], TRUE))
  /\ Fail(p)
  /\ UnchangedCycle
  /\ UNCHANGED <<disk, pruned, state, wanted>>

(* The end of an upload and of a pull: hashFile of the file as it is now,  *)
(* RecordFile.                                                             *)
Record ==
  LET p == step.path
  IN  /\ At("record")
      /\ IF local[p] # Absent
         THEN /\ archive' = [archive EXCEPT ![p] =
                               Row(local[p], step.cv, step.rev)]
              /\ Done(p)
         ELSE UNCHANGED archive /\ Fail(p)
      /\ UnchangedCycle
      /\ UNCHANGED <<disk, server, cursor, pushed, wanted, used>>

(* downloadWithFallback: the revision named by the plan while the server   *)
(* still has it, the path's current content otherwise; got is Absent when  *)
(* the server has neither (404).                                           *)
Fetched(p, rev) ==
  IF rev # NoVersion /\ rev \notin pruned
  THEN [got |-> ContentOf(rev), cv |-> rev, rev |-> rev]
  ELSE [got |-> TipContent(p), cv |-> Tip(p), rev |-> NoVersion]

FetchStep(p, where, pre) ==
  LET f == Fetched(p, plan[p].rev)
  IN  [at |-> where, path |-> p, pre |-> pre,
       got |-> f.got, cv |-> f.cv, rev |-> f.rev]

(* executePull up to the temporary file.  Reading the local file and       *)
(* downloading are one step: an edit between them is one after both, as    *)
(* the hash is taken again before the rename.                              *)
PullFetch(p) ==
  LET row == archive[p]
      sameRevision == row.rev # NoVersion /\ row.rev = plan[p].rev
      drifted == HasRow(p) /\ local[p] # Absent /\ local[p] # row.hash
      pre == IF HasRow(p) THEN local[p] ELSE Absent
  IN  /\ Begins(p, "pull")
      /\ IF sameRevision \/ drifted \/ Fetched(p, plan[p].rev).got = Absent
         THEN Done(p)
         ELSE Continue(FetchStep(p, "pull_check", pre))
      /\ UnchangedCycle
      /\ UNCHANGED <<disk, server, state, wanted, used>>

(* The second look at the local file; errPullAborted is not an error.      *)
PullCheck ==
  LET p == step.path
      edited == step.pre # Absent /\ local[p] \notin {Absent, step.pre}
  IN  /\ At("pull_check")
      /\ IF edited THEN Done(p) ELSE Continue([step EXCEPT !.at = "pull_rename"])
      /\ UnchangedCycle
      /\ UNCHANGED <<disk, server, state, wanted, used>>

PullRename ==
  /\ At("pull_rename")
  /\ local' = [local EXCEPT ![step.path] = step.got]
  /\ Continue([step EXCEPT !.at = "record"])
  /\ UnchangedCycle
  /\ UNCHANGED <<copies, saved, server, state, wanted, used>>

(* DeleteLocal: os.Remove, absent file or not, with no look at its content.*)
DeleteLocal(p) ==
  /\ Begins(p, "delete_local")
  /\ local' = [local EXCEPT ![p] = Absent]
  /\ archive' = [archive EXCEPT ![p] = NoRow]
  /\ Done(p)
  /\ UnchangedCycle
  /\ UNCHANGED <<copies, saved, server, cursor, pushed, wanted, used>>

(* DeleteRemote: unconditional; 404 is an error.                           *)
DeleteRemote(p) ==
  /\ Begins(p, "delete_remote")
  /\ IF TipContent(p) # Absent
     THEN /\ log' = Append(log, Entry(p, Absent, TRUE))
          /\ pushed' = pushed \cup {Len(log')}
          /\ archive' = [archive EXCEPT ![p] = NoRow]
          /\ Done(p)
     ELSE UNCHANGED <<log, pushed, archive>> /\ Fail(p)
  /\ UnchangedCycle
  /\ UNCHANGED <<disk, pruned, cursor, wanted, used>>

DeleteReplyLost(p) ==
  /\ Begins(p, "delete_remote")
  /\ MayFault /\ Spent("faults")
  /\ TipContent(p) # Absent
  /\ log' = Append(log, Entry(p, Absent, TRUE))
  /\ Fail(p)
  /\ UnchangedCycle
  /\ UNCHANGED <<disk, pruned, state, wanted>>

(* Mutant: a file the server no longer has is saved as an empty copy.      *)
ConflictFetch_NoNotFound(p) ==
  /\ Begins(p, "conflict")
  /\ Continue(FetchStep(p, "conflict_compare", Absent))
  /\ UnchangedCycle
  /\ UNCHANGED <<disk, server, state, wanted, used>>

(* executeConflict: download the other side; when there is none, push.     *)
ConflictFetch(p) ==
  /\ Begins(p, "conflict")
  /\ IF Fetched(p, plan[p].rev).got = Absent
     THEN Continue([NoStep EXCEPT !.at = "conflict_push", !.path = p])
     ELSE Continue(FetchStep(p, "conflict_compare", Absent))
  /\ UnchangedCycle
  /\ UNCHANGED <<disk, server, state, wanted, used>>

(* Mutant: the other side is thrown away.                                  *)
ConflictCompare_NoCopy ==
  LET p == step.path
  IN  /\ At("conflict_compare")
      /\ Continue([NoStep EXCEPT !.at = "conflict_push", !.path = p])
      /\ UnchangedCycle
      /\ UNCHANGED <<disk, server, state, wanted, used>>

(* Identical contents are recorded as in sync; otherwise the server's      *)
(* content becomes a conflict copy.                                        *)
ConflictCompare ==
  LET p == step.path
  IN  /\ At("conflict_compare")
      /\ IF local[p] = step.got
         THEN /\ archive' = [archive EXCEPT ![p] =
                               Row(local[p], step.cv, step.rev)]
              /\ Done(p)
              /\ UNCHANGED copies
         ELSE /\ copies' = copies \cup {step.got}
              /\ Continue([NoStep EXCEPT !.at = "conflict_push", !.path = p])
              /\ UNCHANGED archive
      /\ UnchangedCycle
      /\ UNCHANGED <<local, saved, server, cursor, pushed, wanted, used>>

(* conflictPushLocal: the local file wins, without precondition; when it   *)
(* is not there, only the archive row goes.                                *)
ConflictPush ==
  LET p == step.path
  IN  /\ At("conflict_push")
      /\ IF local[p] = Absent
         THEN /\ archive' = [archive EXCEPT ![p] = NoRow]
              /\ Done(p)
              /\ UNCHANGED <<log, pushed>>
         ELSE /\ log' = Append(log, Entry(p, local[p], TRUE))
              /\ pushed' = pushed \cup {Len(log')}
              /\ Continue(RecordStep(p))
              /\ UNCHANGED archive
      /\ UnchangedCycle
      /\ UNCHANGED <<disk, pruned, cursor, wanted, used>>

(* The unconditional upload arrived, its reply did not: the HTTP client    *)
(* sends it again and sees only the second reply, or gives up.             *)
ConflictReplyLost ==
  LET p == step.path
      once == Append(log, Entry(p, local[p], TRUE))
  IN  /\ At("conflict_push")
      /\ MayFault /\ Spent("faults")
      /\ local[p] # Absent
      /\ \/ /\ log' = Append(once, Entry(p, local[p], TRUE))
            /\ pushed' = pushed \cup {Len(log')}
            /\ Continue([RecordStep(p) EXCEPT !.cv = Len(log')])
         \/ /\ log' = once
            /\ UNCHANGED pushed
            /\ Fail(p)
      /\ UnchangedCycle
      /\ UNCHANGED <<disk, pruned, archive, cursor, wanted>>

-----------------------------------------------------------------------------
(* The end of a cycle, and of the process. *)

CycleOver == pc = "executing" /\ step = NoStep /\ Planned = {}

(* Mutant: only the initial sync advances the cursor.                      *)
AdvanceCursor_OnlyFirst ==
  cursor' = IF failed \/ cursor # NoCursor THEN cursor ELSE target

AdvanceCursor == cursor' = IF failed THEN cursor ELSE target
PrunePushedSeqs == pushed' = {i \in pushed : i >= pruneTo}

Memory == [archive |-> archive, cursor |-> cursor, pushed |-> pushed]

Finish ==
  /\ CycleOver
  /\ AdvanceCursor /\ PrunePushedSeqs
  /\ Abandon
  /\ UNCHANGED <<local, copies, server, archive, scan, wanted, used>>
  /\ saved' = Memory'

(* State.Save returns an error; memory keeps the outcome of the cycle.     *)
SaveFails ==
  /\ CycleOver
  /\ MayFault /\ Spent("faults")
  /\ AdvanceCursor /\ PrunePushedSeqs
  /\ Abandon
  /\ UNCHANGED <<disk, server, archive, scan, wanted>>

Reload(image) ==
  /\ archive' = image.archive /\ cursor' = image.cursor /\ pushed' = image.pushed
  /\ Leave("starting")

Empty == [archive |-> [p \in Paths |-> NoRow], cursor |-> NoCursor,
          pushed |-> {}]

(* The process dies, at any point, and starts again from state.db, which   *)
(* may turn out unreadable (quarantined, recreated).                       *)
Crash ==
  /\ used.crashes < MaxCrashes
  /\ Spent("crashes")
  /\ saved' \in {saved, Empty}
  /\ Reload(saved')
  /\ UNCHANGED <<local, copies, server, scan, wanted>>

-----------------------------------------------------------------------------
Handlers ==
  \/ \E p \in Paths : \/ PushUpload(p) \/ PullFetch(p) \/ DeleteLocal(p)
                      \/ DeleteRemote(p) \/ ConflictFetch(p)
  \/ Record \/ PullCheck \/ PullRename \/ ConflictCompare \/ ConflictPush

Cycle == Poll \/ Bootstrap \/ Handlers \/ Finish

Faults ==
  \/ \E p \in Paths : PushReplyLost(p) \/ DeleteReplyLost(p)
  \/ RequestFails \/ ConflictReplyLost \/ PollFails \/ PollCursorGone
  \/ SaveFails \/ Crash

Environment ==
  \/ \E p \in Paths : \/ UserWrite(p) \/ UserDelete(p)
                      \/ RemotePut(p) \/ RemoteDelete(p)
  \/ \E i \in DOMAIN log : PruneRevision(i)

Next == Walk \/ Cycle \/ Faults \/ Environment

(* Cycles are run again and again, and a started one keeps running; nobody *)
(* promises an edit, a remote change or a fault.                           *)
Spec == Init /\ [][Next]_vars /\ WF_vars(Walk \/ Cycle)

(* What makes the watch loop start a cycle (watcher.go, PollFn): a restart, *)
(* a poll with no cursor or with any change, an event of the file system.  *)
(* Of the events only those of an edit since the last cycle are counted,   *)
(* one that leaves the file other than that cycle did: the engine's own    *)
(* writes raise some too, but not during the initial sync, before the      *)
(* watcher is registered.  Under WatchSpec nothing else is sure to start a *)
(* cycle.                                                                  *)
Edited(p) == local[p] # IF HasRow(p) THEN archive[p].hash ELSE scan[p]
Triggered == \/ pc = "starting" \/ cursor = NoCursor
             \/ cursor < Len(log) \/ \E p \in Paths : Edited(p)
WatchSpec == /\ Init /\ [][Next]_vars
             /\ WF_vars(Triggered /\ Walk) /\ WF_vars(Cycle)

-----------------------------------------------------------------------------
(* Properties *)

(* What the user last wrote to a file is never destroyed: it is still the  *)
(* file, or was uploaded, or sits in a conflict copy.                      *)
NoLocalEditLost ==
  \A p \in Paths :
    wanted[p] # Absent =>
      \/ wanted[p] \in {local[p]} \cup copies
      \/ \E i \in DOMAIN log : log[i].content = wanted[p]

(* types.FileState: an archive row is "what we last saw for a given path   *)
(* after a successful sync": its hash is the content of the very revision  *)
(* its content version names, in memory and in state.db.                   *)
RowsTruthful(rows) ==
  \A p \in Paths :
    rows[p] # NoRow => /\ rows[p].cv \in Entries(p)
                       /\ ContentOf(rows[p].cv) = rows[p].hash
ArchiveTruthful == RowsTruthful(archive) /\ RowsTruthful(saved.archive)

(* Between two cycles, whatever the server has that the archive does not   *)
(* is still ahead of the cursor, so some later poll will report it, or was *)
(* kept in a conflict copy.  Up to the first plan that ends in an error:   *)
(* after one, the cursor stays and older changes are applied again.        *)
Behind(p) == IF HasRow(p) THEN Tip(p) # archive[p].cv
             ELSE TipContent(p) # Absent
NoMissedRemoteChange ==
  Quiet /\ cursor # NoCursor /\ ~troubled =>
    \A p \in Paths :
      Behind(p) => Event(p) # NoVersion \/ TipContent(p) \in copies

(* docs/overview.md, "Re-pulling our own push": the pushed sequence numbers *)
(* keep a poll from pulling what this client itself uploaded.              *)
NeverPullsOwnWrites ==
  pc = "executing" /\ cursor # NoCursor =>
    \A p \in Planned : plan[p].act = "pull" => ~log[plan[p].rev].own

(* A path's archive row is never replaced by one for an older version of   *)
(* the file, unless the archive was cleared in between; up to the first    *)
(* plan that ends in an error.                                             *)
PullsMoveForward ==
  [][pc = "executing" /\ pc' = "executing" /\ ~troubled =>
       \A p \in Paths : archive[p] # NoRow /\ archive'[p] # NoRow
                          => archive'[p].cv >= archive[p].cv]_vars

(* A version of another client is replaced on the server, by an upload or  *)
(* a delete of this one, only if this client knows it: it is recorded in   *)
(* the archive, or kept in a conflict copy.  docs/overview.md, "Concurrent *)
(* push overwrites": If-Match makes the server refuse the rest.            *)
Replaces(p) == /\ Tip(p) # NoVersion /\ Tip(p)' # Tip(p) /\ log'[Tip(p)'].own
               /\ ~log[Tip(p)].own /\ TipContent(p) # Absent
Noticed(p) == Tip(p) = archive[p].cv \/ TipContent(p) \in copies
NothingReplacedUnseen == [][\A p \in Paths : Replaces(p) => Noticed(p)]_vars

(* That much the code does not promise: chunked uploads are "last-writer-  *)
(* wins" (docs/overview.md, "Constraints"), and the upload that ends a    *)
(* conflict and DELETE carry no precondition either.  What those can       *)
(* replace unseen is bounded: only a version the server got after this     *)
(* cycle's poll, which no plan of the cycle could take into account.       *)
Unconditional(p) == \/ p \in LargePaths \/ step.at = "conflict_push"
                    \/ plan[p].act = "delete_remote"
NoBlindOverwrite ==
  [][\A p \in Paths :
       Replaces(p) => \/ Noticed(p)
                      \/ Tip(p) > target /\ Unconditional(p)]_vars

(* Once nothing changes any more, both sides end up the same; but a file   *)
(* deleted here and rewritten there stays deleted here, the server's       *)
(* content beside it in a conflict copy (executor_conflict.go,             *)
(* "local_deleted_remote_saved").  Unless some plan ended in an error.     *)
SetAside(p) == local[p] = Absent /\ TipContent(p) \in copies
InStep(p) == local[p] = TipContent(p) \/ SetAside(p)
Converges == <>[](troubled \/ \A p \in Paths : InStep(p))

(* The same with no trigger but the watch loop's (WatchSpec).  One kind of *)
(* poll is excused, for the one path it concerns: a file that is new here  *)
(* and, in the same poll, deleted there has no plan (compare.go:215) and   *)
(* no later trigger.                                                       *)
Overlooked(p) == /\ pc = "polling" /\ scan[p] # Absent /\ ~HasRow(p)
                 /\ EventKind(Event(p)) = "delete"
ConvergesOnTriggers ==
  \A p \in Paths : <>[](troubled \/ InStep(p)) \/ <>Overlooked(p)
=============================================================================
