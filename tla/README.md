# Verification of the s2-sync engine

TLA+ models of s2-sync, the client that keeps a local directory and an S2
scope in step; TLC runs over small instances of them, and TLAPS proofs that
hold for every instance. Paths below are relative to the repository.

## 1. The system

`cmd/` and `gui/` start a sync root (`internal/sync/setup.go`): they lock
`.s2/state.db`, load it and run cycles, once (`s2 sync`) or for ever (`s2 watch`
and the GUI, through `watcher.go`). One cycle is

    Walk local -> PollChanges(cursor) -> directory events -> Compare
               -> safety check -> Execute plan by plan -> Save

| component | state it keeps | operations | talks to |
|---|---|---|---|
| State store (`state.go`, `statedb.go`, `statelock_*.go`) | archive rows, cursor, pushed sequence numbers, skip counters, token identity; what changed since the last save; `state.db` | mutators, `Save`, `LoadState`, quarantine, `Close` | called by every step of a cycle |
| Three-way merge (`compare.go`) | none | `CompareIncremental`, `Compare` | reads the walk, the archive, the poll |
| Sync cycle (`runner.go`) | the plans and counters of one cycle | `RunInitialSync`, `RunIncrementalSync` | all of the others |
| Executor (`executor*.go`, `skip_tracking.go`) | none between plans | one handler per plan kind | disk, server, state store |
| Bootstrap (`bootstrap.go`, `snapshot.go`) | the remote map under construction | snapshot or recursive listing, replay to a fixed point, prefill | server, state store |
| Directory events (`dir_events*.go`) | none | expand mkdir, delete, move and put of directories | disk, server, state store |
| Plan passes (`merge_folder_deletes.go`, `case.go`) | none | collapse folder deletes, case-only renames, collisions | the plan list |
| Watch loop (`watcher.go`) | debounce timer, ticker, `syncMu` | start cycles on file events and polls; shut down | runs cycles from timer callbacks |
| GUI service (`internal/service/`) | status, cancel function, done channel | `Start`, `Stop`, `Wait`, status callbacks | runs the watch loop in a goroutine |
| HTTP client (`internal/client/`) | none | requests, retried up to three times | server |
| Authentication (`internal/auth/`, `internal/oauth/`) | token and refresh token, login listener | refresh, login | keyring, server, browser |
| Logging, configuration, autostart, GUI shell, command line | log files, settings | input/output | the operating system |

The server, other clients and the user of the directory are outside. They act
between any two steps; a process can die between any two steps.

What is hard, and what correctness means there:

- **State store.** `Save` writes only what was remembered as changed. A long
  sequence of mutators, failed saves and restarts must never let that memory
  and the change drift apart, nor let one token's archive serve another.
- **Cycle and executor.** Everything is decided on the walk and the poll, and
  done later, one plan at a time, while the disk and the server move on; any
  request may fail, arrive without a reply, or be retried; a crash may fall
  between the effect on the server and `Save`. No edit may be destroyed, the
  archive must say what was really synced, no remote change may be skipped
  when the cursor moves, no version unseen by this client overwritten, and
  both sides must become equal.
- **Bootstrap.** The listing is not atomic; replaying the log must end, and end
  in the server's state.
- **Directory events, plan passes.** One event stands for many files; files the
  archive does not know must survive.
- **Watch loop, service.** Timers, goroutines, a mutex and a cancelled context:
  cycles must not overlap, shutdown must wait for them, every trigger must be
  answered, `Start`/`Stop` must always lead back to a state that can start.

`PROJECT.json` lists each hazard at its line.

## 2. The modules

Written, in dependency order:

| module | what it is |
|---|---|
| `ArchiveStore` | abstract: a working and a durable image, the second replaced by the first at once or not at all |
| `StateStore` | `state.go` and `statedb.go`: every mutator and its dirty tracking, the flush, load, quarantine, failure, crash |
| `StateStoreProofs` | its invariants, and that it implements `ArchiveStore` |
| `ThreeWayMerge` | the decision of `compare.go` for one path |
| `SyncCycle` | one sync root, the server's change log, the user and the other clients: the cycle of `runner.go` and the handlers of `executor*.go` |
| `SyncCycleProofs` | what is proved of the last two: types, that the archive is truthful, that no local edit is lost |
| `ChangesSeenProofs` | extends it: no remote change is missed or undone, none overwritten unseen |
| `WatchLoop` | `watcher.go`: select loop, filter, debounce timers, `syncMu`, shutdown |
| `WatchLoopProofs` | its mutual exclusion, and that shutdown saves |
| `SyncService` | `internal/service`: `Start`, `Stop`, quit and the goroutine of each run over one status |
| `FolderLease` | abstract: one run at a time has the folder, changes it, lets go, is reported as over |
| `SyncServiceProofs` | the safety properties of `SyncService` for any number of runs, and that it implements `FolderLease` |
| `ScopeTree` | paths, trees, the change log's entries, and the client's operations on maps keyed by path |
| `ScopeServer` | the server of one scope as its other clients change it: files, folders, the trash |
| `AtomicSnapshot` | abstract: files, folders and cursor taken at one moment |
| `Bootstrap` | `bootstrap.go`, `snapshot.go`: pinned cursor, listing, replay; implements `AtomicSnapshot` |
| `ScopeTheorems` | what the operators of `ScopeTree` and `ScopeServer` return: `FoldLeft` one element at a time, paths, maps, trees, the server's steps |
| `BootstrapProofs` | the replay invariant of `Bootstrap`, and that it implements `AtomicSnapshot` |
| `DirPlans` | from change events to plans: `dir_events*.go`, the whole of `CompareIncremental` with moves, `MergePlansByPath`, `MergeFolderDeletes` |
| `CasePlans` | `case.go`: case-only renames, colliding plans; the collision rule of `walk.go` |
| `DirCycle` | the incremental cycle over `DirPlans` and `CasePlans` against `ScopeServer`, with all handlers for directories and moves |
| `DirCycleProofs` | its types, that no local edit is lost, that only what is gone here is deleted there |
| `MCStateStore`, `MCBootstrap`, `MCDirCycle` | the trees, names and functions of the small instances |

`SyncCycle` and `DirCycle` model the same cycle at two grains. `SyncCycle` cuts
the handlers of single files into their steps and lets user, other clients and
faults in between them. `DirCycle` takes a handler as one step and instead has
what a poll brings: several entries, for files and whole directories, that
become plans by four passes and are executed in the order of the paths.

Left to do, in this order:

1. Directories on a case-insensitive file system, with
   `skipRmdirOnFoldCollision` and `NormalizeRemoteMap`.
2. A scope whose root is deleted, moved or restored: the put of the root in
   `HandleIncrementalDirEvents` drops the plans made so far and bootstraps anew.
3. Proofs: `OthersKept`, `MirrorsServer` and `Settles` of `DirCycle` (section 9).

## 3. State store

`phase`, `files`, `cursor`, `pushed`, `skipped`, `identity` are the `State`
object; `dirty`, `clearAll`, `addSeqs`, `pruneBelow`, `skipDirty` are its
memory of what changed; `db` is the file. One action per exported method, one
per outcome of `LoadState` (own archive, another scope's, unreadable, error),
and `Crash`. `flush` is one SQLite transaction and one step; `Flushed...` follow
the order of its statements. Mutators stay enabled after `Close`, as in the
code. Every row and cursor carries the token scope it was recorded under, which
is what lets `ScopeIsolation` be stated.

Left out: `ReportedCollisions`, which only debounces a warning. Two guards are
the caller's and not in `state.go`. The engine adds a sequence number only after
the polls that prune below it, so `AddPushedSeq` assumes `s >= pruneBelow`.
`PrunePushedSeqs` is called once per cycle with the first sequence number after
the cursor (`runner.go:184`), and the cursor does not go back while a process
runs, so it assumes `min >= pruneBelow`; the code overwrites `pruneBelow`
whatever it was. Without either assumption `SaveWritesMemory` is false.

Run `state_store`: two paths, one of them under a directory, two scopes,
sequence numbers and skip counters up to 2. Each tracking flag is set, cleared
by a save and set again within these bounds. `SaveWritesMemory` says that a
save at this moment would leave exactly the memory on disk; `ScopeIsolation`
that scopes never mix; `ImplementsArchiveStore` that every save is all or
nothing, and a restart finds the last image saved or an empty one.

## 4. Sync cycle

Data: a path is its rank in the sort order of plans; a content stands for its
hash and every write creates a new one; the server is its log, entry `i` being
a revision with sequence number, content version and revision id `i`.

| model | code |
|---|---|
| `local`, `copies`, `saved` | the files, the contents of `.sync-conflict-*` files, `state.db` |
| `archive`, `cursor`, `pushed` | `State.Files`, `State.Cursor`, `State.pushedSeqs` |
| `scan`, `plan`, `step`, `target`, `pruneTo`, `failed` | walk result, plans left, locals of the running handler, next cursor, `resp.Changes[0].Seq`, `len(result.Errors) > 0` |
| `Walk`, `Poll`, `PollCursorGone`, `Bootstrap`, `PollFails` | `RunIncrementalSync`, `RunInitialSync` up to `executePlans` |
| `PushUpload`, `Record`, `PushReplyLost` | `executePush`, `executePushChunked` (paths in `LargePaths`) |
| `PullFetch`, `PullCheck`, `PullRename`, `Record` | `executePull`, `downloadWithFallback`, `skipIdempotentPull` |
| `DeleteLocal`, `DeleteRemote`, `DeleteReplyLost` | the two cases of `execute` |
| `ConflictFetch`, `ConflictCompare`, `ConflictPush`, `ConflictReplyLost` | `executeConflict`, `conflictPushLocal`, the retry of `client.go` |
| `Finish`, `SaveFails`, `Crash` | end of the cycle, `Save`, death and restart, with `state.db` as it was or unreadable |

A handler is split where something else can change what it goes on to use:
between request and hash, download and check, check and rename, download and
conflict upload. The environment writes and deletes on both sides; four flags
say whether the user deletes, whether user and other clients may act while a
cycle runs, and which paths are uploaded without precondition.

Bookkeeping that the code does not have: `wanted` (what the user last wrote),
`troubled` (some plan has ended in an error so far), `used` (the bounds).

### Runs that pass

Two paths each, so that one plan can fail, wait or be cut off by a crash while
the other proceeds, one of them uploaded without CAS; two user operations and
two remote ones, so that each side can create and then change or delete.

- `sync_restart`, under `WatchSpec`: edits, deletions, an expired cursor or a
  pruned revision and one crash; the user and the other clients act between
  cycles. `NoMissedRemoteChange`, `PullsMoveForward`, `ConvergesOnTriggers`.
- `sync_faults`, under `Spec`: other clients write at any moment; one request
  fails, or one reply is lost, or one save fails; one crash; `--max-delete` 50.
  `TypeOK`, `NoLocalEditLost`, `ArchiveTruthful`, `NoBlindOverwrite`.

`ConvergesOnTriggers` says that the two sides become equal although cycles start
only when the watch loop has a reason to start one. It is stated path by path,
because one kind of poll leaves a path behind for good: a file that is new here
and deleted there in the same poll gets no plan (`compare.go:215`), and nothing
triggers another cycle (`Overlooked`, `WatchTriggers.cfg`).

`NoBlindOverwrite` needs others that write between poll and upload: a version of
theirs is replaced only if this client has recorded it or keeps it in a copy.
Three requests carry no precondition (a chunked upload, the upload that ends a
conflict, and DELETE); what they may replace unseen is bounded to versions that
arrived after the poll. `NothingReplacedUnseen`, without that exception, is
false (`RemoteDuringCycle.cfg`).

`NoMissedRemoteChange`, `PullsMoveForward` and `ConvergesOnTriggers` are stated
up to the first plan that ends in an error. That is not a convenience: after an error the
cursor stays, the changes of all paths are applied again, and a path pushed in
the meantime is rolled back to the older foreign version. Errors arise without
any fault, too: a file deleted here and rewritten there is kept deleted, its
content in a conflict copy (`local_deleted_remote_saved`); created again, it is
pushed with `If-None-Match` and refused in every cycle from then on.

### Fairness

`Spec`: cycles are started again and again, and a started one goes on
(`WF(Walk \/ Cycle)`); `executePlans` is a loop with bounded retries, and
`s2 sync` or the watch loop is what starts cycles. Nothing is assumed of the
user, the other clients or faults. `WatchSpec` is what the watch loop alone
gives: a cycle starts only if there is a trigger, that is a restart, an empty
cursor, a change in the log beyond the cursor, or a file event since the walk.
It takes `watcher.go` at its best: no event is missed. An own change
counts as a reason like any other, because the poll of the loop does not filter
(`cmd/watch.go:78`). Fairness is then of `Triggered /\ Walk`, and of a cycle that
has started.

### A run that shows a disagreement

- `edit_during_cycle`: an edit between the walk and the pull aborts the pull,
  nothing resolves it, and the cursor moves on.

More configurations show others; they are kept beside the runs and are not
among them.

- `LostReply.cfg` (`NeverPullsOwnWrites`): a conflict upload has no precondition,
  so the HTTP client's retry after a lost reply creates a second revision; only
  that one's sequence number is recorded, and the first is pulled as foreign.
- `RemoteDuringCycle.cfg` (`NothingReplacedUnseen`): the conflict upload
  overwrites what another client wrote after the conflict download.
- `RemoteFiltered.cfg` (`NoMissedRemoteChange`, others writing during a cycle): a
  poll brings others' delete of a path and our own, later upload of it; ours is
  filtered out, and the older delete removes the file here.
- `EditMidCycle.cfg` (`NoLocalEditLost`, `ArchiveTruthful`, `NoBlindOverwrite`, to
  be checked one at a time): the user may write during a cycle. A plan
  replaces or removes a file edited since the walk; an upload is recorded with
  the hash the file has afterwards; and after a pull that an edit has aborted, a
  later DELETE takes the version that was never fetched.
- `WatchTriggers.cfg` (`Converges`, under `WatchSpec`): the new local file above,
  whose path was created and deleted remotely within one poll. `Converges` holds
  of the same behaviours under `Spec`, where cycles need no reason.

## 5. Watch loop

| model | code |
|---|---|
| `loop` | the main goroutine of `RunWatchLoop` and `watchLoopCore` |
| `at`, `holder` | every goroutine that calls `doSync`, and `syncMu` |
| `timer`, `signal`, `events`, `watching` | debounce timer, `localChanged` (capacity one), unread fsnotify events, registered directories |
| `cancelled`, `closed` | the context, `state.Close` |
| `server`, `own`, `cursor`, `saved` | the change log, `State.pushedSeqs`, `State.Cursor`, `state.db` |
| `edited`, `seen` | an edit nothing has uploaded yet; what the sync in flight has walked and polled |
| `asked` | the cursor `PollFn` has read, without `syncMu` |

A timer that has fired is a goroutine of its own (`fired`, then `waiting` for
the mutex), which `Stop` on the timer no longer reaches. A sync is its start
(walk and poll) and its end; module `SyncCycle` has what is between. `PollFn` is
documented to be "Called serialized under syncMu" (`watcher.go:21`) and is not:
the model reads the cursor in one step and uses it in another, and the read can
fall into a sync. A torn read is a poll that fails.

Run `watch_loop`: two callbacks alive at the same time, one foreign change, one
edit beside the one the initial sync may find, one failure, a cancellation at
any moment, the client bound to the context as in the GUI. `ShutdownSaves`,
`EditAnswered`, `RemoteAnswered`, `Settles`, `ShutdownEnds`. Two things the run
assumes, each with a constant: `EarlyEdits = FALSE`, no edit between the initial
walk and the registration of the watcher, which raises no event (with `TRUE`,
`EditAnswered` is false: `EarlyEdit.cfg`); `BoundClient = TRUE` (with `FALSE`, as
in `s2 watch`, a callback that was waiting for the mutex runs a whole cycle after
`Close` and cannot save it, up to the exit of the process: `ShutdownSaves` is
false, `UnboundClient.cfg`).
`EditAnswered` ends at the first failed sync, because the loop does not arm the
timer again after a failure; `RemoteAnswered` needs no such end, because the
next tick asks again.

Fairness: goroutines run on (weak); a Go mutex does not starve a waiter and a
select does not pass over a ready case for ever (strong). Nothing is assumed of
user, other clients, faults and cancellation.

## 6. GUI service

`status` and `syncing` are `StateInfo`; `current` is the run whose cancel
function and done channel the service holds (`Start` makes the two together);
`run[r]` is where the `Start` call and then the goroutine of run `r` is,
`callback[r]` where its timer callback is, `closes[r]` which run's channel the
goroutine will close (`defer close(s.done)` reads `s.done` when the goroutine
begins). Each critical section of `s.mu` is one step, and so is each check of
the context, because setting the status after the check is a step of its own;
`Stop` sets the status in one step and cancels in another. A sync that begins
after the cancellation fails (`doomed`): the client is bound to the context.
The watch loop is only what the service sees of it.

Run `sync_service`: two runs, so that a new one meets the remains of the last;
two failures (an Open, a sync, the watcher), two stops, one quit at any moment.
`IdleMeansStopped`, `GracefulExit`, `IndicatorHonest`, `ClosesOnce`,
`LiveStopsEnd`, `ShutdownEnds`, and `HoldsLease`: with the lock file as holder,
the syncs that reach the server as work and the closed channels as reports, the
service is a `FolderLease`. Fairness: goroutines run on, a pending cancel is
called, `Wait` returns when it can; nothing is assumed of the user, and a loop
that is left alone may run for ever.

A Stop comes at any moment, also in the error state after the run has died.
There it breaks `StoppingEnds`; `LiveStopsEnd` is the part that holds: a service
that is stopping while its run lives gets out of it, whatever fails meanwhile. The
constant `StartEarly = FALSE` keeps away one thing more, a Start while the failed
run or a callback of it still lives. Two configurations, not among the runs, show
both:

- `StopAfterError.cfg` (`StoppingEnds`): after a failed initial sync a Stop or a
  sign-out leaves the status at `stopping` for ever, and no Start is admitted
  again.
- `ShutdownOrphan.cfg` (`GracefulExit`): a Start in the error state fails on the
  lock file of the loop that is still alive, and the service forgets that loop:
  Stop does nothing, and quitting does not wait for it.

## 7. Server, bootstrap

A path is the sequence of its segments, so that "has the prefix `dir/`" is
"strictly below `dir`"; a content stands for one revision with hash, version and
revision id. `ScopeServer` answers a request with one log entry, also for a
folder's delete, move or restore, which stand for all below it; that is how
`applyChanges` and `HandleIncrementalDirEvents` read them. It is external code,
modelled from this use. `PathsAssumption` bounds the paths to a finite set of
directories, so that a listing of one has an order.

| model | code |
|---|---|
| `Pin` | `LatestCursor`, before anything is listed |
| `Fetch` (`Snapshot`, `ListDir`) | `FetchRemoteMapWithDirs`: the snapshot, or on 413 the listing of `fetchRemoteMapWithDirsViaListDir`; 404 leaves a directory out |
| `todo` | subdirectories still to be listed, then the dirty queue of the replay |
| `Applied`, `AppliedToDirs`, `Queued` | `applyChanges`, `applyDirChanges`, `coalesceDirDelete`, `coalesceDirMove` |
| `Poll`, `GiveUp` | one round of `replayUntilConvergedWithDirs`, the round cap |

The cap of 100,000 entries is abstracted: any fetch may be answered by the
snapshot or by the 413 that leads to the listing. Other clients act between any
two requests.

Run `bootstrap`: two folders, three changes, three rounds, one failed request.
`TakesAtomicSnapshot` is the refinement: the map handed over is the server's
tree at one moment, the cursor the end of the log then. `Ends`, under weak
fairness of the bootstrap's own steps (a loop with bounded rounds; HTTP calls
return): it ends in a map or an error. The run assumes that no directory moves
out of what is yet to be fetched (`MovesWhileFetching = FALSE`). Without that
`BootstrapMoves.cfg` finds a folder missing: between the pin and the listing
others delete one folder and give its name to another; the listing sees the
second, the replay of the delete takes it out again, and the replay of the move
finds nothing under the old name to bring back.

## 8. Cycle with directories and names alike

| model | code |
|---|---|
| `Poll`, `HandleDirEvent`, `Compare`, `Finish` | `RunIncrementalSync`: walk and poll; `HandleIncrementalDirEvents` event by event; second walk, comparison and passes; cursor and save |
| `SubtreeFails`, `RequestFails`, `SaveFails`, `Crash` | the fetch of a restored folder returns an error (the cycle is given up, disk and memory stay as the events before it left them); a plan's request fails; `Save` fails after memory has moved on; the process dies |
| `dirEvents`, `outcome` | its events left, `DirEventOutcome` |
| `DeletePlans`, `HandleMove`, `SnapshotPlans` | `expandArchiveDelete`, `expandArchiveMove`, `SubtreeComparePlans` with `MaterializeDirPlans` |
| `Classified`, `MovePlans`, `FilePlans` | `CompareIncremental`: the loop over paths, the loop over moves, both |
| `MovePairs`, `MergeCaseOnlyRenames`, `Neutralize` | `DetectMovePairs` and the passes of that name in `case.go` |
| `Push` ... `RmdirLocal` | the cases of `execute`, in the order of `Goes` (`reorderRmdirsLast`) |
| `disk`, `copies`, `saved` | directories and files, conflict copies with their directory, `state.db` |
| `archive` | `State.Files`, a row being the hash here and the version there |

On a case-insensitive disk two names alike are one file: `Entry(p)` is the file
that `p` opens, and a file that is replaced gets either name.

Properties, each relating the disk, the server and the archive over whole
cycles: `KeepsEdits` (what the user wrote and has not replaced is on disk, in a
copy, or has been on the server); `MirrorsServer` (when nothing is left to do,
the files are the server's); `OthersKept` (a cycle takes from the server only
what this client has seen, or keeps a copy); `DeletesOnlyWhatIsGone` (and
deletes nothing that is still on disk); `Settles` (left alone, the client has
nothing left to do after three cycles).

These fail in the code as it is, each for reasons of its own. So that the rest
can still be checked, a step that meets such a defect records it in `flaws`,
and the passing runs check `...UnlessFlawed`, each excusing only the defects
listed in its definition; every other combination must satisfy the property.
Each defect has a run or a configuration that shows it, alone or without any
excuse. `Defects.cfg` and `CaseDefects.cfg` have the instance of the passing runs
and one property of `MCDirCycle` for each defect that nothing else shows; TLC
refutes every one of them (one at a time, or all with `-continue`).

| `flaws` | configuration | what happens |
|---|---|---|
| `cascaded` | run `folder_delete` | a merged folder delete takes a new file of another client with it |
| `superseded` | run `edit_then_move` | a file put and then moved in one poll is renamed with its old content |
| (two names alike) | run `both_cases` | the second of two names is not walked, and is deleted on the server, also where the file system tells them apart |
| (two names alike) | `BothCasesEdited.cfg` (`KeepsEditsUnlessFlawed`) | what is not walked passes for deleted, so when others delete the second it is removed here with its edit |
| `overwritten` | `MoveOverNewFile.cfg` (`KeepsEdits`) | the rename of a moved folder or file replaces a file the user has made at the target |
| `forgotten` | `PushRejected.cfg` (`Settles`), `ForgottenSettles` | deleted here and changed there, then created again: pushed without a row, refused in every cycle, the cursor held |
| `replayed` | `ReplayedMirrors` | one plan fails, so the changes of the poll are applied again, an older delete over what this client has uploaded since |
| `renamed` | `CaseRename.cfg` (`MirrorsServer`) | a case-only rename drops the conflict planned for its names; the row gets the version of content never fetched |
| `skipped` | `CaseDefects.cfg` (`SkippedMirrors`) | a remote change under a colliding name is dropped; the cursor passes it |
| `unfetched` | `UnfetchedMirrors` | a file edited here stays behind when others move its folder, and becomes a copy; what the server has at the new place never arrives |
| `stranded` | `StrandedSettles` | a file edited here and moved by others is pushed for ever against a row that matches nothing |
| `replanned` | `ReplannedMirrors`; `ReplannedEdit.cfg` | one poll deletes a folder and moves another to its place: a delete planned for a file of the first takes the file of that name in the second, also one with an edit, because `DeleteLocal` does not look at it |
| `outranked` | `OutrankedMirrors` | a folder deleted and restored in one poll: the plans of the delete are merged last and win over those of the restored subtree; so does a subtree's plan over a file's later move |
| `carried` | `CarriedMirrors` | a folder is moved while a plan made for its old place waits, or the folder of a put has moved on when it is fetched (404) |
| `reordered` | `ReorderedMirrors` | a file changes, then a folder above it: the folder is handled first, and the file's event finds another path |

The four of an order (`outranked`, `carried`, `reordered`, `replanned`) are
recorded only by the polls in which that order is wrong, not by every poll that
mixes events: two folder events, or a folder's and a file's, that do not meet in
this way have to come out right. And every excuse is needed: dropping any one of
a property's makes a passing run fail; for `KeepsEditsUnlessFlawed` and
`replanned` that takes the three edits of `ReplannedEdit.cfg`.

Bounds. `dir_cycle`: a folder with a file and a subfolder with another, a second
folder with the places of all of them; two changes of other clients, in two
polls or in one (`MaxUnpolled`); two operations of the user; two mishaps, each a
crash, a failed request at any plan, a failed fetch of a restored folder or a
failed save, so that a process can die after a failed save; of these six, any
four in one behaviour (`MaxEvents`; with any five, one of them a mishap, 8.7
million states, nothing new was found). `case_cycle`: two names alike and a third,
in one directory; the same numbers of changes, operations and mishaps, any five
in one behaviour.

Assumed: a directory moves only to where all that can be below it has a path
(`Fits`); the directories above a path are paths of the model, and contents are
not `NoContent`; on a disk that folds case there are no directories, and the
first trees have no two names alike. The user creates and renames files only
into directories that are there. The user and other clients act between cycles
(`SyncCycle` has them inside), leave conflict copies alone, and do not remove
the scope's root; `--max-delete` is off. The server creates missing parents with
an entry of their own and keeps a file's version when it moves. `Settles` counts
cycles, so `DirCycle` needs no fairness.

## 9. Proofs

tlapm checks the modules named `...Proofs` and `ScopeTheorems`; their assumptions
are the named `ASSUME`s of the modules (types of the constants, bounds in `Nat`)
and, where a theorem says so, the value of a flag or a condition on a constant.
Each of these excludes a case in which the code does break the property, and a
run or a configuration shows that.

`StateStoreProofs`. `TypeCorrect`. `IInv` adds to the type invariant that memory
and `db` differ at most where the tracking says (`SaveWritesMemory`) and that
rows carry their scope; it is inductive and gives `SaveWritesMemoryAlways` and
`ScopesNeverMix`. `Implements`: under `IInv` each step is a step of
`ArchiveStore` or a stutter; `Save` is a `Commit` because a flush equals memory.

`SyncCycleProofs`. `TypeCorrect`: `TypeOK` of every behaviour, for any paths,
bounds and flags. It carries one more fact, `PlansInLog` (a plan names a
revision of its own path), without which a download could not be typed.
`ArchiveCorrect`: `ArchiveTruthful`, assuming `UserMidCycle = FALSE`; with edits
during a cycle it is false, an upload being recorded with the hash of the file
as it is afterwards. `ArchiveTruthful` is not inductive: a row is copied from
the handler that runs, so `StepTruthful` says that the version in hand has the
content downloaded, or uploaded and still in the file, and `BusyExecutes` that
a handler runs only while the user keeps still. The server's log only grows
(`LogKept`), so what was true of a version stays true; the proof is one lemma
per way of writing a row, then one case per action. Lost replies, failed saves
and crashes are all among the cases.

`EditsKept`, in the same module: `NoLocalEditLost`, assuming `UserMidCycle =
FALSE` (run `edit_during_cycle` shows what an edit in a cycle meets). `Secured`
is what can be taken from the disk without loss: no file, what a conflict copy
holds, and what any entry of the log holds. It only grows. `PlansSafe` says of
every plan that replaces or removes a file that the walk found a secured content
there, or none; `ScanCurrent`, that the disk is still as walked when plans are
made; `StepSafe` the same of the handler that runs, between its
download and its rename. A plan is secured because the archive is truthful
(`ArchiveCorrect` is used): what equals its row is in the log.

`ChangesSeenProofs`. Assuming that neither user nor other clients act during a
cycle: `ChangesSeen` (`NoMissedRemoteChange`) and `RowsMoveForward`
(`PullsMoveForward`), through crashes, expired cursors and failed polls, requests,
replies and saves, any number of each. With other clients writing at any moment,
only the user keeping still during a cycle: `NothingOverwrittenBlindly`
(`NoBlindOverwrite`). The invariant `Changes` has to say more than the properties
in three places.

- Of images. The property speaks of memory and its cursor; a crash falls back to
  `state.db`, so the same must hold of either image of the records. `Covered`:
  the current version of a path is recorded, kept in a copy, or ahead of the
  cursor and not among the pushed, so that a poll reports it. `NewsFirst`: a
  poll skips our own changes only after all others.
- Of plans. While a cycle executes, memory is not covered path by path, until
  the plan of the path has been carried out. `PlanGood` says of each kind of
  plan what it must be right about, `StepGood` the same of the download or
  upload in hand; both only of what is `Due`, a version of others that the poll
  could report, so that they survive writes of others after it.
- Of whose change it is. Others' versions matter whatever goes wrong (`Foreign`),
  our own only while nobody else writes during a cycle, no plan has failed and no
  upload was applied twice (`Careful`). `NothingOverwrittenBlindly` uses the first
  half alone, the other two theorems both.
- Of errors. `failed` keeps the cursor, so that whatever a failed plan has left
  behind is polled again; dropping that (an `AdvanceCursor` that ignores
  `failed`) is the first proof step that fails.

The step lemmas first reduce a handler's step to what it did (`Handles`: one
path, no other row, copy or log entry touched) and to what came of it
(`Outcome`), so that each handler is looked at once. `ChangesSeen` and
`RowsMoveForward` have a side condition `SentOnce`: `NoMissedRemoteChange` is
false if the HTTP client resends an upload after a lost reply, because the
sequence number of the first is not in `pushed` and comes back as foreign
(`LostReply.cfg`). With `MaxFaults = 0`, as in run `sync_restart`, it holds
(`NoneMissed`, `PullsForward`). `NothingOverwrittenBlindly` needs neither it nor
`~troubled`.

`SyncServiceProofs`. `TypeCorrect` and `IndicatorIsHonest` of any number of
runs, without assumption. A run is numbered by its Start; `LockHeld` says which
states hold the lock file, `SyncsInLoop` that a callback is in a sync only while
its loop is there or its context is cancelled. The others assume `StartEarly =
FALSE` (`ShutdownOrphan.cfg` shows why): `IdleIsStopped`, `ExitIsGraceful`,
`ChannelsCloseOnce`. Their invariant says that all runs but the current one are
over (`Retired`), that a run is dead when the status is idle (`IdleIsDead`), and
that a goroutine took the channel of its own Start (`OwnChannel`); without
`Retired` none of the three is inductive, because `Stop` and `Wait` look at the
service's fields and not at the run. `LeaseIsHeld` is the refinement of
`FolderLease`, from the same invariant and `HolderHolds` (a run in a state that
needs the lock file has it). A release or a report is a step of `FolderLease`
only because no sync is in flight, which is what the drain in `LoopReturns`
gives; without it that step fails.

`WatchLoopProofs`. `TypeCorrect` carries mutual exclusion with it (`Shape`),
because where `doSync` returns to is typed only if no one else is inside.
`ShutdownCorrect`: `ShutdownSaves`, assuming `BoundClient = TRUE`, for any number
of callbacks. Memory and `state.db` part only if a sync ends after `Close`;
`NoneWalked` says that none is under way then, since `Close` takes the mutex
(`Mutex`), and `Gone` that none can begin: requests fail after a cancellation,
and a loop that ended without one has never had a watcher or a timer (`Early`).

`BootstrapProofs`. Assuming `MovesWhileFetching = FALSE` (`BootstrapMoves.cfg`
shows why), for any paths, trees and bounds: `TypeCorrect`, and
`SnapshotIsAtomic`, the refinement of `AtomicSnapshot` that run `bootstrap`
checks. The invariant (`ReplayInv`, theorem `Inductive`) speaks of the future:
what the replay of the changes since the cursor, still to come, would make of
the map.

- `Mirrored`: after that replay the map has at every path what the server has
  now, or nothing and the path is below a directory yet to be fetched, now
  (`todo`) or from the dirty queue of the replay. When a poll brings nothing and
  nothing is queued, the map is the server's tree.
- `Predicted`: `Mirrored` alone is not kept by a fetch, which adds what the
  server has now to a map on which older changes will be replayed. So, as long
  as there is something to fetch, of every path: whatever the map, the replay
  leaves the path alone, or makes it what the server has, or takes it out and
  the path is below something in the dirty queue. A move breaks this (what it
  brings depends on the map under another name), which is where the assumption
  is used, and where the counterexample is.

The change log grows by one entry, and a replay by one application at its end:
`ScopeTheorems` derives that from the library's definition of `FoldLeft`, for
which it proves induction over the natural numbers as a statement about sets,
from the minimum of a well-founded order. `FileAt` and `DirAt` then say of each
kind of change what it does at one path to any map, and to the tree. The lemmas
before them are the algebra of paths (`Rebased`, `Below`) and of maps.

`DirCycleProofs`. `TypeCorrect`, without assumption beyond the named ones:
`TypeOK` with what the handlers take for granted. The main part is that the disk
stays a tree: removing a folder, renaming it, writing below it each keep every
directory above a file. `Planned`, `EachPlan` and `PlanByAct` follow the plans
through `CompareIncremental`, the merging of lists and the passes, and say of
each kind what can come out. The plan lists are recursive functions and folds;
they are opened once, by lemmas of `ScopeTheorems` (`LaidOver` takes each entry
from one of its layers, `Where` keeps elements and their order).

`EditsKeptInDirs` (`KeepsEditsUnlessFlawed`) and `OnlyWhatIsGone`
(`DeletesOnlyWhatIsGone`) assume `Clear`: the disk folds case, or no two names
of the model differ in case only. Run `both_cases` shows what happens to the
second otherwise, `BothCasesEdited.cfg` what happens to the first: a file left
out of the walk passes for deleted. Both hold for any number of changes in a
poll, of edits and of mishaps.

- `Effect` says of each handler what it can do to the disk and the copies: write
  what the server has, keep what was there in a copy, remove a file, or move
  files. It is proved handler by handler, and both theorems use only it.
- `SafeInv`: a content is `Known` if others wrote it or the log has it; neither
  is lost with the disk. While the events of a poll are handled the walk mirrors
  the disk, until one of them has changed something; then `Compare` walks again.
  While plans execute, what a plan will remove or replace by a rename is
  `Known`, unless `replanned`: the archive's hash equals the walk's, and what
  the archive has is in the log. Every edit is on disk, in a copy, or `Known`.
- `GoneInv`: the path of a remote delete, the source of a remote move and every
  file below a folder delete are not on the disk. What keeps it is the order of
  the plans: a file is never written after the plan of a folder above it
  (`GoesDown`), and each path has one plan.

Out of the prover's reach, and only model-checked: everything temporal under
fairness (`Converges`, `Ends` and the liveness of watch loop and service). Only
model-checked so far: `OthersKeptUnlessFlawed`, `MirrorsServerUnlessFlawed` and
`SettlesUnlessFlawed` of `DirCycle`. They relate a row of the archive to what the
log says of its path up to the cursor, through moves of the folders above it,
failed plans and crashes: an invariant about replaying the log as `Predicted` is
for `Bootstrap`, of rows, disk and `state.db` at once.

## 10. Not modelled

Dry runs. Directories on a case-insensitive file system
(`skipRmdirOnFoldCollision`), `NormalizeRemoteMap`, the reporting of collisions
and its debounce, the probe of the file system. A crash or a failing system call
inside the renames of one moved folder. More than twelve plans, where `sort.Slice`
may reorder two plans for one path. Conflict copies that overwrite each other
within one second (copies are a set). `exclude.go`, `safe_join.go`: functions of
one path; the rest of `walk.go`: one read of the disk. Authentication, logging,
configuration, autostart, command line, GUI shell: input/output and
operating-system glue. Encoding of requests and responses. Of directory events:
a delete, move or restore of the scope's root (`dir_events.go:153-175` answers the
last with a new bootstrap), and the errors of local calls (`MkdirAll`, `Rename`,
the stat and walk of a folder), after which the cycle is given up as after a
failed fetch (`SubtreeFails`).
