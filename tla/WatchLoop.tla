------------------------------ MODULE WatchLoop ------------------------------
(***************************************************************************)
(* internal/sync/watcher.go: the loop that keeps a directory in step.  The *)
(* main goroutine selects between cancellation, file events and a ticker;  *)
(* debounce timers run syncs in goroutines of their own; a filter          *)
(* goroutine turns file events into a signal; a mutex serialises syncs.    *)
(*                                                                         *)
(* The sync itself (module SyncCycle) is reduced to what the loop can see: *)
(* it walks and polls, then uploads the local edit it saw, moves the       *)
(* cursor to where it polled, writes files and state.db, and saves.  The   *)
(* server is the length of its change log.                                 *)
(***************************************************************************)
EXTENDS Naturals, FiniteSets

CONSTANTS
  Callbacks,    \* bound: timer callbacks alive at the same time
  MaxRemote,    \* bound: changes by other clients
  MaxEdits,     \* bound: edits once the watcher is set up
  MaxFaults,    \* bound: syncs, polls and watcher set-ups that fail
  BoundClient,  \* is the client bound to the context (GUI) or not (CLI)?
  EarlyEdits    \* does the user edit before the watcher is set up?

ASSUME BoundsAssumption == {MaxRemote, MaxEdits, MaxFaults} \subseteq Nat
ASSUME FlagsAssumption == {BoundClient, EarlyEdits} \subseteq BOOLEAN
ASSUME CallbacksAssumption == Callbacks \cap {"main", "nobody"} = {}

Goroutines == {"main"} \cup Callbacks
Nobody == "nobody"
MaxLog == MaxRemote + MaxEdits + 1   \* no longer than the bounds allow

VARIABLES
  loop,       \* where the main goroutine is
  at,         \* goroutine -> where it is in doSync
  holder,     \* who holds syncMu
  timer,      \* is the debounce timer armed?
  signal,     \* is the channel localChanged, of capacity one, full?
  events,     \* events of fsnotify not read yet: of "file"s, of "state" (.s2)
  watching,   \* are the directories registered?
  cancelled,  \* ctx
  closed,     \* state.Close has been called
  server,     \* length of the server's log
  own,        \* sequence numbers of our own pushes (State.pushedSeqs)
  cursor,     \* State.Cursor
  saved,      \* cursor and own in state.db
  edited,     \* does the disk hold an edit that no sync has uploaded?
  seen,       \* what the sync in flight has walked and polled
  asked,      \* the cursor PollFn sends; 0 outside of it
  failed,     \* has a sync failed? (bookkeeping)
  used        \* how often each bounded event has happened

ctx == <<cancelled, closed>>
input == <<timer, signal, events, watching>>
store == <<server, own, cursor, saved>>
work == <<edited, seen, failed>>
vars == <<loop, at, holder, input, ctx, store, work, asked, used>>

TypeOK ==
  /\ loop \in {"initial", "setup", "select", "polling", "calling", "syncing",
               "closing", "returned"}
  /\ at \in [Goroutines -> {"none", "fired", "waiting", "locked", "walked"}]
  /\ holder \in Goroutines \cup {Nobody}
  /\ timer \in BOOLEAN /\ signal \in BOOLEAN /\ watching \in BOOLEAN
  /\ cancelled \in BOOLEAN /\ closed \in BOOLEAN
  /\ edited \in BOOLEAN /\ failed \in BOOLEAN
  /\ events \subseteq {"file", "state"}
  /\ server \in Nat /\ cursor \in 0..server /\ asked \in 0..server
  /\ own \subseteq 1..server
  /\ saved \in [cursor : 0..server, own : SUBSET (1..server)]
  /\ seen \in [edit : BOOLEAN, upto : 0..server]
  /\ used \in [remote : 0..MaxRemote, edits : 0..MaxEdits, faults : 0..MaxFaults]

(* What seen is while no sync is past its walk.                            *)
NothingSeen == [edit |-> FALSE, upto |-> 0]

Init ==
  /\ loop = "initial" /\ at = [g \in Goroutines |-> IF g = "main" THEN "waiting"
                                                                  ELSE "none"]
  /\ holder = Nobody
  /\ timer = FALSE /\ signal = FALSE /\ events = {} /\ watching = FALSE
  /\ cancelled = FALSE /\ closed = FALSE
  /\ server = 0 /\ own = {} /\ cursor = 0 /\ saved = [cursor |-> 0, own |-> {}]
  /\ edited \in BOOLEAN /\ seen = NothingSeen
  /\ asked = 0 /\ failed = FALSE
  /\ used = [remote |-> 0, edits |-> 0, faults |-> 0]

Goes(g, where) == at' = [at EXCEPT ![g] = where]
Use(what, bound) == used[what] < bound /\ used' = [used EXCEPT ![what] = @ + 1]
Happen(es) == events' = IF watching THEN events \cup es ELSE events

-----------------------------------------------------------------------------
(* Outside: the user, the other clients, the signal handler or Stop. *)

Edit ==
  /\ EarlyEdits \/ watching
  /\ Use("edits", MaxEdits)
  /\ edited' = TRUE
  /\ Happen({"file"})
  /\ UNCHANGED <<loop, at, holder, timer, signal, watching, ctx, store, seen,
                 failed, asked>>

RemoteChange ==
  /\ Use("remote", MaxRemote)
  /\ server' = server + 1
  /\ UNCHANGED <<loop, at, holder, input, ctx, own, cursor, saved, work, asked>>

Cancel ==
  /\ ~cancelled
  /\ cancelled' = TRUE
  /\ UNCHANGED <<loop, at, holder, input, closed, store, work, asked, used>>

-----------------------------------------------------------------------------
(* doSync, by any goroutine *)

Lock(g) ==
  /\ at[g] = "waiting" /\ holder = Nobody
  /\ holder' = g
  /\ Goes(g, "locked")
  /\ UNCHANGED <<loop, input, ctx, store, work, asked, used>>

(* Mutant: requests do not notice the cancellation.                        *)
Aborted_Never == FALSE

(* Every request of a bound client fails once the context is cancelled.    *)
Aborted == BoundClient /\ cancelled

Walk(g) ==
  /\ at[g] = "locked" /\ ~Aborted
  /\ seen' = [edit |-> edited, upto |-> server]
  /\ edited' = FALSE
  /\ Goes(g, "walked")
  /\ UNCHANGED <<loop, holder, input, ctx, store, failed, asked, used>>

(* Mutant: a failed sync keeps the mutex.                                  *)
Release_Never(ok) == UNCHANGED holder

(* The deferred unlock.                                                    *)
Release(ok) == holder' = Nobody

(* doSync returns.  A failed initial sync closes the state and ends the    *)
(* loop.                                                                   *)
Return(g, ok) ==
  /\ Release(ok)
  /\ Goes(g, "none")
  /\ loop' = CASE g # "main" -> loop
               [] g = "main" /\ loop = "syncing" -> "select"
               [] g = "main" /\ loop = "initial" -> IF ok THEN "setup" ELSE "returned"
  /\ closed' = (closed \/ loop' = "returned")
  /\ seen' = NothingSeen

SyncFails(g) ==
  /\ \/ at[g] = "locked" /\ Aborted /\ UNCHANGED <<edited, used>>
     \/ /\ at[g] = "walked"
        /\ IF Aborted THEN UNCHANGED used ELSE Use("faults", MaxFaults)
        /\ edited' = (edited \/ seen.edit)
  /\ failed' = TRUE
  /\ Return(g, FALSE)
  /\ UNCHANGED <<input, cancelled, store, asked>>

(* Mutant: the push is recorded under the sequence number after its own.   *)
Pushed_Next == IF seen.edit THEN {server + 2} ELSE {}

Pushed == IF seen.edit THEN {server + 1} ELSE {}
Pulled == cursor + 1..seen.upto \ own

(* The cycle has run to its end; Save fails only after Close.              *)
SyncEnds(g) ==
  /\ at[g] = "walked"
  /\ server' = server + Cardinality(Pushed)
  /\ own' = own \cup Pushed
  /\ cursor' = seen.upto
  /\ saved' = IF closed THEN saved ELSE [cursor |-> cursor', own |-> own']
  /\ Happen({"state"} \cup IF Pulled # {} THEN {"file"} ELSE {})
  /\ failed' = (failed \/ closed)
  /\ Return(g, ~closed)
  /\ UNCHANGED <<timer, signal, watching, cancelled, edited, asked, used>>

-----------------------------------------------------------------------------
(* The filter goroutine and the debounce timer *)

(* Mutant: events below .s2 count as well.                                 *)
Relevant_All(e) == TRUE

Relevant(e) == e = "file"

filterFsEvents(e) ==
  /\ ~cancelled /\ e \in events
  /\ events' = events \ {e}
  /\ signal' = (signal \/ Relevant(e))
  /\ UNCHANGED <<loop, at, holder, timer, watching, ctx, store, work, asked, used>>

TimerFires(g) ==
  /\ timer /\ at[g] = "none" /\ g \in Callbacks
  /\ timer' = FALSE
  /\ Goes(g, "fired")
  /\ UNCHANGED <<loop, holder, signal, events, watching, ctx, store, work, asked,
                 used>>

(* if ctx.Err() != nil, before the mutex.                                  *)
CallbackChecks(g) ==
  /\ at[g] = "fired"
  /\ Goes(g, IF cancelled THEN "none" ELSE "waiting")
  /\ UNCHANGED <<loop, holder, input, ctx, store, work, asked, used>>

-----------------------------------------------------------------------------
(* The main goroutine *)

(* The watcher is made and every directory registered; or that fails.      *)
Setup ==
  /\ loop = "setup"
  /\ \/ loop' = "select" /\ watching' = TRUE /\ UNCHANGED <<closed, used>>
     \/ /\ loop' = "returned" /\ closed' = TRUE
        /\ Use("faults", MaxFaults) /\ UNCHANGED watching
  /\ UNCHANGED <<at, holder, timer, signal, events, cancelled, store, work, asked>>

(* case <-ctx.Done()                                                       *)
SelectDone ==
  /\ loop = "select" /\ cancelled
  /\ timer' = FALSE
  /\ loop' = "closing"
  /\ UNCHANGED <<at, holder, signal, events, watching, ctx, store, work, asked,
                 used>>

(* case <-cfg.LocalEvents: the timer is stopped and armed again.           *)
SelectLocal ==
  /\ loop = "select" /\ signal
  /\ signal' = FALSE /\ timer' = TRUE
  /\ UNCHANGED <<loop, at, holder, events, watching, ctx, store, work, asked, used>>

(* case <-ticker.C: PollFn reads the cursor, without syncMu.               *)
SelectTick ==
  /\ loop = "select"
  /\ loop' = "polling"
  /\ asked' = cursor
  /\ UNCHANGED <<at, holder, input, ctx, store, work, used>>

(* Mutant: our own changes do not count.                                   *)
Changes_Foreign == asked + 1..server \ own

(* What the poll returns: PollFn reports changes even if all are our own.  *)
Changes == asked + 1..server

(* Mutant: the timer is stopped before the result is looked at.            *)
Polled_StopsTimer ==
  /\ loop = "polling"
  /\ loop' = IF Changes = {} THEN "select" ELSE "calling"
  /\ timer' = FALSE
  /\ asked' = 0
  /\ UNCHANGED <<at, holder, signal, events, watching, ctx, store, work, used>>

Polled ==
  /\ loop = "polling"
  /\ IF Changes = {} THEN loop' = "select" /\ UNCHANGED timer
                     ELSE loop' = "calling" /\ timer' = FALSE
  /\ asked' = 0
  /\ UNCHANGED <<at, holder, signal, events, watching, ctx, store, work, used>>

PollFails ==
  /\ loop = "polling"
  /\ IF Aborted THEN UNCHANGED used ELSE Use("faults", MaxFaults)
  /\ loop' = "select"
  /\ asked' = 0
  /\ UNCHANGED <<at, holder, input, ctx, store, work>>

(* cfg.SyncFn() in the loop itself, with the same check of the context.    *)
CallSync ==
  /\ loop = "calling"
  /\ IF cancelled THEN loop' = "select" /\ UNCHANGED at
                  ELSE loop' = "syncing" /\ Goes("main", "waiting")
  /\ UNCHANGED <<holder, input, ctx, store, work, asked, used>>

(* Mutant: state.Close without syncMu.                                     *)
LoopCloses_NoLock ==
  /\ loop = "closing"
  /\ closed' = TRUE
  /\ loop' = "returned"
  /\ UNCHANGED <<at, holder, input, cancelled, store, work, asked, used>>

(* state.Close under syncMu, which waits for a sync in flight.             *)
LoopCloses ==
  /\ loop = "closing" /\ holder = Nobody
  /\ closed' = TRUE
  /\ loop' = "returned"
  /\ UNCHANGED <<at, holder, input, cancelled, store, work, asked, used>>

-----------------------------------------------------------------------------
InSync(g) == Walk(g) \/ SyncFails(g) \/ SyncEnds(g)
Poll == Polled \/ PollFails
Main == Setup \/ Poll \/ CallSync

Next ==
  \/ Edit \/ RemoteChange \/ Cancel
  \/ \E g \in Goroutines : Lock(g) \/ InSync(g) \/ TimerFires(g) \/ CallbackChecks(g)
  \/ \E e \in events : filterFsEvents(e)
  \/ Main \/ SelectDone \/ SelectLocal \/ SelectTick \/ LoopCloses

(* Goroutines run on; a Go mutex does not starve a waiter, and a select    *)
(* does not pass over a case for ever.                                     *)
Spec ==
  /\ Init /\ [][Next]_vars
  /\ WF_vars(Main) /\ WF_vars(\E g \in Goroutines : TimerFires(g))
  /\ WF_vars(\E e \in events : filterFsEvents(e))
  /\ SF_vars(SelectDone) /\ SF_vars(SelectLocal) /\ WF_vars(SelectTick)
  /\ SF_vars(LoopCloses)
  /\ \A g \in Goroutines : /\ SF_vars(Lock(g)) /\ WF_vars(InSync(g))
                           /\ WF_vars(CallbackChecks(g))

-----------------------------------------------------------------------------
(* Properties *)

(* watcher.go: "Hold syncMu across Close so any AfterFunc callback that    *)
(* already fired waits for us": whatever a sync has pushed or taken over   *)
(* is in state.db when the loop is gone, however late its timer fired.     *)
ShutdownSaves == closed => saved = [cursor |-> cursor, own |-> own]

(* docs/overview.md: "fsnotify events on local files -> 2s debounce ->     *)
(* sync": an edit is uploaded, whatever polls and timers do at the same    *)
(* time, unless the loop ends or a sync fails.                             *)
EditAnswered == edited ~> (~edited \/ cancelled \/ failed)

(* docs/overview.md: "Remote poll every --poll-interval -> sync if anything*)
(* changed": every change is taken over, failed syncs notwithstanding.     *)
RemoteAnswered ==
  \A n \in 1..MaxLog : server >= n ~> (cursor >= n \/ cancelled \/ closed)

(* The loop does not feed itself: its own downloads, pushes and writes to  *)
(* .s2 do not keep it syncing.                                             *)
Settles == <>[](\A g \in Goroutines : at[g] \in {"none", "fired"})

(* docs/overview.md: "ctx cancellation gives a graceful shutdown".         *)
ShutdownEnds == cancelled ~> loop = "returned"
=============================================================================
